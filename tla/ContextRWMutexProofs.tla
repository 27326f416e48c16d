------------------------- MODULE ContextRWMutexProofs --------------------------
(* The lock of the in-memory repositories excludes and loses no wake-up, for     *)
(* every finite set of clients.                                                  *)
EXTENDS ContextRWMutex, FiniteSetTheorems, TLAPS

\* A client that writes has set the flag.
FlagIsSet == Who("writing") # {} => writer

\* The counters make the flags mean what the clients do: without them, readers = 0
\* says nothing about who reads.
MutexInv == MutexTypeOK /\ Exclusion /\ NoLostWakeup /\ FlagIsSet

\* A client that moves leaves one set of clients and joins another.
LEMMA Moves ==
  ASSUME MutexTypeOK, NEW c \in Clients, NEW p \in Places, Go(c, p)
  PROVE  /\ at' \in [Clients -> Places]
         /\ \A d \in Clients \ {c} : at'[d] = at[d]
         /\ at'[c] = p
         /\ Who(p)' = Who(p) \union {c}
         /\ \A q \in Places \ {p} : Who(q)' = Who(q) \ {c}
  BY DEF MutexTypeOK, Go, Who

\* Clients at a place are finitely many.
LEMMA Counted ==
  ASSUME NEW p
  PROVE  IsFiniteSet(Who(p)) /\ Cardinality(Who(p)) \in Nat
  <1>1. Who(p) \subseteq Clients  BY DEF Who
  <1>2. IsFiniteSet(Who(p))  BY <1>1, ClientsFinite, FS_Subset
  <1> QED  BY <1>2, FS_CardinalityType

\* One joins, one leaves.
LEMMA CountMoves ==
  ASSUME NEW S, IsFiniteSet(S), NEW c
  PROVE  /\ c \notin S => Cardinality(S \union {c}) = Cardinality(S) + 1
         /\ c \in S => Cardinality(S \ {c}) = Cardinality(S) - 1
         /\ c \notin S => S \ {c} = S
  <1>1. c \notin S => Cardinality(S \union {c}) = Cardinality(S) + 1  BY FS_AddElement
  <1>2. c \in S => Cardinality(S \ {c}) = Cardinality(S) - 1  BY FS_RemoveElement
  <1> QED  BY <1>1, <1>2

\* The count of readers is right at 0, the value lock asks for.
LEMMA NobodyReads ==
  ASSUME MutexTypeOK, readers = 0
  PROVE  Who("reading") = {}
  BY Counted, FS_EmptySet DEF MutexTypeOK

-----------------------------------------------------------------------------

\* The four parts hold in a free lock.
LEMMA MutexStarts == MutexInit => MutexInv
<1> SUFFICES ASSUME MutexInit PROVE MutexInv  OBVIOUS
<1>1. \A p \in Places \ {"out"} : Who(p) = {}  BY DEF MutexInit, Who
<1>2. Cardinality({}) = 0  BY FS_EmptySet
<1>3. MutexTypeOK  BY <1>1, <1>2 DEF MutexInit, MutexTypeOK, Places
<1>4. Exclusion /\ FlagIsSet  BY <1>1 DEF Exclusion, FlagIsSet, Places
<1>5. NoLostWakeup  BY DEF MutexInit, NoLostWakeup
<1> QED  BY <1>3, <1>4, <1>5 DEF MutexInv

\* Every critical section of the lock keeps them.
LEMMA MutexKeeps == MutexInv /\ [MutexNext]_mutexVars => MutexInv'
<1> SUFFICES ASSUME MutexInv, [MutexNext]_mutexVars PROVE MutexInv'  OBVIOUS
<1> USE DEF MutexInv
<1>0. CASE UNCHANGED mutexVars
  BY <1>0 DEF mutexVars, MutexTypeOK, Exclusion, NoLostWakeup, FlagIsSet, Who, WriterCanEnter, ReaderCanEnter
<1> SUFFICES ASSUME NEW c \in Clients,
                    \/ LockEnter(c) \/ LockRefused(c) \/ LockAgain(c) \/ LockCanceled(c) \/ Unlock(c)
                    \/ RLock(c) \/ RLockCanceled(c) \/ RUnlock(c)
             PROVE  MutexInv'
  BY <1>0 DEF MutexNext
<1> DEFINE W  == Who("writing")
           R  == Who("reading")
           WW == Who("writeWait")
           RW == Who("readWait")
<1>a. /\ readers \in Nat /\ waitingWriters \in Nat
      /\ readers = 0 => R = {}
      /\ readers = 1 /\ c \in R => R \ {c} = {}
  <2>1. IsFiniteSet(R) /\ IsFiniteSet(WW) /\ readers \in Nat /\ waitingWriters \in Nat
    BY Counted DEF MutexTypeOK
  <2>2. readers = 0 => R = {}  BY NobodyReads DEF MutexTypeOK
  <2>3. readers = 1 /\ c \in R => Cardinality(R \ {c}) = 0
    BY <2>1, CountMoves DEF MutexTypeOK
  <2>4. IsFiniteSet(R \ {c})  BY <2>1, FS_RemoveElement
  <2>5. Cardinality(R \ {c}) = 0 => R \ {c} = {}  BY <2>4, FS_EmptySet
  <2> QED  BY <2>1, <2>2, <2>3, <2>5
<1>b. \A S \in {R, WW} :
        /\ c \notin S => Cardinality(S \union {c}) = Cardinality(S) + 1 /\ S \ {c} = S
        /\ c \in S => Cardinality(S \ {c}) = Cardinality(S) - 1
  BY Counted, CountMoves
<1>c. /\ c \in R <=> at[c] = "reading"
      /\ c \in WW <=> at[c] = "writeWait"
      /\ c \in W <=> at[c] = "writing"
      /\ c \in RW <=> at[c] = "readWait"
  BY DEF Who
<1>d. \A p \in Places :
        Go(c, p) =>
          /\ at' \in [Clients -> Places]
          /\ \A d \in Clients \ {c} : at'[d] = at[d]
          /\ at'[c] = p
          /\ Who(p)' = Who(p) \union {c}
          /\ \A q \in Places \ {p} : Who(q)' = Who(q) \ {c}
  BY Moves
<1>e. asleep \subseteq Clients /\ \A d \in asleep : at[d] \in {"writeWait", "readWait"}
  BY DEF MutexTypeOK, Who
<1>1. CASE LockEnter(c)
  <2>1. CASE WriterCanEnter
    <3>1. at[c] = "out" /\ Go(c, "writing") /\ writer' = TRUE /\ UNCHANGED <<readers, waitingWriters, asleep>>
      BY <1>1, <2>1 DEF LockEnter
    <3>2. Who("writing")' = W \union {c} /\ Who("reading")' = R /\ Who("writeWait")' = WW /\ Who("readWait")' = RW
      BY <3>1 DEF MutexTypeOK, Go, Who, Places
    <3>3. MutexTypeOK'
      BY <3>1, <3>2, <1>a, <1>b, <1>c, <1>d, <1>e DEF MutexTypeOK, Places
    <3>4. Exclusion' /\ FlagIsSet'
      BY <3>1, <3>2, <1>a, <1>c, <2>1 DEF Exclusion, FlagIsSet, WriterCanEnter, ReaderCanEnter
    <3>5. NoLostWakeup'
      BY <3>1, <1>a, <1>d, <1>e, <2>1 DEF NoLostWakeup, WriterCanEnter, ReaderCanEnter, Places
    <3> QED  BY <3>3, <3>4, <3>5
  <2>2. CASE ~ WriterCanEnter
    <3>1. /\ at[c] = "out" /\ Go(c, "writeWait") /\ UNCHANGED <<readers, writer>>
          /\ waitingWriters' = waitingWriters + 1 /\ asleep' = asleep \union {c}
      BY <1>1, <2>2 DEF LockEnter
    <3>2. Who("writing")' = W /\ Who("reading")' = R /\ Who("writeWait")' = WW \union {c} /\ Who("readWait")' = RW
      BY <3>1 DEF MutexTypeOK, Go, Who, Places
    <3>3. MutexTypeOK'
      <4>1. at' \in [Clients -> Places] /\ writer' \in BOOLEAN  BY <3>1, <1>d DEF MutexTypeOK, Places
      <4>2. asleep' \subseteq Who("writeWait")' \union Who("readWait")'  BY <3>1, <3>2 DEF MutexTypeOK
      <4>3. readers' = Cardinality(Who("reading")')  BY <3>1, <3>2 DEF MutexTypeOK
      <4>4. waitingWriters' = Cardinality(Who("writeWait")')  BY <3>1, <3>2, <1>b, <1>c DEF MutexTypeOK
      <4> QED  BY <4>1, <4>2, <4>3, <4>4 DEF MutexTypeOK
    <3>4. Exclusion' /\ FlagIsSet'
      BY <3>1, <3>2, <1>a, <1>c, <2>2 DEF Exclusion, FlagIsSet, WriterCanEnter, ReaderCanEnter
    <3>5. NoLostWakeup'
      BY <3>1, <1>a, <1>d, <1>e, <2>2 DEF NoLostWakeup, WriterCanEnter, ReaderCanEnter, Places
    <3> QED  BY <3>3, <3>4, <3>5
  <2> QED  BY <2>1, <2>2
<1>2. CASE LockRefused(c)
  BY <1>2 DEF LockRefused, wakeLocked, MutexTypeOK, Exclusion, NoLostWakeup, FlagIsSet, Who
<1>3. CASE LockAgain(c)
  <2>1. CASE WriterCanEnter
    <3>1. /\ at[c] = "writeWait" /\ c \notin asleep /\ Go(c, "writing") /\ writer' = TRUE
          /\ waitingWriters' = waitingWriters - 1 /\ UNCHANGED <<readers, asleep>>
      BY <1>3, <2>1 DEF LockAgain
    <3>2. Who("writing")' = W \union {c} /\ Who("reading")' = R /\ Who("writeWait")' = WW \ {c} /\ Who("readWait")' = RW
      BY <3>1 DEF MutexTypeOK, Go, Who, Places
    <3>3. MutexTypeOK'
      BY <3>1, <3>2, <1>a, <1>b, <1>c, <1>d, <1>e DEF MutexTypeOK, Places
    <3>4. Exclusion' /\ FlagIsSet'
      BY <3>1, <3>2, <1>a, <1>c, <2>1 DEF Exclusion, FlagIsSet, WriterCanEnter, ReaderCanEnter
    <3>5. NoLostWakeup'
      BY <3>1, <1>a, <1>d, <1>e, <2>1 DEF NoLostWakeup, WriterCanEnter, ReaderCanEnter, Places
    <3> QED  BY <3>3, <3>4, <3>5
  <2>2. CASE ~ WriterCanEnter
    <3>1. /\ at[c] = "writeWait" /\ asleep' = asleep \union {c}
          /\ UNCHANGED <<readers, writer, waitingWriters, at>>
      BY <1>3, <2>2 DEF LockAgain
    <3>2. MutexTypeOK'  BY <3>1, <1>c DEF MutexTypeOK, Who
    <3>3. Exclusion' /\ FlagIsSet'  BY <3>1 DEF Exclusion, FlagIsSet, Who
    <3>4. NoLostWakeup'  BY <3>1, <2>2 DEF NoLostWakeup, WriterCanEnter, ReaderCanEnter
    <3> QED  BY <3>2, <3>3, <3>4
  <2> QED  BY <2>1, <2>2
<1>4. CASE LockCanceled(c)
  <2>1. /\ at[c] = "writeWait" /\ Go(c, "out") /\ waitingWriters' = waitingWriters - 1
        /\ asleep' = {} /\ UNCHANGED <<readers, writer>>
    BY <1>4 DEF LockCanceled, wakeLocked
  <2>2. Who("writing")' = W /\ Who("reading")' = R /\ Who("writeWait")' = WW \ {c} /\ Who("readWait")' = RW
    BY <2>1 DEF MutexTypeOK, Go, Who, Places
  <2>3. MutexTypeOK'
    BY <2>1, <2>2, <1>a, <1>b, <1>c, <1>d, <1>e DEF MutexTypeOK, Places
  <2>4. Exclusion' /\ FlagIsSet'
    BY <2>1, <2>2, <1>a, <1>c DEF Exclusion, FlagIsSet
  <2>5. NoLostWakeup'
    BY <2>1, <1>a, <1>d, <1>e DEF NoLostWakeup, WriterCanEnter, ReaderCanEnter, Places
  <2> QED  BY <2>3, <2>4, <2>5
<1>5. CASE Unlock(c)
  <2>1. /\ at[c] = "writing" /\ Go(c, "out") /\ writer' = FALSE
        /\ asleep' = {} /\ UNCHANGED <<readers, waitingWriters>>
    BY <1>5 DEF Unlock, wakeLocked
  <2>2. Who("writing")' = W \ {c} /\ Who("reading")' = R /\ Who("writeWait")' = WW /\ Who("readWait")' = RW
    BY <2>1 DEF MutexTypeOK, Go, Who, Places
  <2>3. MutexTypeOK'
    BY <2>1, <2>2, <1>a, <1>b, <1>c, <1>d, <1>e DEF MutexTypeOK, Places
  <2>4. Exclusion' /\ FlagIsSet'
    BY <2>1, <2>2, <1>a, <1>c DEF Exclusion, FlagIsSet
  <2>5. NoLostWakeup'
    BY <2>1, <1>a, <1>d, <1>e DEF NoLostWakeup, WriterCanEnter, ReaderCanEnter, Places
  <2> QED  BY <2>3, <2>4, <2>5
<1>6. CASE RLock(c)
  <2>1. CASE ReaderCanEnter
    <3>1. /\ at[c] = "out" \/ (at[c] = "readWait" /\ c \notin asleep)
          /\ Go(c, "reading") /\ readers' = readers + 1 /\ UNCHANGED <<writer, waitingWriters, asleep>>
      BY <1>6, <2>1 DEF RLock
    <3>2. Who("writing")' = W /\ Who("reading")' = R \union {c} /\ Who("writeWait")' = WW /\ Who("readWait")' = RW \ {c}
      BY <3>1 DEF MutexTypeOK, Go, Who, Places
    <3>3. MutexTypeOK'
      BY <3>1, <3>2, <1>a, <1>b, <1>c, <1>d, <1>e DEF MutexTypeOK, Places
    <3>4. Exclusion' /\ FlagIsSet'
      BY <3>1, <3>2, <1>a, <1>c, <2>1 DEF Exclusion, FlagIsSet, WriterCanEnter, ReaderCanEnter
    <3>5. NoLostWakeup'
      BY <3>1, <1>a, <1>d, <1>e, <2>1 DEF NoLostWakeup, WriterCanEnter, ReaderCanEnter, Places
    <3> QED  BY <3>3, <3>4, <3>5
  <2>2. CASE ~ ReaderCanEnter
    <3>1. /\ at[c] = "out" \/ at[c] = "readWait"
          /\ Go(c, "readWait") /\ asleep' = asleep \union {c} /\ UNCHANGED <<readers, writer, waitingWriters>>
      BY <1>6, <2>2 DEF RLock
    <3>2. Who("writing")' = W /\ Who("reading")' = R /\ Who("writeWait")' = WW /\ Who("readWait")' = RW \union {c}
      BY <3>1 DEF MutexTypeOK, Go, Who, Places
    <3>3. MutexTypeOK'
      BY <3>1, <3>2, <1>a, <1>b, <1>c, <1>d, <1>e DEF MutexTypeOK, Places
    <3>4. Exclusion' /\ FlagIsSet'
      BY <3>1, <3>2, <1>a, <1>c, <2>2 DEF Exclusion, FlagIsSet, WriterCanEnter, ReaderCanEnter
    <3>5. NoLostWakeup'
      BY <3>1, <1>a, <1>d, <1>e, <2>2 DEF NoLostWakeup, WriterCanEnter, ReaderCanEnter, Places
    <3> QED  BY <3>3, <3>4, <3>5
  <2> QED  BY <2>1, <2>2
<1>7. CASE RLockCanceled(c)
  <2>1. /\ at[c] = "readWait" /\ Go(c, "out") /\ asleep' = asleep \ {c}
        /\ UNCHANGED <<readers, writer, waitingWriters>>
    BY <1>7 DEF RLockCanceled
  <2>2. Who("writing")' = W /\ Who("reading")' = R /\ Who("writeWait")' = WW /\ Who("readWait")' = RW \ {c}
    BY <2>1 DEF MutexTypeOK, Go, Who, Places
  <2>3. MutexTypeOK'
    BY <2>1, <2>2, <1>a, <1>b, <1>c, <1>d, <1>e DEF MutexTypeOK, Places
  <2>4. Exclusion' /\ FlagIsSet'
    BY <2>1, <2>2, <1>a, <1>c DEF Exclusion, FlagIsSet
  <2>5. NoLostWakeup'
    BY <2>1, <1>a, <1>d, <1>e DEF NoLostWakeup, WriterCanEnter, ReaderCanEnter, Places
  <2> QED  BY <2>3, <2>4, <2>5
<1>8. CASE RUnlock(c)
  <2>1. /\ at[c] = "reading" /\ Go(c, "out") /\ readers' = readers - 1
        /\ asleep' = (IF readers = 1 THEN {} ELSE asleep) /\ UNCHANGED <<writer, waitingWriters>>
    BY <1>8 DEF RUnlock
  <2>2. Who("writing")' = W /\ Who("reading")' = R \ {c} /\ Who("writeWait")' = WW /\ Who("readWait")' = RW
    BY <2>1 DEF MutexTypeOK, Go, Who, Places
  <2>3. MutexTypeOK'
    BY <2>1, <2>2, <1>a, <1>b, <1>c, <1>d, <1>e DEF MutexTypeOK, Places
  <2>4. Exclusion' /\ FlagIsSet'
    BY <2>1, <2>2, <1>a, <1>c DEF Exclusion, FlagIsSet
  <2>5. NoLostWakeup'
    BY <2>1, <1>a, <1>d, <1>e DEF NoLostWakeup, WriterCanEnter, ReaderCanEnter, Places
  <2> QED  BY <2>3, <2>4, <2>5
<1> QED  BY <1>1, <1>2, <1>3, <1>4, <1>5, <1>6, <1>7, <1>8

\* For every finite set of goroutines, cancelled at any point: a writer is alone,
\* the counters count, and nobody sleeps through its chance to enter.
THEOREM MutexHolds == MutexSpec => []LockIsSound
<1>1. MutexInv => LockIsSound  BY DEF MutexInv, LockIsSound
<1> QED  BY MutexStarts, MutexKeeps, <1>1, PTL DEF MutexSpec

=============================================================================
