----------------------------- MODULE ContextRWMutex ----------------------------
(* contextRWMutex (tenant, agent, model, backend and channels/inmemory,          *)
(* rwmutex.go): the lock of the in-memory repositories, whose waiters can be     *)
(* cancelled.  Every action is one critical section of its inner mutex.          *)
EXTENDS Integers, FiniteSets

CONSTANT Clients    \* the goroutines that use one lock

ASSUME ClientsFinite == IsFiniteSet(Clients)

VARIABLES readers,          \* readers that hold the lock
          writer,           \* a writer holds it
          waitingWriters,   \* writers between lock's entry and its end
          at,               \* what each client does
          asleep            \* waiters whose notify channel is still open

mutexVars == <<readers, writer, waitingWriters, at, asleep>>

Places == {"out", "writeWait", "writing", "readWait", "reading"}

Go(c, place) == at' = [at EXCEPT ![c] = place]

\* wakeLocked closes the channel every waiter holds; later ones get a new one.
wakeLocked == asleep' = {}

WriterCanEnter == ~ writer /\ readers = 0

\* Writers that wait go first.
ReaderCanEnter == ~ writer /\ waitingWriters = 0

-----------------------------------------------------------------------------

\* lock from its entry to its return or its first wait.
LockEnter(c) ==
  /\ at[c] = "out"
  /\ IF WriterCanEnter
     THEN writer' = TRUE /\ Go(c, "writing") /\ UNCHANGED <<waitingWriters, asleep>>
     ELSE /\ waitingWriters' = waitingWriters + 1
          /\ Go(c, "writeWait")
          /\ asleep' = asleep \union {c}
          /\ UNCHANGED writer
  /\ UNCHANGED readers

\* The context was done before lock began.
LockRefused(c) ==
  /\ at[c] = "out"
  /\ wakeLocked
  /\ UNCHANGED <<readers, writer, waitingWriters, at>>

\* The channel was closed.
LockAgain(c) ==
  /\ at[c] = "writeWait"
  /\ c \notin asleep
  /\ IF WriterCanEnter
     THEN /\ writer' = TRUE
          /\ waitingWriters' = waitingWriters - 1
          /\ Go(c, "writing")
          /\ UNCHANGED asleep
     ELSE asleep' = asleep \union {c} /\ UNCHANGED <<writer, waitingWriters, at>>
  /\ UNCHANGED readers

\* Mutant: a writer that gives up does not wake the readers behind it.
LockCanceledSilently(c) ==
  /\ at[c] = "writeWait"
  /\ waitingWriters' = waitingWriters - 1
  /\ Go(c, "out")
  /\ asleep' = asleep \ {c}
  /\ UNCHANGED <<readers, writer>>

\* The context is done while the writer waits.
LockCanceled(c) ==
  /\ at[c] = "writeWait"
  /\ waitingWriters' = waitingWriters - 1
  /\ Go(c, "out")
  /\ wakeLocked
  /\ UNCHANGED <<readers, writer>>

Unlock(c) ==
  /\ at[c] = "writing"
  /\ writer' = FALSE
  /\ Go(c, "out")
  /\ wakeLocked
  /\ UNCHANGED <<readers, waitingWriters>>

\* rlock from its entry, or from a wake-up, to its return or its next wait.
RLock(c) ==
  /\ at[c] = "out" \/ (at[c] = "readWait" /\ c \notin asleep)
  /\ IF ReaderCanEnter
     THEN readers' = readers + 1 /\ Go(c, "reading") /\ UNCHANGED asleep
     ELSE Go(c, "readWait") /\ asleep' = asleep \union {c} /\ UNCHANGED readers
  /\ UNCHANGED <<writer, waitingWriters>>

RLockCanceled(c) ==
  /\ at[c] = "readWait"
  /\ Go(c, "out")
  /\ asleep' = asleep \ {c}
  /\ UNCHANGED <<readers, writer, waitingWriters>>

RUnlock(c) ==
  /\ at[c] = "reading"
  /\ readers' = readers - 1
  /\ Go(c, "out")
  /\ asleep' = IF readers = 1 THEN {} ELSE asleep
  /\ UNCHANGED <<writer, waitingWriters>>

MutexNext ==
  \E c \in Clients :
    \/ LockEnter(c) \/ LockRefused(c) \/ LockAgain(c) \/ LockCanceled(c) \/ Unlock(c)
    \/ RLock(c) \/ RLockCanceled(c) \/ RUnlock(c)

MutexInit ==
  /\ readers = 0 /\ writer = FALSE /\ waitingWriters = 0
  /\ at = [c \in Clients |-> "out"]
  /\ asleep = {}

MutexSpec == MutexInit /\ [][MutexNext]_mutexVars

-----------------------------------------------------------------------------
(* Properties.                                                                   *)

Who(place) == {c \in Clients : at[c] = place}

\* The counters count: without that, readers = 0 would not mean that nobody reads.
MutexTypeOK ==
  /\ writer \in BOOLEAN
  /\ at \in [Clients -> Places]
  /\ asleep \subseteq Who("writeWait") \union Who("readWait")
  /\ readers = Cardinality(Who("reading"))
  /\ waitingWriters = Cardinality(Who("writeWait"))

\* A writer is alone, whatever was cancelled before (lock, rlock).
Exclusion ==
  \A c \in Who("writing") : Who("writing") = {c} /\ Who("reading") = {}

\* Nobody sleeps through the moment at which it could enter: whoever still waits on
\* an open channel could not enter if it looked (wakeLocked in unlock, runlock and
\* the cancelled lock).
NoLostWakeup ==
  \A c \in asleep :
    /\ at[c] = "writeWait" => ~ WriterCanEnter
    /\ at[c] = "readWait" => ~ ReaderCanEnter

\* The counters are right, a writer is alone, and nobody sleeps who could enter, with
\* waiters cancelled at any point (lock, unlock, rlock, runlock).
LockIsSound == MutexTypeOK /\ Exclusion /\ NoLostWakeup

=============================================================================
