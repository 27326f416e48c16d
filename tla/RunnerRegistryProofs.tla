------------------------ MODULE RunnerRegistryProofs ------------------------
(***************************************************************************)
(* Safety of the Runner registry, for any number of keys, callers, Runners  *)
(* and slots.                                                               *)
(***************************************************************************)
EXTENDS RunnerRegistry, FiniteSetTheorems, TLAPS

-----------------------------------------------------------------------------
(* The inductive invariant *)

\* The Caller's build of its key is announced in pending and not over.
Builds(c) ==
  \/ caller[c].pc = "build"
  \/ caller[c].pc = "closing" /\ caller[c].then = "build"

\* A Runner is in the map.
InMap(r) == \E k \in Key : entries[k] = r

\* Somebody is about to close r, whatever its reference count says by then.
Listed(r) ==
  \/ \E c \in Caller : r \in caller[c].todo
  \/ r \in inval \cup closer.todo

\* The fields of a Caller that its next steps rely on.
CallerOK(c) ==
  /\ caller[c].pc = "leased" => caller[c].runner \in Runner
  /\ caller[c].pc = "closing" => caller[c].then \in {"idle", "build", "retry"}
  /\ caller[c].pc # "closing" => caller[c].todo = {}

\* A build is announced under its key by the Caller that runs it, and awaited
\* only while it runs.
BuildsOK ==
  /\ \A c \in Caller : Builds(c) => caller[c].key \in Key /\ pending[caller[c].key] = c
  /\ \A k \in Key, c \in Caller : pending[k] = c => Builds(c) /\ caller[c].key = k
  /\ \A c \in Caller :
       caller[c].pc = "wait" => caller[c].key \in Key /\ pending[caller[c].key] # NoOne

SlotsOK ==
  /\ IsFiniteSet(Cached) /\ IsFiniteSet(Building)
  /\ Cardinality(Cached) + Cardinality(Building) <= MaxEntries

SlotInv == RegistryTypeOK /\ (\A c \in Caller : CallerOK(c)) /\ BuildsOK /\ SlotsOK

\* The reference count of r is the number of its leases, and r is open while it
\* has one.
Lent(r) ==
  /\ IsFiniteSet(Leases(r)) /\ runner[r].refs = Cardinality(Leases(r))
  /\ Leases(r) # {} => runner[r].state = "open"

\* What the map holds can be lent: it is open, and nobody has taken it out.
InMapIsOpen == \A k \in Key : entries[k] # NoOne =>
  runner[entries[k]].state = "open" /\ ~runner[entries[k]].dropped

\* What somebody is about to close is beyond the reach of any new lease.
ListedIsFree == \A r \in Runner : Listed(r) =>
  Leases(r) = {} /\ runner[r].state # "unmade" /\ ~InMap(r)

ClosedIsEmpty == /\ closed <=> closer.pc # "open"
                 /\ closed => Cached = {}

LeaseInv ==
  /\ SlotInv /\ (\A r \in Runner : Lent(r))
  /\ InMapIsOpen /\ ListedIsFree /\ ClosedIsEmpty

-----------------------------------------------------------------------------
(* Types *)

\* A Caller at rest is a Caller.
LEMMA IdleCallerType == IdleCaller \in CallerRec
  BY Zenon DEF IdleCaller, CallerRec, CallerState

\* What ClosesThen makes of a Caller.
LEMMA ClosesThenIs ==
  ASSUME NEW x \in CallerRec, NEW todo \in SUBSET Runner, NEW then \in CallerState,
         NEW y, y = ClosesThen(x, todo, then)
  PROVE  /\ y \in CallerRec
         /\ y.pc = (IF todo = {} THEN then ELSE "closing") /\ y.todo = todo /\ y.then = then
         /\ y.key = x.key /\ y.runner = x.runner /\ y.since = x.since
  BY Zenon DEF ClosesThen, CallerRec, CallerState

\* The Callers a miss can leave behind: one that goes on to build k, or one at rest.
LEMMA MissCaller ==
  ASSUME RegistryTypeOK, NEW k \in Key, NEW out \in SUBSET Runner
  PROVE  /\ [IdleCaller EXCEPT !.key = k, !.since = gen[k]] \in CallerRec
         /\ [IdleCaller EXCEPT !.key = k, !.since = gen[k]].key = k
         /\ [IdleCaller EXCEPT !.key = k, !.since = gen[k]].since = gen[k]
  BY Zenon DEF RegistryTypeOK, IdleCaller, CallerRec, CallerState

\* Dropping Runners keeps the map of entries well formed.
LEMMA DroppedIs ==
  ASSUME RegistryTypeOK, NEW R \in SUBSET Runner
  PROVE  /\ Dropped(R) \in [Runner -> Entry]
         /\ \A r \in Runner : /\ Dropped(R)[r].state = runner[r].state
                              /\ Dropped(R)[r].refs = runner[r].refs
                              /\ Dropped(R)[r].gen = runner[r].gen
                              /\ Dropped(R)[r].dropped <=> (runner[r].dropped \/ r \in R)
         /\ Without(R) \in [Key -> Runner \cup {NoOne}]
         /\ OlderWithout(R) \subseteq Runner \X Runner
<1>1. \A r \in Runner : runner[r] \in Entry  BY Zenon DEF RegistryTypeOK
<1>2. \A r \in Runner : Dropped(R)[r] = IF r \in R THEN [runner[r] EXCEPT !.dropped = TRUE] ELSE runner[r]
  BY Zenon DEF Dropped
<1>3. ASSUME NEW r \in Runner
      PROVE  /\ Dropped(R)[r] \in Entry
             /\ Dropped(R)[r].state = runner[r].state
             /\ Dropped(R)[r].refs = runner[r].refs
             /\ Dropped(R)[r].gen = runner[r].gen
             /\ Dropped(R)[r].dropped <=> (runner[r].dropped \/ r \in R)
  BY <1>1, <1>2, Zenon DEF Entry
<1>4. Dropped(R) = [r \in Runner |-> Dropped(R)[r]]  BY Zenon DEF Dropped
<1>5. Dropped(R) \in [Runner -> Entry]  BY <1>3, <1>4, Zenon
<1>6. Without(R) \in [Key -> Runner \cup {NoOne}]  BY Zenon DEF Without, RegistryTypeOK
<1>7. OlderWithout(R) \subseteq Runner \X Runner  BY Zenon DEF OlderWithout, RegistryTypeOK
<1> QED  BY <1>3, <1>5, <1>6, <1>7, Zenon

\* Closing a Runner changes its state alone.
LEMMA ClosedIs ==
  ASSUME RegistryTypeOK, NEW r \in Runner
  PROVE  /\ ClosedRunner(r) \in [Runner -> Entry]
         /\ ClosedRunner(r)[r].state = "closed"
         /\ \A q \in Runner : /\ q # r => ClosedRunner(r)[q].state = runner[q].state
                              /\ ClosedRunner(r)[q].refs = runner[q].refs
                              /\ ClosedRunner(r)[q].gen = runner[q].gen
                              /\ ClosedRunner(r)[q].dropped = runner[q].dropped
  BY Zenon DEF RegistryTypeOK, Entry, ClosedRunner

\* What is evicted was idle.
LEMMA EvictedIsIdle ==
  ASSUME NEW R \in SUBSET Idle
  PROVE  Evicted(R) \subseteq Idle
  BY Zenon DEF Evicted

-----------------------------------------------------------------------------
(* What the steps do, field by field *)

\* No Caller but c is touched.
OnlyCaller(c) == \A d \in Caller \ {c} : caller'[d] = caller[d]

\* The Runners in R are taken out of the map.
Takes(R) ==
  /\ \A k \in Key : entries'[k] = IF entries[k] \in R THEN NoOne ELSE entries[k]
  /\ \A r \in Runner : /\ runner'[r].state = runner[r].state
                       /\ runner'[r].refs = runner[r].refs
                       /\ runner'[r].gen = runner[r].gen
                       /\ runner'[r].dropped <=> (runner[r].dropped \/ r \in R)

\* r is closed, and no other Runner touched.
Shuts(r) ==
  /\ runner'[r].state = "closed"
  /\ \A q \in Runner : /\ q # r => runner'[q].state = runner[q].state
                       /\ runner'[q].refs = runner[q].refs
                       /\ runner'[q].gen = runner[q].gen
                       /\ runner'[q].dropped = runner[q].dropped

\* A lease on r is taken or returned: refs are its references from now on.
Counts(r, refs) ==
  /\ runner'[r].refs = refs
  /\ \A q \in Runner : /\ q # r => runner'[q].refs = runner[q].refs
                       /\ runner'[q].state = runner[q].state
                       /\ runner'[q].gen = runner[q].gen
                       /\ runner'[q].dropped = runner[q].dropped

\* The build of k is over; whoever waited for it tries again.
Wakes(c, k) ==
  /\ pending'[k] = NoOne /\ \A l \in Key \ {k} : pending'[l] = pending[l]
  /\ spoiled' = spoiled \ {k}
  /\ \A d \in Caller \ {c} :
       /\ caller'[d].key = caller[d].key /\ caller'[d].runner = caller[d].runner
       /\ caller'[d].since = caller[d].since /\ caller'[d].todo = caller[d].todo
       /\ caller'[d].then = caller[d].then
       /\ caller'[d].pc = IF caller[d].pc = "wait" /\ caller[d].key = k THEN "retry"
                          ELSE caller[d].pc

\* Acquire gives up, or joins the build of another Caller.
WaitEffect(c) ==
  /\ RegistryTypeOK' /\ OnlyCaller(c)
  /\ caller[c].pc \in {"idle", "wait", "retry"} /\ caller'[c].todo = {}
  /\ \/ caller'[c].pc = "idle"
     \/ /\ caller'[c].pc = "wait" /\ caller'[c].key \in Key
        /\ pending[caller'[c].key] # NoOne
  /\ UNCHANGED <<entries, pending, spoiled, closed, runner, inval, closer, gen, abandoned>>

\* AcquireFails and AcquireJoins do that.
LEMMA WaitDoes ==
  ASSUME RegistryTypeOK, NEW c \in Caller, AcquireFails(c) \/ \E k \in Key : AcquireJoins(c, k)
  PROVE  WaitEffect(c)
<1>1. CASE AcquireFails(c)
  BY <1>1, IdleCallerType, Zenon DEF AcquireFails, RegistryTypeOK, OnlyCaller, IdleCaller, WaitEffect
<1>2. ASSUME NEW k \in Key, AcquireJoins(c, k)
      PROVE  /\ RegistryTypeOK' /\ OnlyCaller(c)
             /\ caller[c].pc \in {"idle", "retry"} /\ caller'[c].todo = {}
             /\ caller'[c].pc = "wait" /\ caller'[c].key = k /\ pending[k] # NoOne
             /\ UNCHANGED <<entries, pending, spoiled, closed, runner, inval, closer, gen, abandoned>>
  <2>1. [IdleCaller EXCEPT !.pc = "wait", !.key = k] \in CallerRec
    BY Zenon DEF IdleCaller, CallerRec, CallerState
  <2> QED  BY <1>2, <2>1, Zenon DEF AcquireJoins, Asks, RegistryTypeOK, OnlyCaller, IdleCaller
<1> QED  BY <1>1, <1>2, Zenon DEF WaitEffect

\* A lease on the Runner in the map.
HitEffect(c, k, e) ==
  /\ RegistryTypeOK' /\ OnlyCaller(c)
  /\ ~closed /\ e = entries[k] /\ caller[c].pc \in {"idle", "retry"}
  /\ caller'[c].pc = "leased" /\ caller'[c].runner = e /\ caller'[c].key = k
  /\ caller'[c].todo = {}
  /\ Counts(e, runner[e].refs + 1)
  /\ UNCHANGED <<entries, pending, spoiled, closed, inval, closer, gen, abandoned>>

\* AcquireHit does that.
LEMMA HitDoes ==
  ASSUME RegistryTypeOK, NEW c \in Caller, NEW k \in Key, AcquireHit(c, k)
  PROVE  \E e \in Runner : HitEffect(c, k, e)
<1>1. PICK r \in Runner : r = entries[k]  BY Zenon DEF AcquireHit, RegistryTypeOK
<1>2. PICK rec : rec = [IdleCaller EXCEPT !.pc = "leased", !.key = k, !.runner = r]  BY Zenon
<1>3. rec \in CallerRec /\ rec.pc = "leased" /\ rec.key = k /\ rec.runner = r /\ rec.todo = {}
  BY <1>2, Zenon DEF IdleCaller, CallerRec, CallerState
<1>4. /\ runner' = [runner EXCEPT ![r].refs = @ + 1] /\ older' = OlderWithout({r})
      /\ caller' = [caller EXCEPT ![c] = rec]
      /\ ~closed /\ caller[c].pc \in {"idle", "retry"}
      /\ UNCHANGED <<entries, pending, spoiled, closed, inval, closer, gen, abandoned>>
  BY <1>1, <1>2, Zenon DEF AcquireHit, Asks
<1>5. runner' \in [Runner -> Entry] /\ Counts(r, runner[r].refs + 1)
  BY <1>4 DEF RegistryTypeOK, Entry, Counts
<1>6. caller' \in [Caller -> CallerRec] /\ caller'[c] = rec /\ OnlyCaller(c)
  BY <1>3, <1>4, Zenon DEF RegistryTypeOK, OnlyCaller
<1>7. older' \subseteq Runner \X Runner  BY <1>4, DroppedIs
<1>8. RegistryTypeOK'  BY <1>4, <1>5, <1>6, <1>7, Zenon DEF RegistryTypeOK
<1> QED  BY <1>1, <1>3, <1>4, <1>5, <1>6, <1>8, Zenon DEF HitEffect

\* A miss evicts some idle Runners, which c is to close, and c then builds if there
\* is room.
MissEffect(c, k, out) ==
  /\ RegistryTypeOK' /\ OnlyCaller(c) /\ Takes(out)
  /\ ~closed /\ entries[k] = NoOne /\ pending[k] = NoOne
  /\ caller[c].pc \in {"idle", "retry"}
  /\ caller'[c].todo = out /\ caller'[c].then \in {"idle", "build"}
  /\ caller'[c].pc = IF out = {} THEN caller'[c].then ELSE "closing"
  /\ \/ /\ slotCount(out) < MaxEntries /\ caller'[c].then = "build"
        /\ pending' = [pending EXCEPT ![k] = c]
        /\ caller'[c].key = k /\ caller'[c].since = gen[k]
     \/ caller'[c].then = "idle" /\ pending' = pending
  /\ UNCHANGED <<spoiled, closed, inval, closer, gen, abandoned>>

\* AcquireMiss does that.
LEMMA MissDoes ==
  ASSUME RegistryTypeOK, NEW c \in Caller, NEW k \in Key, NEW R \in SUBSET Idle,
         AcquireMiss(c, k, R)
  PROVE  \E out \in SUBSET Idle : MissEffect(c, k, out)
<1>1. PICK out \in SUBSET Idle : out = Evicted(R)  BY EvictedIsIdle, Zenon
<1> SUFFICES MissEffect(c, k, out)  BY Zenon
<1>2. out \subseteq Runner  BY <1>1, Zenon DEF Idle
<1>3. PICK building : building = [IdleCaller EXCEPT !.key = k, !.since = gen[k]]  BY Zenon
<1>4. PICK b : b = ClosesThen(building, out, "build")  BY Zenon
<1>5. PICK i : i = ClosesThen(IdleCaller, out, "idle")  BY Zenon
<1>6. /\ entries' = Without(out) /\ runner' = Dropped(out) /\ older' = OlderWithout(out)
      /\ pending' = IF slotCount(out) < MaxEntries THEN [pending EXCEPT ![k] = c] ELSE pending
      /\ caller' = [caller EXCEPT ![c] = IF slotCount(out) < MaxEntries THEN b ELSE i]
      /\ ~closed /\ entries[k] = NoOne /\ pending[k] = NoOne /\ caller[c].pc \in {"idle", "retry"}
      /\ UNCHANGED <<spoiled, closed, inval, closer, gen, abandoned>>
  BY <1>1, <1>3, <1>4, <1>5, Zenon DEF AcquireMiss, Asks, Misses
<1>7. /\ b \in CallerRec /\ b.todo = out /\ b.then = "build" /\ b.key = k /\ b.since = gen[k]
      /\ b.pc = IF out = {} THEN "build" ELSE "closing"
  <2>1. building \in CallerRec /\ building.key = k /\ building.since = gen[k]
    BY <1>2, <1>3, MissCaller, Zenon
  <2>2. "build" \in CallerState  BY Zenon DEF CallerState
  <2> QED  BY <1>2, <1>4, <2>1, <2>2, ClosesThenIs
<1>8. /\ i \in CallerRec /\ i.todo = out /\ i.then = "idle"
      /\ i.pc = IF out = {} THEN "idle" ELSE "closing"
  <2>1. "idle" \in CallerState  BY Zenon DEF CallerState
  <2> QED  BY <1>2, <1>5, <2>1, IdleCallerType, ClosesThenIs
<1>9. Takes(out)  BY <1>2, <1>6, DroppedIs DEF Takes, Without
<1>10. caller' \in [Caller -> CallerRec] /\ OnlyCaller(c)
       /\ caller'[c] = IF slotCount(out) < MaxEntries THEN b ELSE i
  BY <1>6, <1>7, <1>8, Zenon DEF RegistryTypeOK, OnlyCaller
<1>11. pending' \in [Key -> Caller \cup {NoOne}]  BY <1>6, Zenon DEF RegistryTypeOK
<1>12. RegistryTypeOK'  BY <1>2, <1>6, <1>10, <1>11, DroppedIs, Zenon DEF RegistryTypeOK
<1>13. CASE slotCount(out) < MaxEntries
  BY <1>6, <1>7, <1>9, <1>10, <1>12, <1>13, Zenon DEF MissEffect
<1>14. CASE ~(slotCount(out) < MaxEntries)
  BY <1>6, <1>8, <1>9, <1>10, <1>12, <1>14, Zenon DEF MissEffect
<1> QED  BY <1>13, <1>14, Zenon

\* A Caller closes one of the Runners on its list.
CallerClosesEffect(c, r) ==
  /\ RegistryTypeOK' /\ OnlyCaller(c) /\ Shuts(r)
  /\ caller[c].pc = "closing" /\ r \in caller[c].todo
  /\ caller'[c].todo = caller[c].todo \ {r} /\ caller'[c].then = caller[c].then
  /\ caller'[c].key = caller[c].key /\ caller'[c].since = caller[c].since
  /\ caller'[c].pc = IF caller'[c].todo = {} THEN caller[c].then ELSE "closing"
  /\ caller[c].then \in {"idle", "build", "retry"}
  /\ UNCHANGED <<entries, pending, spoiled, closed, inval, closer, gen, abandoned>>

\* CallerCloses does that.
LEMMA CallerClosesDoes ==
  ASSUME RegistryTypeOK, NEW c \in Caller, CallerOK(c), NEW r \in Runner, CallerCloses(c, r)
  PROVE  CallerClosesEffect(c, r)
<1>1. PICK x \in CallerRec : x = caller[c]  BY Zenon DEF RegistryTypeOK
<1>2. PICK todo \in SUBSET Runner : todo = x.todo \ {r}  BY Zenon DEF CallerRec
<1>3. x.then \in {"idle", "build", "retry"} /\ x.then \in CallerState
  BY <1>1, Zenon DEF CallerOK, CallerCloses, CallerState
<1>4. PICK y : y = ClosesThen(x, todo, x.then)  BY Zenon
<1>5. /\ y \in CallerRec /\ y.todo = todo /\ y.then = x.then /\ y.key = x.key /\ y.since = x.since
      /\ y.pc = IF todo = {} THEN x.then ELSE "closing"
  BY <1>3, <1>4, ClosesThenIs
<1>6. /\ runner' = ClosedRunner(r) /\ caller' = [caller EXCEPT ![c] = y]
      /\ x.pc = "closing" /\ r \in x.todo
      /\ UNCHANGED <<entries, pending, spoiled, closed, older, inval, closer, gen, abandoned>>
  BY <1>1, <1>2, <1>4, Zenon DEF CallerCloses
<1>7. runner' \in [Runner -> Entry] /\ Shuts(r)  BY <1>6, ClosedIs, Zenon DEF Shuts
<1>8. caller' \in [Caller -> CallerRec] /\ caller'[c] = y /\ OnlyCaller(c)
  BY <1>5, <1>6, Zenon DEF RegistryTypeOK, OnlyCaller
<1>9. RegistryTypeOK'  BY <1>6, <1>7, <1>8, Zenon DEF RegistryTypeOK
<1> QED  BY <1>1, <1>2, <1>3, <1>5, <1>6, <1>7, <1>8, <1>9, Zenon DEF CallerClosesEffect

\* The end of a build wakes those who wait for it.
LEMMA BuildDoneDoes ==
  ASSUME RegistryTypeOK, NEW c \in Caller, NEW k \in Key, caller[c].key = k,
         NEW rec \in CallerRec, BuildDone(c, rec)
  PROVE  /\ caller' \in [Caller -> CallerRec] /\ pending' \in [Key -> Caller \cup {NoOne}]
         /\ spoiled' \subseteq Key /\ caller'[c] = rec /\ Wakes(c, k)
<1>1. /\ pending' = [pending EXCEPT ![k] = NoOne] /\ spoiled' = spoiled \ {k}
      /\ caller' = [d \in Caller |->
            IF d = c THEN rec
            ELSE IF caller[d].pc = "wait" /\ caller[d].key = k
              THEN [caller[d] EXCEPT !.pc = "retry"] ELSE caller[d]]
  BY Zenon DEF BuildDone
<1>2. \A d \in Caller : caller[d] \in CallerRec  BY Zenon DEF RegistryTypeOK
<1>3. ASSUME NEW d \in Caller
      PROVE  /\ [caller[d] EXCEPT !.pc = "retry"] \in CallerRec
             /\ [caller[d] EXCEPT !.pc = "retry"].key = caller[d].key
             /\ [caller[d] EXCEPT !.pc = "retry"].runner = caller[d].runner
             /\ [caller[d] EXCEPT !.pc = "retry"].since = caller[d].since
             /\ [caller[d] EXCEPT !.pc = "retry"].todo = caller[d].todo
             /\ [caller[d] EXCEPT !.pc = "retry"].then = caller[d].then
             /\ [caller[d] EXCEPT !.pc = "retry"].pc = "retry"
  BY <1>2, Zenon DEF CallerRec, CallerState
<1>4. caller'[c] = rec  BY <1>1, Zenon
<1>5. \A d \in Caller : caller'[d] \in CallerRec  BY <1>1, <1>2, <1>3, Zenon
<1>6. \A d \in Caller \ {c} :
        caller'[d] = IF caller[d].pc = "wait" /\ caller[d].key = k
                     THEN [caller[d] EXCEPT !.pc = "retry"] ELSE caller[d]
  BY <1>1, Zenon
<1>7. Wakes(c, k)  BY <1>1, <1>3, <1>6, Zenon DEF Wakes, RegistryTypeOK
<1>8. caller' \in [Caller -> CallerRec]  BY <1>1, <1>5, Zenon
<1> QED  BY <1>1, <1>4, <1>7, <1>8, Zenon DEF RegistryTypeOK

\* The factory returns an error.
FailEffect(c, k) ==
  /\ RegistryTypeOK' /\ k = caller[c].key /\ Wakes(c, k)
  /\ caller[c].pc = "build" /\ caller'[c].pc = "idle" /\ caller'[c].todo = {}
  /\ UNCHANGED <<entries, closed, runner, inval, closer, gen, abandoned>>

\* BuildFails does that.
LEMMA FailDoes ==
  ASSUME RegistryTypeOK, BuildsOK, NEW c \in Caller, BuildFails(c)
  PROVE  \E k \in Key : FailEffect(c, k)
<1>1. /\ caller[c].pc = "build" /\ BuildDone(c, IdleCaller)
      /\ UNCHANGED <<entries, closed, runner, older, inval, closer, gen, abandoned>>
  BY Zenon DEF BuildFails
<1>2. caller[c].key \in Key  BY <1>1, Zenon DEF BuildsOK, Builds
<1>3. /\ caller' \in [Caller -> CallerRec] /\ pending' \in [Key -> Caller \cup {NoOne}]
      /\ spoiled' \subseteq Key /\ caller'[c] = IdleCaller /\ Wakes(c, caller[c].key)
  BY <1>1, <1>2, IdleCallerType, BuildDoneDoes, Zenon
<1>4. RegistryTypeOK'  BY <1>1, <1>3, Zenon DEF RegistryTypeOK
<1> QED  BY <1>1, <1>2, <1>3, <1>4 DEF IdleCaller, FailEffect

\* r has just been made, with refs references, of the age of c's build.
Makes(c, r, refs) ==
  /\ runner[r].state = "unmade"
  /\ runner'[r].state = "open" /\ runner'[r].refs = refs /\ ~runner'[r].dropped
  /\ runner'[r].gen = caller[c].since
  /\ \A q \in Runner \ {r} : runner'[q] = runner[q]

\* The factory returns a Runner, and it goes into the map and to c.
KeepEffect(c, k, r) ==
  /\ RegistryTypeOK' /\ k = caller[c].key /\ Wakes(c, k)
  /\ caller[c].pc = "build" /\ ~closed /\ k \notin spoiled
  /\ Makes(c, r, 1)
  /\ entries' = [entries EXCEPT ![k] = r]
  /\ caller'[c].pc = "leased" /\ caller'[c].runner = r /\ caller'[c].key = k
  /\ caller'[c].todo = {}
  /\ UNCHANGED <<closed, inval, closer, gen, abandoned>>

\* BuildReturns does that if the Runner is kept.
LEMMA KeepDoes ==
  ASSUME RegistryTypeOK, BuildsOK, NEW c \in Caller, NEW r \in Runner, NEW canceled \in BOOLEAN,
         BuildReturns(c, r, canceled), Keeps(c, canceled)
  PROVE  \E k \in Key : KeepEffect(c, k, r)
<1>1. PICK k \in Key : k = caller[c].key  BY Zenon DEF BuildsOK, Builds, BuildReturns
<1>2. PICK made : made = NewEntry(caller[c].since)  BY Zenon
<1>3. PICK rec : rec = [IdleCaller EXCEPT !.pc = "leased", !.key = k, !.runner = r]  BY Zenon
<1>4. rec \in CallerRec /\ rec.pc = "leased" /\ rec.key = k /\ rec.runner = r /\ rec.todo = {}
  BY <1>3, Zenon DEF IdleCaller, CallerRec, CallerState
<1>5. /\ made \in Entry /\ made.state = "open" /\ made.refs = 1 /\ ~made.dropped
      /\ made.gen = caller[c].since
  BY <1>2, Zenon DEF NewEntry, Unmade, Entry, RegistryTypeOK, CallerRec
<1>6. /\ caller[c].pc = "build" /\ runner[r].state = "unmade"
      /\ runner' = [runner EXCEPT ![r] = made]
      /\ entries' = [entries EXCEPT ![k] = r]
      /\ BuildDone(c, rec)
      /\ UNCHANGED <<closed, older, inval, closer, gen, abandoned>>
  BY <1>1, <1>2, <1>3, Zenon DEF BuildReturns
<1>7. /\ caller' \in [Caller -> CallerRec] /\ pending' \in [Key -> Caller \cup {NoOne}]
      /\ spoiled' \subseteq Key /\ caller'[c] = rec /\ Wakes(c, k)
  BY <1>1, <1>4, <1>6, BuildDoneDoes, Zenon
<1>8. runner' \in [Runner -> Entry] /\ Makes(c, r, 1)  BY <1>5, <1>6, Zenon DEF RegistryTypeOK, Makes
<1>9. RegistryTypeOK'  BY <1>6, <1>7, <1>8, Zenon DEF RegistryTypeOK
<1> QED  BY <1>1, <1>4, <1>6, <1>7, <1>8, <1>9, Zenon DEF Keeps, KeepEffect

\* The factory returns a Runner nobody wants any more: c is to close it.
DiscardEffect(c, k, r) ==
  /\ RegistryTypeOK' /\ k = caller[c].key /\ Wakes(c, k)
  /\ caller[c].pc = "build" /\ Makes(c, r, 0)
  /\ caller'[c].pc = "closing" /\ caller'[c].then \in {"idle", "retry"}
  /\ caller'[c].todo = {r}
  /\ UNCHANGED <<entries, closed, inval, closer, gen, abandoned>>

\* BuildReturns does that otherwise.
LEMMA DiscardDoes ==
  ASSUME RegistryTypeOK, BuildsOK, NEW c \in Caller, NEW r \in Runner, NEW canceled \in BOOLEAN,
         BuildReturns(c, r, canceled), ~Keeps(c, canceled)
  PROVE  \E k \in Key : DiscardEffect(c, k, r)
<1>1. PICK k \in Key : k = caller[c].key  BY Zenon DEF BuildsOK, Builds, BuildReturns
<1>2. PICK made : made = [NewEntry(caller[c].since) EXCEPT !.refs = 0]  BY Zenon
<1>3. PICK then \in {"idle", "retry"} : then = IF canceled \/ closed THEN "idle" ELSE "retry"  BY Zenon
<1>4. PICK x : x = [IdleCaller EXCEPT !.key = k]  BY Zenon
<1>5. x \in CallerRec /\ then \in CallerState  BY <1>4, Zenon DEF IdleCaller, CallerRec, CallerState
<1>6. PICK rec : rec = ClosesThen(x, {r}, then)  BY Zenon
<1>7. rec \in CallerRec /\ rec.pc = "closing" /\ rec.todo = {r} /\ rec.then = then
  <2>1. {r} \in SUBSET Runner /\ {r} # {}  BY Zenon
  <2> QED  BY <1>5, <1>6, <2>1, ClosesThenIs
<1>8. /\ made \in Entry /\ made.state = "open" /\ made.refs = 0 /\ ~made.dropped
      /\ made.gen = caller[c].since
  BY <1>2, Zenon DEF NewEntry, Unmade, Entry, RegistryTypeOK, CallerRec
<1>9. /\ caller[c].pc = "build" /\ runner[r].state = "unmade"
      /\ runner' = [runner EXCEPT ![r] = made] /\ entries' = entries
      /\ BuildDone(c, rec)
      /\ UNCHANGED <<closed, older, inval, closer, gen, abandoned>>
  BY <1>1, <1>2, <1>3, <1>4, <1>6, Zenon DEF BuildReturns
<1>10. /\ caller' \in [Caller -> CallerRec] /\ pending' \in [Key -> Caller \cup {NoOne}]
       /\ spoiled' \subseteq Key /\ caller'[c] = rec /\ Wakes(c, k)
  BY <1>1, <1>7, <1>9, BuildDoneDoes, Zenon
<1>11. runner' \in [Runner -> Entry] /\ Makes(c, r, 0)  BY <1>8, <1>9, Zenon DEF RegistryTypeOK, Makes
<1>12. RegistryTypeOK'  BY <1>9, <1>10, <1>11, Zenon DEF RegistryTypeOK
<1> QED  BY <1>1, <1>7, <1>9, <1>10, <1>11, <1>12, Zenon DEF DiscardEffect

\* A lease is returned; the last one closes a Runner that is no longer in the map.
ReleaseEffect(c, r) ==
  /\ RegistryTypeOK' /\ OnlyCaller(c)
  /\ r = caller[c].runner /\ caller[c].pc = "leased"
  /\ Counts(r, runner[r].refs - 1) /\ runner'[r].refs \in Nat
  /\ \/ /\ runner[r].refs = 1 /\ (runner[r].dropped \/ closed)
        /\ caller'[c].todo = {r} /\ caller'[c].pc = "closing"
        /\ caller'[c].then = "idle"
     \/ /\ runner[r].refs = 1 => ~runner[r].dropped /\ ~closed
        /\ caller'[c].todo = {} /\ caller'[c].pc = "idle"
  /\ UNCHANGED <<entries, pending, spoiled, closed, inval, closer, gen, abandoned>>

\* Release does that to a Runner with a reference.
LEMMA ReleaseDoes ==
  ASSUME RegistryTypeOK, NEW c \in Caller, CallerOK(c), Release(c),
         runner[caller[c].runner].refs > 0
  PROVE  \E r \in Runner : ReleaseEffect(c, r)
<1>1. caller[c].pc = "leased"  BY Zenon DEF Release
<1>2. PICK r \in Runner : r = caller[c].runner  BY <1>1, Zenon DEF CallerOK
<1> SUFFICES ReleaseEffect(c, r)  BY Zenon
<1>3. PICK todo \in SUBSET Runner :
        todo = IF runner[r].refs = 1 /\ ShouldClose(r) THEN {r} ELSE {}
  BY Zenon
<1>4. PICK rec : rec = ClosesThen(IdleCaller, todo, "idle")  BY Zenon
<1>5. /\ runner' = [runner EXCEPT ![r].refs = @ - 1]
      /\ older' = older \/ older' = older \cup (Idle \X {r})
      /\ caller' = [caller EXCEPT ![c] = rec]
      /\ UNCHANGED <<entries, pending, spoiled, closed, inval, closer, gen, abandoned>>
  BY <1>2, <1>3, <1>4, Zenon DEF Release
<1>6. /\ rec \in CallerRec /\ rec.todo = todo /\ rec.then = "idle"
      /\ rec.pc = IF todo = {} THEN "idle" ELSE "closing"
  <2>1. "idle" \in CallerState  BY Zenon DEF CallerState
  <2> QED  BY <1>4, <2>1, IdleCallerType, ClosesThenIs
<1>7. runner[r] \in Entry /\ runner[r].refs \in Nat /\ runner[r].refs - 1 \in Nat
  BY <1>2 DEF RegistryTypeOK, Entry
<1>8. runner' \in [Runner -> Entry] /\ Counts(r, runner[r].refs - 1) /\ runner'[r].refs \in Nat
  BY <1>5, <1>7, Zenon DEF RegistryTypeOK, Entry, Counts
<1>9. caller' \in [Caller -> CallerRec] /\ caller'[c] = rec /\ OnlyCaller(c)
  BY <1>5, <1>6, Zenon DEF RegistryTypeOK, OnlyCaller
<1>10. older' \subseteq Runner \X Runner  BY <1>5, Zenon DEF RegistryTypeOK, Idle
<1>11. RegistryTypeOK'  BY <1>5, <1>8, <1>9, <1>10, Zenon DEF RegistryTypeOK
<1>12. CASE runner[r].refs = 1 /\ ShouldClose(r)
  <2>1. todo = {r} /\ todo # {}  BY <1>3, <1>12, Zenon
  <2> QED  BY <1>1, <1>2, <1>5, <1>6, <1>8, <1>9, <1>11, <1>12, <2>1, Zenon DEF ShouldClose, ReleaseEffect
<1>13. CASE ~(runner[r].refs = 1 /\ ShouldClose(r))
  <2>1. todo = {}  BY <1>3, <1>13, Zenon
  <2> QED  BY <1>1, <1>2, <1>5, <1>6, <1>8, <1>9, <1>11, <1>13, <2>1, Zenon DEF ShouldClose, ReleaseEffect
<1> QED  BY <1>12, <1>13, Zenon

\* Invalidate takes the Runners of K out of the map, marks the builds of K, and is
\* to close the Runners nobody has borrowed.
InvalidateEffect(K, out) ==
  /\ RegistryTypeOK' /\ Takes(out) /\ ~closed /\ inval = {}
  /\ \A r \in out : InMap(r)
  /\ \A k \in K : entries'[k] = NoOne
  /\ \A k \in Key \ K : gen'[k] = gen[k]
  /\ spoiled' = spoiled \cup (K \cap Building)
  /\ inval' = {r \in out : runner[r].refs = 0}
  /\ UNCHANGED <<pending, closed, caller, closer, abandoned>>

\* Invalidate does that.
LEMMA InvalidateDoes ==
  ASSUME RegistryTypeOK, NEW K \in SUBSET Key, Invalidate(K)
  PROVE  \E out \in SUBSET Runner : InvalidateEffect(K, out)
<1>1. {entries[k] : k \in K \cap Cached} \subseteq Runner  BY Zenon DEF Cached, RegistryTypeOK
<1>2. PICK out \in SUBSET Runner : out = {entries[k] : k \in K \cap Cached}  BY <1>1, Zenon
<1>3. /\ ~closed /\ inval = {}
      /\ gen' = [k \in Key |-> IF k \in K THEN gen[k] + 1 ELSE gen[k]]
      /\ spoiled' = spoiled \cup (K \cap Building)
      /\ entries' = Without(out) /\ runner' = Dropped(out) /\ older' = OlderWithout(out)
      /\ inval' = {r \in out : runner[r].refs = 0}
      /\ UNCHANGED <<pending, closed, caller, closer, abandoned>>
  BY <1>2, Zenon DEF Invalidate, CloseNow
<1>4. Takes(out)  BY <1>3, DroppedIs DEF Takes, Without
<1>5. gen' \in [Key -> Nat] /\ \A k \in Key \ K : gen'[k] = gen[k]  BY <1>3 DEF RegistryTypeOK
<1>6. RegistryTypeOK'  BY <1>3, <1>5, DroppedIs, Zenon DEF RegistryTypeOK, Building
<1>7. \A r \in out : InMap(r)  BY <1>2, Zenon DEF InMap, Cached
<1>8. \A k \in K : entries'[k] = NoOne  BY <1>2, <1>4, Zenon DEF Takes, Cached
<1> QED  BY <1>3, <1>4, <1>5, <1>6, <1>7, <1>8, Zenon DEF InvalidateEffect

\* Invalidate closes one of them; it goes on, or leaves the others to nobody.
InvalidateClosesEffect(r) ==
  /\ RegistryTypeOK' /\ Shuts(r) /\ r \in inval
  /\ inval' \subseteq inval \ {r} /\ abandoned \subseteq abandoned'
  /\ inval \ {r} \subseteq inval' \cup abandoned'
  /\ UNCHANGED <<entries, pending, spoiled, closed, caller, closer, gen>>

\* InvalidateCloses and InvalidateGivesUp do that.
LEMMA InvalidateClosesDoes ==
  ASSUME RegistryTypeOK, NEW r \in Runner, InvalidateCloses(r) \/ InvalidateGivesUp(r)
  PROVE  InvalidateClosesEffect(r)
<1>1. /\ runner' = ClosedRunner(r) /\ r \in inval
      /\ UNCHANGED <<entries, pending, spoiled, closed, older, caller, closer, gen>>
      /\ \/ inval' = inval \ {r} /\ abandoned' = abandoned
         \/ inval' = {} /\ abandoned' = abandoned \cup (inval \ {r})
  BY Zenon DEF InvalidateCloses, InvalidateGivesUp
<1>2. runner' \in [Runner -> Entry] /\ Shuts(r)  BY <1>1, ClosedIs, Zenon DEF Shuts
<1>3. RegistryTypeOK'  BY <1>1, <1>2, Zenon DEF RegistryTypeOK
<1> QED  BY <1>1, <1>2, <1>3, Zenon DEF InvalidateClosesEffect

\* Close empties the map; it is to close the Runners nobody has borrowed, and waits
\* for the others.
BeginCloseEffect(out) ==
  /\ RegistryTypeOK' /\ Takes(out) /\ closer.pc = "open"
  /\ \A r \in out : InMap(r)
  /\ \A k \in Key : entries'[k] = NoOne
  /\ closed' /\ spoiled' = Building /\ closer'.pc = "closing"
  /\ closer'.todo = {r \in out : runner[r].refs = 0}
  /\ closer'.wait = {r \in out : runner[r].refs # 0} /\ closer'.mine = out
  /\ UNCHANGED <<pending, caller, inval, gen, abandoned>>

\* BeginClose does that.
LEMMA BeginCloseDoes ==
  ASSUME RegistryTypeOK, BeginClose
  PROVE  \E out \in SUBSET Runner : BeginCloseEffect(out)
<1>1. {entries[k] : k \in Cached} \subseteq Runner  BY Zenon DEF Cached, RegistryTypeOK
<1>2. PICK out \in SUBSET Runner : out = {entries[k] : k \in Cached}  BY <1>1, Zenon
<1>3. /\ closer.pc = "open" /\ closed' = TRUE /\ spoiled' = Building
      /\ entries' = Without(out) /\ runner' = Dropped(out) /\ older' = {}
      /\ closer' = [pc |-> "closing", todo |-> CloseNow(out),
                    wait |-> out \ CloseNow(out), mine |-> out]
      /\ UNCHANGED <<pending, caller, inval, gen, abandoned>>
  BY <1>2, Zenon DEF BeginClose
<1>4. Takes(out)  BY <1>3, DroppedIs, Zenon DEF Takes, Without
<1>5. closer' \in CloserRec  BY <1>3, Zenon DEF CloserRec, CloseNow
<1>6. RegistryTypeOK'  BY <1>3, <1>5, DroppedIs, Zenon DEF RegistryTypeOK, Building
<1>7. \A r \in out : InMap(r)  BY <1>2, Zenon DEF InMap, Cached
<1>8. \A k \in Key : entries'[k] = NoOne  BY <1>2, <1>4, Zenon DEF Takes, Cached
<1>9. /\ closer'.pc = "closing" /\ closer'.todo = {r \in out : runner[r].refs = 0}
      /\ closer'.wait = {r \in out : runner[r].refs # 0} /\ closer'.mine = out
  BY <1>3, Zenon DEF CloseNow
<1> QED  BY <1>3, <1>4, <1>6, <1>7, <1>8, <1>9, Zenon DEF BeginCloseEffect

\* Close closes a Runner, at once or when its last lease has been returned.
CloseClosesEffect(r) ==
  /\ RegistryTypeOK' /\ Shuts(r)
  /\ closer.pc = "closing" /\ closer'.pc = "closing" /\ closer'.mine = closer.mine
  /\ r \in closer.todo \/ (r \in closer.wait /\ runner[r].refs = 0)
  /\ closer'.todo \subseteq closer.todo
  /\ closer.todo \cup closer.wait \subseteq closer'.todo \cup closer'.wait \cup {r}
  /\ closer.wait \subseteq closer'.wait \cup {r}
  /\ UNCHANGED <<entries, pending, spoiled, closed, caller, inval, gen, abandoned>>

\* CloseCloses and CloseDrains do that.
LEMMA CloseClosesDoes ==
  ASSUME RegistryTypeOK, NEW r \in Runner, CloseCloses(r) \/ CloseDrains(r)
  PROVE  CloseClosesEffect(r)
<1>1. /\ runner' = ClosedRunner(r) /\ closer.pc = "closing"
      /\ UNCHANGED <<entries, pending, spoiled, closed, older, caller, inval, gen, abandoned>>
      /\ \/ r \in closer.todo /\ closer' = [closer EXCEPT !.todo = @ \ {r}]
         \/ r \in closer.wait /\ runner[r].refs = 0 /\ closer' = [closer EXCEPT !.wait = @ \ {r}]
  BY Zenon DEF CloseCloses, CloseDrains
<1>2. runner' \in [Runner -> Entry] /\ Shuts(r)  BY <1>1, ClosedIs, Zenon DEF Shuts
<1>3. closer \in CloserRec  BY Zenon DEF RegistryTypeOK
<1>4. /\ closer' \in CloserRec /\ closer'.pc = "closing" /\ closer'.mine = closer.mine
      /\ closer'.todo \subseteq closer.todo
      /\ closer.todo \cup closer.wait \subseteq closer'.todo \cup closer'.wait \cup {r}
      /\ closer.wait \subseteq closer'.wait \cup {r}
  BY <1>1, <1>3 DEF CloserRec
<1>5. RegistryTypeOK'  BY <1>1, <1>2, <1>4, Zenon DEF RegistryTypeOK
<1> QED  BY <1>1, <1>2, <1>4, <1>5, Zenon DEF CloseClosesEffect

\* Close returns.
CloseEndsEffect(pc) ==
  /\ RegistryTypeOK' /\ closer.pc = "closing" /\ closer'.pc = pc
  /\ closer.todo = {} /\ (pc = "ok" => Building = {} /\ closer.wait = {})
  /\ closer'.todo = closer.todo /\ closer'.wait = closer.wait /\ closer'.mine = closer.mine
  /\ UNCHANGED <<entries, pending, spoiled, closed, runner, caller, inval, gen, abandoned>>

\* CloseEnds does that.
LEMMA CloseEndsDoes ==
  ASSUME RegistryTypeOK, NEW pc \in {"ok", "timeout"}, CloseEnds(pc)
  PROVE  CloseEndsEffect(pc)
<1>1. /\ closer.pc = "closing" /\ closer.todo = {}
      /\ pc = "ok" => Building = {} /\ closer.wait = {}
      /\ closer' = [closer EXCEPT !.pc = pc]
      /\ UNCHANGED <<entries, pending, spoiled, closed, runner, older, caller, inval, gen, abandoned>>
  BY Zenon DEF CloseEnds
<1>2. closer \in CloserRec  BY Zenon DEF RegistryTypeOK
<1>3. /\ closer' \in CloserRec /\ closer'.pc = pc
      /\ closer'.todo = closer.todo /\ closer'.wait = closer.wait /\ closer'.mine = closer.mine
  BY <1>1, <1>2, Zenon DEF CloserRec
<1>4. RegistryTypeOK'  BY <1>1, <1>3, Zenon DEF RegistryTypeOK
<1> QED  BY <1>1, <1>3, <1>4, Zenon DEF CloseEndsEffect

\* The count tells whether there is a lease.
LEMMA CountTells ==
  ASSUME NEW r \in Runner, Lent(r)
  PROVE  /\ runner[r].refs \in Nat /\ (runner[r].refs = 0 <=> Leases(r) = {})
         /\ \A c \in Leases(r) : runner[r].refs = 1 => Leases(r) = {c}
<1>1. IsFiniteSet(Leases(r)) /\ runner[r].refs = Cardinality(Leases(r))  BY Zenon DEF Lent
<1>2. Cardinality(Leases(r)) \in Nat  BY <1>1, FS_CardinalityType, Zenon
<1>3. Cardinality(Leases(r)) = 0 <=> Leases(r) = {}  BY <1>1, FS_EmptySet, Zenon
<1>4. Cardinality(Leases(r)) = 1 => \E x : Leases(r) = {x}  BY <1>1, FS_Singleton, Zenon
<1> QED  BY <1>1, <1>2, <1>3, <1>4, Zenon

\* Every step of the registry has one of these effects.
Step ==
  \/ \E c \in Caller : WaitEffect(c)
  \/ \E c \in Caller, k \in Key, e \in Runner : HitEffect(c, k, e)
  \/ \E c \in Caller, k \in Key, out \in SUBSET Idle : MissEffect(c, k, out)
  \/ \E c \in Caller, r \in Runner : CallerClosesEffect(c, r)
  \/ \E c \in Caller, k \in Key : FailEffect(c, k)
  \/ \E c \in Caller, k \in Key, r \in Runner : KeepEffect(c, k, r)
  \/ \E c \in Caller, k \in Key, r \in Runner : DiscardEffect(c, k, r)
  \/ \E c \in Caller, r \in Runner : ReleaseEffect(c, r)
  \/ \E K \in SUBSET Key, out \in SUBSET Runner : InvalidateEffect(K, out)
  \/ \E r \in Runner : InvalidateClosesEffect(r)
  \/ \E out \in SUBSET Runner : BeginCloseEffect(out)
  \/ \E r \in Runner : CloseClosesEffect(r)
  \/ \E pc \in {"ok", "timeout"} : CloseEndsEffect(pc)

\* In a state where the counts are right, every step is such a Step.
LEMMA NextIsStep ==
  ASSUME LeaseInv, Next
  PROVE  Step
<1>a. RegistryTypeOK /\ BuildsOK /\ (\A c \in Caller : CallerOK(c)) /\ (\A r \in Runner : Lent(r))
  BY Zenon DEF LeaseInv, SlotInv
<1>1. ASSUME NEW c \in Caller, CallerStep(c) PROVE Step
  <2>1. CASE AcquireFails(c) \/ \E k \in Key : AcquireJoins(c, k)  BY <1>a, <2>1, WaitDoes, Zenon DEF Step
  <2>2. ASSUME NEW k \in Key, AcquireHit(c, k) PROVE Step  BY <1>a, <2>2, HitDoes, Zenon DEF Step
  <2>3. ASSUME NEW k \in Key, NEW R \in SUBSET Idle, AcquireMiss(c, k, R) PROVE Step
    BY <1>a, <2>3, MissDoes, Zenon DEF Step
  <2>4. ASSUME NEW r \in Runner, CallerCloses(c, r) PROVE Step  BY <1>a, <2>4, CallerClosesDoes, Zenon DEF Step
  <2>5. CASE BuildFails(c)  BY <1>a, <2>5, FailDoes, Zenon DEF Step
  <2>6. ASSUME NEW r \in Runner, NEW x \in BOOLEAN, BuildReturns(c, r, x) PROVE Step
    <3>1. CASE Keeps(c, x)  BY <1>a, <2>6, <3>1, KeepDoes, Zenon DEF Step
    <3>2. CASE ~Keeps(c, x)  BY <1>a, <2>6, <3>2, DiscardDoes, Zenon DEF Step
    <3> QED  BY <3>1, <3>2, Zenon
  <2>7. CASE Release(c)
    <3>1. caller[c].pc = "leased"  BY <2>7, Zenon DEF Release
    <3>2. PICK r \in Runner : r = caller[c].runner /\ c \in Leases(r)  BY <1>a, <3>1, Zenon DEF CallerOK, Leases
    <3>3. runner[r].refs > 0  BY <1>a, <3>2, CountTells
    <3> QED  BY <1>a, <2>7, <3>2, <3>3, ReleaseDoes, Zenon DEF Step
  <2> QED  BY <1>1, <2>1, <2>2, <2>3, <2>4, <2>5, <2>6, <2>7, Zenon DEF CallerStep
<1>2. CASE InvalidateStep
  BY <1>a, <1>2, InvalidateDoes, InvalidateClosesDoes, Zenon DEF InvalidateStep, Step
<1>3. CASE CloseStep
  <2>1. CASE BeginClose  BY <1>a, <2>1, BeginCloseDoes, Zenon DEF Step
  <2>2. ASSUME NEW r \in Runner, CloseCloses(r) \/ CloseDrains(r) PROVE Step
    BY <1>a, <2>2, CloseClosesDoes, Zenon DEF Step
  <2>3. ASSUME NEW pc \in {"ok", "timeout"}, CloseEnds(pc) PROVE Step
    BY <1>a, <2>3, CloseEndsDoes, Zenon DEF Step
  <2> QED  BY <1>3, <2>1, <2>2, <2>3, Zenon DEF CloseStep
<1> QED  BY <1>1, <1>2, <1>3, Zenon DEF Next

-----------------------------------------------------------------------------
(* Slots *)

\* The registry starts empty.
LEMMA SlotsStart == Init => SlotInv
<1> SUFFICES ASSUME Init PROVE SlotInv  BY Zenon
<1>1. RegistryTypeOK
  <2>1. [r \in Runner |-> Unmade] \in [Runner -> Entry]  BY Zenon DEF Unmade, Entry
  <2>2. [c \in Caller |-> IdleCaller] \in [Caller -> CallerRec]  BY IdleCallerType, Zenon
  <2>3. closer \in CloserRec  BY Zenon DEF Init, CloserRec
  <2> QED  BY <2>1, <2>2, <2>3, Zenon DEF Init, RegistryTypeOK
<1>2. \A c \in Caller : caller[c].pc = "idle" /\ caller[c].todo = {}  BY Zenon DEF Init, IdleCaller
<1>3. Cached = {} /\ Building = {} /\ \A k \in Key : pending[k] = NoOne  BY Zenon DEF Init, Cached, Building
<1>4. SlotsOK
  <2>1. IsFiniteSet({}) /\ Cardinality({}) = 0  BY FS_EmptySet, Zenon
  <2> QED  BY <1>3, <2>1, RegistryAssumption DEF SlotsOK
<1> QED  BY <1>1, <1>2, <1>3, <1>4, RegistryAssumption, Zenon DEF SlotInv, CallerOK, BuildsOK, Builds

\* Fewer slots are still few enough.
LEMMA SlotsShrink ==
  ASSUME SlotsOK, Cached' \subseteq Cached, Building' \subseteq Building
  PROVE  SlotsOK'
<1>1. /\ IsFiniteSet(Cached') /\ Cardinality(Cached') <= Cardinality(Cached)
      /\ IsFiniteSet(Building') /\ Cardinality(Building') <= Cardinality(Building)
  BY FS_Subset, Zenon DEF SlotsOK
<1>2. /\ Cardinality(Cached) \in Nat /\ Cardinality(Cached') \in Nat
      /\ Cardinality(Building) \in Nat /\ Cardinality(Building') \in Nat
  BY <1>1, FS_CardinalityType, Zenon DEF SlotsOK
<1> QED  BY <1>1, <1>2, RegistryAssumption DEF SlotsOK

\* What is taken out of the map frees its slots.
LEMMA TakesShrinks ==
  ASSUME RegistryTypeOK, NEW R \in SUBSET Runner, Takes(R)
  PROVE  Cached' = {k \in Cached : entries[k] \notin R} /\ Cached' \subseteq Cached
<1>1. \A k \in Key : entries'[k] = IF entries[k] \in R THEN NoOne ELSE entries[k]  BY Zenon DEF Takes
<1> QED  BY <1>1, Zenon DEF Cached

\* The slot a miss has found free is taken by the build.
LEMMA MissSlots ==
  ASSUME RegistryTypeOK, SlotsOK, NEW c \in Caller, NEW k \in Key, NEW R \in SUBSET Runner,
         Takes(R), pending[k] = NoOne, pending' = [pending EXCEPT ![k] = c],
         slotCount(R) < MaxEntries
  PROVE  SlotsOK'
<1>1. Cached' = {l \in Cached : entries[l] \notin R} /\ Cached' \subseteq Cached  BY TakesShrinks, Zenon
<1>2. IsFiniteSet(Cached')  BY <1>1, FS_Subset, Zenon DEF SlotsOK
<1>3. Building' = Building \cup {k} /\ k \notin Building
  BY RegistryAssumption DEF Building, RegistryTypeOK
<1>4. IsFiniteSet(Building') /\ Cardinality(Building') = Cardinality(Building) + 1
  BY <1>3, FS_AddElement, Zenon DEF SlotsOK
<1>5. Cardinality(Cached') \in Nat /\ Cardinality(Building) \in Nat
  BY <1>2, FS_CardinalityType, Zenon DEF SlotsOK
<1>6. Cardinality(Cached') + Cardinality(Building) < MaxEntries  BY <1>1, Zenon DEF slotCount
<1> QED  BY <1>2, <1>4, <1>5, <1>6, RegistryAssumption DEF SlotsOK

\* The slot of a build passes to the Runner it has made.
LEMMA KeepSlots ==
  ASSUME RegistryTypeOK, SlotsOK, NEW k \in Key, NEW r \in Runner, NEW c \in Caller, Wakes(c, k),
         pending[k] # NoOne, entries' = [entries EXCEPT ![k] = r]
  PROVE  SlotsOK'
<1>1. Cached' = Cached \cup {k}  BY RegistryAssumption DEF Cached, RegistryTypeOK
<1>2. Building' = Building \ {k} /\ k \in Building  BY Zenon DEF Building, Wakes
<1>3. /\ IsFiniteSet(Cached') /\ Cardinality(Cached') <= Cardinality(Cached) + 1
      /\ Cardinality(Cached) \in Nat
  <2>1. IsFiniteSet(Cached) /\ Cardinality(Cached) \in Nat  BY FS_CardinalityType, Zenon DEF SlotsOK
  <2>2. /\ IsFiniteSet(Cached \cup {k})
        /\ Cardinality(Cached \cup {k}) = IF k \in Cached THEN Cardinality(Cached) ELSE Cardinality(Cached) + 1
    BY <2>1, FS_AddElement, Zenon
  <2> QED  BY <1>1, <2>1, <2>2
<1>4. /\ IsFiniteSet(Building') /\ Cardinality(Building') = Cardinality(Building) - 1
      /\ Cardinality(Building) \in Nat
  BY <1>2, FS_RemoveElement, FS_CardinalityType, Zenon DEF SlotsOK
<1>5. Cardinality(Cached') \in Nat /\ Cardinality(Building') \in Nat
  BY <1>3, <1>4, FS_CardinalityType, Zenon
<1> QED  BY <1>3, <1>4, <1>5, RegistryAssumption DEF SlotsOK

\* A Caller that is not building and starts no build leaves the builds alone.
LEMMA CallerKeepsBuilds ==
  ASSUME BuildsOK, RegistryTypeOK, NEW c \in Caller, OnlyCaller(c), pending' = pending,
         Builds(c)' <=> Builds(c), Builds(c) => caller'[c].key = caller[c].key,
         caller'[c].pc = "wait" => caller'[c].key \in Key /\ pending[caller'[c].key] # NoOne
  PROVE  BuildsOK'
<1>1. \A d \in Caller \ {c} : caller'[d] = caller[d]  BY Zenon DEF OnlyCaller
<1> QED  BY <1>1 DEF BuildsOK, Builds

\* The end of the build of c leaves the other builds alone.
LEMMA WakesKeepsBuilds ==
  ASSUME BuildsOK, RegistryTypeOK, NEW c \in Caller, caller[c].pc = "build",
         Wakes(c, caller[c].key), ~Builds(c)', caller'[c].pc # "wait"
  PROVE  BuildsOK'
<1>1. PICK k \in Key : k = caller[c].key /\ pending[k] = c  BY Zenon DEF BuildsOK, Builds
<1>2. /\ pending'[k] = NoOne /\ \A l \in Key \ {k} : pending'[l] = pending[l]
      /\ \A d \in Caller \ {c} :
           /\ caller'[d].key = caller[d].key /\ caller'[d].then = caller[d].then
           /\ caller'[d].pc = IF caller[d].pc = "wait" /\ caller[d].key = k THEN "retry"
                              ELSE caller[d].pc
  BY <1>1, Zenon DEF Wakes
<1>4. \A d \in Caller \ {c} : Builds(d)' <=> Builds(d)  BY <1>2, Zenon DEF Builds
<1>5. \A l \in Key \ {k} : pending[l] # c  BY <1>1, RegistryAssumption, Zenon DEF BuildsOK
<1>6. \A d \in Caller : Builds(d)' => caller'[d].key \in Key /\ pending'[caller'[d].key] = d
  BY <1>1, <1>2, <1>4 DEF BuildsOK
<1>7. \A l \in Key, d \in Caller : pending'[l] = d => Builds(d)' /\ caller'[d].key = l
  BY <1>2, <1>4, <1>5, RegistryAssumption DEF BuildsOK
<1>8. \A d \in Caller :
        caller'[d].pc = "wait" => caller'[d].key \in Key /\ pending'[caller'[d].key] # NoOne
  BY <1>1, <1>2 DEF BuildsOK
<1> QED  BY <1>6, <1>7, <1>8, Zenon DEF BuildsOK

\* Every step keeps the slots, the builds and the Callers in order.
LEMMA SlotsKeep ==
  ASSUME SlotInv, Step
  PROVE  SlotInv'
<1>a. RegistryTypeOK /\ (\A c \in Caller : CallerOK(c)) /\ BuildsOK /\ SlotsOK  BY Zenon DEF SlotInv
<1>b. UNCHANGED <<entries, pending>> => SlotsOK'  BY <1>a, Zenon DEF SlotsOK, Cached, Building
<1>1. ASSUME NEW c \in Caller, WaitEffect(c) PROVE SlotInv'
  <2>1. BuildsOK'  BY <1>a, <1>1, CallerKeepsBuilds, Zenon DEF Builds, WaitEffect
  <2>2. \A d \in Caller : CallerOK(d)'  BY <1>a, <1>1, Zenon DEF CallerOK, OnlyCaller, WaitEffect
  <2> QED  BY <1>b, <1>1, <2>1, <2>2, Zenon DEF SlotInv, WaitEffect
<1>2. ASSUME NEW c \in Caller, NEW k \in Key, NEW e \in Runner, HitEffect(c, k, e) PROVE SlotInv'
  <2>1. BuildsOK'  BY <1>a, <1>2, CallerKeepsBuilds, Zenon DEF Builds, HitEffect
  <2>2. \A d \in Caller : CallerOK(d)'  BY <1>a, <1>2, Zenon DEF CallerOK, OnlyCaller, HitEffect
  <2> QED  BY <1>b, <1>2, <2>1, <2>2, Zenon DEF SlotInv, HitEffect
<1>3. ASSUME NEW c \in Caller, NEW k \in Key, NEW out \in SUBSET Idle, MissEffect(c, k, out)
      PROVE  SlotInv'
  <2>1. out \subseteq Runner  BY Zenon DEF Idle
  <2>2. \A d \in Caller : CallerOK(d)'  BY <1>a, <1>3, Zenon DEF CallerOK, OnlyCaller, MissEffect
  <2>3. CASE pending' = pending /\ caller'[c].then = "idle"
    <3>1. BuildsOK'  BY <1>a, <1>3, <2>3, CallerKeepsBuilds, Zenon DEF Builds, MissEffect
    <3>2. Building' = Building  BY <2>3, Zenon DEF Building
    <3>3. SlotsOK'  BY <1>a, <1>3, <2>1, <3>2, TakesShrinks, SlotsShrink, Zenon DEF MissEffect
    <3> QED  BY <1>3, <2>2, <3>1, <3>3, Zenon DEF SlotInv, MissEffect
  <2>4. CASE slotCount(out) < MaxEntries /\ caller'[c].then = "build"
             /\ pending' = [pending EXCEPT ![k] = c] /\ caller'[c].key = k
    <3>1. SlotsOK'  BY <1>a, <1>3, <2>1, <2>4, MissSlots, Zenon DEF MissEffect
    <3>2. /\ pending'[k] = c /\ \A l \in Key \ {k} : pending'[l] = pending[l]
          /\ \A d \in Caller \ {c} : caller'[d] = caller[d] /\ (Builds(d)' <=> Builds(d))
          /\ Builds(c)' /\ ~Builds(c) /\ caller'[c].pc # "wait"
      BY <1>a, <1>3, <2>4, Zenon DEF RegistryTypeOK, OnlyCaller, Builds, MissEffect
    <3>3. \A l \in Key : pending[l] # c  BY <1>a, <3>2, Zenon DEF BuildsOK
    <3>4. \A d \in Caller : Builds(d)' => caller'[d].key \in Key /\ pending'[caller'[d].key] = d
      BY <1>a, <1>3, <2>4, <3>2, RegistryAssumption DEF BuildsOK, MissEffect
    <3>5. \A l \in Key, d \in Caller : pending'[l] = d => Builds(d)' /\ caller'[d].key = l
      BY <1>a, <2>4, <3>2, <3>3 DEF BuildsOK
    <3>6. \A d \in Caller :
            caller'[d].pc = "wait" => caller'[d].key \in Key /\ pending'[caller'[d].key] # NoOne
      BY <1>a, <3>2, RegistryAssumption DEF BuildsOK
    <3>7. BuildsOK'  BY <3>4, <3>5, <3>6, Zenon DEF BuildsOK
    <3> QED  BY <1>3, <2>2, <3>1, <3>7, Zenon DEF SlotInv, MissEffect
  <2> QED  BY <1>3, <2>3, <2>4, Zenon DEF MissEffect
<1>4. ASSUME NEW c \in Caller, NEW r \in Runner, CallerClosesEffect(c, r) PROVE SlotInv'
  <2>1. BuildsOK'  BY <1>a, <1>4, CallerKeepsBuilds, Zenon DEF Builds, CallerClosesEffect
  <2>2. \A d \in Caller : CallerOK(d)'  BY <1>a, <1>4, Zenon DEF CallerOK, OnlyCaller, CallerClosesEffect
  <2> QED  BY <1>b, <1>4, <2>1, <2>2, Zenon DEF SlotInv, CallerClosesEffect
<1>5. ASSUME NEW c \in Caller, caller[c].pc = "build", Wakes(c, caller[c].key), ~Builds(c)', CallerOK(c)'
      PROVE  (\A d \in Caller : CallerOK(d)') /\ Building' \subseteq Building
  <2>1. \A d \in Caller \ {c} : CallerOK(d)'  BY <1>a, <1>5 DEF CallerOK, Wakes
  <2>2. Building' \subseteq Building
    <3>1. PICK k \in Key : k = caller[c].key  BY <1>a, <1>5, Zenon DEF BuildsOK, Builds
    <3> QED  BY <1>5, <3>1, Zenon DEF Wakes, Building
  <2> QED  BY <1>5, <2>1, <2>2, Zenon
<1>6. ASSUME NEW c \in Caller, NEW k \in Key, FailEffect(c, k) PROVE SlotInv'
  <2>1. BuildsOK'  BY <1>a, <1>6, WakesKeepsBuilds, Zenon DEF Builds, FailEffect
  <2>2. (\A d \in Caller : CallerOK(d)') /\ Building' \subseteq Building  BY <1>5, <1>6, Zenon DEF Builds, CallerOK, FailEffect
  <2>3. SlotsOK'  BY <1>a, <1>6, <2>2, SlotsShrink, Zenon DEF Cached, FailEffect
  <2> QED  BY <1>6, <2>1, <2>2, <2>3, Zenon DEF SlotInv, FailEffect
<1>7. ASSUME NEW c \in Caller, NEW k \in Key, NEW r \in Runner, KeepEffect(c, k, r) PROVE SlotInv'
  <2>1. BuildsOK'  BY <1>a, <1>7, WakesKeepsBuilds, Zenon DEF Builds, KeepEffect
  <2>2. \A d \in Caller : CallerOK(d)'  BY <1>5, <1>7, Zenon DEF Builds, CallerOK, KeepEffect
  <2>3. pending[caller[c].key] # NoOne  BY <1>a, <1>7, RegistryAssumption, SMTT(30) DEF BuildsOK, Builds, KeepEffect
  <2>4. SlotsOK'  BY <1>a, <1>7, <2>3, KeepSlots, Zenon DEF KeepEffect
  <2> QED  BY <1>7, <2>1, <2>2, <2>4, Zenon DEF SlotInv, KeepEffect
<1>8. ASSUME NEW c \in Caller, NEW k \in Key, NEW r \in Runner, DiscardEffect(c, k, r)
      PROVE  SlotInv'
  <2>1. BuildsOK'  BY <1>a, <1>8, WakesKeepsBuilds, Zenon DEF Builds, DiscardEffect
  <2>2. (\A d \in Caller : CallerOK(d)') /\ Building' \subseteq Building  BY <1>5, <1>8, Zenon DEF Builds, CallerOK, DiscardEffect
  <2>3. SlotsOK'  BY <1>a, <1>8, <2>2, SlotsShrink, Zenon DEF Cached, DiscardEffect
  <2> QED  BY <1>8, <2>1, <2>2, <2>3, Zenon DEF SlotInv, DiscardEffect
<1>9. ASSUME NEW c \in Caller, NEW r \in Runner, ReleaseEffect(c, r) PROVE SlotInv'
  <2>1. BuildsOK'  BY <1>a, <1>9, CallerKeepsBuilds, Zenon DEF Builds, ReleaseEffect
  <2>2. \A d \in Caller : CallerOK(d)'  BY <1>a, <1>9, Zenon DEF CallerOK, OnlyCaller, ReleaseEffect
  <2> QED  BY <1>b, <1>9, <2>1, <2>2, Zenon DEF SlotInv, ReleaseEffect
<1>10. ASSUME RegistryTypeOK', UNCHANGED <<pending, caller>>, Cached' \subseteq Cached PROVE SlotInv'
  <2>1. BuildsOK' /\ Building' = Building  BY <1>10, <1>a, Zenon DEF BuildsOK, Builds, Building
  <2>2. \A d \in Caller : CallerOK(d)'  BY <1>10, <1>a, Zenon DEF CallerOK
  <2>3. SlotsOK'  BY <1>10, <1>a, <2>1, SlotsShrink, Zenon
  <2> QED  BY <1>10, <2>1, <2>2, <2>3, Zenon DEF SlotInv
<1>11. ASSUME NEW K \in SUBSET Key, NEW out \in SUBSET Runner, InvalidateEffect(K, out)
      PROVE  SlotInv'
  BY <1>10, <1>11, <1>a, TakesShrinks, Zenon DEF InvalidateEffect
<1>12. ASSUME NEW r \in Runner, InvalidateClosesEffect(r) PROVE SlotInv'
  BY <1>10, <1>12, <1>a, Zenon DEF InvalidateClosesEffect, Cached
<1>13. ASSUME NEW out \in SUBSET Runner, BeginCloseEffect(out) PROVE SlotInv'
  BY <1>10, <1>13, <1>a, TakesShrinks, Zenon DEF BeginCloseEffect
<1>14. ASSUME NEW r \in Runner, CloseClosesEffect(r) PROVE SlotInv'
  BY <1>10, <1>14, <1>a, Zenon DEF CloseClosesEffect, Cached
<1>15. ASSUME NEW pc \in {"ok", "timeout"}, CloseEndsEffect(pc) PROVE SlotInv'
  BY <1>10, <1>15, <1>a, Zenon DEF CloseEndsEffect, Cached
<1> QED  BY <1>1, <1>2, <1>3, <1>4, <1>6, <1>7, <1>8, <1>9, <1>11, <1>12, <1>13, <1>14, <1>15, Zenon DEF Step

-----------------------------------------------------------------------------
(* Leases *)

\* Nothing is lent by the new registry.
LEMMA LeasesStart == Init => LeaseInv
<1> SUFFICES ASSUME Init PROVE LeaseInv  BY Zenon
<1>1. /\ \A c \in Caller : caller[c].pc = "idle" /\ caller[c].todo = {}
      /\ \A r \in Runner : runner[r].refs = 0
      /\ \A k \in Key : entries[k] = NoOne
      /\ inval = {} /\ closer.todo = {} /\ closer.pc = "open" /\ ~closed
  BY Zenon DEF Init, IdleCaller, Unmade
<1>2. \A r \in Runner : Leases(r) = {} /\ ~Listed(r)  BY <1>1, Zenon DEF Leases, Listed
<1>3. \A r \in Runner : Lent(r)  BY <1>1, <1>2, FS_EmptySet, Zenon DEF Lent
<1> QED  BY <1>1, <1>2, <1>3, SlotsStart, Zenon DEF LeaseInv, InMapIsOpen, ListedIsFree, ClosedIsEmpty

\* Callers that neither take nor return a lease leave the leases alone.
LEMMA LeasesStay ==
  ASSUME \A c \in Caller : /\ caller'[c].pc = "leased" <=> caller[c].pc = "leased"
                           /\ caller[c].pc = "leased" => caller'[c].runner = caller[c].runner
  PROVE  \A r \in Runner : Leases(r)' = Leases(r)
  BY Zenon DEF Leases

\* The count stays right while neither it nor the leases change.
LEMMA LentStays ==
  ASSUME NEW r \in Runner, Lent(r), Leases(r)' = Leases(r), runner'[r].refs = runner[r].refs,
         Leases(r) # {} => runner'[r].state = runner[r].state
  PROVE  Lent(r)'
  BY Zenon DEF Lent

\* Taking Runners out of the map, and listing the ones nobody has borrowed.
LEMMA TakesKeeps ==
  ASSUME LeaseInv, NEW R \in SUBSET Runner, Takes(R), \A r \in R : InMap(r),
         \A r \in Runner : Leases(r)' = Leases(r),
         \A r \in Runner : Listed(r)' => Listed(r) \/ (r \in R /\ runner[r].refs = 0)
  PROVE  (\A r \in Runner : Lent(r)') /\ InMapIsOpen' /\ ListedIsFree'
<1>a. /\ \A r \in Runner : Lent(r)
      /\ InMapIsOpen /\ ListedIsFree /\ RegistryTypeOK
  BY Zenon DEF LeaseInv, SlotInv
<1>1. /\ \A k \in Key : entries'[k] = IF entries[k] \in R THEN NoOne ELSE entries[k]
      /\ \A r \in Runner : /\ runner'[r].state = runner[r].state
                           /\ runner'[r].refs = runner[r].refs
                           /\ runner'[r].dropped <=> (runner[r].dropped \/ r \in R)
  BY Zenon DEF Takes
<1>2. \A r \in Runner : Lent(r)'  BY <1>a, <1>1, LentStays, Zenon
<1>3. InMapIsOpen'
  <2> SUFFICES ASSUME NEW k \in Key, entries'[k] # NoOne
               PROVE  runner'[entries'[k]].state = "open" /\ ~runner'[entries'[k]].dropped
    BY Zenon DEF InMapIsOpen
  <2>1. entries'[k] = entries[k] /\ entries[k] \in Runner /\ entries[k] \notin R
    BY <1>1, <1>a, SMTT(30) DEF RegistryTypeOK
  <2>2. runner[entries[k]].state = "open" /\ ~runner[entries[k]].dropped  BY <1>a, <2>1, Zenon DEF InMapIsOpen
  <2> QED  BY <1>1, <2>1, <2>2, Zenon
<1>4. \A r \in Runner : InMap(r)' => InMap(r) /\ r \notin R
  <2>1. \A k \in Key, r \in Runner : entries'[k] = r => entries[k] = r /\ r \notin R
    BY <1>1, RegistryAssumption
  <2> QED  BY <2>1, Zenon DEF InMap
<1>5. \A r \in Runner : InMap(r) => runner[r].state = "open"  BY <1>a, RegistryAssumption DEF InMap, InMapIsOpen
<1>6. ListedIsFree'
  <2> SUFFICES ASSUME NEW r \in Runner, Listed(r)'
               PROVE  Leases(r)' = {} /\ runner'[r].state # "unmade" /\ ~InMap(r)'
    BY Zenon DEF ListedIsFree
  <2>1. CASE Listed(r)  BY <1>1, <1>4, <1>a, <2>1, Zenon DEF ListedIsFree
  <2>2. CASE r \in R /\ runner[r].refs = 0
    <3>1. Leases(r) = {}  BY <1>a, <2>2, CountTells, Zenon
    <3> QED  BY <1>1, <1>4, <1>5, <2>2, <3>1, Zenon
  <2> QED  BY <2>1, <2>2, Zenon
<1> QED  BY <1>2, <1>3, <1>6, Zenon

\* Closing a Runner that is neither lent nor in the map.
LEMMA ShutsKeeps ==
  ASSUME LeaseInv, NEW r \in Runner, Shuts(r), Leases(r) = {}, ~InMap(r), entries' = entries,
         \A q \in Runner : Leases(q)' = Leases(q),
         \A q \in Runner : Listed(q)' => Listed(q)
  PROVE  (\A q \in Runner : Lent(q)') /\ InMapIsOpen' /\ ListedIsFree'
<1>a. /\ \A q \in Runner : Lent(q)
      /\ InMapIsOpen /\ ListedIsFree /\ RegistryTypeOK
  BY Zenon DEF LeaseInv, SlotInv
<1>1. /\ runner'[r].state = "closed"
      /\ \A q \in Runner : /\ q # r => runner'[q].state = runner[q].state
                           /\ runner'[q].refs = runner[q].refs
                           /\ runner'[q].dropped = runner[q].dropped
  BY Zenon DEF Shuts
<1>2. \A q \in Runner : Lent(q)'  BY <1>a, <1>1, LentStays, Zenon
<1>3. InMapIsOpen'
  <2>1. \A k \in Key : entries[k] # r  BY Zenon DEF InMap
  <2>2. \A k \in Key : entries[k] # NoOne => entries[k] \in Runner  BY <1>a, Zenon DEF RegistryTypeOK
  <2> QED  BY <1>1, <1>a, <2>1, <2>2, Zenon DEF InMapIsOpen
<1>4. \A q \in Runner : InMap(q)' <=> InMap(q)  BY Zenon DEF InMap
<1>5. ListedIsFree'  BY <1>1, <1>4, <1>a, Zenon DEF ListedIsFree
<1> QED  BY <1>2, <1>3, <1>5, Zenon

\* A step that touches neither the map nor a Runner.
LEMMA RunnersStay ==
  ASSUME LeaseInv, UNCHANGED <<entries, runner>>,
         \A r \in Runner : Leases(r)' = Leases(r),
         \A r \in Runner : Listed(r)' => Listed(r)
  PROVE  (\A r \in Runner : Lent(r)') /\ InMapIsOpen' /\ ListedIsFree'
<1>1. \A r \in Runner : Lent(r)'  BY LentStays, Zenon DEF LeaseInv
<1>2. \A r \in Runner : InMap(r)' <=> InMap(r)  BY Zenon DEF InMap
<1> QED  BY <1>1, <1>2, Zenon DEF LeaseInv, InMapIsOpen, ListedIsFree

\* Every step keeps the count of every Runner right, and closes none that is lent.
LEMMA LeasesKeep ==
  ASSUME LeaseInv, Next
  PROVE  LeaseInv'
<1>a. /\ RegistryTypeOK /\ BuildsOK /\ SlotInv
      /\ \A c \in Caller : CallerOK(c)
      /\ \A r \in Runner : Lent(r)
      /\ InMapIsOpen /\ ListedIsFree /\ ClosedIsEmpty
  BY Zenon DEF LeaseInv, SlotInv
<1>b. Step  BY NextIsStep, Zenon
<1>c. SlotInv'  BY <1>a, <1>b, SlotsKeep, Zenon
<1>d. \A r \in Runner : runner[r].state = "unmade" => Leases(r) = {} /\ ~Listed(r) /\ ~InMap(r)
  <2>1. \A r \in Runner : InMap(r) => runner[r].state = "open"  BY <1>a, RegistryAssumption, Zenon DEF InMap, InMapIsOpen
  <2> QED  BY <1>a, <2>1, Zenon DEF Lent, ListedIsFree
<1>e. UNCHANGED <<entries, closed, closer>> => ClosedIsEmpty'  BY <1>a DEF ClosedIsEmpty, Cached
<1>1. ASSUME NEW c \in Caller, WaitEffect(c) PROVE LeaseInv'
  <2>1. \A r \in Runner : Leases(r)' = Leases(r)  BY <1>1, LeasesStay, Zenon DEF OnlyCaller, WaitEffect
  <2>2. \A r \in Runner : Listed(r)' => Listed(r)  BY <1>1, Zenon DEF OnlyCaller, Listed, WaitEffect
  <2> QED  BY <1>c, <1>e, <1>1, <2>1, <2>2, RunnersStay, Zenon DEF LeaseInv, WaitEffect
<1>2. ASSUME NEW c \in Caller, NEW k \in Key, NEW e \in Runner, HitEffect(c, k, e) PROVE LeaseInv'
  <2>1. /\ Leases(e)' = Leases(e) \cup {c} /\ c \notin Leases(e)
        /\ \A r \in Runner \ {e} : Leases(r)' = Leases(r)
    BY <1>2, Zenon DEF Leases, OnlyCaller, HitEffect
  <2>2. \A r \in Runner : Listed(r)' => Listed(r)  BY <1>2, Zenon DEF OnlyCaller, Listed, HitEffect
  <2>3. InMap(e) /\ runner[e].state = "open"  BY <1>a, <1>2, RegistryAssumption, Zenon DEF InMap, InMapIsOpen, HitEffect
  <2>4. /\ runner'[e].refs = runner[e].refs + 1
        /\ \A r \in Runner : /\ r # e => runner'[r].refs = runner[r].refs
                             /\ runner'[r].state = runner[r].state
                             /\ runner'[r].dropped = runner[r].dropped
    BY <1>2, Zenon DEF Counts, HitEffect
  <2>5. Lent(e)'
    <3>1. IsFiniteSet(Leases(e)) /\ runner[e].refs = Cardinality(Leases(e))  BY <1>a, Zenon DEF Lent
    <3>2. IsFiniteSet(Leases(e)') /\ Cardinality(Leases(e)') = Cardinality(Leases(e)) + 1
      BY <2>1, <3>1, FS_AddElement, Zenon
    <3> QED  BY <2>3, <2>4, <3>1, <3>2, Zenon DEF Lent
  <2>6. \A r \in Runner : Lent(r)'  BY <1>a, <2>1, <2>4, <2>5, LentStays, Zenon
  <2>7. \A r \in Runner : InMap(r)' <=> InMap(r)  BY <1>2, Zenon DEF InMap, HitEffect
  <2>8. InMapIsOpen'  BY <1>a, <1>2, <2>4 DEF InMapIsOpen, RegistryTypeOK, HitEffect
  <2>9. ListedIsFree'  BY <1>a, <2>1, <2>2, <2>3, <2>4, <2>7, Zenon DEF ListedIsFree
  <2> QED  BY <1>c, <1>e, <1>2, <2>6, <2>8, <2>9, Zenon DEF LeaseInv, HitEffect
<1>3. ASSUME NEW c \in Caller, NEW k \in Key, NEW out \in SUBSET Idle, MissEffect(c, k, out)
      PROVE  LeaseInv'
  <2>1. out \subseteq Runner /\ \A r \in out : InMap(r) /\ runner[r].refs = 0  BY Zenon DEF Idle, InMap
  <2>2. \A r \in Runner : Leases(r)' = Leases(r)  BY <1>3, LeasesStay, Zenon DEF OnlyCaller, MissEffect
  <2>3. \A r \in Runner : Listed(r)' => Listed(r) \/ (r \in out /\ runner[r].refs = 0)
    BY <1>3, <2>1, Zenon DEF OnlyCaller, Listed, MissEffect
  <2>4. ClosedIsEmpty'  BY <1>a, <1>3, Zenon DEF ClosedIsEmpty, MissEffect
  <2> QED  BY <1>c, <1>3, <2>1, <2>2, <2>3, <2>4, TakesKeeps, Zenon DEF LeaseInv, MissEffect
<1>4. ASSUME NEW c \in Caller, NEW r \in Runner, CallerClosesEffect(c, r) PROVE LeaseInv'
  <2>1. \A q \in Runner : Leases(q)' = Leases(q)  BY <1>4, LeasesStay, Zenon DEF OnlyCaller, CallerClosesEffect
  <2>2. \A q \in Runner : Listed(q)' => Listed(q)  BY <1>4, Zenon DEF OnlyCaller, Listed, CallerClosesEffect
  <2>3. Leases(r) = {} /\ ~InMap(r)  BY <1>a, <1>4, Zenon DEF ListedIsFree, Listed, CallerClosesEffect
  <2> QED  BY <1>c, <1>e, <1>4, <2>1, <2>2, <2>3, ShutsKeeps, Zenon DEF LeaseInv, CallerClosesEffect
<1>5. ASSUME NEW c \in Caller, NEW k \in Key, FailEffect(c, k) PROVE LeaseInv'
  <2>1. \A r \in Runner : Leases(r)' = Leases(r)  BY <1>5, LeasesStay, Zenon DEF Wakes, FailEffect
  <2>2. \A r \in Runner : Listed(r)' => Listed(r)  BY <1>5, Zenon DEF Wakes, Listed, FailEffect
  <2> QED  BY <1>c, <1>e, <1>5, <2>1, <2>2, RunnersStay, Zenon DEF LeaseInv, FailEffect
<1>6. ASSUME NEW c \in Caller, NEW k \in Key, NEW r \in Runner, KeepEffect(c, k, r) PROVE LeaseInv'
  <2>1. Leases(r) = {} /\ ~Listed(r) /\ ~InMap(r)  BY <1>d, <1>6, Zenon DEF Makes, KeepEffect
  <2>2. Leases(r)' = {c} /\ \A q \in Runner \ {r} : Leases(q)' = Leases(q)
    BY <1>6, <2>1, SMTT(30) DEF Leases, Wakes, KeepEffect
  <2>3. \A q \in Runner : Listed(q)' => Listed(q)  BY <1>6, Zenon DEF Wakes, Listed, KeepEffect
  <2>4. /\ runner'[r].refs = 1 /\ runner'[r].state = "open" /\ ~runner'[r].dropped
        /\ \A q \in Runner \ {r} : runner'[q] = runner[q]
    BY <1>6, Zenon DEF Makes, KeepEffect
  <2>5. Lent(r)'  BY <2>2, <2>4, FS_Singleton, Zenon DEF Lent
  <2>6. \A q \in Runner : Lent(q)'  BY <1>a, <2>2, <2>4, <2>5, LentStays, Zenon
  <2>7. entries'[k] = r /\ \A l \in Key \ {k} : entries'[l] = entries[l] /\ entries[l] # r
    BY <1>a, <1>6, <2>1, Zenon DEF RegistryTypeOK, InMap, KeepEffect
  <2>8. InMapIsOpen'
    <3>1. \A l \in Key : entries[l] # NoOne => entries[l] \in Runner  BY <1>a, Zenon DEF RegistryTypeOK
    <3> QED  BY <1>a, <2>4, <2>7, <3>1 DEF InMapIsOpen
  <2>9. \A q \in Runner \ {r} : InMap(q)' => InMap(q)  BY <2>7, Zenon DEF InMap
  <2>10. ListedIsFree'  BY <1>a, <2>1, <2>2, <2>3, <2>4, <2>9, Zenon DEF ListedIsFree
  <2>11. ClosedIsEmpty'  BY <1>a, <1>6, Zenon DEF ClosedIsEmpty, KeepEffect
  <2> QED  BY <1>c, <2>6, <2>8, <2>10, <2>11, Zenon DEF LeaseInv
<1>7. ASSUME NEW c \in Caller, NEW k \in Key, NEW r \in Runner, DiscardEffect(c, k, r)
      PROVE  LeaseInv'
  <2>1. Leases(r) = {} /\ ~Listed(r) /\ ~InMap(r)  BY <1>d, <1>7, Zenon DEF Makes, DiscardEffect
  <2>2. \A q \in Runner : Leases(q)' = Leases(q)  BY <1>7, LeasesStay, Zenon DEF Wakes, DiscardEffect
  <2>3. \A q \in Runner : Listed(q)' => Listed(q) \/ q = r  BY <1>7, Zenon DEF Wakes, Listed, DiscardEffect
  <2>4. /\ runner'[r].refs = 0 /\ runner'[r].state = "open"
        /\ \A q \in Runner \ {r} : runner'[q] = runner[q]
    BY <1>7, Zenon DEF Makes, DiscardEffect
  <2>5. Lent(r)'  BY <2>1, <2>2, <2>4, FS_EmptySet, Zenon DEF Lent
  <2>6. \A q \in Runner : Lent(q)'  BY <1>a, <2>2, <2>4, <2>5, LentStays, Zenon
  <2>7. \A l \in Key : entries[l] # NoOne => entries[l] \in Runner /\ entries[l] # r
    BY <1>a, <2>1, Zenon DEF RegistryTypeOK, InMap
  <2>8. InMapIsOpen'  BY <1>a, <1>7, <2>4, <2>7, Zenon DEF InMapIsOpen, DiscardEffect
  <2>9. \A q \in Runner : InMap(q)' => InMap(q)  BY <1>7, Zenon DEF InMap, DiscardEffect
  <2>10. ListedIsFree'  BY <1>a, <2>1, <2>2, <2>3, <2>4, <2>9, Zenon DEF ListedIsFree
  <2> QED  BY <1>c, <1>e, <1>7, <2>6, <2>8, <2>10, Zenon DEF LeaseInv, DiscardEffect
<1>8. ASSUME NEW c \in Caller, NEW r \in Runner, ReleaseEffect(c, r) PROVE LeaseInv'
  <2>1. /\ Leases(r)' = Leases(r) \ {c} /\ c \in Leases(r)
        /\ \A q \in Runner \ {r} : Leases(q)' = Leases(q)
    BY <1>8, Zenon DEF Leases, OnlyCaller, ReleaseEffect
  <2>2. /\ runner'[r].refs = runner[r].refs - 1
        /\ \A q \in Runner : /\ q # r => runner'[q].refs = runner[q].refs
                             /\ runner'[q].state = runner[q].state
                             /\ runner'[q].dropped = runner[q].dropped
    BY <1>8, Zenon DEF Counts, ReleaseEffect
  <2>3. Lent(r)'
    <3>1. IsFiniteSet(Leases(r)) /\ runner[r].refs = Cardinality(Leases(r)) /\ runner[r].state = "open"
      BY <1>a, <2>1, Zenon DEF Lent
    <3>2. IsFiniteSet(Leases(r)') /\ Cardinality(Leases(r)') = Cardinality(Leases(r)) - 1
      BY <2>1, <3>1, FS_RemoveElement, Zenon
    <3> QED  BY <2>2, <3>1, <3>2, Zenon DEF Lent
  <2>4. \A q \in Runner : Lent(q)'  BY <1>a, <2>1, <2>2, <2>3, LentStays, Zenon
  <2>5. \A q \in Runner : InMap(q)' <=> InMap(q)  BY <1>8, Zenon DEF InMap, ReleaseEffect
  <2>6. InMapIsOpen'  BY <1>a, <1>8, <2>2, SMTT(30) DEF InMapIsOpen, RegistryTypeOK, ReleaseEffect
  <2>7. \A q \in Runner : Listed(q)' => Listed(q) \/ (q = r /\ runner[r].refs = 1 /\ (runner[r].dropped \/ closed))
    BY <1>8, Zenon DEF OnlyCaller, Listed, ReleaseEffect
  <2>8. \A q \in Runner : Leases(q) = {} => Leases(q)' = {}  BY <2>1, Zenon
  <2>9. ASSUME runner[r].refs = 1, runner[r].dropped \/ closed
         PROVE  Leases(r)' = {} /\ runner[r].state # "unmade" /\ ~InMap(r)
    <3>1. Leases(r)' = {}  BY <1>a, <2>1, <2>9, CountTells, Zenon
    <3>2. runner[r].state = "open"  BY <1>a, <2>1, Zenon DEF Lent
    <3>3. ~InMap(r)  BY <1>a, <2>9, RegistryAssumption, Zenon DEF InMapIsOpen, InMap, ClosedIsEmpty, Cached
    <3> QED  BY <3>1, <3>2, <3>3, Zenon
  <2>10. ListedIsFree'  BY <1>a, <2>2, <2>5, <2>7, <2>8, <2>9, Zenon DEF ListedIsFree
  <2> QED  BY <1>c, <1>e, <1>8, <2>4, <2>6, <2>10, Zenon DEF LeaseInv, ReleaseEffect
<1>9. ASSUME NEW K \in SUBSET Key, NEW out \in SUBSET Runner, InvalidateEffect(K, out)
      PROVE  LeaseInv'
  <2>1. \A r \in Runner : Leases(r)' = Leases(r)  BY <1>9, Zenon DEF Leases, InvalidateEffect
  <2>2. \A r \in Runner : Listed(r)' => Listed(r) \/ (r \in out /\ runner[r].refs = 0)
    BY <1>9, Zenon DEF Listed, InvalidateEffect
  <2>3. ClosedIsEmpty'  BY <1>a, <1>9, Zenon DEF ClosedIsEmpty, InvalidateEffect
  <2> QED  BY <1>c, <1>9, <2>1, <2>2, <2>3, TakesKeeps, Zenon DEF LeaseInv, InvalidateEffect
<1>10. ASSUME NEW r \in Runner, InvalidateClosesEffect(r) PROVE LeaseInv'
  <2>1. \A q \in Runner : Leases(q)' = Leases(q)  BY <1>10, Zenon DEF Leases, InvalidateClosesEffect
  <2>2. \A q \in Runner : Listed(q)' => Listed(q)  BY <1>10, Zenon DEF Listed, InvalidateClosesEffect
  <2>3. Leases(r) = {} /\ ~InMap(r)  BY <1>a, <1>10, Zenon DEF ListedIsFree, Listed, InvalidateClosesEffect
  <2> QED  BY <1>c, <1>e, <1>10, <2>1, <2>2, <2>3, ShutsKeeps, Zenon DEF LeaseInv, InvalidateClosesEffect
<1>11. ASSUME NEW out \in SUBSET Runner, BeginCloseEffect(out) PROVE LeaseInv'
  <2>1. \A r \in Runner : Leases(r)' = Leases(r)  BY <1>11, Zenon DEF Leases, BeginCloseEffect
  <2>2. \A r \in Runner : Listed(r)' => Listed(r) \/ (r \in out /\ runner[r].refs = 0)
    BY <1>11, Zenon DEF Listed, BeginCloseEffect
  <2>3. ClosedIsEmpty'  BY <1>11, Zenon DEF ClosedIsEmpty, Cached, BeginCloseEffect
  <2> QED  BY <1>c, <1>11, <2>1, <2>2, <2>3, TakesKeeps, Zenon DEF LeaseInv, BeginCloseEffect
<1>12. ASSUME NEW r \in Runner, CloseClosesEffect(r) PROVE LeaseInv'
  <2>1. \A q \in Runner : Leases(q)' = Leases(q)  BY <1>12, Zenon DEF Leases, CloseClosesEffect
  <2>2. \A q \in Runner : Listed(q)' => Listed(q)  BY <1>12, Zenon DEF Listed, CloseClosesEffect
  <2>3. Leases(r) = {}  BY <1>a, <1>12, CountTells, Zenon DEF ListedIsFree, Listed, CloseClosesEffect
  <2>4. ~InMap(r)  BY <1>a, <1>12, RegistryAssumption, Zenon DEF ClosedIsEmpty, InMap, Cached, CloseClosesEffect
  <2>5. ClosedIsEmpty'  BY <1>a, <1>12, Zenon DEF ClosedIsEmpty, Cached, CloseClosesEffect
  <2> QED  BY <1>c, <1>12, <2>1, <2>2, <2>3, <2>4, <2>5, ShutsKeeps, Zenon DEF LeaseInv, CloseClosesEffect
<1>13. ASSUME NEW pc \in {"ok", "timeout"}, CloseEndsEffect(pc) PROVE LeaseInv'
  <2>1. \A r \in Runner : Leases(r)' = Leases(r)  BY <1>13, Zenon DEF Leases, CloseEndsEffect
  <2>2. \A r \in Runner : Listed(r)' => Listed(r)  BY <1>13, Zenon DEF Listed, CloseEndsEffect
  <2>3. ClosedIsEmpty'  BY <1>a, <1>13, Zenon DEF ClosedIsEmpty, Cached, CloseEndsEffect
  <2> QED  BY <1>c, <1>13, <2>1, <2>2, <2>3, RunnersStay, Zenon DEF LeaseInv, CloseEndsEffect
<1> QED  BY <1>1, <1>2, <1>3, <1>4, <1>5, <1>6, <1>7, <1>8, <1>9, <1>10, <1>11, <1>12, <1>13, <1>b, Zenon DEF Step

\* Every step, or none.
LEMMA LeaseInvKeeps == LeaseInv /\ [Next]_vars => LeaseInv'
<1> SUFFICES ASSUME LeaseInv, UNCHANGED vars PROVE LeaseInv'  BY LeasesKeep, Zenon
<1>1. UNCHANGED <<entries, pending, spoiled, closed, runner, older, caller, inval, closer, gen, abandoned>>
  BY Zenon DEF vars
<1>2. SlotInv  BY Zenon DEF LeaseInv
<1>3. RegistryTypeOK'  BY <1>1, <1>2, Zenon DEF SlotInv, RegistryTypeOK
<1>4. \A c \in Caller : CallerOK(c)'  BY <1>1, <1>2, Zenon DEF SlotInv, CallerOK
<1>5. BuildsOK'  BY <1>1, <1>2, Zenon DEF SlotInv, BuildsOK, Builds
<1>6. SlotsOK'  BY <1>1, <1>2, Zenon DEF SlotInv, SlotsOK, Cached, Building
<1>7. \A r \in Runner : Leases(r)' = Leases(r) /\ (Listed(r)' => Listed(r))  BY <1>1, Zenon DEF Leases, Listed
<1>8. (\A r \in Runner : Lent(r)') /\ InMapIsOpen' /\ ListedIsFree'  BY <1>1, <1>7, RunnersStay, Zenon
<1>9. ClosedIsEmpty'  BY <1>1, Zenon DEF LeaseInv, ClosedIsEmpty, Cached
<1> QED  BY <1>3, <1>4, <1>5, <1>6, <1>8, <1>9, Zenon DEF LeaseInv, SlotInv

\* Whatever the interleaving of acquisitions, evictions, invalidations, releases
\* and Close: a lent Runner is open, and its reference count is the number of its
\* leases.
THEOREM LeasedStaysOpen == Spec => []LeasedIsOpen
<1>1. LeaseInv => LeasedIsOpen  BY Zenon DEF LeaseInv, Lent, LeasedIsOpen
<1> QED  BY LeasesStart, LeaseInvKeeps, <1>1, PTL DEF Spec

\* The map and the builds never hold more than MaxEntries slots, each build is run
\* by the Caller it is announced for, and nobody waits for a build that is over.
THEOREM SlotsAreBounded == Spec => []SlotsBounded
<1>1. LeaseInv => SlotsBounded  BY DEF LeaseInv, SlotInv, SlotsOK, BuildsOK, Builds, SlotsBounded
<1> QED  BY LeasesStart, LeaseInvKeeps, <1>1, PTL DEF Spec

=============================================================================
