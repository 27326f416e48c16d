--------------------------- MODULE RunnerRegistry ---------------------------
(***************************************************************************)
(* gateway.RunnerRegistry: a cache of Runners shared by reference-counted   *)
(* leases. Acquire, Release, Invalidate and Close each hold the mutex for a *)
(* short section and do the slow work (building a Runner, closing Runners,  *)
(* waiting) outside it; every such section is one action here.              *)
(*                                                                         *)
(* A cache key is a model value; a Runner is an identity that is made once, *)
(* open, and then closed. The clock only decides which of the unborrowed     *)
(* entries have passed the idle TTL: some of them, and every older one.      *)
(***************************************************************************)
EXTENDS Naturals, FiniteSets

CONSTANTS
  Key,              \* runtime.CacheKey
  Caller,           \* goroutines that Acquire and Release
  Runner,           \* Runners the factory can make; bounds the builds that succeed
  NoOne,            \* nil
  MaxEntries,       \* RunnerRegistryConfig.MaxEntries
  MaxInvalidations  \* bound: calls of Invalidate and InvalidateMatching

ASSUME RegistryAssumption ==
  /\ NoOne \notin Runner \cup Caller
  /\ MaxEntries \in Nat \ {0}
  /\ MaxInvalidations \in Nat

VARIABLES
  entries,    \* Key -> Runner or NoOne
  pending,    \* Key -> the Caller building it, or NoOne
  spoiled,    \* keys whose pending build is invalidated
  closed,     \* RunnerRegistry.closed
  runner,     \* Runner -> runnerEntry
  older,      \* pairs of unborrowed Runners, the less recently used one first
  caller,     \* Caller -> where its Acquire or Release stands
  inval,      \* Runners the running Invalidate still has to close
  closer,     \* where Close stands
  gen,        \* history: Key -> how often it has been invalidated
  abandoned   \* history: Runners an Invalidate dropped and did not close

vars == <<entries, pending, spoiled, closed, runner, older, caller, inval,
          closer, gen, abandoned>>

-----------------------------------------------------------------------------
(* State *)

\* runnerEntry; dropped is its invalidated flag, gen the age of its build.
Entry ==
  [state : {"unmade", "open", "closed"}, refs : Nat, dropped : BOOLEAN,
   gen : Nat]

Unmade == [state |-> "unmade", refs |-> 0, dropped |-> FALSE, gen |-> 0]

\* A Caller closing the Runners in todo goes on with then.
CallerState == {"idle", "wait", "retry", "build", "leased", "closing"}

CallerRec ==
  [pc : CallerState, key : Key \cup {NoOne}, runner : Runner \cup {NoOne},
   since : Nat, todo : SUBSET Runner, then : CallerState]

IdleCaller ==
  [pc |-> "idle", key |-> NoOne, runner |-> NoOne, since |-> 0,
   todo |-> {}, then |-> "idle"]

CloserRec ==
  [pc : {"open", "closing", "ok", "timeout"}, todo : SUBSET Runner,
   wait : SUBSET Runner, mine : SUBSET Runner]

RegistryTypeOK ==
  /\ entries \in [Key -> Runner \cup {NoOne}]
  /\ pending \in [Key -> Caller \cup {NoOne}]
  /\ spoiled \subseteq Key
  /\ closed \in BOOLEAN
  /\ runner \in [Runner -> Entry]
  /\ older \subseteq Runner \X Runner
  /\ caller \in [Caller -> CallerRec]
  /\ inval \subseteq Runner
  /\ closer \in CloserRec
  /\ gen \in [Key -> Nat]
  /\ abandoned \subseteq Runner

Init ==
  /\ entries = [k \in Key |-> NoOne]
  /\ pending = [k \in Key |-> NoOne]
  /\ spoiled = {}
  /\ closed = FALSE
  /\ runner = [r \in Runner |-> Unmade]
  /\ older = {}
  /\ caller = [c \in Caller |-> IdleCaller]
  /\ inval = {}
  /\ closer = [pc |-> "open", todo |-> {}, wait |-> {}, mine |-> {}]
  /\ gen = [k \in Key |-> 0]
  /\ abandoned = {}

Cached == {k \in Key : entries[k] # NoOne}

Building == {k \in Key : pending[k] # NoOne}

\* The cached Runners nobody has borrowed.
Idle == {r \in Runner : runner[r].refs = 0 /\ \E k \in Key : entries[k] = r}

\* Entries leave the map: the Runners in R are invalidated.
Dropped(R) == [r \in Runner |->
  IF r \in R THEN [runner[r] EXCEPT !.dropped = TRUE] ELSE runner[r]]

Without(R) == [k \in Key |-> IF entries[k] \in R THEN NoOne ELSE entries[k]]

OlderWithout(R) == {p \in older : p[1] \notin R /\ p[2] \notin R}

\* Mutant: Runners being built do not take a slot.
slotCountCached(R) == Cardinality({k \in Cached : entries[k] \notin R})

\* The slots in use once the Runners in R have left the map.
slotCount(R) ==
  Cardinality({k \in Cached : entries[k] \notin R}) + Cardinality(Building)

\* Mutant: borrowed Runners are closed like idle ones.
CloseNowAll(R) == R

\* Of the Runners that leave the map, the ones nobody has borrowed.
CloseNow(R) == {r \in R : runner[r].refs = 0}

\* entry.close, once whoever calls it.
ClosedRunner(r) == [runner EXCEPT ![r].state = "closed"]

\* The Caller closes todo, if there is any, and then goes on.
ClosesThen(c, todo, then) ==
  [c EXCEPT !.pc = IF todo = {} THEN then ELSE "closing",
            !.todo = todo, !.then = then]

-----------------------------------------------------------------------------
(* Acquire *)

\* acquireOnce is entered by a new Acquire or by a retry of its loop.
Asks(c, k) ==
  /\ caller[c].pc \in {"idle", "retry"}
  /\ caller[c].pc = "retry" => caller[c].key = k

\* The key is neither cached nor being built.
Misses(k) == entries[k] = NoOne /\ pending[k] = NoOne

\* ErrClosed, or the context error seen after waiting: Acquire gives up.
AcquireFails(c) ==
  /\ caller[c].pc \in {"wait", "retry"}
  /\ caller' = [caller EXCEPT ![c] = IdleCaller]
  /\ UNCHANGED <<entries, pending, spoiled, closed, runner, older, inval, closer,
                 gen, abandoned>>

\* retainLocked of a cached Runner.
AcquireHit(c, k) ==
  /\ Asks(c, k) /\ ~closed /\ entries[k] # NoOne
  /\ LET r == entries[k]
     IN /\ runner' = [runner EXCEPT ![r].refs = @ + 1]
        /\ older' = OlderWithout({r})
        /\ caller' = [caller EXCEPT ![c] =
             [IdleCaller EXCEPT !.pc = "leased", !.key = k, !.runner = r]]
  /\ UNCHANGED <<entries, pending, spoiled, closed, inval, closer, gen, abandoned>>

\* Somebody is already building this key: wait for it.
AcquireJoins(c, k) ==
  /\ Asks(c, k) /\ ~closed /\ entries[k] = NoOne /\ pending[k] # NoOne
  /\ caller' = [caller EXCEPT ![c] = [IdleCaller EXCEPT !.pc = "wait", !.key = k]]
  /\ UNCHANGED <<entries, pending, spoiled, closed, runner, older, inval, closer,
                 gen, abandoned>>

\* What evictIdleLocked may find past the TTL: with a Runner all the older ones.
Expired(R) == \A r \in R, s \in Idle : <<s, r>> \in older => s \in R

\* evictCapacityLocked also drops the least recently used Runner that is left, if
\* the registry is still full.
Evicted(R) ==
  R \cup {r \in Idle \ R : /\ slotCount(R) >= MaxEntries
                           /\ \A s \in Idle \ R : <<s, r>> \notin older}

\* A miss: make room, then build, or give up with ErrRunnerCapacity.
AcquireMiss(c, k, R) ==
  /\ Asks(c, k) /\ ~closed /\ Misses(k) /\ Expired(R)
  /\ LET out == Evicted(R)
         room == slotCount(out) < MaxEntries
     IN /\ entries' = Without(out)
        /\ runner' = Dropped(out)
        /\ older' = OlderWithout(out)
        /\ pending' = IF room THEN [pending EXCEPT ![k] = c] ELSE pending
        /\ caller' = [caller EXCEPT ![c] =
             IF room
             THEN ClosesThen([IdleCaller EXCEPT !.key = k, !.since = gen[k]],
                             out, "build")
             ELSE ClosesThen(IdleCaller, out, "idle")]
  /\ UNCHANGED <<spoiled, closed, inval, closer, gen, abandoned>>

\* closeEntries, and the close at the end of release.
CallerCloses(c, r) ==
  /\ caller[c].pc = "closing" /\ r \in caller[c].todo
  /\ runner' = ClosedRunner(r)
  /\ caller' = [caller EXCEPT ![c] = ClosesThen(@, @.todo \ {r}, @.then)]
  /\ UNCHANGED <<entries, pending, spoiled, closed, older, inval, closer, gen,
                 abandoned>>

\* The locked part of finishRunnerBuild wakes everyone waiting for the build.
BuildDone(c, rec) ==
  LET k == caller[c].key
  IN /\ pending' = [pending EXCEPT ![k] = NoOne]
     /\ spoiled' = spoiled \ {k}
     /\ caller' = [d \in Caller |->
          IF d = c THEN rec
          ELSE IF caller[d].pc = "wait" /\ caller[d].key = k
            THEN [caller[d] EXCEPT !.pc = "retry"] ELSE caller[d]]

\* The factory returns an error.
BuildFails(c) ==
  /\ caller[c].pc = "build"
  /\ BuildDone(c, IdleCaller)
  /\ UNCHANGED <<entries, closed, runner, older, inval, closer, gen, abandoned>>

\* The entry of a new Runner, borrowed by the Caller that built it.
NewEntry(since) ==
  [Unmade EXCEPT !.state = "open", !.refs = 1, !.gen = since]

\* Mutant: an invalidation during the build is not noticed.
KeepsSpoiled(c, canceled) == ~canceled /\ ~closed

\* finishRunnerBuild keeps the Runner it built.
Keeps(c, canceled) ==
  ~canceled /\ ~closed /\ caller[c].key \notin spoiled

\* The factory returns a Runner: cached and leased, unless the context is
\* cancelled, the registry closed or the build invalidated in the meantime.
BuildReturns(c, r, canceled) ==
  LET k == caller[c].key
      made == NewEntry(caller[c].since)
      keep == Keeps(c, canceled)
  IN /\ caller[c].pc = "build"
     /\ runner[r].state = "unmade"
     /\ runner' = [runner EXCEPT ![r] = IF keep THEN made ELSE [made EXCEPT !.refs = 0]]
     /\ entries' = IF keep THEN [entries EXCEPT ![k] = r] ELSE entries
     /\ BuildDone(c,
          IF keep THEN [IdleCaller EXCEPT !.pc = "leased", !.key = k, !.runner = r]
          ELSE ClosesThen([IdleCaller EXCEPT !.key = k], {r},
                          IF canceled \/ closed THEN "idle" ELSE "retry"))
     /\ UNCHANGED <<closed, older, inval, closer, gen, abandoned>>

\* Mutant: only a closed registry closes the Runner.
ClosesOnRelease(r) == closed

\* An entry that is no longer cached is closed by its last holder.
ShouldClose(r) == runner[r].dropped \/ closed

\* release: the last reference closes an entry that is no longer cached.
Release(c) ==
  LET r == caller[c].runner
      last == runner[r].refs = 1
      shouldClose == last /\ ShouldClose(r)
  IN /\ caller[c].pc = "leased"
     /\ runner' = [runner EXCEPT ![r].refs = @ - 1]
     /\ older' = IF last /\ ~shouldClose THEN older \cup (Idle \X {r}) ELSE older
     /\ caller' = [caller EXCEPT ![c] =
          ClosesThen(IdleCaller, IF shouldClose THEN {r} ELSE {}, "idle")]
     /\ UNCHANGED <<entries, pending, spoiled, closed, inval, closer, gen,
                    abandoned>>

-----------------------------------------------------------------------------
(* Invalidate and InvalidateMatching: K is what the predicate selects *)

Invalidate(K) ==
  LET out == {entries[k] : k \in K \cap Cached}
  IN /\ ~closed
     /\ inval = {}
     /\ \A k \in K : gen[k] < MaxInvalidations
     /\ gen' = [k \in Key |-> IF k \in K THEN gen[k] + 1 ELSE gen[k]]
     /\ spoiled' = spoiled \cup (K \cap Building)
     /\ entries' = Without(out)
     /\ runner' = Dropped(out)
     /\ older' = OlderWithout(out)
     /\ inval' = CloseNow(out)
     /\ UNCHANGED <<pending, closed, caller, closer, abandoned>>

InvalidateCloses(r) ==
  /\ r \in inval
  /\ runner' = ClosedRunner(r)
  /\ inval' = inval \ {r}
  /\ UNCHANGED <<entries, pending, spoiled, closed, older, caller, closer, gen,
                 abandoned>>

\* A Runner fails to close: InvalidateMatching returns, the rest stay open.
InvalidateGivesUp(r) ==
  /\ r \in inval
  /\ runner' = ClosedRunner(r)
  /\ abandoned' = abandoned \cup (inval \ {r})
  /\ inval' = {}
  /\ UNCHANGED <<entries, pending, spoiled, closed, older, caller, closer, gen>>

-----------------------------------------------------------------------------
(* Close *)

BeginClose ==
  LET out == {entries[k] : k \in Cached}
  IN /\ closer.pc = "open"
     /\ closed' = TRUE
     /\ entries' = Without(out)
     /\ runner' = Dropped(out)
     /\ older' = {}
     /\ spoiled' = Building
     /\ closer' = [pc |-> "closing", todo |-> CloseNow(out),
                   wait |-> out \ CloseNow(out), mine |-> out]
     /\ UNCHANGED <<pending, caller, inval, gen, abandoned>>

CloseCloses(r) ==
  /\ closer.pc = "closing" /\ r \in closer.todo
  /\ runner' = ClosedRunner(r)
  /\ closer' = [closer EXCEPT !.todo = @ \ {r}]
  /\ UNCHANGED <<entries, pending, spoiled, closed, older, caller, inval, gen,
                 abandoned>>

\* The builds are done and the last lease of r has been released.
CloseDrains(r) ==
  /\ closer.pc = "closing" /\ closer.todo = {} /\ Building = {}
  /\ r \in closer.wait /\ runner[r].refs = 0
  /\ runner' = ClosedRunner(r)
  /\ closer' = [closer EXCEPT !.wait = @ \ {r}]
  /\ UNCHANGED <<entries, pending, spoiled, closed, older, caller, inval, gen,
                 abandoned>>

\* Mutant: only the builds are waited for.
CloseEndsEarly(pc) ==
  /\ closer.pc = "closing" /\ closer.todo = {}
  /\ IF pc = "ok" THEN Building = {} ELSE Building # {}
  /\ closer' = [closer EXCEPT !.pc = pc]
  /\ UNCHANGED <<entries, pending, spoiled, closed, runner, older, caller, inval,
                 gen, abandoned>>

\* All waits are over, or the close timeout ends them.
CloseEnds(pc) ==
  /\ closer.pc = "closing" /\ closer.todo = {}
  /\ IF pc = "ok" THEN Building = {} /\ closer.wait = {}
     ELSE Building # {} \/ closer.wait # {}
  /\ closer' = [closer EXCEPT !.pc = pc]
  /\ UNCHANGED <<entries, pending, spoiled, closed, runner, older, caller, inval,
                 gen, abandoned>>

-----------------------------------------------------------------------------

CallerStep(c) ==
  \/ \E k \in Key : AcquireHit(c, k) \/ AcquireJoins(c, k)
  \/ \E k \in Key, R \in SUBSET Idle : AcquireMiss(c, k, R)
  \/ AcquireFails(c)
  \/ \E r \in Runner : CallerCloses(c, r)
  \/ BuildFails(c)
  \/ \E r \in Runner, canceled \in BOOLEAN : BuildReturns(c, r, canceled)
  \/ Release(c)

InvalidateStep ==
  \/ \E K \in SUBSET Key \ {{}} : Invalidate(K)
  \/ \E r \in Runner : InvalidateCloses(r) \/ InvalidateGivesUp(r)

CloseStep ==
  \/ BeginClose
  \/ \E r \in Runner : CloseCloses(r) \/ CloseDrains(r)
  \/ \E pc \in {"ok", "timeout"} : CloseEnds(pc)

Next == InvalidateStep \/ CloseStep \/ \E c \in Caller : CallerStep(c)

Spec == Init /\ [][Next]_vars

\* Every goroutine goes on with what it has begun, factories return, and the
\* holder of a lease releases it in the end. New calls are up to the callers.
Fairness ==
  /\ \A c \in Caller :
       /\ WF_vars(\E r \in Runner : CallerCloses(c, r))
       /\ WF_vars(BuildFails(c) \/ \E r \in Runner, x \in BOOLEAN : BuildReturns(c, r, x))
       /\ WF_vars(Release(c))
  /\ WF_vars(\E r \in Runner : InvalidateCloses(r) \/ InvalidateGivesUp(r))
  /\ WF_vars(CloseStep /\ closer.pc = "closing")

FairSpec == Spec /\ Fairness

-----------------------------------------------------------------------------
(* Properties *)

Leases(r) == {c \in Caller : caller[c].pc = "leased" /\ caller[c].runner = r}

\* A leased Runner is never closed under its holder, by an eviction, by an
\* Invalidate, by Close or by another holder's Release; refs counts the leases.
LeasedIsOpen ==
  \A r \in Runner :
    /\ runner[r].refs = Cardinality(Leases(r))
    /\ Leases(r) # {} => runner[r].state = "open"

\* Cached Runners and running builds together never exceed MaxEntries, although
\* the mutex is released between making room and caching the new Runner.  The
\* builds counted are those that run: the Caller that builds a key is the one in
\* pending, and whoever waits for a key waits for a build that runs.
SlotsBounded ==
  /\ Cardinality(Cached) + Cardinality(Building) <= MaxEntries
  /\ \A c \in Caller :
       /\ (caller[c].pc = "build" \/ (caller[c].pc = "closing" /\ caller[c].then = "build"))
            <=> \E k \in Key : pending[k] = c /\ caller[c].key = k
       /\ caller[c].pc = "wait" => pending[caller[c].key] # NoOne

\* No Runner is lost: one that is open is cached, or leased, or on the list of
\* somebody who is about to close it; the only exception is an InvalidateMatching
\* that returned early because another Runner failed to close.  Close that returns
\* without a timeout leaves no build running and has closed every Runner it found
\* in the cache, borrowed or not.
RunnersAccounted ==
  /\ \A r \in Runner : runner[r].state = "open" =>
       \/ \E k \in Key : entries[k] = r
       \/ Leases(r) # {}
       \/ \E c \in Caller : r \in caller[c].todo
       \/ r \in inval \cup closer.todo \cup closer.wait \cup abandoned
  /\ closer.pc = "ok" =>
       /\ Building = {} /\ Cached = {}
       /\ \A r \in closer.mine : runner[r].state = "closed"

\* After Invalidate has returned for a key, nobody obtains a lease on a Runner
\* whose construction began before: neither a cached one nor one being built.
InvalidatedIsNotReused ==
  [][\A c \in Caller :
       caller[c].pc # "leased" /\ caller'[c].pc = "leased" =>
         runner'[caller'[c].runner].gen = gen[caller'[c].key]]_vars

\* Every Runner that leaves the cache is closed in the end, by whoever dropped it
\* or by the last of its holders.
DroppedIsClosed ==
  <>[](\A r \in Runner :
         runner[r].dropped => runner[r].state = "closed" \/ r \in abandoned)

\* The comment on Close: it "waits a bounded time for borrowed leases", and
\* "returns a timeout" when one is not released; so no lease outlives a Close
\* that reports success.
CloseWaitsForLeases ==
  closer.pc = "ok" => \A r \in Runner : Leases(r) = {}

=============================================================================
