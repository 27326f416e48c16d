--------------------------- MODULE ExecQueueProofs ---------------------------
(***************************************************************************)
(* Safety of the execution queue for any number of tasks and Workers, any   *)
(* assignment of owner names (also one shared by all Workers), and any      *)
(* number of expired leases and crashes.                                    *)
(***************************************************************************)
EXTENDS ExecQueue, TLAPS

USE DEF vars

-----------------------------------------------------------------------------
(* Type correctness *)

\* The values rows and Workers start from.
LEMMA InitialRecords == AbsentRow \in TaskRow /\ IdleJob \in Job
<1>1. AbsentRow \in TaskRow
  BY DEF AbsentRow, TaskRow, Status, Nobody
<1>2. IdleJob \in Job
  BY DEF IdleJob, Job, JobState, Outcome, NoKey
<1> QED
  BY <1>1, <1>2

\* The row updates of Claim, transition and the clock yield rows.
LEMMA RowUpdates ==
  ASSUME NEW row \in TaskRow, NEW w \in Worker, NEW to \in Status
  PROVE  /\ Leased(row, w) \in TaskRow
         /\ Committed(row, to) \in TaskRow
         /\ [row EXCEPT !.live = FALSE] \in TaskRow
         /\ [row EXCEPT !.due = TRUE] \in TaskRow
<1>1. OwnerOf[w] \in Owner
  BY DEF Owner
<1>2. Leased(row, w) \in TaskRow
  <2>1. row.attempts + 1 \in Nat /\ row.fence + 1 \in Nat
    BY DEF TaskRow
  <2> DEFINE a == row.attempts + 1
             f == row.fence + 1
  <2>2. a \in Nat /\ f \in Nat
    BY <2>1
  <2> HIDE DEF a, f
  <2>3. [row EXCEPT !.status = "leased", !.attempts = a, !.fence = f,
                    !.owner = OwnerOf[w], !.live = TRUE] \in TaskRow
    BY <1>1, <2>2 DEF TaskRow, Status
  <2> QED
    BY <2>3 DEF a, f, Leased
<1>3. Committed(row, to) \in TaskRow
  BY DEF TaskRow, Committed
<1>4. [row EXCEPT !.live = FALSE] \in TaskRow
  BY DEF TaskRow
<1>5. [row EXCEPT !.due = TRUE] \in TaskRow
  BY DEF TaskRow
<1> QED
  BY <1>2, <1>3, <1>4, <1>5

\* A claim advances the attempts and the fencing token of the row by one.
LEMMA LeasedFields ==
  ASSUME NEW row \in TaskRow, NEW w \in Worker
  PROVE  /\ Leased(row, w).status = "leased" /\ Leased(row, w).owner = OwnerOf[w]
         /\ Leased(row, w).fence = row.fence + 1
         /\ Leased(row, w).attempts = row.attempts + 1
  BY DEF TaskRow, Leased

\* Every operation of the store and every step of a Worker keeps rows, leases
\* and the local task of RunOnce in their domains.
THEOREM TypeCorrect == Spec => []TypeOK
<1>1. Init => TypeOK
  <2> SUFFICES ASSUME Init PROVE TypeOK
    OBVIOUS
  <2>1. outcomes \in [Key -> SUBSET (Nat \X Outcome)]
    BY DEF Init
  <2> QED
    BY <2>1, InitialRecords DEF Init, TypeOK, Life
<1>2. TypeOK /\ [Next]_vars => TypeOK'
  <2> SUFFICES ASSUME TypeOK, [Next]_vars PROVE TypeOK'
    OBVIOUS
  <2>1. CASE StoreStep
    <3>1. ASSUME NEW k \in Key, NEW created \in Now, Enqueue(k, created)
          PROVE TypeOK'
      <4>1. created \in Nat
        BY DEF Now, CreationTimes, TypeOK, TaskRow
      <4>2. [AbsentRow EXCEPT !.status = "queued", !.due = TRUE,
                              !.created = created] \in TaskRow
        BY <4>1 DEF AbsentRow, TaskRow, Status, Nobody
      <4> QED
        BY <3>1, <4>2 DEF Enqueue, TypeOK
    <3>2. CASE OpenView
      BY <3>2 DEF OpenView, TypeOK
    <3>3. CASE CloseView
      BY <3>3 DEF CloseView, TypeOK
    <3>4. ASSUME NEW k \in Key,
                 ExpireLease(k) \/ ExpireAbandoned(k) \/ BecomeDue(k)
          PROVE TypeOK'
      <4>1. PICK row \in TaskRow : task' = [task EXCEPT ![k] = row]
        <5>1. /\ [task[k] EXCEPT !.live = FALSE] \in TaskRow
              /\ [task[k] EXCEPT !.due = TRUE] \in TaskRow
          BY DEF TypeOK, TaskRow
        <5> QED
          BY <3>4, <5>1 DEF ExpireLease, ExpireAbandoned, BecomeDue
      <4> QED
        BY <3>4, <4>1 DEF ExpireLease, ExpireAbandoned, BecomeDue, TypeOK
    <3> QED
      BY <2>1, <3>1, <3>2, <3>3, <3>4 DEF StoreStep
  <2>2. ASSUME NEW w \in Worker, WorkerStep(w) PROVE TypeOK'
    <3>1. CASE Start(w) \/ Close(w) \/ LoopExits(w) \/ Restart(w)
      BY <3>1 DEF Start, Close, LoopExits, Restart, TypeOK, Life
    <3>2. ASSUME NEW k \in Key, Claim(w, k) PROVE TypeOK'
      <4>1. Leased(task[k], w) \in TaskRow
        BY RowUpdates DEF TypeOK, Status
      <4>2. task' \in [Key -> TaskRow]
        BY <3>2, <4>1 DEF Claim, Lease, TypeOK
      <4>3. job' \in [Worker -> Job]
        <5>1. Leased(task[k], w).fence \in Nat /\ Leased(task[k], w).attempts \in Nat
          BY <4>1 DEF TaskRow
        <5> QED
          BY <3>2, <5>1 DEF Claim, Lease, TypeOK, Job, JobState, Outcome
      <4> QED
        BY <3>2, <4>2, <4>3 DEF Claim, Lease, TypeOK
    <3>3. ASSUME NEW out \in Outcome, HandlerReturns(w, out) PROVE TypeOK'
      <4>1. job' \in [Worker -> Job]
        BY <3>3 DEF HandlerReturns, TypeOK, Job, JobState
      <4>2. <<job[w].fence, out>> \in Nat \X Outcome
        BY DEF TypeOK, Job
      <4>3. outcomes' \in [Key -> SUBSET (Nat \X Outcome)]
        BY <3>3, <4>2 DEF HandlerReturns, TypeOK
      <4> QED
        BY <3>3, <4>1, <4>3 DEF HandlerReturns, TypeOK
    <3>4. CASE Commit(w)
      <4>1. Target(w) \in Status
        BY DEF Target, Status
      <4>2. task' \in [Key -> TaskRow]
        <5>1. \A k \in Key : Committed(task[k], Target(w)) \in TaskRow
          BY <4>1, RowUpdates DEF TypeOK
        <5> QED
          BY <3>4, <5>1 DEF Commit, TypeOK
      <4>3. job' \in [Worker -> Job]
        BY <3>4, InitialRecords DEF Commit, TypeOK
      <4> QED
        BY <3>4, <4>2, <4>3 DEF Commit, TypeOK
    <3>5. CASE CommitRefused(w) \/ Crash(w)
      <4>1. job' \in [Worker -> Job]
        BY <3>5, InitialRecords DEF CommitRefused, Crash, TypeOK
      <4> QED
        BY <3>5, <4>1 DEF CommitRefused, Crash, TypeOK, Life
    <3> QED
      BY <2>2, <3>1, <3>2, <3>3, <3>4, <3>5 DEF WorkerStep
  <2>3. CASE UNCHANGED vars
    BY <2>3 DEF TypeOK
  <2> QED
    BY <2>1, <2>2, <2>3 DEF Next
<1> QED
  BY <1>1, <1>2, PTL DEF Spec

-----------------------------------------------------------------------------
(* Fencing *)

\* A key that was never enqueued was never claimed: Enqueue, which writes a
\* fresh row, cannot take a token away from a RunOnce in flight.
Fresh == \A k \in Key : task[k].status = "absent" => task[k].fence = 0

FencingInv == TypeOK /\ Fencing /\ Fresh

\* Steps of the store and the clock leave the jobs alone and keep the token, the
\* owner and the attempts of every row some RunOnce may hold.
LEMMA StoreKeepsFencing ==
  ASSUME FencingInv, StoreStep PROVE Fencing' /\ Fresh'
<1> USE DEF FencingInv
<1>1. ASSUME NEW k \in Key, NEW created \in Now, Enqueue(k, created)
      PROVE Fencing' /\ Fresh'
  <2>1. \A w \in Worker : Busy(w) => job[w].key # k
    BY <1>1 DEF Enqueue, Fencing, Fresh, TypeOK, TaskRow, Job
  <2>2. \A l \in Key \ {k} : task'[l] = task[l]
    BY <1>1 DEF Enqueue, TypeOK
  <2>3. Fencing'
    BY <1>1, <2>1, <2>2 DEF Enqueue, Fencing, Busy, InFlight
  <2>4. task'[k].status = "queued"
    BY <1>1 DEF Enqueue, TypeOK, AbsentRow
  <2> QED
    BY <2>2, <2>3, <2>4 DEF Fresh
<1>2. CASE OpenView \/ CloseView
  BY <1>2 DEF OpenView, CloseView, Fencing, Fresh, Busy, InFlight
<1>3. ASSUME NEW k \in Key, ExpireLease(k) \/ ExpireAbandoned(k) \/ BecomeDue(k)
      PROVE Fencing' /\ Fresh'
  <2>1. job' = job
    BY <1>3 DEF ExpireLease, ExpireAbandoned, BecomeDue
  <2>2. \A l \in Key :
          /\ task'[l].status = task[l].status /\ task'[l].fence = task[l].fence
          /\ task'[l].owner = task[l].owner /\ task'[l].attempts = task[l].attempts
    BY <1>3 DEF ExpireLease, ExpireAbandoned, BecomeDue, TypeOK, TaskRow
  <2>3. Fencing'
    BY <2>1, <2>2 DEF Fencing, Busy, InFlight
  <2> QED
    BY <2>2, <2>3 DEF Fresh
<1> QED
  BY <1>1, <1>2, <1>3 DEF StoreStep

\* A claim takes a token above every token in flight; a commit ends the only
\* RunOnce that holds the newest token; every other step leaves rows alone and
\* at most makes a Worker idle.
LEMMA WorkerKeepsFencing ==
  ASSUME FencingInv, NEW w \in Worker, WorkerStep(w) PROVE Fencing' /\ Fresh'
<1> USE DEF FencingInv
<1>1. CASE Start(w) \/ Close(w) \/ LoopExits(w) \/ Restart(w)
  BY <1>1 DEF Start, Close, LoopExits, Restart, Fencing, Fresh, Busy, InFlight
<1>2. ASSUME NEW k \in Key, Claim(w, k) PROVE Fencing' /\ Fresh'
  <2>1. /\ \A v \in Worker \ {w} : job'[v] = job[v]
        /\ job'[w] = [pc |-> "handling", key |-> k, fence |-> task[k].fence + 1,
                      attempts |-> task[k].attempts + 1, outcome |-> "ok"]
    BY <1>2, LeasedFields DEF Claim, Lease, TypeOK
  <2>2. /\ \A l \in Key \ {k} : task'[l] = task[l]
        /\ task'[k].status = "leased" /\ task'[k].owner = OwnerOf[w]
        /\ task'[k].fence = task[k].fence + 1
        /\ task'[k].attempts = task[k].attempts + 1
    BY <1>2 DEF Claim, Lease, Leased, TypeOK, TaskRow
  <2>3. \A v \in Worker \ {w} : InFlight(v, k) => job[v].fence \in 1 .. task[k].fence
    BY DEF Fencing, InFlight
  <2>4. task[k].fence \in Nat /\ \A v \in Worker : job[v].fence \in Nat
    BY DEF TypeOK, TaskRow, Job
  <2>5. ASSUME NEW v \in Worker, Busy(v)' PROVE
          LET row == task'[job'[v].key]
          IN /\ job'[v].key \in Key
             /\ job'[v].fence \in 1 .. row.fence
             /\ job'[v].fence = row.fence =>
                  /\ row.status = "leased"
                  /\ row.owner = OwnerOf[v]
                  /\ row.attempts = job'[v].attempts
             /\ \A u \in Worker \ {v} :
                  InFlight(u, job[v].key)' => job'[u].fence # job'[v].fence
    <3>1. CASE v = w
      BY <2>1, <2>2, <2>3, <2>4, <3>1 DEF InFlight, Busy
    <3>2. CASE v # w /\ job[v].key = k
      BY <2>1, <2>2, <2>3, <2>4, <2>5, <3>2 DEF InFlight, Busy, Fencing
    <3>3. CASE v # w /\ job[v].key # k
      BY <2>1, <2>2, <2>4, <2>5, <3>3 DEF InFlight, Busy, Fencing
    <3> QED
      BY <3>1, <3>2, <3>3
  <2>6. Fencing'
    BY <2>5 DEF Fencing
  <2> QED
    BY <2>2, <2>6 DEF Fresh
<1>3. ASSUME NEW out \in Outcome, HandlerReturns(w, out) PROVE Fencing' /\ Fresh'
  <2>1. /\ task' = task
        /\ \A v \in Worker : /\ Busy(v)' <=> Busy(v)
                              /\ job'[v].key = job[v].key
                              /\ job'[v].fence = job[v].fence
                              /\ job'[v].attempts = job[v].attempts
    BY <1>3 DEF HandlerReturns, Busy, TypeOK, Job
  <2>2. Fencing'
    BY <2>1 DEF Fencing, InFlight
  <2> QED
    BY <2>1, <2>2 DEF Fresh
<1>4. CASE Commit(w)
  <2> DEFINE k == job[w].key
  <2>1. k \in Key /\ job[w].fence = task[k].fence /\ InFlight(w, k)
    BY <1>4 DEF Commit, HoldsLease, Fencing, Busy, InFlight
  <2>2. /\ \A v \in Worker \ {w} : job'[v] = job[v]
        /\ ~Busy(w)'
    BY <1>4 DEF Commit, TypeOK, IdleJob, Busy
  <2>3. /\ \A l \in Key \ {k} : task'[l] = task[l]
        /\ task'[k].fence = task[k].fence /\ task'[k].status # "absent"
    BY <1>4, <2>1 DEF Commit, Committed, Target, TypeOK, TaskRow
  <2>4. \A v \in Worker \ {w} : InFlight(v, k) => job[v].fence # task[k].fence
    BY <2>1 DEF Fencing, InFlight, Busy
  <2>5. Fencing'
    BY <2>1, <2>2, <2>3, <2>4 DEF Fencing, InFlight, Busy
  <2> QED
    BY <2>3, <2>5 DEF Fresh
<1>5. CASE CommitRefused(w) \/ Crash(w)
  <2>1. /\ task' = task
        /\ \A v \in Worker \ {w} : job'[v] = job[v]
        /\ ~Busy(w)'
    BY <1>5 DEF CommitRefused, Crash, TypeOK, IdleJob, Busy
  <2>2. Fencing'
    BY <2>1 DEF Fencing, InFlight, Busy
  <2> QED
    BY <2>1, <2>2 DEF Fresh
<1> QED
  BY <1>1, <1>2, <1>3, <1>4, <1>5 DEF WorkerStep

\* Two RunOnce calls never hold the same token for a task, and only the one with
\* the newest token can pass the compare-and-set of transition, whatever the
\* owner names are and however leases expire and processes crash.
THEOREM FencingHolds == Spec => [](Fencing /\ Fresh)
<1>1. Init => Fencing /\ Fresh
  BY DEF Init, Fencing, Fresh, Busy, IdleJob, AbsentRow
<1>2. TypeOK /\ (Fencing /\ Fresh) /\ [Next]_vars => (Fencing /\ Fresh)'
  <2> SUFFICES ASSUME FencingInv, [Next]_vars PROVE (Fencing /\ Fresh)'
    BY DEF FencingInv
  <2>1. CASE StoreStep
    BY <2>1, StoreKeepsFencing
  <2>2. CASE \E w \in Worker : WorkerStep(w)
    BY <2>2, WorkerKeepsFencing
  <2>3. CASE UNCHANGED vars
    BY <2>3 DEF FencingInv, Fencing, Fresh, Busy, InFlight
  <2> QED
    BY <2>1, <2>2, <2>3 DEF Next
<1> QED
  BY <1>1, <1>2, TypeCorrect, PTL DEF Spec

-----------------------------------------------------------------------------
(* Results *)

\* What the handlers have returned, by token: only tokens that were handed out,
\* nothing yet for a handler that is still running, and what RunOnce remembers
\* once it has returned.
Recorded ==
  /\ \A k \in Key : \A x \in outcomes[k] : x[1] \in 1 .. task[k].fence
  /\ \A w \in Worker :
       /\ job[w].pc = "handling" =>
            \A x \in outcomes[job[w].key] : x[1] # job[w].fence
       /\ job[w].pc = "returned" =>
            <<job[w].fence, job[w].outcome>> \in outcomes[job[w].key]

ResultInv == Recorded /\ OneVerdictPerClaim /\ ResultJustified

\* No step of the store changes a result or forgets what a handler returned.
LEMMA StoreKeepsResults ==
  ASSUME FencingInv, ResultInv, StoreStep PROVE ResultInv'
<1> USE DEF FencingInv, ResultInv
<1>1. ASSUME NEW k \in Key, NEW created \in Now, Enqueue(k, created)
      PROVE ResultInv'
  <2>1. job' = job /\ outcomes' = outcomes
    BY <1>1 DEF Enqueue
  <2>2. /\ \A l \in Key \ {k} : task'[l] = task[l]
        /\ task'[k].status = "queued"
    BY <1>1 DEF Enqueue, TypeOK, AbsentRow
  <2>3. outcomes[k] = {}
    BY <1>1 DEF Enqueue, Recorded, Fresh
  <2>4. Recorded'
    BY <2>1, <2>2, <2>3 DEF Recorded
  <2>5. OneVerdictPerClaim'
    BY <2>1 DEF OneVerdictPerClaim
  <2> QED
    BY <2>1, <2>2, <2>4, <2>5 DEF ResultJustified
<1>2. CASE OpenView \/ CloseView
  BY <1>2 DEF OpenView, CloseView, Recorded, OneVerdictPerClaim, ResultJustified
<1>3. ASSUME NEW k \in Key, ExpireLease(k) \/ ExpireAbandoned(k) \/ BecomeDue(k)
      PROVE ResultInv'
  <2>1. job' = job /\ outcomes' = outcomes
    BY <1>3 DEF ExpireLease, ExpireAbandoned, BecomeDue
  <2>2. \A l \in Key :
          /\ task'[l].status = task[l].status /\ task'[l].fence = task[l].fence
          /\ task'[l].attempts = task[l].attempts
    BY <1>3 DEF ExpireLease, ExpireAbandoned, BecomeDue, TypeOK, TaskRow
  <2>3. Recorded'
    BY <2>1, <2>2 DEF Recorded
  <2>4. OneVerdictPerClaim'
    BY <2>1 DEF OneVerdictPerClaim
  <2> QED
    BY <2>1, <2>2, <2>3, <2>4 DEF ResultJustified
<1> QED
  BY <1>1, <1>2, <1>3 DEF StoreStep

\* A handler's return is recorded under a token nobody else holds, and a commit
\* stores the verdict of the handler that ran under the row's newest token.
LEMMA WorkerKeepsResults ==
  ASSUME FencingInv, ResultInv, NEW w \in Worker, WorkerStep(w) PROVE ResultInv'
<1> USE DEF FencingInv, ResultInv
<1>0. \A v \in Worker : Busy(v) => job[v].key \in Key
  BY DEF Fencing
<1>1. CASE Start(w) \/ Close(w) \/ LoopExits(w) \/ Restart(w)
  BY <1>1 DEF Start, Close, LoopExits, Restart, Recorded, OneVerdictPerClaim,
    ResultJustified
<1>2. ASSUME NEW k \in Key, Claim(w, k) PROVE ResultInv'
  <2>1. /\ outcomes' = outcomes
        /\ \A v \in Worker \ {w} : job'[v] = job[v]
        /\ job'[w].pc = "handling" /\ job'[w].key = k
        /\ job'[w].fence = task[k].fence + 1
    BY <1>2, LeasedFields DEF Claim, Lease, TypeOK
  <2>2. /\ \A l \in Key \ {k} : task'[l] = task[l]
        /\ task'[k].status = "leased" /\ task'[k].fence = task[k].fence + 1
    BY <1>2 DEF Claim, Lease, Leased, TypeOK, TaskRow
  <2>3. task[k].fence \in Nat
    BY DEF TypeOK, TaskRow
  <2>4. Recorded'
    BY <2>1, <2>2, <2>3 DEF Recorded
  <2>5. OneVerdictPerClaim'
    BY <2>1 DEF OneVerdictPerClaim
  <2> QED
    BY <2>1, <2>2, <2>4, <2>5 DEF ResultJustified
<1>3. ASSUME NEW out \in Outcome, HandlerReturns(w, out) PROVE ResultInv'
  <2> DEFINE k == job[w].key
             x == <<job[w].fence, out>>
  <2>1. k \in Key /\ Busy(w) /\ job[w].pc = "handling"
    BY <1>0, <1>3 DEF HandlerReturns, Busy
  <2>2. /\ task' = task
        /\ \A l \in Key \ {k} : outcomes'[l] = outcomes[l]
        /\ outcomes'[k] = outcomes[k] \cup {x}
    BY <1>3, <2>1 DEF HandlerReturns, TypeOK
  <2>3. /\ \A v \in Worker \ {w} : job'[v] = job[v]
        /\ job'[w].pc = "returned" /\ job'[w].key = k
        /\ job'[w].fence = job[w].fence /\ job'[w].outcome = out
    BY <1>3 DEF HandlerReturns, TypeOK, Job
  <2>4. job[w].fence \in 1 .. task[k].fence
    BY <2>1 DEF Fencing
  <2>5. \A v \in Worker \ {w} :
          job[v].pc = "handling" /\ job[v].key = k => job[v].fence # job[w].fence
    BY <2>1 DEF Fencing, InFlight, Busy
  <2>6. \A y \in outcomes[k] : y[1] # job[w].fence
    BY <2>1 DEF Recorded
  <2>7. Recorded'
    <3>1. \A l \in Key : \A y \in outcomes'[l] : y[1] \in 1 .. task'[l].fence
      BY <2>1, <2>2, <2>4 DEF Recorded
    <3>2. ASSUME NEW v \in Worker
          PROVE /\ job'[v].pc = "handling" =>
                     \A y \in outcomes'[job'[v].key] : y[1] # job'[v].fence
                /\ job'[v].pc = "returned" =>
                     <<job'[v].fence, job'[v].outcome>> \in outcomes'[job'[v].key]
      <4>1. CASE v = w
        BY <2>2, <2>3, <4>1
      <4>2. CASE v # w
        BY <1>0, <2>2, <2>3, <2>5, <4>2 DEF Recorded, Busy
      <4> QED
        BY <4>1, <4>2
    <3> QED
      BY <3>1, <3>2 DEF Recorded
  <2>8. OneVerdictPerClaim'
    BY <2>1, <2>2, <2>6 DEF OneVerdictPerClaim
  <2>9. ResultJustified'
    BY <2>2 DEF ResultJustified
  <2> QED
    BY <2>7, <2>8, <2>9
<1>4. CASE Commit(w)
  <2> DEFINE k == job[w].key
  <2>1. /\ k \in Key /\ job[w].pc = "returned" /\ job[w].fence = task[k].fence
        /\ task[k].attempts = job[w].attempts
    BY <1>0, <1>4 DEF Commit, HoldsLease, Busy, Fencing
  <2>2. /\ outcomes' = outcomes
        /\ \A v \in Worker \ {w} : job'[v] = job[v]
        /\ job'[w].pc = "idle"
    BY <1>4 DEF Commit, TypeOK, IdleJob
  <2>3. /\ \A l \in Key \ {k} : task'[l] = task[l]
        /\ task'[k].status = Target(w) /\ task'[k].fence = task[k].fence
        /\ task'[k].attempts = task[k].attempts
    BY <1>4, <2>1 DEF Commit, Committed, TypeOK, TaskRow
  <2>4. <<task[k].fence, job[w].outcome>> \in outcomes[k]
    BY <2>1 DEF Recorded
  <2>5. Recorded'
    BY <2>2, <2>3 DEF Recorded
  <2>6. OneVerdictPerClaim'
    BY <2>2 DEF OneVerdictPerClaim
  <2>7. ResultJustified'
    <3>1. job[w].outcome \in {"ok", "retry", "fatal"} /\ job[w].attempts \in Nat
      BY DEF TypeOK, Job, Outcome
    <3>2. ASSUME NEW l \in Key \ {k} PROVE
            LET row == task'[l]
                Returned(out) == <<row.fence, out>> \in outcomes'[l]
            IN /\ row.status = "completed" => Returned("ok")
               /\ row.status = "retryable" =>
                    Returned("retry") /\ row.attempts < MaxAttempts
               /\ row.status = "failed" =>
                    \/ Returned("fatal")
                    \/ Returned("retry") /\ row.attempts >= MaxAttempts
      BY <2>2, <2>3 DEF ResultJustified
    <3>3. LET row == task'[k]
              Returned(out) == <<row.fence, out>> \in outcomes'[k]
          IN /\ row.status = "completed" => Returned("ok")
             /\ row.status = "retryable" =>
                  Returned("retry") /\ row.attempts < MaxAttempts
             /\ row.status = "failed" =>
                  \/ Returned("fatal")
                  \/ Returned("retry") /\ row.attempts >= MaxAttempts
      BY <2>1, <2>2, <2>3, <2>4, <3>1, BoundAssumption DEF Target
    <3> QED
      BY <3>2, <3>3 DEF ResultJustified
  <2> QED
    BY <2>5, <2>6, <2>7
<1>5. CASE CommitRefused(w) \/ Crash(w)
  <2>1. /\ task' = task /\ outcomes' = outcomes
        /\ \A v \in Worker \ {w} : job'[v] = job[v]
        /\ job'[w].pc = "idle"
    BY <1>5 DEF CommitRefused, Crash, TypeOK, IdleJob
  <2> QED
    BY <2>1 DEF Recorded, OneVerdictPerClaim, ResultJustified
<1> QED
  BY <1>1, <1>2, <1>3, <1>4, <1>5 DEF WorkerStep

\* A stored result is always the verdict on what the handler of the latest claim
\* returned, and no claim gets two verdicts.
THEOREM ResultsHold == Spec => []ResultsAreVerdicts
<1>1. Init => ResultInv
  BY DEF Init, ResultInv, Recorded, OneVerdictPerClaim, ResultJustified,
    IdleJob, AbsentRow
<1>2. TypeOK /\ (Fencing /\ Fresh) /\ ResultInv /\ [Next]_vars => ResultInv'
  <2> SUFFICES ASSUME FencingInv, ResultInv, [Next]_vars PROVE ResultInv'
    BY DEF FencingInv
  <2>1. CASE StoreStep
    BY <2>1, StoreKeepsResults
  <2>2. CASE \E w \in Worker : WorkerStep(w)
    BY <2>2, WorkerKeepsResults
  <2>3. CASE UNCHANGED vars
    BY <2>3 DEF ResultInv, Recorded, OneVerdictPerClaim, ResultJustified
  <2> QED
    BY <2>1, <2>2, <2>3 DEF Next
<1>3. ResultInv => ResultsAreVerdicts
  BY DEF ResultInv, ResultsAreVerdicts
<1> QED
  BY <1>1, <1>2, <1>3, TypeCorrect, FencingHolds, PTL DEF Spec

-----------------------------------------------------------------------------
(* What a step may never do *)

\* A finished task stays as it is: no late commit, expired lease, claim or
\* repeated Enqueue touches a terminal row.
LEMMA FinishedStays ==
  ASSUME FencingInv, Next, NEW k \in Key, task[k].status \in Terminal
  PROVE  task'[k] = task[k]
<1> USE DEF FencingInv, Terminal
<1>1. CASE StoreStep
  BY <1>1 DEF StoreStep, Enqueue, OpenView, CloseView, ExpireLease,
    ExpireAbandoned, BecomeDue, TypeOK
<1>2. ASSUME NEW w \in Worker, WorkerStep(w) PROVE task'[k] = task[k]
  <2>1. ASSUME NEW l \in Key, Claim(w, l) PROVE task'[k] = task[k]
    BY <2>1 DEF Claim, Oldest, Eligible, Lease, TypeOK
  <2>2. CASE Commit(w)
    BY <2>2 DEF Commit, HoldsLease, TypeOK
  <2> QED
    BY <1>2, <2>1, <2>2 DEF WorkerStep, Start, HandlerReturns, CommitRefused,
      Close, LoopExits, Crash, Restart
<1> QED
  BY <1>1, <1>2 DEF Next

\* A lease is only ended by time, by a claim with a larger token, or by the
\* commit of the RunOnce whose token is the largest in flight; a finished task is
\* not touched any more.
THEOREM HandoverHolds == Spec => LeaseHandover
<1> DEFINE Handover(k) ==
      task[k].status = "leased" /\ task'[k] # task[k] =>
       \/ task'[k] = [task[k] EXCEPT !.live = FALSE]
       \/ task'[k].fence > task[k].fence /\ task'[k].status = "leased"
       \/ \E w \in Worker :
            /\ InFlight(w, k) /\ ~Busy(w)'
            /\ \A v \in Worker \ {w} :
                 InFlight(v, k) => job[v].fence < job[w].fence
<1>1. TypeOK /\ (Fencing /\ Fresh) /\ [Next]_vars =>
        [\A k \in Key : Handover(k)]_vars
  <2> SUFFICES ASSUME FencingInv, Next, NEW k \in Key,
                      task[k].status = "leased", task'[k] # task[k]
               PROVE Handover(k)
    BY DEF FencingInv
  <2> USE DEF FencingInv
  <2>1. CASE StoreStep
    BY <2>1 DEF StoreStep, Enqueue, OpenView, CloseView, ExpireLease,
      ExpireAbandoned, BecomeDue, TypeOK
  <2>2. ASSUME NEW w \in Worker, WorkerStep(w) PROVE Handover(k)
    <3>1. ASSUME NEW l \in Key, Claim(w, l) PROVE Handover(k)
      <4>1. l = k
        BY <3>1 DEF Claim, Lease, TypeOK
      <4>2. task'[k].fence > task[k].fence /\ task'[k].status = "leased"
        BY <3>1, <4>1 DEF Claim, Lease, Leased, TypeOK, TaskRow
      <4> QED
        BY <4>2
    <3>2. CASE Commit(w)
      <4>1. job[w].key = k /\ InFlight(w, k)
        BY <3>2 DEF Commit, TypeOK, InFlight, Busy
      <4>2. ~Busy(w)'
        BY <3>2 DEF Commit, TypeOK, IdleJob, Busy
      <4>3. job[w].fence = task[k].fence
        BY <3>2, <4>1 DEF Commit, HoldsLease
      <4>4. \A v \in Worker \ {w} : InFlight(v, k) => job[v].fence < job[w].fence
        <5> SUFFICES ASSUME NEW v \in Worker \ {w}, InFlight(v, k)
                     PROVE job[v].fence < job[w].fence
          OBVIOUS
        <5>1. job[v].fence \in 1 .. task[k].fence /\ job[v].fence # job[w].fence
          BY <4>1 DEF Fencing, InFlight
        <5> QED
          BY <4>3, <5>1 DEF TypeOK, TaskRow
      <4> QED
        BY <4>1, <4>2, <4>4
    <3> QED
      BY <2>2, <3>1, <3>2 DEF WorkerStep, Start, HandlerReturns, CommitRefused,
        Close, LoopExits, Crash, Restart
  <2> QED
    BY <2>1, <2>2 DEF Next
<1>2. TypeOK /\ (Fencing /\ Fresh) /\ [Next]_vars =>
        [\A k \in Key :
           /\ task[k].status \in Terminal => task'[k] = task[k]
           /\ Handover(k)]_vars
  BY <1>1, FinishedStays DEF FencingInv
<1> QED
  BY <1>2, TypeCorrect, FencingHolds, PTL DEF Spec, LeaseHandover

=============================================================================
