------------------------------ MODULE ExecQueue ------------------------------
(***************************************************************************)
(* The execution queue of trpcservice/runtime/queue: the in-memory Store   *)
(* (Enqueue, Claim, Complete, Retry, Fail, Close) and the Workers that      *)
(* consume it (Start, RunOnce, Close), each Worker in a process of its own  *)
(* that may crash and come back.                                            *)
(*                                                                         *)
(* Time is abstracted to what the code compares: a lease is live until the  *)
(* action ExpireLease ends it, a retryable task is not due until BecomeDue. *)
(* Payloads only decide which error a repeated Enqueue returns and are left *)
(* out. Operations that return an error without touching a row are          *)
(* stuttering steps unless they change the Worker.                          *)
(***************************************************************************)
EXTENDS Naturals

CONSTANTS
  Key,          \* task keys (tenant and task id), ordered as the code orders them
  Worker,       \* queue.Worker values, over all processes
  Tenant,       \* tenants
  AnyTenant,    \* the empty tenant hint: a Worker that claims for every tenant
  TenantOf,     \* Key -> Tenant
  ScopeOf,      \* Worker -> Tenant \cup {AnyTenant}: Config.TenantID
  OwnerOf,      \* Worker -> owner name: Config.Owner; names may coincide
  MaxAttempts,  \* Config.MaxAttempts
  MaxExpiries,  \* bound: leases that run out while a handler is still busy
  MaxCrashes,   \* bound: Worker crashes
  MaxViews      \* bound: store views open at once

\* A string orders below another: keys stand for their rank, 0 is no key.
ASSUME KeyAssumption == Key \subseteq Nat \ {0}

ASSUME ScopeAssumption ==
  /\ AnyTenant \notin Tenant
  /\ TenantOf \in [Key -> Tenant]
  /\ ScopeOf \in [Worker -> Tenant \cup {AnyTenant}]

ASSUME OwnerAssumption == \A w \in Worker : OwnerOf[w] # ""

ASSUME BoundAssumption ==
  /\ MaxAttempts \in Nat \ {0}
  /\ MaxExpiries \in Nat
  /\ MaxCrashes \in Nat
  /\ MaxViews \in Nat \ {0}

VARIABLES
  task,         \* Key -> row of Backend.tasks
  refs,         \* Backend.refs: open store views
  storeClosed,  \* Backend.closed
  life,         \* Worker -> lifecycle: started, closed, or its process is gone
  job,          \* Worker -> the task value RunOnce holds in its local variables
  outcomes,     \* history: Key -> <<fence, what the handler returned>>
  expiries,     \* leases that have run out so far
  crashes       \* crashes so far

vars == <<task, refs, storeClosed, life, job, outcomes, expiries, crashes>>

-----------------------------------------------------------------------------
(* Rows and Workers *)

NoKey == 0

Nobody == ""          \* LeaseOwner of a task that is not leased

Owner == {OwnerOf[w] : w \in Worker}

Status == {"absent", "queued", "leased", "retryable", "completed", "failed"}

Outcome == {"ok", "retry", "fatal"}

Terminal == {"completed", "failed"}

\* queue.Task. attempts and fencing token are separate columns; live and due
\* stand for LeaseExpiresAt and NextAttemptAt compared with the clock.
TaskRow ==
  [status : Status, attempts : Nat, fence : Nat, owner : Owner \cup {Nobody},
   live : BOOLEAN, due : BOOLEAN, created : Nat]

AbsentRow ==
  [status |-> "absent", attempts |-> 0, fence |-> 0, owner |-> Nobody,
   live |-> FALSE, due |-> FALSE, created |-> 0]

\* What RunOnce remembers of the claimed task between its steps.
JobState == {"idle", "handling", "returned"}

Job ==
  [pc : JobState, key : Key \cup {NoKey}, fence : Nat, attempts : Nat,
   outcome : Outcome]

IdleJob ==
  [pc |-> "idle", key |-> NoKey, fence |-> 0, attempts |-> 0, outcome |-> "ok"]

Life == {"new", "running", "closing", "closed", "down"}

Busy(w) == job[w].pc # "idle"

InFlight(w, k) == Busy(w) /\ job[w].key = k

TypeOK ==
  /\ task \in [Key -> TaskRow]
  /\ refs \in Nat
  /\ storeClosed \in BOOLEAN
  /\ life \in [Worker -> Life]
  /\ job \in [Worker -> Job]
  /\ outcomes \in [Key -> SUBSET (Nat \X Outcome)]
  /\ expiries \in Nat
  /\ crashes \in Nat

Init ==
  /\ task = [k \in Key |-> AbsentRow]
  /\ refs = 1
  /\ storeClosed = FALSE
  /\ life = [w \in Worker |-> "new"]
  /\ job = [w \in Worker |-> IdleJob]
  /\ outcomes = [k \in Key |-> {}]
  /\ expiries = 0
  /\ crashes = 0

-----------------------------------------------------------------------------
(* The store *)

CreationTimes == {task[k].created : k \in Key}

\* The clock read by an Enqueue: the latest creation time, or a later one.
Now == {t \in UNION {{c, c + 1} : c \in CreationTimes} :
          \A c \in CreationTimes : t >= c}

\* Mutant: Enqueue replaces the row of a key it already knows.
EnqueueOverwrites(k, created) ==
  /\ ~storeClosed
  /\ task' = [task EXCEPT ![k] =
       [AbsentRow EXCEPT !.status = "queued", !.due = TRUE, !.created = created]]
  /\ UNCHANGED <<refs, storeClosed, life, job, outcomes, expiries, crashes>>

\* Enqueue of a new key. An existing key is returned unchanged, or is
\* ErrConflict: no step.
Enqueue(k, created) ==
  /\ ~storeClosed
  /\ task[k].status = "absent"
  /\ task' = [task EXCEPT ![k] =
       [AbsentRow EXCEPT !.status = "queued", !.due = TRUE, !.created = created]]
  /\ UNCHANGED <<refs, storeClosed, life, job, outcomes, expiries, crashes>>

InScope(w, k) == ScopeOf[w] = AnyTenant \/ TenantOf[k] = ScopeOf[w]

\* Mutant: expired leases are not taken over.
EligibleUnleased(k) ==
  task[k].status \in {"queued", "retryable"} /\ task[k].due

Eligible(k) ==
  \/ task[k].status \in {"queued", "retryable"} /\ task[k].due
  \/ task[k].status = "leased" /\ ~task[k].live

\* The sort of Claim: creation time, then key.
Before(k, l) ==
  \/ task[k].created < task[l].created
  \/ task[k].created = task[l].created /\ k < l

Oldest(w, k) ==
  /\ Eligible(k) /\ InScope(w, k)
  /\ \A l \in Key \ {k} : Eligible(l) /\ InScope(w, l) => Before(k, l)

\* Mutant: transition compares the owner and forgets the fencing token.
HoldsLeaseByName(w) ==
  LET row == task[job[w].key]
  IN row.status = "leased" /\ row.owner = OwnerOf[w] /\ row.live

\* The compare-and-set of transition: only the current, unexpired lease commits.
HoldsLease(w) ==
  LET row == task[job[w].key]
  IN /\ row.status = "leased"
     /\ row.owner = OwnerOf[w]
     /\ row.fence = job[w].fence
     /\ row.live

\* transition: the row leaves "leased" and drops its lease. NextAttemptAt is the
\* backoff of a Retry and the zero time otherwise.
Committed(row, to) ==
  [row EXCEPT !.status = to, !.owner = Nobody, !.live = FALSE,
              !.due = (to # "retryable")]

OpenView ==
  /\ ~storeClosed
  /\ refs < MaxViews
  /\ refs' = refs + 1
  /\ UNCHANGED <<task, storeClosed, life, job, outcomes, expiries, crashes>>

CloseView ==
  /\ refs > 0
  /\ refs' = refs - 1
  /\ storeClosed' = (refs' = 0)
  /\ UNCHANGED <<task, life, job, outcomes, expiries, crashes>>

-----------------------------------------------------------------------------
(* The Worker *)

Start(w) ==
  /\ life[w] = "new"
  /\ life' = [life EXCEPT ![w] = "running"]
  /\ UNCHANGED <<task, refs, storeClosed, job, outcomes, expiries, crashes>>

\* The row update of Claim.
Leased(row, w) ==
  [row EXCEPT !.status = "leased", !.attempts = row.attempts + 1,
              !.fence = row.fence + 1, !.owner = OwnerOf[w], !.live = TRUE]

\* Claim writes the row and returns it; RunOnce keeps the copy.
Lease(w, k) ==
  /\ task' = [task EXCEPT ![k] = Leased(task[k], w)]
  /\ job' = [job EXCEPT ![w] =
       [pc |-> "handling", key |-> k, fence |-> Leased(task[k], w).fence,
        attempts |-> Leased(task[k], w).attempts, outcome |-> "ok"]]
  /\ UNCHANGED <<refs, storeClosed, life, outcomes, expiries, crashes>>

\* RunOnce up to the handler: Claim leases the oldest eligible task in scope.
\* With none eligible, or with the store closed, RunOnce returns: no step.
Claim(w, k) ==
  /\ life[w] = "running"
  /\ ~Busy(w)
  /\ ~storeClosed
  /\ Oldest(w, k)
  /\ Lease(w, k)

\* The handler returns: nil, a retryable or context error, or any other error.
HandlerReturns(w, out) ==
  /\ job[w].pc = "handling"
  /\ job' = [job EXCEPT ![w].pc = "returned", ![w].outcome = out]
  /\ outcomes' = [outcomes EXCEPT ![job[w].key] = @ \cup {<<job[w].fence, out>>}]
  /\ UNCHANGED <<task, refs, storeClosed, life, expiries, crashes>>

\* Mutant: one retry too many.
TargetOffByOne(w) ==
  IF job[w].outcome = "ok" THEN "completed"
  ELSE IF job[w].outcome = "retry" /\ job[w].attempts <= MaxAttempts
    THEN "retryable" ELSE "failed"

\* Which transition RunOnce asks the store for.
Target(w) ==
  IF job[w].outcome = "ok" THEN "completed"
  ELSE IF job[w].outcome = "retry" /\ job[w].attempts < MaxAttempts
    THEN "retryable" ELSE "failed"

\* Complete uses the Worker's context, which Close cancels; Retry and Fail do not.
ContextLive(w) == Target(w) = "completed" => life[w] # "closing"

\* RunOnce after the handler, accepted by the store.
Commit(w) ==
  /\ job[w].pc = "returned"
  /\ ContextLive(w)
  /\ HoldsLease(w)
  /\ task' = [task EXCEPT ![job[w].key] = Committed(@, Target(w))]
  /\ job' = [job EXCEPT ![w] = IdleJob]
  /\ UNCHANGED <<refs, storeClosed, life, outcomes, expiries, crashes>>

\* RunOnce after the handler, refused: ErrConflict or the context error.
CommitRefused(w) ==
  /\ job[w].pc = "returned"
  /\ ~(ContextLive(w) /\ HoldsLease(w))
  /\ job' = [job EXCEPT ![w] = IdleJob]
  /\ UNCHANGED <<task, refs, storeClosed, life, outcomes, expiries, crashes>>

\* Close: a Worker that was started is cancelled and waited for.
Close(w) ==
  /\ life[w] \in {"new", "running"}
  /\ life' = [life EXCEPT ![w] = IF @ = "new" THEN "closed" ELSE "closing"]
  /\ UNCHANGED <<task, refs, storeClosed, job, outcomes, expiries, crashes>>

\* Mutant: the loop looks at its context only when Claim finds no task.
LoopExitsWhenDrained(w) ==
  /\ life[w] = "closing"
  /\ ~Busy(w)
  /\ \A k \in Key : ~(Eligible(k) /\ InScope(w, k))
  /\ life' = [life EXCEPT ![w] = "closed"]
  /\ UNCHANGED <<task, refs, storeClosed, job, outcomes, expiries, crashes>>

\* The loop sees the cancelled context between two calls of RunOnce.
LoopExits(w) ==
  /\ life[w] = "closing"
  /\ ~Busy(w)
  /\ life' = [life EXCEPT ![w] = "closed"]
  /\ UNCHANGED <<task, refs, storeClosed, job, outcomes, expiries, crashes>>

-----------------------------------------------------------------------------
(* The environment *)

ExpireLease(k) ==
  /\ expiries < MaxExpiries
  /\ task[k].status = "leased" /\ task[k].live
  /\ task' = [task EXCEPT ![k].live = FALSE]
  /\ expiries' = expiries + 1
  /\ UNCHANGED <<refs, storeClosed, life, job, outcomes, crashes>>

\* The lease of a task whose Worker is gone always runs out.
ExpireAbandoned(k) ==
  /\ task[k].status = "leased" /\ task[k].live
  /\ \A w \in Worker : InFlight(w, k) => job[w].fence # task[k].fence
  /\ task' = [task EXCEPT ![k].live = FALSE]
  /\ UNCHANGED <<refs, storeClosed, life, job, outcomes, expiries, crashes>>

BecomeDue(k) ==
  /\ task[k].status = "retryable" /\ ~task[k].due
  /\ task' = [task EXCEPT ![k].due = TRUE]
  /\ UNCHANGED <<refs, storeClosed, life, job, outcomes, expiries, crashes>>

\* The process goes away with whatever RunOnce held.
Crash(w) ==
  /\ crashes < MaxCrashes
  /\ life[w] \in {"running", "closing"}
  /\ life' = [life EXCEPT ![w] = "down"]
  /\ job' = [job EXCEPT ![w] = IdleJob]
  /\ crashes' = crashes + 1
  /\ UNCHANGED <<task, refs, storeClosed, outcomes, expiries>>

\* A new process runs a Worker with the same configured owner.
Restart(w) ==
  /\ life[w] = "down"
  /\ life' = [life EXCEPT ![w] = "running"]
  /\ UNCHANGED <<task, refs, storeClosed, job, outcomes, expiries, crashes>>

WorkerStep(w) ==
  \/ Start(w)
  \/ \E k \in Key : Claim(w, k)
  \/ \E out \in Outcome : HandlerReturns(w, out)
  \/ Commit(w)
  \/ CommitRefused(w)
  \/ Close(w)
  \/ LoopExits(w)
  \/ Crash(w)
  \/ Restart(w)

StoreStep ==
  \/ \E k \in Key, created \in Now : Enqueue(k, created)
  \/ OpenView
  \/ CloseView
  \/ \E k \in Key : ExpireLease(k) \/ ExpireAbandoned(k) \/ BecomeDue(k)

Next == StoreStep \/ \E w \in Worker : WorkerStep(w)

Spec == Init /\ [][Next]_vars

\* The loop keeps calling RunOnce, handlers return, the clock advances, and a
\* crashed process is started again. Start, Close and Enqueue are up to callers.
Fairness ==
  /\ \A w \in Worker :
       /\ WF_vars(\E k \in Key : Claim(w, k))
       /\ WF_vars(\E out \in Outcome : HandlerReturns(w, out))
       /\ WF_vars(Commit(w) \/ CommitRefused(w))
       /\ WF_vars(LoopExits(w))
       /\ WF_vars(Restart(w))
  /\ \A k \in Key : WF_vars(ExpireAbandoned(k)) /\ WF_vars(BecomeDue(k))

FairSpec == Spec /\ Fairness

-----------------------------------------------------------------------------
(* Properties *)

\* Fencing: a RunOnce in flight holds a token no newer than the row's; two of
\* them never hold the same token for a task, whatever their owner names; and the
\* one with the newest token still finds the row leased to its owner and with
\* the attempt count it was given, so only it can pass transition's checks.
Fencing ==
  \A w \in Worker : Busy(w) =>
    LET row == task[job[w].key]
    IN /\ job[w].key \in Key
       /\ job[w].fence \in 1 .. row.fence
       /\ job[w].fence = row.fence =>
            /\ row.status = "leased"
            /\ row.owner = OwnerOf[w]
            /\ row.attempts = job[w].attempts
       /\ \A v \in Worker \ {w} :
            InFlight(v, job[w].key) => job[v].fence # job[w].fence

\* Every stored result is the verdict on what the latest claim's handler
\* returned: no result is invented, taken from an older attempt, or recorded
\* against the wrong branch of RunOnce (retry below MaxAttempts, else fail).
ResultJustified ==
  \A k \in Key :
    LET row == task[k]
        Returned(out) == <<row.fence, out>> \in outcomes[k]
    IN /\ row.status = "completed" => Returned("ok")
       /\ row.status = "retryable" =>
            Returned("retry") /\ row.attempts < MaxAttempts
       /\ row.status = "failed" =>
            \/ Returned("fatal")
            \/ Returned("retry") /\ row.attempts >= MaxAttempts

\* A claim's handler returns at most once: one verdict per fencing token.
OneVerdictPerClaim ==
  \A k \in Key : \A x, y \in outcomes[k] : x[1] = y[1] => x = y

\* A stored result is the verdict on what the handler of the latest claim returned,
\* and no claim gets two verdicts.
ResultsAreVerdicts == ResultJustified /\ OneVerdictPerClaim

\* A row leaves "leased" only by the commit of the Worker that claimed it last
\* or by being claimed again, and then with a strictly larger token.  A finished
\* task stays as it is, against late commits, expired leases, claims and repeated
\* Enqueues.
LeaseHandover ==
  [][\A k \in Key :
       /\ task[k].status \in Terminal => task'[k] = task[k]
       /\ task[k].status = "leased" /\ task'[k] # task[k] =>
            \/ task'[k] = [task[k] EXCEPT !.live = FALSE]
            \/ task'[k].fence > task[k].fence /\ task'[k].status = "leased"
            \/ \E w \in Worker :
                 /\ InFlight(w, k) /\ ~Busy(w)'
                 /\ \A v \in Worker \ {w} :
                      InFlight(v, k) => job[v].fence < job[w].fence]_vars

Served(k) ==
  \E w \in Worker : InScope(w, k) /\ life[w] \in {"running", "down"}

\* Every accepted task ends completed or dead-lettered as long as some Worker in
\* its scope keeps running (or being restarted) and the store stays open.
TasksFinish ==
  \A k \in Key :
    <>[]Served(k) /\ []~storeClosed =>
      (task[k].status # "absent" ~> task[k].status \in Terminal)

\* Worker.Close returns: the loop ends once its handler has returned, or the
\* process is gone.
CloseReturns ==
  \A w \in Worker : life[w] = "closing" ~> life[w] # "closing"

=============================================================================
