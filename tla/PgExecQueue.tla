---------------------------- MODULE PgExecQueue ----------------------------
(***************************************************************************)
(* The same Workers over the PostgreSQL store of runtime/queue/postgres.    *)
(* Enqueue and the lease rules are those of ExecQueue. Claim skips rows     *)
(* another transaction has locked, so it need not return the oldest. The    *)
(* store has no closed state. Complete and Fail set next_attempt_at to NULL *)
(* in a column migration 0013 declares NOT NULL, so the statement fails as  *)
(* soon as its WHERE clause matches the row.                                *)
(***************************************************************************)
EXTENDS ExecQueue

\* The constraint of migration 0013: a row always has a next attempt time.
NextAttemptNotNull(to) == to = "retryable"

PgClaim(w, k) ==
  /\ life[w] = "running"
  /\ ~Busy(w)
  /\ Eligible(k) /\ InScope(w, k)
  /\ Lease(w, k)

PgCommit(w) ==
  /\ NextAttemptNotNull(Target(w))
  /\ Commit(w)

\* ErrConflict, the context error, or the constraint violation: RunOnce returns
\* the error, its loop drops it, and the row keeps its lease.
PgCommitRefused(w) ==
  /\ job[w].pc = "returned"
  /\ ~(ContextLive(w) /\ HoldsLease(w) /\ NextAttemptNotNull(Target(w)))
  /\ job' = [job EXCEPT ![w] = IdleJob]
  /\ UNCHANGED <<task, refs, storeClosed, life, outcomes, expiries, crashes>>

PgNext ==
  \/ \E k \in Key, created \in Now : Enqueue(k, created)
  \/ \E k \in Key : ExpireLease(k) \/ ExpireAbandoned(k) \/ BecomeDue(k)
  \/ \E w \in Worker :
       \/ Start(w) \/ Close(w) \/ LoopExits(w) \/ Crash(w) \/ Restart(w)
       \/ \E k \in Key : PgClaim(w, k)
       \/ \E out \in Outcome : HandlerReturns(w, out)
       \/ PgCommit(w)
       \/ PgCommitRefused(w)

PgSpec == Init /\ [][PgNext]_vars

\* "Complete marks a fenced task complete": when RunOnce calls Complete with a
\* live context and the current, unexpired lease, the task becomes completed.
CompleteMarksComplete ==
  [][\A w \in Worker :
       /\ job[w].pc = "returned" /\ job[w].outcome = "ok"
       /\ ContextLive(w) /\ HoldsLease(w)
       /\ job'[w].pc = "idle" /\ life'[w] = life[w]
       => task'[job[w].key].status = "completed"]_vars

=============================================================================
