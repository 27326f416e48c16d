# A verification of trpc-agent-service in TLA+

This directory models the service in TLA+ (the durable message path, the chat
endpoint, the control plane and the migration of backends), checks the models
with TLC on small instances, and proves with TLAPS, for instances of any size,
the safety of the execution queue, of the durable message path from callback to
delivery, of the Runner registry and of the lock of the in-memory repositories. `PROJECT.json` lists every run, the source lines behind every
definition, the mutants that show that each property can fail, the hazards the
properties aim at, and the theorems.

Contents

1. The system and its parts
2. Modules and how they correspond to the code
3. Runs, bounds and fairness
4. Where the code and its documentation disagree
5. Proofs
6. What is only model-checked, what is abstracted, what is not modelled
7. Plan

## 1. The system and its parts

The service hosts agents for several tenants. Channels (IM providers, HTTP)
deliver messages to a *gateway*, the gateway executes an agent's *Runner*, and
the reply goes back through a durable *outbox*. A control plane administers
tenants, agent applications, model profiles and channel bindings.

| Part | State it owns | Operations that change it | What makes it hard | What has to hold |
|---|---|---|---|---|
| Execution queue (`runtime/queue`) | task rows with lease, fence, attempts; open store views; worker lifecycle | Enqueue, Claim, Complete, Retry, Fail, view Close; worker Start, RunOnce, Close | leases that run out under a busy handler, equal owner names, crashes, shutdown | only the latest claim commits; results are that claim's; finished tasks stay finished; accepted tasks finish |
| PostgreSQL queue (`runtime/queue/postgres`) | the same rows in SQL | the same, with SKIP LOCKED and table constraints | constraints of the migration, claims out of order | the same contract |
| Runtime store (`runtime/storage`, `storage/inmemory`) | message events, reply segments, sessions, event payloads, correlations | RecordMessage, TransitionMessage, EnqueueReplies, ClaimReply, TransitionReply, session and payload calls | every call is atomic, every protocol built on it is not | legal transitions only, fenced; batches all or nothing |
| Gateway dispatch (`gateway/dispatch.go`) | local state of each Dispatch call | claimInbound, failDurable, forward, finishDurable | repeated callbacks, leases of 30 s that are never renewed, crashes | one execution per lease; a completed event carries its own reply |
| Outbox workers (`runtime/outbox`) | local state of RunOnce; the provider's view | list, claim, deliver, reconcile, commit, audit, advance | lost acknowledgements, stale listings, takeovers, shutdown | sent means accepted; duplicates only after a mishap; replied means delivered |
| Runner registry (`gateway/registry.go`) | cached entries, pending builds, references, idle list | Acquire, Release, Invalidate, Close, evictions | the mutex is dropped for building, closing and waiting | no Runner is closed under its holder; none is lost; capacity holds |
| HTTP chat (`gateway/http.go`, `idempotency.go`, `limits.go`) | idempotency records, per-tenant counters | Begin, Complete, Fail, Acquire, Release, Close | expiring records, clients that leave, windows that pass under running requests | no overlap without a lapse; stored answers are whole; leases are counted |
| Execution (`gateway/dispatch.go`), audit and handoff (`audit`) | output channel, audit events, handoff reservations | Append, Reserve, Finalize, forward and its handlers | several writes any of which may fail or lose its answer, a full channel | one outcome; the ledgers agree; success is recorded before it is told |
| Backend migration (`runtime/migration`) | phase of the tool, router, two backends | Begin, Copy, CatchUp, Validate, Cutover, Rollback | writers during every phase, two operators | nothing written is lost unless it meets the switch |
| Agent apps, tenants, profiles, bindings (`agent`, `tenant`, `model`, `backend`, `channels`), three stores each | versioned rows with status, change events | create, update, draft, publish, roll back, canary, change status | races between the read and the write, lock order, lost commits, canonical forms | versions and events agree; retries apply once; what is accepted can be stored |
| Callback routing (`channels`) | one-time candidates | LookupCandidates, ConsumeCandidate | bindings that change in between | routed by the binding that was looked up |
| Plan resolution (`gateway/resolver.go`, `runtime/plan.go`) | none | Resolve | five reads, no transaction | a cache key tells the plan |
| Admin API, bootstrap (`admin`, `bootstrap`) | one request at a time per admin | handlers, audit, invalidation, init | a write, then an audit record, then an invalidation | stale Runners only after a mishap; one root |
| Lock of the in-memory repositories (`*/inmemory/rwmutex.go`) | readers, writer, waiting writers | lock, unlock, rlock, runlock | waiters that are cancelled | a writer is alone; nobody sleeps who could enter |
| Sessions (`runtime/session.go`, `runtime/sessionpostgres`) | session rows, event history | create, update, append, delete | sequence numbers under concurrency | history is complete and in order |
| Drivers, observability, schema, wiring | none beyond the above | translation | start and stop order | - |

How they interact: a channel adapter or the HTTP handler calls
`Dispatcher.Dispatch`; Dispatch records the message in the runtime store, takes
its lease, borrows a Runner from the registry, forwards the Runner's events,
materializes the reply into the outbox and commits the event. Independently the
outbox workers poll the same store, deliver segments through the channel's
provider and, after the last segment, move the event on to `replied`. The
execution queue is a second, self-contained lease protocol of the same kind.

Beside this path, admins change the rows of the control plane, a channel's
callback finds its binding among them, and Dispatch resolves a plan from them. A
change that may affect cached Runners is followed by an invalidation of the
registry. The chat endpoint is the synchronous way in: limiter, idempotency key,
execution, answer.

The protocols share one pattern, and most hazards come from it: a row is leased
under an owner name, a fencing token and a deadline; the work is done without
any lock; the result is committed by a compare-and-set on the row.

## 2. Modules and how they correspond to the code

| Module | Models | Extends |
|---|---|---|
| `ExecQueue` | `runtime/queue/queue.go`: store and workers | - |
| `PgExecQueue` | `runtime/queue/postgres/postgres.go` with migration 0013 | `ExecQueue` |
| `RuntimeStore` | the event and reply rows of `runtime/storage` and `storage/inmemory`: guards and updates, no actions of its own | - |
| `InboundDispatch` | the durable side of `gateway/dispatch.go`, and `outbox/materializer.go` | `RuntimeStore` |
| `ReplyOutbox` | `runtime/outbox/worker.go` | `RuntimeStore` |
| `DurableReply` | the two together over one store | both |
| `RunnerRegistry` | `gateway/registry.go` | - |
| `ControlRows` | what the repositories share: versions, status changes, row locks | - |
| `ProviderCatalog` | the catalogs of `model/model.go` and `backend/backend.go`: normalization and validation of a configuration | `ControlRows` |
| `TenantRepo`, `AgentRepo`, `ModelRepo`, `BackendRepo`, `ChannelRepo` | `tenant`, `agent`, `model`, `backend`, `channels`: constructors, Prepare functions, and each operation of the in-memory, PostgreSQL and MySQL repositories | `ControlRows` or `ProviderCatalog` |
| `AdminPlane` | `admin/api.go` and `bootstrap`: requests as transactions over the chosen store | the repositories |
| `CandidateRouting` | `LookupCandidates`, `ConsumeCandidate`, `ResolveCandidateRoutingTarget` and the candidate loop of the WeCom handler | `AdminPlane` |
| `PlanResolution` | `gateway/resolver.go`, `runtime/plan.go` and the runtime snapshots | `CandidateRouting` |
| `ControlPlane` | the three together, and their properties | `PlanResolution` |
| `AppRegistry` | the abstract specification of an App and its published revisions | - |
| `ExecutionForward` | `Dispatch` from the first audit event on: `forward`, its handlers, `finalizeForward` | - |
| `HttpChat` | `gateway/http.go`, `idempotency.go`, `limits.go` | `ExecutionForward` |
| `ContextRWMutex` | `rwmutex.go` of the in-memory repositories | - |
| `BackendMigration` | `runtime/migration` | - |
| `Platform` | control plane, chat, lock and migration in one specification | these four |
| `ExecQueueProofs`, `InboundDispatchProofs`, `ReplyOutboxProofs`, `RunnerRegistryProofs`, `ContextRWMutexProofs` | theorems | the module they are about |
| `DurableReplyProofs` | theorems about the path as a whole | `DurableReply` and the proofs of its two sides |
| `RunnerAccountProofs` | further theorems about the registry | `RunnerRegistryProofs` |
| `MC*` | the small instances TLC checks; `MCPlatform` takes the scenes of `MCControlPlane` and the situations of `MCHttpChat` | one each |

**ExecQueue.** `task` is `Backend.tasks`, one row per key. `attempts` and `fence`
are separate columns as in the code; `live` and `due` are the comparisons of
`LeaseExpiresAt` and `NextAttemptAt` with the clock, made by the actions
`ExpireLease`, `ExpireAbandoned` and `BecomeDue`. `job[w]` is the task copy
`RunOnce` keeps in local variables while the handler runs, which is exactly what
can become stale. `Claim` is one action (the store holds its lock), the
handler's return is a second, and the commit a third; `Commit` is taken when
`transition` accepts, `CommitRefused` when it returns an error. `Complete` uses
the context that `Close` cancels and `Retry`/`Fail` do not, hence `ContextLive`.
`outcomes` is a history variable: what each claim's handler returned.

**PgExecQueue.** The same worker over the SQL store. `PgClaim` may return any
eligible row because of `SKIP LOCKED`. `NextAttemptNotNull` is the constraint of
migration 0013 that the terminal updates meet.

**RuntimeStore.** The functions `ValidateMessageTransition`, `ValidateTransition`,
`TransitionMessage`, `ClaimReply`, `TransitionReply`, `EnqueueReplies` and
`RecordMessage`, each as a guard (`...OK`) and an update (`After...`). The users
of the store turn them into actions, so one critical section is one step.

**InboundDispatch.** One `call[g]` per `Dispatch` call; its `pc` runs through
the calls that `Dispatch` makes: record, give up an expired lease, claim, audit,
reserve the handoff, acquire a Runner, execute, materialize, finish. Each has its
error path: some fail the event (`StartFails`), one leaves it running
(`ReserveFails`), some drop a store error (`StoreFails`). Leases lapse at any
time (`ExpireEvent`).

**ReplyOutbox.** `dwork[w]` is the local state of `RunOnce`. `ListCandidates`
copies the listing; `fresh`, `held` and `stuck` keep what the copy said of each
row, because `eligible` and `processClaimed` look at the copy while `ClaimReply`
looks at the row. `Deliver` and `Reconcile` are the provider calls; `accepted` is
the provider's own record of what it took. `CommitDelivery` and
`DeliveryConflict` are the two outcomes of `TransitionReply`. `advanceEvent` is
four steps, as it is four store calls.

**DurableReply.** Every step is a step of the gateway or of a worker. The store
variables are shared, so workers meet replies whose event is not yet committed.

**RunnerRegistry.** One action per critical section of the mutex. What happens
outside the mutex (the factory call, closing Runners, waiting for a build) is a
program counter of the caller. `older` relates the less recently used of two
unborrowed Runners to the other; which of them have passed the idle TTL is a
nondeterministic set closed under it.

**The repositories.** An operation is an operator from the rows a transaction sees
to the set of rows it may leave, empty when it refuses. `Mem...`, `Pg...` and
`My...` are the three implementations where they differ: in the checks they
make, in the order of their checks, and in the rows they lock (`...Locks`). What
they share (`Prepare...`, constructors, `Validate`) is defined once. A text is
what it says and how it is written (padding, case, leading zeros, a trailing
dot), so that normalization is a function that does something and can be checked
for being applied twice.

**AdminPlane.** `call[a]` is one admin's request. A handler (`Tenants`, `Apps`,
`Revisions`, ...) chooses it and makes the checks the handler makes before the
repository does. `Lock` takes the row locks of the operation one at a time and
reads the rows; `Execute` applies the operation to what it read and appends the
change event, `Refuse` and `Unreadable` are its failures. `RecordMutation` writes
the audit event and `InvalidateMutation` ends the request. `LoseAnswer` loses the
answer of a commit that happened or did not, `Retry` sends such a request again,
`DeadlockVictim` aborts one of two transactions that wait for each other. `MemRun`
runs an in-memory operation as one step after its lock is taken; that lock is
`ContextRWMutex`. The SQL repositories lock the current revision of an App with
the App when its status changes.

**AppRegistry.** App and published revisions, with one action per promised
change: `Create`, `Describe`, `Publish`, `Rollback`, `SetCanary`, `Transition`.
`ControlPlane` maps the rows of the three repositories to it; `AppRegistryHolds`
is the refinement.

**CandidateRouting, PlanResolution.** A callback looks up candidates, counts and
stores them, and tries them one after the other; a plan is read row by row. The
admins move between any two of these steps. On SQL the count and the insertion
are two critical sections; the history field `crossed` marks a callback during
which another one stored.

**ExecutionForward.** `run[r]` holds the program counter of the forward goroutine,
the output channel `out` and the local `terminalErr`. Audit log and handoff are
`facts` and `handoff`; a write may be refused, fail, or take place and lose its
answer (`hit`). What the Runner sends is chosen step by step among texts, status
events, an error event, a handoff, a last text and the end of the stream. `cut` is
a history field: the context was cancelled while the last item, whose outcome the
audit log already had, waited for room in the channel.

**HttpChat.** `chat[r]` is the handler. Each critical section of limiter and
idempotency store is one step, and the client may leave between any two.
`Complete` and `Fail` act on whatever pending record the key has, as in the code.
`FinalStatus` is `finalChatResponse`: an ordinary answer says `complete` unless an
event that carries a status says otherwise, so texts alone make a success. `told`
keeps what the client learned, from such an answer or from the end of a stream.

**ContextRWMutex.** One action per critical section of the internal mutex.
`asleep` are the waiters that have not been woken since they looked.

**BackendMigration.** `log` is the source's change log (a record's value is the
number of its last change), `sink` the destination. Every adapter call is a step
of `task[p]`. `raced` is a history variable: a write or an `Apply` met a switch.

**Platform.** The four parts share no variable. Each behaviour runs one of them;
this is one run instead of four.

## 3. Runs, bounds and fairness

All passing runs switch deadlock checking off: with its callers gone and its
bounds used up each of these systems may stop.

| Run | Expect | Asks |
|---|---|---|
| `exec_queue` | pass | Do fencing, results, finality and progress survive an expired lease, a crash, shutdown and equal owner names? |
| `pg_exec_queue` | violation | Does `Complete` of the SQL store complete the task? |
| `reply_outbox` | pass | Is the delivery record truthful, and does every segment settle, with two workers of one name and a mishap anywhere? |
| `reply_outbox_stale` | violation | Is an expired sending row always reconciled first? |
| `inbound_dispatch_stale` | violation | Are outbox writes of an overtaken call rejected? |
| `durable_reply` | pass | Is a repeated message executed once per lease, is the committed reply that execution's, and is what the user receives what a Runner said, end to end? |
| `durable_reply_stuck` | violation | Does a completed event with every segment sent become replied? |
| `runner_registry` | pass | Is no Runner closed under a holder, lost, built twice or reused after an invalidation, and is capacity kept? |
| `runner_registry_close` | violation | Does a successful `Close` leave no lease behind? |
| `platform` | pass | Do the control plane over each store, the chat endpoint, the lock and the migration keep their promises under races, retries, expiry and failing writes? |
| `control_plane_reload` | violation | Does a storage error mean that storage failed? |
| `chat_answer` | violation | Is a client answered `complete` only when audit log and handoff say so? |

Properties by run, in words:

- `exec_queue`: `Fencing`, `ResultsAreVerdicts` (state), `LeaseHandover` (steps,
  finished tasks included), `TasksFinish`, `CloseReturns` (liveness).
- `reply_outbox`: `ReplyFencing`, `SentWasAccepted`, `DuplicatesNeedMishaps`,
  `RepliedMeansDelivered`, `LeaseIsRespected` (steps, settled segments included);
  `SegmentsSettle` and `LastSegmentReplies` are liveness.
- `durable_reply`: `InboundFencing`, `RunsNeedLapses`, `CompletedReplyIsOwn` (of
  the gateway, with the workers running), `DeliveredWasProduced`, `RepliedEndToEnd`.
- `runner_registry`: `LeasedIsOpen`, `SlotsBounded` (with one build per key),
  `RunnersAccounted` (after `Close` too), `InvalidatedIsNotReused`, and
  `DroppedIsClosed` (liveness).
- `platform`, control plane: `HistoryIsComplete`, `RetriesApplyOnce`,
  `StoredIsCanonical`, `RowsFitTogether` (one root, one active binding of an
  account, no disabled default), `WaitCycles`, `StaleNeedsMishap`,
  `CandidatesAreSound`, `KeyTellsPlan`, the step property `TenantGatesRelease` and
  the refinement `AppRegistryHolds`.
- `platform`, chat: `SuccessIsRecorded`, `LedgersAgree`, `RequestIdRunsOnce` (with
  one key or two), `OverlapNeedsLapse` (one overlapping execution for each record
  that was pruned, no more), `StoredIsWhole`, `NothingLeaks` (neither leases of the
  limiter nor waiters of a record).
- `platform`, lock and migration: `LockIsSound`, `OnlyRacesLose`.

Three of these say exactly how far a promise goes:

- `CandidatesAreSound`: the table keeps `MaxCandidates`, except that each SQL
  callback whose count another callback's insertion crossed may exceed it by its
  own candidates.
- `SuccessIsRecorded`: a done event that says complete is always backed by both
  ledgers, also when it is replayed. An answer that says complete without one
  (the default of `finalChatResponse`) is, unless a write failed or the handoff
  says canceled; `chat_answer` shows the failed write.
- `LedgersAgree`: at most one outcome, and no handoff success without a completed
  one, whatever fails. Without a failed write both ledgers agree exactly, cancelled
  executions included, except for the one that was `cut`, whose handoff says
  canceled beside the outcome the audit log already had.

**Bounds.**

| Constant | Value | Why it is enough |
|---|---|---|
| `Worker`, `Deliverer` | 2 | the conflict is always between a stale holder and the current one |
| `Key` (queue) | 1 in `exec_queue`, 2 in `pg_exec_queue` | rows interact only through the order in which they are claimed; no property here depends on it |
| `MaxAttempts`, `MaxDeliveries` | 2 | the smallest value with both a retry and an exhausted retry |
| `MaxExpiries`, `MaxCrashes` | 1 each | together they give three claims of a row, hence a stale holder that is two tokens behind |
| `MaxViews` | 2 | a view that is not the last, and the last |
| `Dispatch` | 2, `MaxLapses` 2; 3 in `inbound_dispatch_stale` | an overtaken execution beside the one that overtook it, and its late writes; the theorems cover every number |
| `Segment` | 2, replies of one and of two segments | partial delivery, and batches that do not match |
| `MaxMishaps` | 1 | each single failure at each point, with every interleaving around it |
| `Key`, `Caller`, `Runner`, `MaxEntries` (registry) | 3, 2, 2, 2 | more keys than slots, so eviction and refusal happen, with a holder and a builder at once |
| `MaxInvalidations` | 1 per key | a key is dropped while it is cached and while it is being built |
| `Admins`, `Hooks` | 2 each | races are between two requests, or two callbacks, or a request and a callback |
| `Scenes` | 14 | each names the stores it runs on, a set of rows the constructors accept, the handlers that may be called, at most three requests, two callbacks or two plans, and at most one lost answer or failed audit write; the largest combinations of handlers run without these mishaps, their parts run with one |
| plan scenes | 2 | two plans around one request on the in-memory and MySQL stores, and around two concurrent requests on PostgreSQL: a plan then mixes rows that never coexisted |
| `MaxCandidates` | 3 | two callbacks with two candidates each do not fit, so the table is full and is overshot |
| `Requests`, `Keys`, `RequestIds` | 2 each | the same key, the same request ID, both, with one or two requests at a time allowed |
| `Situations` | 5 | one request with two failing writes and shutdown; two requests on one key, whose record may expire; a repeated request with a failing write; two keys with one request ID, both of which fit the idempotency store; two keys and room for one |
| `ChannelSize` (chat) | 1 | a full channel is the case that matters; the code has 32, so it takes 32 unread events there |
| `Clients` (lock) | 3 | a holder, a waiting writer and a waiting reader |
| `Operators`, `Records` | 2, 2 | two operators at different phases, a partly applied batch |
| `Migrations` | 2 | four calls and two writes from the start; three calls and a write from a caught-up state |

Symmetry is used over the admins (`platform`, `control_plane_reload`) and over the
calls (`durable_reply`); no property of these runs is a liveness property, and the
call names are permuted with the calls. `platform` and `durable_reply` take two to
three minutes on two cores.

In `durable_reply` the path is one message, replies of one or two segments, two
calls and one worker, two lapses and one mishap. `durable_reply_stuck` has one
call, no lapse and no mishap.

**Fairness.** Weak fairness only.

- Queue: the worker loop calls `RunOnce` again at once or after its poll
  interval; handlers return; time passes (abandoned leases run out, backoffs
  end); a crashed process is restarted. `Start`, `Close`, `Enqueue` and crashes
  are not fair. `TasksFinish` further assumes a worker in scope that is not
  closed and a store that stays open.
- Outbox: the polling loop, returning provider calls, and the expiry of leases
  nobody uses. `SegmentsSettle` assumes a loop that keeps running: in the code
  an error that is not a deadline ends it for good.
- Registry: goroutines finish what they began, factories return, holders release.
- `durable_reply_stuck` has fair calls and loops and no faults at all, so its
  counterexample is not a system that merely stops.

## 4. Where the code and its documentation disagree

Each violation run is one such place; `PROJECT.json` quotes the sentences.

1. `pg_exec_queue`: `Complete` and `Fail` store NULL in `next_attempt_at`, which
   migration 0013 declares NOT NULL. The update fails whenever it matches, so a
   task that succeeded keeps its lease and is run again.
2. `reply_outbox_stale`: `processClaimed` decides between delivering and
   reconciling on the listed copy. A worker whose listing is older than another
   worker's claim delivers an expired `sending` row at once.
3. `inbound_dispatch_stale`: `finishDurable` writes the outbox before its fenced
   transition and without a fence. The rows of an overtaken call stay.
   `CompletedReplyIsOwn` still holds, because the other execution's different
   reply then conflicts and its event is failed.
4. `durable_reply_stuck`: the workers may send the last segment before
   `finishDurable` has committed the event. `advanceEvent` then finds `running`,
   does nothing, and nothing calls it again.
5. `control_plane_reload`: the catalog orders the bindings of a backend profile by
   `capabilityRank` (session before memory), the SQL repositories read them back
   with `ORDER BY capability` (memory before session), and `Validate` refuses that
   order. A valid profile with both capabilities therefore ends in `ErrStorage`.
   `StoredIsCanonical` (in `platform`) says that nothing else is lost in the round
   trip.
6. `chat_answer`: when the write of the outcome fails, `finishAuditFailure` drops its
   error and done events if the channel is full. The handler collects the texts
   alone and `finalChatResponse` answers `complete`, while `audit-usage.md:182` and
   `:193` exclude a success before, or without, the handoff's. The answer is kept
   for replays. `SuccessIsRecorded` says that a failed write, or a cancelled
   handoff, is needed for this.
7. `runner_registry_close`: `Close` waits for the Runners still in the map, so a
   lease on one invalidated earlier is neither waited for nor reported.

More were met while modelling and have no run of their own:

- A handler's fatal error that arrives after the lease ran out is refused like
  any late commit (`queue.go:469`), so the task is run again, although the
  comment on `Handler` says other errors "are dead-lettered immediately".
- `outbox.Worker.Close` during a delivery leaves the segment in `sending`; it is
  settled later through `Reconcile` by another worker.
- A repeated callback restarts an event whose lease expired
  (`dispatch.go:430`), where `data-model.md:546` says it is only acknowledged.
  `RunsNeedLapses` bounds how often that can happen.
- `backend-profile.md:535` promises one lock order, tenant before profile.
  `TransitionStatus` of the PostgreSQL backend repository loads the profile FOR
  UPDATE before it calls the function that locks the tenant, so it and a change
  of the tenant's configuration can wait for each other. `WaitCycles` says that
  no other pair can.
- Only PostgreSQL refuses to disable the default backend profile of a tenant (that
  part of `RowsFitTogether` is about it alone).
- `issue-82-agent-app-registry.md:34` says that only an active tenant can start,
  change or clear a canary. The in-memory and MySQL repositories leave that to the
  handler, which reads the tenant earlier; rollback has no tenant check at all.
  `TenantGatesRelease` states what does hold.
- A model endpoint with an IPv4-mapped host is normalized to a form that is
  normalized differently the next time. Such a configuration is refused by
  `Validate`, so `StoredIsCanonical` holds.
- A failed audit write skips the invalidation of cached Runners
  (`admin/api.go:145`), where `issue-72-cache-invalidation.md:5` lets a committed
  change invalidate. `StaleNeedsMishap` bounds this to such failures.
- The capability `summary` is in the catalog and refused by a CHECK of the schema.
- A key whose request failed may be retried, says the comment on `Fail`; a retry
  with the same request ID is refused by the audit event `started` of the first.
- If a write fails, audit log and handoff may keep different outcomes
  (`audit-usage.md:178`); a failed Acquire or Run leaves the handoff pending.
  `LedgersAgree` says what holds in spite of it.
- `trySend` drops the terminal event when the channel is full, so a stream may end
  without one; an execution the client cancelled may be recorded as completed when
  its Runner closes the stream first.
- The PostgreSQL and MySQL repositories count the stored candidates, release the
  candidate mutex and take it again to store new ones, so `MaxCandidates` may be
  exceeded; `CandidatesAreSound` says by how much.
- `issue-76-stateless-worker.md:67` calls the copy of a migration safe to repeat.
  After the switch it overwrites what was written to the destination; a second
  Begin after the switch forgets the way back.

## 5. Proofs

The theorems hold for every value of the constants that the named assumptions
allow. TLC evaluates every assumption on a passing run.

| Module | Theorem | States |
|---|---|---|
| `ExecQueueProofs` | `TypeCorrect` | `Spec => []TypeOK` |
| | `FencingHolds` | `Spec => [](Fencing /\ Fresh)` |
| | `ResultsHold` | `Spec => []ResultsAreVerdicts` |
| | `HandoverHolds` | `Spec => LeaseHandover` |
| `InboundDispatchProofs` | `InboundFencingHolds` | `GatewaySpec => []InboundFencing` |
| | `RunsAreBounded` | `GatewaySpec => []RunsNeedLapses` |
| | `RepliesAreOwn` | `GatewaySpec => []CompletedReplyIsOwn` |
| `ReplyOutboxProofs` | `ReplyFencingHolds` | `OutboxSpec => []ReplyFencing` |
| | `LeasesAreRespected` | `OutboxSpec => LeaseIsRespected` |
| | `SentIsAccepted` | `OutboxSpec => []SentWasAccepted` |
| | `RepliedIsDelivered` | `OutboxSpec => []RepliedMeansDelivered` |
| | `DuplicatesArePaid` | `OutboxSpec => []DuplicatesNeedMishaps` |
| `DurableReplyProofs` | `DeliveredIsProduced` | `PathSpec => []DeliveredWasProduced` |
| | `RepliedFromEndToEnd` | `PathSpec => []RepliedEndToEnd` |
| `RunnerRegistryProofs` | `LeasedStaysOpen` | `Spec => []LeasedIsOpen` |
| | `SlotsAreBounded` | `Spec => []SlotsBounded` |
| `RunnerAccountProofs` | `RunnersAreAccounted` | `Spec => []RunnersAccounted` |
| | `InvalidatedStaysUnused` | `Spec => InvalidatedIsNotReused` |
| `ContextRWMutexProofs` | `MutexHolds` | `MutexSpec => []LockIsSound` |

| Assumption | Says | Evaluated by |
|---|---|---|
| `KeyAssumption` | tasks are positive numbers that stand for their rank | `exec_queue` |
| `ScopeAssumption`, `BoundAssumption` | a worker serves one tenant or all; the bounds are numbers | `exec_queue` |
| `OwnerAssumption` | a configured owner is not empty, as `NewWorker` requires; owners may be equal | `exec_queue` |
| `StoreAssumption` | there are a message and a segment | `reply_outbox`, `durable_reply` |
| `ContentAssumption` | the empty reply is no content; a content has at least one segment | `reply_outbox`, `durable_reply` |
| `DispatchAssumption` | every call has its own owner name (a fresh UUID in the code), not the empty one | `durable_reply` |
| `DelivererAssumption` | workers have names, equal ones allowed; at least one attempt | `reply_outbox`, `durable_reply` |
| `RegistryAssumption` | nil is neither Runner nor caller; there is a slot | `runner_registry` |
| `ClientsFinite` | finitely many clients of the lock | `platform` |

**Execution queue.** The invariant is `FencingInv == TypeOK /\ Fencing /\ Fresh`.
`Fencing` alone is not inductive: `Enqueue` writes a fresh row with token 0, and
only `Fresh` (a key never enqueued was never claimed) shows that no `RunOnce` in
flight loses its token to it. A claim takes a token above all tokens in flight. A
commit ends the only `RunOnce` that holds the newest one. `ResultsAreVerdicts` is
`ResultJustified` (a stored result is what a handler returned under the row's
token) and `OneVerdictPerClaim`. The first speaks of what handlers returned, so the
invariant adds `Recorded`: recorded tokens were handed out, a running handler has
recorded nothing under its token, and a returned one has recorded what `RunOnce`
remembers. `HandoverHolds` follows from the same invariants, one case per action;
the lemma `FinishedStays` is its part about finished tasks.

**Gateway.** A first group of lemmas reduces each step of `Dispatch` to what it does
to one call and one row. Then three invariants:

- `FencingInv` adds `AbsentIsNew` to `InboundFencing`: recording a message writes
  token 0, which is safe only if no call holds a token of it.
- `RunsInv` counts a call that has claimed a message and not yet started its Runner
  as if it had. A claim is granted only when every earlier one has been paid for by
  a lapse, so the count exceeds the lapses by at most one.
- `ReplyInv` follows the reply from `Materialize` to the commit: a stored reply is
  whole (`RepliesAreWhole`), a call that has written knows that its own reply is
  there (`CallKnows`), and a finished event has a call that finished it.

**Outbox.** `FenceInv` is `ReplyFencing` with the type invariant; it is inductive
since rows are never deleted. `SentInv` adds what the committing worker has heard
from the provider. `AdvanceInv` adds what a worker that moves an event on has seen:
all segments sent, which stays true because a sent segment never changes. Stored
segments are then never missing, which `DeliveredInv` adds for events that are
there from the start. `DuplicateInv` counts deliveries in progress as made: the
total is at most the mishaps, and one more only when the segment is settled or its
live claim is entitled to that one (`Granted`).

**The path.** `PathInv` joins `ReplyInv` and `AdvanceInv`. Each side's lemmas say what
its steps do to the other's rows: the gateway only adds replies, and the workers
change neither their content nor events that are not completed. What is added is
where a stored segment comes from (`Said`) and that workers deliver stored segments
only (`Handled`).

**Registry.** Every action is first reduced to its effect on map, builds, leases and
lists (`Step`). `SlotInv` says who runs and who awaits each build. `LeaseInv` adds
that a Runner on somebody's list to be closed has no lease and is not in the map;
without this a `Release` could race an eviction. `AccountInv` and `FreshInv` extend
it: nothing open is forgotten, and what is cached was built in the current
generation of its key.

**Lock.** `LockIsSound` is `MutexTypeOK /\ Exclusion /\ NoLostWakeup`; the inductive
invariant `MutexInv` adds `FlagIsSet`. `MutexTypeOK` says that the counters count the
clients at each place, without which `readers = 0` would not mean that nobody
reads; `FlagIsSet` that a client that writes has set the flag. A waiter may stay
asleep only while it could not enter: every step that could let it in wakes
everybody, the cancellation of a waiting writer included, which is the step that is
easy to forget.

## 6. What is only model-checked, abstracted or left out

Only model-checked: every liveness property (fairness and ENABLED are outside the
prover); the refinement of `AppRegistry` and everything else about the control
plane, the chat endpoint and the migration. The repositories' operations and the
catalogs are functions of concrete rows whose value lies in the cases, which TLC
enumerates.

Abstractions that matter:

- Time is a set of flags turned by actions. Backoff in the outbox is left out: it
  only postpones a claim, and a poll may come arbitrarily late anyway.
- `RuntimeStore` has one tenant; all its lookups are by tenant.
- A reply is a content with the segments `splitRunes` cuts it into; the request
  correlation is part of the content, since both make a repeated batch conflict.
- Faults are bounded (`MaxExpiries`, `MaxCrashes`, `MaxLapses`, `MaxMishaps`).
  A provider that answers `unknown` for ever is therefore not covered.
- In `InboundDispatch` the forwarding loop of `Dispatch` is its two outcomes, a
  reply or an error; `ExecutionForward` is the loop itself, without the durable
  event.
- The control plane has one tenant, one App, one model profile, one backend
  profile and two bindings. Operations on different tenants touch different rows,
  but for the count of tenants (`roots`).
- A request reads everything it checks under the locks it holds at its commit,
  except what the handler read before; plain reads of PostgreSQL and MySQL see
  committed rows.
- Digests are the content itself, so two contents never collide.
- In the migration a record's value is the number of its change; the watermark
  is the length of the log.
- One `Invalidate` runs at a time; `Close` is called once.
- The runtime store is always open.

Not modelled: sessions, event payloads and correlations of the runtime store; the
SQL runtime store and session service (the same contract again, in SQL); Runner
construction and the runtime factories, which assemble library objects; the
protocols of the channel adapters; drivers, observability, request translation,
process start and stop. `PROJECT.json` lists each with its reason.

## 7. Plan

1. `SessionStore`: sessions, payloads and correlations, and the SQL runtime store
   as a refinement of `RuntimeStore`.
2. `InboundDispatch` over `ExecutionForward` instead of its two outcomes.
3. Proofs of the chat properties, and an abstract lease protocol that the queue, the
   gateway and the outbox implement.
