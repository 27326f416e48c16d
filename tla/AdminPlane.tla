------------------------------ MODULE AdminPlane -------------------------------
(* The admin API (admin/api.go) over the control-plane repositories.  An admin   *)
(* request is one transaction of the chosen store: it acquires the locks of its  *)
(* operation one by one, computes the rows it leaves behind from what it read    *)
(* under them, writes and commits.  The handler then records the mutation in the *)
(* audit log and invalidates the cached runners.  Commits whose answer is lost   *)
(* are retried by the client with the same request.                              *)
EXTENDS TenantRepo, AgentRepo, ModelRepo, BackendRepo, ChannelRepo

CONSTANTS Admins,          \* concurrent admin requests
          Scenes           \* where behaviours start: handlers in play, rows, bounds

VARIABLES store,       \* "memory", "postgres" or "mysql"
          scene,       \* the handlers in play (groups that share no rows are checked apart), and bounds
          db,          \* the committed rows
          call,        \* what each admin request is doing
          events,      \* the change events, in commit order
          applied,     \* the requests so far, and how often each was applied
          stale,       \* rows changed since the runners built from them were last invalidated
          mishaps      \* lost answers and failed audit writes so far

adminVars == <<store, scene, db, call, events, applied, stale, mishaps>>

NoCall == [phase |-> "idle", op |-> Nothing, id |-> 0, view |-> Nothing, need |-> <<>>, held |-> {}, answer |-> "none"]

Request(kind, row, ver) ==
  [kind |-> kind, row |-> row, ver |-> ver, rev |-> 0, draft |-> 0, raw |-> "", to |-> "", active |-> FALSE]

-----------------------------------------------------------------------------
(* The operation of the chosen store.                                            *)

\* The first tenant is counted and created under the handler's own mutex.
FirstTenantMu == Own("roots")

MemLocks(o) ==
  CASE o.row = "roots"         -> <<FirstTenantMu, MemTenantLock>>
    [] o.row = "tenant"        -> <<MemTenantLock>>
    [] o.row = "app"           -> <<MemAppLock>>
    [] o.row = "model"         -> <<MemModelLock>>
    [] o.row = "backend"       -> <<MemBackendLock>>
    [] o.row \in BindingRow   -> <<MemBindingLock>>

MemRun(v, o) ==
  CASE o.kind = "tenant.first"    -> MemTenantFirst(v, o)
    [] o.kind = "tenant.config"   -> MemTenantConfig(v, o)
    [] o.kind = "tenant.status"   -> MemTenantStatus(v, o)
    [] o.kind = "app.create"      -> MemAppCreate(v, o)
    [] o.kind = "app.metadata"    -> MemAppMetadata(v, o)
    [] o.kind = "app.draft"       -> MemAppDraft(v, o)
    [] o.kind = "app.edit"        -> MemAppEdit(v, o)
    [] o.kind = "app.publish"     -> MemAppPublish(v, o)
    [] o.kind = "app.rollback"    -> MemAppRollback(v, o)
    [] o.kind = "app.canary"      -> MemAppCanary(v, o)
    [] o.kind = "app.status"      -> MemAppStatus(v, o)
    [] o.kind = "model.create"    -> MemModelCreate(v, o)
    [] o.kind = "model.config"    -> MemModelConfig(v, o)
    [] o.kind = "model.status"    -> MemModelStatus(v, o)
    [] o.kind = "backend.create"  -> MemBackendCreate(v, o)
    [] o.kind = "backend.config"  -> MemBackendConfig(v, o)
    [] o.kind = "backend.status"  -> MemBackendStatus(v, o)
    [] o.kind = "binding.create"  -> MemBindingCreate(v, o)
    [] o.kind = "binding.config"  -> MemBindingConfig(v, o)
    [] o.kind = "binding.status"  -> MemBindingStatus(v, o)

PgLocks(o) ==
  CASE o.kind \in {"tenant.first", "tenant.config", "tenant.status"} -> PgTenantLocks(o)
    [] o.row = "app" -> PgAppLocks(o)
    [] o.row = "backend" -> PgBackendLocks(o)
    [] OTHER -> <<Own(o.row)>>

\* completeInitialization: an empty control plane gets its first tenant and App; a
\* tenant without an App, or several of either, is refused.
CompleteInitialization(v, o) ==
  IF v["roots"].ver = 0
  THEN {[w EXCEPT !["app"] = NewApp] : w \in Only(v["app"].st = "none", AddTenant(v, o))}
  ELSE When(v["roots"].ver = 1 /\ v["app"].st # "none", v)

PgRun(v, o) ==
  CASE o.kind = "tenant.first"    -> PgTenantFirst(v, o)
    [] o.kind = "init"            -> CompleteInitialization(v, o)
    [] o.kind = "tenant.config"   -> PgTenantConfig(v, o)
    [] o.kind = "tenant.status"   -> PgTenantStatus(v, o)
    [] o.kind = "app.create"      -> PgAppCreate(v, o)
    [] o.kind = "app.metadata"    -> PgAppMetadata(v, o)
    [] o.kind = "app.draft"       -> PgAppDraft(v, o)
    [] o.kind = "app.edit"        -> PgAppEdit(v, o)
    [] o.kind = "app.publish"     -> PgAppPublish(v, o)
    [] o.kind = "app.rollback"    -> PgAppRollback(v, o)
    [] o.kind = "app.canary"      -> PgAppCanary(v, o)
    [] o.kind = "app.status"      -> PgAppStatus(v, o)
    [] o.kind = "model.create"    -> PgModelCreate(v, o)
    [] o.kind = "model.config"    -> PgModelConfig(v, o)
    [] o.kind = "model.status"    -> PgModelStatus(v, o)
    [] o.kind = "backend.create"  -> PgBackendCreate(v, o)
    [] o.kind = "backend.config"  -> PgBackendConfig(v, o)
    [] o.kind = "backend.status"  -> PgBackendStatus(v, o)
    [] o.kind = "binding.create"  -> PgBindingCreate(v, o)
    [] o.kind = "binding.config"  -> PgBindingConfig(v, o)
    [] o.kind = "binding.status"  -> PgBindingStatus(v, o)

MyLocks(o) ==
  CASE o.kind \in {"tenant.first", "tenant.config", "tenant.status"} -> MyTenantLocks(o)
    [] o.row = "app" -> MyAppLocks(o)
    [] OTHER -> <<Own(o.row)>>

MyRun(v, o) ==
  CASE o.kind = "tenant.first"    -> MyTenantFirst(v, o)
    [] o.kind = "tenant.config"   -> MyTenantConfig(v, o)
    [] o.kind = "tenant.status"   -> MyTenantStatus(v, o)
    [] o.kind = "app.create"      -> MyAppCreate(v, o)
    [] o.kind = "app.metadata"    -> MyAppMetadata(v, o)
    [] o.kind = "app.draft"       -> MyAppDraft(v, o)
    [] o.kind = "app.edit"        -> MyAppEdit(v, o)
    [] o.kind = "app.publish"     -> MyAppPublish(v, o)
    [] o.kind = "app.rollback"    -> MyAppRollback(v, o)
    [] o.kind = "app.canary"      -> MyAppCanary(v, o)
    [] o.kind = "app.status"      -> MyAppStatus(v, o)
    [] o.kind = "model.create"    -> MyModelCreate(v, o)
    [] o.kind = "model.config"    -> MyModelConfig(v, o)
    [] o.kind = "model.status"    -> MyModelStatus(v, o)
    [] o.kind = "backend.create"  -> MyBackendCreate(v, o)
    [] o.kind = "backend.config"  -> MyBackendConfig(v, o)
    [] o.kind = "backend.status"  -> MyBackendStatus(v, o)
    [] o.kind = "binding.create"  -> MyBindingCreate(v, o)
    [] o.kind = "binding.config"  -> MyBindingConfig(v, o)
    [] o.kind = "binding.status"  -> MyBindingStatus(v, o)

LockPlan(o) ==
  CASE store = "memory" -> MemLocks(o) [] store = "postgres" -> PgLocks(o) [] store = "mysql" -> MyLocks(o)

Results(v, o) ==
  CASE store = "memory" -> MemRun(v, o) [] store = "postgres" -> PgRun(v, o) [] store = "mysql" -> MyRun(v, o)

\* The SQL repositories read the row back before they commit.
Scans(row, value) ==
  CASE store = "memory" -> TRUE
    [] store = "postgres" /\ row = "tenant" -> PgTenantScans(value)
    [] store = "postgres" /\ row = "app" -> PgAppScans(value)
    [] store = "postgres" /\ row \in ToSet(RevRow) -> PgRevisionScans(value)
    [] store = "postgres" /\ row = "model" -> PgModelScans(value)
    [] store = "postgres" /\ row = "backend" -> PgBackendScans(value)
    [] store = "postgres" /\ row \in BindingRow -> PgBindingScans(value)
    [] store = "mysql" /\ row = "tenant" -> MyTenantScans(value)
    [] store = "mysql" /\ row = "app" -> MyAppScans(value)
    [] store = "mysql" /\ row \in ToSet(RevRow) -> MyRevisionScans(value)
    [] store = "mysql" /\ row = "model" -> MyModelScans(value)
    [] store = "mysql" /\ row = "backend" -> MyBackendScans(value)
    [] store = "mysql" /\ row \in BindingRow -> MyBindingScans(value)
    [] OTHER -> TRUE

-----------------------------------------------------------------------------
(* Transactions.                                                                 *)

Changed(v, w) == {r \in DOMAIN v : w[r] # v[r]}

\* "roots" counts the tenants, so that two creations add up.
Merged(v, w) ==
  [r \in DOMAIN db |->
     CASE r = "roots" -> [db[r] EXCEPT !.ver = @ + w[r].ver - v[r].ver]
       [] r # "roots" /\ r \in Changed(v, w) -> w[r]
       [] OTHER -> db[r]]

\* UPDATE ... WHERE version = expected touches one row; the unique index holds.
Fits(v, w) ==
  /\ \A r \in Changed(v, w) : v[r].st # "none" => db[r].ver = v[r].ver
  /\ store # "memory" => UniqueActiveAccount(Merged(v, w))

ReadsBack(v, w) == \A r \in Changed(v, w) : Scans(r, w[r])

\* Draft edits, metadata and creations of Apps have no change event, nor has the
\* in-memory update of a tenant's configuration.
Emits(o) ==
  /\ o.kind \notin {"init", "tenant.first", "app.create", "app.metadata", "app.draft", "app.edit"}
  /\ ~ (o.kind = "tenant.config" /\ store = "memory")

EventOf(o, v, w) ==
  [row |-> o.row, from |-> v[o.row].ver, to |-> w[o.row].ver, was |-> v[o.row].st, now |-> w[o.row].st]

\* Mutant: a canary is taken for a change that runners do not see.
InvalidatesButCanary(o) ==
  o.kind \in {"tenant.config", "tenant.status", "app.metadata", "app.publish", "app.rollback",
              "app.status", "model.config", "model.status", "backend.config", "backend.status"}

\* resourceInvalidation: creations, drafts and bindings leave the runners alone.
Invalidates(o) ==
  o.kind \in {"tenant.config", "tenant.status", "app.metadata", "app.publish", "app.rollback", "app.canary",
              "app.status", "model.config", "model.status", "backend.config", "backend.status"}

\* The rows the plan of a cached runner is read from.
RunnerRows == {"tenant", "app", "model", "backend"}

Answer(a, answer) == call' = [call EXCEPT ![a] = [NoCall EXCEPT !.answer = answer]]

Commit(a, w) ==
  LET o == call[a].op
      v == call[a].view
  IN  /\ db' = Merged(v, w)
      /\ events' = IF Emits(o) THEN Append(events, EventOf(o, v, w)) ELSE events
      /\ applied' = [applied EXCEPT ![call[a].id].times = @ + (IF Changed(v, w) = {} THEN 0 ELSE 1)]
      /\ stale' = stale \union {r \in Changed(v, w) \cap RunnerRows : v[r].st # "none"}

Running(a) == call[a].phase = "running"

\* Everything is locked and read.
Loaded(a) == Running(a) /\ call[a].need = <<>>

Blocks(b, a) == a # b /\ \E l \in call[b].held : call[a].need # <<>> /\ LockClash(Head(call[a].need), l)

Lock(a) ==
  /\ Running(a) /\ ~ Loaded(a)
  /\ \A b \in Admins : ~ Blocks(b, a)
  /\ call' = [call EXCEPT ![a].held = @ \union {Head(call[a].need)}, ![a].need = Tail(@), ![a].view = db]
  /\ UNCHANGED <<store, scene, db, events, applied, stale, mishaps>>

\* What the request may leave behind, and what of it can be read back.
Fitting(a) == {w \in Results(call[a].view, call[a].op) : Fits(call[a].view, w)}

Readable(a, fitting) == {w \in fitting : ReadsBack(call[a].view, w)}

Execute(a, accepted) ==
  /\ \E w \in accepted : Commit(a, w)
  /\ IF call[a].op.kind = "init"
     THEN Answer(a, "ok")
     ELSE call' = [call EXCEPT ![a].phase = "committed", ![a].held = {}, ![a].view = Nothing]
  /\ UNCHANGED <<store, scene, mishaps>>

\* Not found, disabled, conflict, invalid, duplicate: nothing is written.
Refuse(a, fitting) ==
  /\ fitting = {}
  /\ Answer(a, "refused")
  /\ UNCHANGED <<store, scene, db, events, applied, stale, mishaps>>

\* The written row does not validate when it is read back: ErrStorage.
Unreadable(a, fitting, accepted) ==
  /\ fitting # {} /\ accepted = {}
  /\ Answer(a, "storage")
  /\ UNCHANGED <<store, scene, db, events, applied, stale, mishaps>>

\* The connection is lost at the commit, which may have happened or not.
LoseAnswer(a, accepted) ==
  /\ store # "memory"
  /\ mishaps < scene.mishaps
  /\ mishaps' = mishaps + 1
  /\ \/ \E w \in accepted : Commit(a, w)
     \/ UNCHANGED <<db, events, applied, stale>>
  /\ call' = [call EXCEPT ![a].phase = "unknown", ![a].held = {}, ![a].view = Nothing]
  /\ UNCHANGED <<store, scene>>

\* The repository runs the operation on what it locked and read.
Finish(a) ==
  /\ Loaded(a)
  /\ \E fitting \in {Fitting(a)} : \E accepted \in {Readable(a, fitting)} :
       \/ Execute(a, accepted)
       \/ Refuse(a, fitting)
       \/ Unreadable(a, fitting, accepted)
       \/ LoseAnswer(a, accepted)

\* The database aborts one of two transactions that wait for each other.
DeadlockVictim(a) ==
  /\ Running(a)
  /\ \E b \in Admins : Blocks(a, b) /\ Blocks(b, a)
  /\ Answer(a, "conflict")
  /\ UNCHANGED <<store, scene, db, events, applied, stale, mishaps>>

\* A client that does not know the outcome sends the same request again.
Retry(a) ==
  /\ call[a].phase = "unknown"
  /\ call' = [call EXCEPT ![a].phase = "running", ![a].need = LockPlan(call[a].op), ![a].view = db]
  /\ UNCHANGED <<store, scene, db, events, applied, stale, mishaps>>

\* recordMutation: a failed audit write is answered as an error, and the cache is
\* not invalidated.
RecordMutation(a) ==
  /\ call[a].phase = "committed"
  /\ \/ /\ call' = [call EXCEPT ![a].phase = "recorded"]
        /\ UNCHANGED mishaps
     \/ /\ mishaps < scene.mishaps
        /\ mishaps' = mishaps + 1
        /\ Answer(a, "unrecorded")
  /\ UNCHANGED <<store, scene, db, events, applied, stale>>

InvalidateMutation(a) ==
  /\ call[a].phase = "recorded"
  /\ stale' = CASE ~ Invalidates(call[a].op) -> stale
                [] Invalidates(call[a].op) /\ call[a].op.row = "tenant" -> {}
                [] OTHER -> stale \ {call[a].op.row}
  /\ Answer(a, "ok")
  /\ UNCHANGED <<store, scene, db, events, applied, mishaps>>

-----------------------------------------------------------------------------
(* The handlers.  The client states the version it last saw; the handlers of     *)
(* publication and canary read the tenant's status before the repository does.   *)

Post(a, o) ==
  /\ call[a].phase = "idle"
  /\ Len(applied) < scene.requests
  /\ applied' = Append(applied, [kind |-> o.kind, times |-> 0])
  /\ call' = [call EXCEPT ![a] = [NoCall EXCEPT !.phase = "running", !.op = o, !.id = Len(applied) + 1,
                                               !.view = db, !.need = LockPlan(o)]]
  /\ UNCHANGED <<store, scene, db, events, stale, mishaps>>

Handles(name) == name \in scene.handlers

TenantActive == db["tenant"].st = "active"

Statuses == {"active", "suspended", "disabled"}

\* The first tenant starts without defaults: there is nothing to refer to.
Tenants(a) ==
  /\ Handles("tenants")
  /\ \E raw \in DOMAIN TenantConfigs :
       /\ ~ TenantConfigs[raw].app /\ ~ TenantConfigs[raw].be
       /\ Post(a, [Request("tenant.first", "roots", 0) EXCEPT !.raw = raw, !.to = "active"])

\* trpc-service init, on PostgreSQL.
Initialize(a) ==
  /\ Handles("init")
  /\ store = "postgres"
  /\ Post(a, [Request("init", "roots", 0) EXCEPT !.raw = "initial", !.to = "active"])

TenantConfiguration(a) ==
  /\ Handles("tenant.config")
  /\ \E raw \in DOMAIN TenantConfigs :
       Post(a, [Request("tenant.config", "tenant", db["tenant"].ver) EXCEPT !.raw = raw])

TenantStatus(a) ==
  /\ Handles("tenant.status")
  /\ \E to \in Statuses : Post(a, [Request("tenant.status", "tenant", db["tenant"].ver) EXCEPT !.to = to])

AppRequest(kind) == Request(kind, "app", db["app"].ver)

Apps(a) ==
  /\ Handles("apps")
  /\ \/ \E kind \in {"app.create", "app.metadata"} : Post(a, AppRequest(kind))
     \/ \E to \in Statuses : Post(a, [AppRequest("app.status") EXCEPT !.to = to, !.rev = db["app"].cur])
     \/ \E n \in DOMAIN RevRow : Post(a, [AppRequest("app.rollback") EXCEPT !.rev = n])
     \/ \E n \in {0} \union DOMAIN RevRow :
          Post(a, [AppRequest("app.canary") EXCEPT !.rev = n, !.active = TenantActive])

\* RevRow bounds the revisions of the App: those being created, and those a retry
\* may still create, included.
RoomForDraft ==
  LET drafting == {b \in Admins : call[b].op # Nothing /\ call[b].op.kind = "app.draft"}
  IN  NextRevision(db) + Cardinality(drafting) + scene.mishaps - mishaps <= Len(RevRow)

Revisions(a) ==
  /\ Handles("revisions")
  /\ \/ \E raw \in DOMAIN Drafts :
          RoomForDraft /\ Post(a, [AppRequest("app.draft") EXCEPT !.raw = raw])
     \/ \E raw \in DOMAIN Drafts, n \in DOMAIN RevRow :
          Post(a, [AppRequest("app.edit") EXCEPT !.raw = raw, !.rev = n, !.draft = db[RevRow[n]].ver])
     \/ \E n \in DOMAIN RevRow :
          Post(a, [AppRequest("app.publish") EXCEPT !.rev = n, !.draft = db[RevRow[n]].ver, !.active = TenantActive])

Models(a) ==
  \/ /\ Handles("models")
     /\ \E raw \in DOMAIN ModelConfigs : Post(a, [Request("model.create", "model", 0) EXCEPT !.raw = raw, !.to = "active"])
  \/ /\ Handles("model.config")
     /\ \E raw \in DOMAIN ModelConfigs : Post(a, [Request("model.config", "model", db["model"].ver) EXCEPT !.raw = raw])
  \/ /\ Handles("model.status")
     /\ \E to \in Statuses : Post(a, [Request("model.status", "model", db["model"].ver) EXCEPT !.to = to])

Backends(a) ==
  /\ Handles("backends")
  /\ \/ \E raw \in DOMAIN BackendConfigs :
          \/ Post(a, [Request("backend.create", "backend", 0) EXCEPT !.raw = raw, !.to = "active"])
          \/ Post(a, [Request("backend.config", "backend", db["backend"].ver) EXCEPT !.raw = raw])
     \/ \E to \in Statuses : Post(a, [Request("backend.status", "backend", db["backend"].ver) EXCEPT !.to = to])

Bindings(a) ==
  /\ Handles("bindings")
  /\ \E row \in BindingRow :
       \/ \E raw \in DOMAIN BindingConfigs :
            \/ Post(a, [Request("binding.create", row, 0) EXCEPT !.raw = raw, !.to = "active"])
            \/ Post(a, [Request("binding.config", row, db[row].ver) EXCEPT !.raw = raw])
       \/ \E to \in Statuses : Post(a, [Request("binding.status", row, db[row].ver) EXCEPT !.to = to])

AdminNext ==
  \E a \in Admins :
    \/ Tenants(a) \/ Initialize(a) \/ TenantConfiguration(a) \/ TenantStatus(a)
    \/ Apps(a) \/ Revisions(a) \/ Models(a) \/ Backends(a) \/ Bindings(a)
    \/ Lock(a) \/ Finish(a) \/ DeadlockVictim(a)
    \/ Retry(a) \/ RecordMutation(a) \/ InvalidateMutation(a)

=============================================================================
