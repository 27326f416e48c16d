------------------------------- MODULE Platform --------------------------------
(* The service: the control plane, the lock of its in-memory repositories, the   *)
(* chat endpoint with its executions, and the migration of a tenant's records.   *)
(* They share no state (an execution reads the control plane only through its    *)
(* plan, which PlanResolution resolves; a repository runs its operations under   *)
(* the lock, which AdminPlane takes as atomic), so each behaviour moves one.     *)
EXTENDS ControlPlane, HttpChat, ContextRWMutex, BackendMigration

CONSTANTS NoScene,        \* the scene without requests
          NoSituation,    \* the situation without requests
          NoMigration     \* the migration without calls and writes

VARIABLE part    \* the part that moves

platformVars == <<part, controlVars, chatVars, forwardVars, mutexVars, migrationVars>>

PlatformInit ==
  /\ part \in {"control", "chat", "lock", "migration"}
  /\ \E s \in IF part = "control" THEN Scenes ELSE {NoScene} :
       /\ store \in s.stores
       /\ scene = [handlers |-> s.handlers, requests |-> s.requests, mishaps |-> s.mishaps,
                   callbacks |-> s.callbacks, plans |-> s.plans]
       /\ db = s.rows
  /\ call = [a \in Admins |-> NoCall]
  /\ events = <<>> /\ applied = <<>> /\ stale = {} /\ mishaps = 0
  /\ candidates = {} /\ hook = [h \in Hooks |-> NoHook] /\ expiries = 0
  /\ resolver = NoPlan /\ plans = {}
  /\ \E s \in IF part = "chat" THEN Situations ELSE {NoSituation} : ChatStart(s)
  /\ readers = 0 /\ writer = FALSE /\ waitingWriters = 0 /\ at = [c \in Clients |-> "out"] /\ asleep = {}
  /\ \E m \in IF part = "migration" THEN Migrations ELSE {NoMigration} :
       log = m.log /\ sink = m.sink /\ tool = m.tool /\ left = m.left
  /\ router = "source" /\ task = [p \in Operators |-> NoTask] /\ latest = SourceRecords /\ raced = FALSE

PlatformNext ==
  /\ \/ part = "control" /\ ControlNext /\ UNCHANGED <<chatVars, forwardVars, mutexVars, migrationVars>>
     \/ part = "chat" /\ HandlerNext /\ UNCHANGED <<controlVars, mutexVars, migrationVars>>
     \/ part = "chat" /\ ForwardNext /\ UNCHANGED <<controlVars, chatVars, mutexVars, migrationVars>>
     \/ part = "lock" /\ MutexNext /\ UNCHANGED <<controlVars, chatVars, forwardVars, migrationVars>>
     \/ part = "migration" /\ MigrationNext /\ UNCHANGED <<controlVars, chatVars, forwardVars, mutexVars>>
  /\ UNCHANGED part

PlatformSpec == PlatformInit /\ [][PlatformNext]_platformVars

=============================================================================
