------------------------------ MODULE BackendRepo ------------------------------
(* Backend profiles (backend/backend.go, backend/repository.go) and their        *)
(* repositories.  A profile holds a sequence of capability bindings.             *)
EXTENDS ProviderCatalog

CONSTANTS BackendSpecs,      \* the provider specifications of the backend catalog
          BackendConfigs     \* the binding lists that are submitted, by name

BackendCatalog == The(NewBackendCatalog(BackendSpecs))

NoBackend == [st |-> "none", ver |-> 0, bindings |-> <<>>, digest |-> Nothing]

BackendDigest(bindings) == <<"sha256", bindings>>

HasCapability(bindings, cap) == \E b \in ToSet(bindings) : b.cap = cap

ValidateLifecycleConfiguration(st, bindings) ==
  /\ st # "disabled" => bindings # <<>>
  /\ st = "active" => HasCapability(bindings, "session")

NewBackendProfile(o) ==
  Only(o.to \in {"active", "suspended"},
       {[st |-> o.to, ver |-> 1, bindings |-> b, digest |-> BackendDigest(b)] :
          b \in {x \in NormalizeBindings(BackendConfigs[o.raw], BackendCatalog) :
                   ValidateLifecycleConfiguration(o.to, x)}})

ValidBackend(p) ==
  /\ NormalizeBindings(p.bindings, BackendCatalog) = {p.bindings}
  /\ ValidateLifecycleConfiguration(p.st, p.bindings)
  /\ p.digest = BackendDigest(p.bindings)

BackendCanTransitionTo(from, to) == <<from, to>> \in StatusMoves

PrepareBackendCreated(o) == {p \in NewBackendProfile(o) : ValidBackend(p)}

PrepareBackendConfiguration(p, o) ==
  Only(Mutable(p, o.ver) /\ ValidBackend(p),
       {q \in {[p EXCEPT !.bindings = b, !.digest = BackendDigest(b), !.ver = @ + 1] :
                 b \in NormalizeBindings(BackendConfigs[o.raw], BackendCatalog)} : ValidBackend(q)})

PrepareBackendStatus(p, o) ==
  Only(Mutable(p, o.ver) /\ ValidBackend(p),
       {q \in {Restated(p, o.to)} : BackendCanTransitionTo(p.st, o.to) /\ ValidBackend(q)})

-----------------------------------------------------------------------------
(* backend/inmemory.                                                             *)

MemBackendLock == Own("backend")

MemBackendCreate(v, o) ==
  Put(v, "backend", Only(v["backend"].st = "none", PrepareBackendCreated(o)))

MemBackendConfig(v, o) == Put(v, "backend", PrepareBackendConfiguration(v["backend"], o))

MemBackendStatus(v, o) == Put(v, "backend", PrepareBackendStatus(v["backend"], o))

-----------------------------------------------------------------------------
(* backend/postgres and backend/mysql keep the bindings in a table of their own  *)
(* and read them back ORDER BY capability, which is the alphabet's order.        *)

Alphabet == [artifact |-> 0, audit |-> 1, knowledge |-> 2, memory |-> 3, session |-> 4, summary |-> 5]

Alphabetical(bindings) ==
  SetToSortSeq(ToSet(bindings), LAMBDA x, y : Alphabet[x.cap] < Alphabet[y.cap])

\* The CHECK constraint of the binding table; the catalog also knows "summary".
StorableCapabilities == {"session", "memory", "knowledge", "artifact", "audit"}

Storable(profiles) == {p \in profiles : \A b \in ToSet(p.bindings) : b.cap \in StorableCapabilities}

\* A status change locks the profile, then the tenant (in the SQL function).
PgBackendLocks(o) ==
  IF o.kind = "backend.status" THEN <<Own("backend"), Own("tenant")>> ELSE <<Own("backend")>>

PgLoadBackend(p) == [p EXCEPT !.bindings = Alphabetical(@)]

PgBackendScans(p) == ValidBackend(PgLoadBackend(p))

PgBackendCreate(v, o) ==
  Put(v, "backend", Only(v["backend"].st = "none", Storable(PrepareBackendCreated(o))))

PgBackendConfig(v, o) == Put(v, "backend", Storable(PrepareBackendConfiguration(v["backend"], o)))

\* The tenant's default profile cannot be disabled.
PgBackendStatus(v, o) ==
  Put(v, "backend", Only(~ (o.to = "disabled" /\ v["tenant"].be), PrepareBackendStatus(v["backend"], o)))

MyLoadBackend(p) == [p EXCEPT !.bindings = Alphabetical(@)]

MyBackendScans(p) == ValidBackend(MyLoadBackend(p))

MyBackendCreate(v, o) ==
  Put(v, "backend", Only(v["backend"].st = "none", Storable(PrepareBackendCreated(o))))

MyReplaceBindings(p, q) == [p EXCEPT !.bindings = q.bindings, !.digest = q.digest, !.ver = q.ver]

MyBackendConfig(v, o) ==
  {[v EXCEPT !["backend"] = MyReplaceBindings(@, p)] : p \in Storable(PrepareBackendConfiguration(v["backend"], o))}

MyBackendStatus(v, o) == Put(v, "backend", PrepareBackendStatus(v["backend"], o))

=============================================================================
