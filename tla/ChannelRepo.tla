------------------------------ MODULE ChannelRepo ------------------------------
(* Channel bindings (channels/channels.go, channels/repository.go), their        *)
(* repositories, and the candidates with which a callback finds its binding      *)
(* (channels/routing.go).                                                        *)
EXTENDS ProviderCatalog

CONSTANTS BindingRow,         \* the rows that hold channel bindings
          BindingConfigs,     \* the configurations that are submitted, by name
          MaxCandidates       \* the capacity of the candidate table

NoBinding == [st |-> "none", ver |-> 0, acct |-> Nothing, route |-> Nothing, digest |-> Nothing]

\* The provider account is trimmed and may not be empty; `proto` stands for the
\* channel's protocol fields.
NormalizeRequired(t) == When(TrimSpace(t) # Blank /\ t.style # "control", TrimSpace(t))

NormalizeProtocol(c) == c.proto = "fine"

ConfigDigest(acct, route) == <<"sha256", acct, route>>

BindingFields(row, c) ==
  {[row EXCEPT !.acct = a, !.route = c.route, !.digest = ConfigDigest(a, c.route), !.ver = @ + 1] :
     a \in Only(NormalizeProtocol(c), NormalizeRequired(c.acct))}

NewBinding(o) ==
  Only(o.to \in {"draft", "active", "suspended"},
       BindingFields([NoBinding EXCEPT !.st = o.to], BindingConfigs[o.raw]))

ValidBinding(b) ==
  NormalizeRequired(b.acct) = {b.acct} /\ b.digest = ConfigDigest(b.acct, b.route)

BindingCanTransitionTo(from, to) ==
  <<from, to>> \in StatusMoves \union {<<"draft", "active">>, <<"draft", "disabled">>}

PrepareBindingCreated(o) == {b \in NewBinding(o) : ValidBinding(b)}

PrepareBindingConfiguration(b, o) ==
  Only(Mutable(b, o.ver) /\ ValidBinding(b),
       {n \in BindingFields(b, BindingConfigs[o.raw]) : ValidBinding(n)})

PrepareBindingStatus(b, o) ==
  Only(Mutable(b, o.ver) /\ ValidBinding(b),
       {n \in {Restated(b, o.to)} : BindingCanTransitionTo(b.st, o.to) /\ ValidBinding(n)})

-----------------------------------------------------------------------------
(* channels/inmemory keeps an index of the active accounts; PostgreSQL and MySQL *)
(* have a unique index over them.  Either refuses a second active binding.       *)

MemActiveAccountInUse(v, row, b) ==
  \E r \in BindingRow \ {row} : v[r].st = "active" /\ v[r].acct = b.acct

MemStoreBinding(v, row, bindings) ==
  Put(v, row, {b \in bindings : ~ (b.st = "active" /\ MemActiveAccountInUse(v, row, b))})

MemBindingLock == Own("bindings")

MemBindingCreate(v, o) == Only(v[o.row].st = "none", MemStoreBinding(v, o.row, PrepareBindingCreated(o)))

MemBindingConfig(v, o) == MemStoreBinding(v, o.row, PrepareBindingConfiguration(v[o.row], o))

MemBindingStatus(v, o) == MemStoreBinding(v, o.row, PrepareBindingStatus(v[o.row], o))

\* The unique index of the database.
UniqueActiveAccount(v) ==
  \A r, s \in BindingRow : v[r].st = "active" /\ v[s].st = "active" /\ v[r].acct = v[s].acct => r = s

PgBindingCreate(v, o) == Only(v[o.row].st = "none", Put(v, o.row, PrepareBindingCreated(o)))

PgBindingConfig(v, o) == Put(v, o.row, PrepareBindingConfiguration(v[o.row], o))

PgBindingStatus(v, o) == Put(v, o.row, PrepareBindingStatus(v[o.row], o))

PgBindingScans(b) == ValidBinding(b)

MyBindingCreate(v, o) == Only(v[o.row].st = "none", Put(v, o.row, PrepareBindingCreated(o)))

MyBindingConfig(v, o) == Put(v, o.row, PrepareBindingConfiguration(v[o.row], o))

MyBindingStatus(v, o) == Put(v, o.row, PrepareBindingStatus(v[o.row], o))

MyBindingScans(b) == ValidBinding(b)

-----------------------------------------------------------------------------
(* Candidates.  One is issued for each active binding of a route; it remembers   *)
(* the version and the digest of the binding.  `late`: its lifetime has passed.  *)

ActiveOn(v, route) == {r \in BindingRow : v[r].st = "active" /\ v[r].route = route}

NewCandidate(v, row, hook) ==
  [hook |-> hook, row |-> row, route |-> v[row].route, ver |-> v[row].ver,
   digest |-> v[row].digest, late |-> FALSE]

PruneCandidates(cs) == {c \in cs : ~ c.late}

\* Mutant: the version of the binding is not compared.
CandidateMatchesContent(c, b) == b.st = "active" /\ b.digest = c.digest /\ b.route = c.route

CandidateMatches(c, b) ==
  b.st = "active" /\ b.ver = c.ver /\ b.digest = c.digest /\ b.route = c.route

NewVerifiedBinding(b) == ValidBinding(b) /\ b.st = "active"

NewRoutingTarget(tenant, b, app) ==
  /\ tenant.st = "active"
  /\ ValidBinding(b) /\ b.st = "active"
  /\ app.st = "active"

=============================================================================
