----------------------------- MODULE ControlPlane ------------------------------
(* The control plane as a whole: admin requests over the repositories, and the   *)
(* callbacks and executions that read what they leave behind.                    *)
EXTENDS PlanResolution

controlVars == <<adminVars, routingVars, planVars>>

\* Stores and rows are those of the scene; its `requests`, `mishaps`, `callbacks` and
\* `plans` bound the behaviour.
ControlInit ==
  /\ \E s \in Scenes :
       /\ store \in s.stores
       /\ scene = [handlers |-> s.handlers, requests |-> s.requests, mishaps |-> s.mishaps,
                   callbacks |-> s.callbacks, plans |-> s.plans]
       /\ db = s.rows
  /\ call = [a \in Admins |-> NoCall]
  /\ events = <<>> /\ applied = <<>> /\ stale = {} /\ mishaps = 0
  /\ candidates = {} /\ hook = [h \in Hooks |-> NoHook] /\ expiries = 0
  /\ resolver = NoPlan /\ plans = {}

ControlNext ==
  \/ AdminNext /\ UNCHANGED <<routingVars, planVars>>
  \/ RoutingNext /\ UNCHANGED <<adminVars, planVars>>
  \/ PlanNext /\ UNCHANGED <<adminVars, routingVars>>

ControlSpec == ControlInit /\ [][ControlNext]_controlVars

-----------------------------------------------------------------------------
(* Properties.                                                                   *)

Idle == \A a \in Admins : call[a].phase = "idle"

Published == {n \in DOMAIN RevRow : db[RevRow[n]].st = "published"}

AppAsPromised == INSTANCE AppRegistry WITH
  app <- db["app"],
  library <- [n \in Published |-> db[RevRow[n]].digest]

\* The three repositories implement the App registry: every commit maps to one step
\* of it or leaves App and published revisions alone, lost answers, retries, races
\* on the version and concurrent tenant changes included.
AppRegistryHolds == AppAsPromised!Spec

\* The version of a row and its change events tell one story: the events of a
\* profile or a binding continue each other, and the last one names what is stored
\* (Prepare*Change, newChangeEvent; row and event are written in one transaction).
HistoryOf(row) == SelectSeq(events, LAMBDA e : e.row = row)

HistoryIsComplete ==
  \A row \in {"model", "backend"} \union BindingRow :
    LET h == HistoryOf(row)
    IN  /\ \A i \in 1 .. Len(h) - 1 : h[i + 1].from = h[i].to /\ h[i + 1].was = h[i].now
        /\ \A i \in DOMAIN h : h[i].to = h[i].from + 1
        /\ h # <<>> => Last(h).to = db[row].ver /\ Last(h).now = db[row].st

\* A request is applied at most once, however often the client sends it after a
\* lost answer.  Creating a draft is the exception: it carries no version of its own.
RetriesApplyOnce == \A i \in DOMAIN applied : applied[i].times > 1 => applied[i].kind = "app.draft"

\* A stored profile or binding is what its own constructor would store again, with
\* the digest of that content (NewProfile, Validate; the round trip through the
\* normalizers of both catalogs).  What is accepted can be read back from the SQL
\* stores, but for backend profiles whose bindings they return in another order.
StoredIsCanonical ==
  /\ \A a \in Admins :
       Loaded(a) => \A w \in Fitting(a) :
         \/ ReadsBack(call[a].view, w)
         \/ w["backend"].bindings # Alphabetical(w["backend"].bindings)
  /\ db["model"].st # "none" => ValidModel(db["model"])
  /\ db["backend"].st # "none" => ValidBackend(db["backend"])
  /\ \A r \in BindingRow : db[r].st # "none" => ValidBinding(db[r])
  /\ \A n \in DOMAIN RevRow : db[RevRow[n]].st # "none" => ValidRevision(db[RevRow[n]])

\* What no row can guarantee alone.  However many processes create the first tenant
\* or run init at once, there is one root, and init leaves no tenant without its App
\* (CreateFirst, Initialize).  A provider account never has two active bindings, though
\* two admins may activate them at the same time (activeAccountInUseLocked, the unique
\* index).  In PostgreSQL the default backend profile of a tenant is not disabled
\* while it is the default, and does not become the default once disabled.
RowsFitTogether ==
  /\ db["roots"].ver <= 1
  /\ \A i \in DOMAIN applied : applied[i].kind = "init" /\ applied[i].times > 0 => db["app"].st # "none"
  /\ UniqueActiveAccount(db)
  /\ store = "postgres" => ~ (db["tenant"].be /\ db["backend"].st = "disabled")

\* Two requests wait for each other only through the status change of a PostgreSQL
\* backend profile, which locks the profile before the tenant.
WaitCycles ==
  \A a, b \in Admins :
    Blocks(a, b) /\ Blocks(b, a) =>
      store = "postgres" /\ "backend.status" \in {call[a].op.kind, call[b].op.kind}

\* When every request is answered, rows that changed behind the cached runners'
\* back are due to a lost answer or a failed audit write.
StaleNeedsMishap == Idle /\ stale # {} => mishaps > 0

\* PostgreSQL and MySQL publish only while the tenant is active; PostgreSQL starts
\* and stops canaries only then.  (The in-memory and MySQL canary trust what the
\* handler read before.)
TenantGatesRelease ==
  [][LET old == db["app"] new == db'["app"]
     IN  /\ Published' # Published /\ store # "memory" => db["tenant"].st = "active"
         /\ new.can # old.can /\ new.cur = old.cur /\ store = "postgres" => db["tenant"].st = "active"]_controlVars

\* A routed callback was signed by the account of the binding, and the binding did
\* not change between the lookup and the consumption of its candidate, not even to
\* be suspended and resumed (LookupCandidates, ConsumeCandidate).  The candidate
\* table keeps its bound, but for PostgreSQL and MySQL callbacks during whose two
\* critical sections, counting and storing, another one stored: each of these may
\* overshoot it by its own candidates.
CandidatesAreSound ==
  /\ \A h \in Hooks :
       hook[h].phase = "routed" =>
         /\ hook[h].binding.acct = hook[h].sender
         /\ \A i \in hook[h].seen + 1 .. hook[h].taken : events[i].row # hook[h].now
  /\ Cardinality(candidates) <= MaxCandidates + Cardinality({h \in Hooks : hook[h].crossed}) * Cardinality(BindingRow)

\* The key of a plan tells its content: a runner that is still cached under an old
\* key, because its invalidation was skipped, never serves another configuration;
\* this though the rows of a plan need not have coexisted (ExecutionPlan.CacheKey).
KeyTellsPlan == \A p, q \in plans : CacheKey(p) = CacheKey(q) => p = q

\* A request is answered as a storage failure only when something failed.
AcceptedIsStorable == \A a \in Admins : call[a].answer = "storage" => mishaps > 0

=============================================================================
