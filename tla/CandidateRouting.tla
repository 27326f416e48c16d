--------------------------- MODULE CandidateRouting ----------------------------
(* How a channel callback finds its binding while admins change it: the WeCom    *)
(* handler looks up the candidates of the route (LookupCandidates), consumes one *)
(* after the other (ConsumeCandidate), verifies the callback with the binding's  *)
(* credentials and reads tenant and App for the routing target                   *)
(* (ResolveCandidateRoutingTarget).  None of this is one transaction.            *)
EXTENDS AdminPlane

CONSTANTS Hooks,         \* concurrent callbacks
          Senders,       \* the accounts callbacks are signed by
          MaxExpiries    \* bound: candidates that outlive their five minutes

VARIABLES candidates,    \* the candidate table of the repository
          hook,          \* what each callback is doing
          expiries       \* expired candidates so far

routingVars == <<candidates, hook, expiries>>

\* `seen`, `taken`: the length of the history when the rows were read and when the
\* candidate was consumed; `crossed`: another callback stored its candidates since this
\* one counted them.  They are not program state.
NoHook == [phase |-> "new", sender |-> Nothing, route |-> Nothing, issue |-> {}, left |-> {}, now |-> Nothing,
           binding |-> Nothing, tenant |-> Nothing, seen |-> 0, taken |-> 0, crossed |-> FALSE]

\* The scene has callbacks, and one more may arrive.
Arrives(h) == hook[h].phase = "new" /\ Cardinality({g \in Hooks : hook[g].phase # "new"}) < scene.callbacks

At(h, phase) == hook[h].phase = phase

Become(h, next) == hook' = [hook EXCEPT ![h] = next]

\* The callback is answered 401.
Unverified(h) == Become(h, [NoHook EXCEPT !.phase = "refused"])

Room(cs, n) == n <= MaxCandidates - Cardinality(cs)

Found(h, sender, route) ==
  [NoHook EXCEPT !.sender = sender, !.route = route, !.seen = Len(events),
                 !.issue = {NewCandidate(db, r, h) : r \in ActiveOn(db, route)}]

\* channels/inmemory: pruning, the bound and the insertion are one critical section.
MemLookup(h) ==
  /\ Arrives(h)
  /\ store = "memory"
  /\ \A a \in Admins : MemBindingLock \notin call[a].held
  /\ \E sender \in Senders, route \in {BindingConfigs[c].route : c \in DOMAIN BindingConfigs} :
       LET found == Found(h, sender, route)
           kept  == PruneCandidates(candidates)
       IN  IF found.issue # {} /\ Room(kept, Cardinality(found.issue))
           THEN /\ candidates' = kept \union found.issue
                /\ Become(h, [found EXCEPT !.phase = "trying", !.left = found.issue, !.issue = {}])
           ELSE candidates' = kept /\ Unverified(h)
  /\ UNCHANGED expiries

\* channels/postgres and channels/mysql: the rows are read first ...
SqlLookup(h) ==
  /\ Arrives(h)
  /\ store # "memory"
  /\ \E sender \in Senders, route \in {BindingConfigs[c].route : c \in DOMAIN BindingConfigs} :
       LET found == Found(h, sender, route)
       IN  IF found.issue # {} THEN Become(h, [found EXCEPT !.phase = "found"]) ELSE Unverified(h)
  /\ UNCHANGED <<candidates, expiries>>

\* Mutant: the count does not stop the callback.
SqlCountIgnored(h) ==
  /\ At(h, "found")
  /\ candidates' = PruneCandidates(candidates)
  /\ Become(h, [hook[h] EXCEPT !.phase = "counted"])
  /\ UNCHANGED expiries

\* ... candidateCount prunes and counts under the candidate mutex ...
SqlCount(h) ==
  /\ At(h, "found")
  /\ candidates' = PruneCandidates(candidates)
  /\ IF Room(candidates', Cardinality(hook[h].issue))
     THEN Become(h, [hook[h] EXCEPT !.phase = "counted"])
     ELSE Unverified(h)
  /\ UNCHANGED expiries

\* ... and the candidates are stored under the mutex when it is taken again.
SqlIssue(h) ==
  /\ At(h, "counted")
  /\ candidates' = candidates \union hook[h].issue
  /\ hook' = [g \in Hooks |->
                CASE g = h -> [hook[h] EXCEPT !.phase = "trying", !.left = hook[h].issue, !.issue = {}]
                  [] g # h /\ At(g, "counted") -> [hook[g] EXCEPT !.crossed = TRUE]
                  [] OTHER -> hook[g]]
  /\ UNCHANGED expiries

\* The loop over the candidates goes on with the next one.
NextCandidate(h) == Become(h, [hook[h] EXCEPT !.phase = "trying", !.now = Nothing, !.binding = Nothing])

\* ConsumeCandidate of channels/inmemory: one critical section.
MemConsume(h) ==
  /\ At(h, "trying")
  /\ store = "memory"
  /\ \A a \in Admins : MemBindingLock \notin call[a].held
  /\ \E c \in hook[h].left :
       /\ candidates' = {d \in candidates : <<d.hook, d.row>> # <<h, c.row>>}
       /\ LET kept == {d \in candidates : d.hook = h /\ d.row = c.row /\ ~ d.late}
              rest == [hook[h] EXCEPT !.left = @ \ {c}]
          IN  IF kept # {} /\ CandidateMatches(c, db[c.row])
              THEN Become(h, [rest EXCEPT !.phase = "verify", !.binding = db[c.row], !.now = c.row, !.taken = Len(events)])
              ELSE Become(h, rest)
  /\ UNCHANGED expiries

\* The SQL repositories delete the candidate first ...
SqlTake(h) ==
  /\ At(h, "trying")
  /\ store # "memory"
  /\ \E c \in hook[h].left :
       /\ candidates' = {d \in candidates : <<d.hook, d.row>> # <<h, c.row>>}
       /\ LET kept == {d \in candidates : d.hook = h /\ d.row = c.row /\ ~ d.late}
              rest == [hook[h] EXCEPT !.left = @ \ {c}]
          IN  Become(h, IF kept # {} THEN [rest EXCEPT !.phase = "taken", !.now = c] ELSE rest)
  /\ UNCHANGED expiries

\* ... and read the binding afterwards.
SqlCompare(h) ==
  /\ At(h, "taken")
  /\ LET c == hook[h].now
     IN  IF CandidateMatches(c, db[c.row])
         THEN Become(h, [hook[h] EXCEPT !.phase = "verify", !.binding = db[c.row], !.now = c.row, !.taken = Len(events)])
         ELSE NextCandidate(h)
  /\ UNCHANGED <<candidates, expiries>>

\* The signature fits the credentials of the account it was made for, and no other.
Verify(h) ==
  /\ At(h, "verify")
  /\ IF hook[h].binding.acct = hook[h].sender /\ NewVerifiedBinding(hook[h].binding)
     THEN Become(h, [hook[h] EXCEPT !.phase = "tenant"])
     ELSE NextCandidate(h)
  /\ UNCHANGED <<candidates, expiries>>

ReadTenant(h) ==
  /\ At(h, "tenant")
  /\ Become(h, [hook[h] EXCEPT !.phase = "app", !.tenant = db["tenant"]])
  /\ UNCHANGED <<candidates, expiries>>

ReadApp(h) ==
  /\ At(h, "app")
  /\ IF NewRoutingTarget(hook[h].tenant, hook[h].binding, db["app"])
     THEN Become(h, [hook[h] EXCEPT !.phase = "routed", !.left = {}])
     ELSE NextCandidate(h)
  /\ UNCHANGED <<candidates, expiries>>

\* No candidate is left.
GiveUp(h) ==
  /\ At(h, "trying")
  /\ hook[h].left = {}
  /\ Unverified(h)
  /\ UNCHANGED <<candidates, expiries>>

Expire ==
  /\ expiries < MaxExpiries
  /\ \E c \in candidates :
       /\ ~ c.late
       /\ candidates' = (candidates \ {c}) \union {[c EXCEPT !.late = TRUE]}
  /\ expiries' = expiries + 1
  /\ UNCHANGED hook

RoutingNext ==
  \/ Expire
  \/ \E h \in Hooks :
       \/ MemLookup(h) \/ SqlLookup(h) \/ SqlCount(h) \/ SqlIssue(h) \/ MemConsume(h) \/ SqlTake(h)
       \/ SqlCompare(h) \/ Verify(h) \/ ReadTenant(h) \/ ReadApp(h) \/ GiveUp(h)

=============================================================================
