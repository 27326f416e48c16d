---------------------------- MODULE PlanResolution -----------------------------
(* How an execution gets its plan (gateway/resolver.go, runtime/plan.go): the    *)
(* resolver reads tenant, App, revision, model and backend profile one after the *)
(* other, each from its own repository, while admins change them.  The key of    *)
(* the plan names the cached runner that serves it.                              *)
EXTENDS CandidateRouting

VARIABLES resolver,     \* the plan that is being resolved
          plans         \* the plans that were resolved

planVars == <<resolver, plans>>

NoPlan == [phase |-> "idle", tenant |-> Nothing, app |-> Nothing, n |-> 0, rev |-> Nothing, model |-> Nothing, backend |-> Nothing]

\* ErrPlanUnavailable.
PlanUnavailable == resolver' = NoPlan

Proceed(guard, next) == IF guard THEN resolver' = next ELSE PlanUnavailable

\* The scene bounds the number of distinct plans.
ReadTenantRow ==
  /\ resolver.phase = "idle"
  /\ Cardinality(plans) < scene.plans
  /\ Proceed(db["tenant"].st # "none", [NoPlan EXCEPT !.phase = "app", !.tenant = db["tenant"]])
  /\ UNCHANGED plans

\* The canary revision is selected whenever there is one.
ReadAppRow ==
  /\ resolver.phase = "app"
  /\ LET app == db["app"]
     IN  Proceed(app.st # "none" /\ app.cur # 0,
                 [resolver EXCEPT !.phase = "revision", !.app = app, !.n = IF app.can # 0 THEN app.can ELSE app.cur])
  /\ UNCHANGED plans

ReadRevision ==
  /\ resolver.phase = "revision"
  /\ LET rev == db[RevRow[resolver.n]]
     IN  Proceed(rev.st # "none", [resolver EXCEPT !.phase = "model", !.rev = rev])
  /\ UNCHANGED plans

ReadModel ==
  /\ resolver.phase = "model"
  /\ Proceed(db["model"].st # "none" /\ resolver.tenant.be, [resolver EXCEPT !.phase = "backend", !.model = db["model"]])
  /\ UNCHANGED plans

ReadBackend ==
  /\ resolver.phase = "backend"
  /\ Proceed(db["backend"].st # "none", [resolver EXCEPT !.phase = "plan", !.backend = db["backend"]])
  /\ UNCHANGED plans

NewAgentExecutionSnapshot(p) ==
  /\ p.tenant.st = "active"
  /\ AppLifecycle(p.app) /\ p.app.st = "active"
  /\ ValidRevision(p.rev) /\ p.rev.st = "published"
  /\ p.n \in {p.app.cur, p.app.can}

NewModelExecutionSnapshot(p) == p.tenant.st = "active" /\ ValidModel(p.model) /\ p.model.st = "active"

NewBackendExecutionSnapshot(p) == p.tenant.st = "active" /\ ValidBackend(p.backend) /\ p.backend.st = "active"

NewExecutionPlan ==
  /\ resolver.phase = "plan"
  /\ IF NewAgentExecutionSnapshot(resolver) /\ NewModelExecutionSnapshot(resolver) /\ NewBackendExecutionSnapshot(resolver)
     THEN plans' = plans \union {[resolver EXCEPT !.phase = "done"]}
     ELSE UNCHANGED plans
  /\ resolver' = NoPlan

\* Mutant: the backend profile is left out of the key.
CacheKeyNoBackend(p) ==
  <<p.tenant.ver, p.app.ver, p.n, p.rev.digest, p.model.ver, p.model.digest>>

\* What names the runner of a plan: every version and every digest.
CacheKey(p) ==
  <<p.tenant.ver, p.app.ver, p.n, p.rev.digest, p.model.ver, p.model.digest, p.backend.ver, p.backend.digest>>

PlanNext ==
  ReadTenantRow \/ ReadAppRow \/ ReadRevision \/ ReadModel \/ ReadBackend \/ NewExecutionPlan

=============================================================================
