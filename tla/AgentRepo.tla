------------------------------- MODULE AgentRepo -------------------------------
(* The Agent App aggregate (agent/app.go, agent/revision.go) and its three       *)
(* repositories.  The App row selects a current and perhaps a canary revision    *)
(* (0: none); revision n lives in the row RevRow[n].  A request carries the      *)
(* expected App version `ver`, the revision `rev` and its expected version       *)
(* `draft`, the name `raw` of a draft configuration, the status `to`, and        *)
(* `active`: what the admin handler read of the tenant's status before.          *)
EXTENDS ControlRows, SequencesExt, FiniteSetsExt

CONSTANTS RevRow,      \* the rows that hold the revisions, in order
          Drafts       \* the draft configurations that are submitted, by name

NoApp == [st |-> "none", ver |-> 0, cur |-> 0, can |-> 0]

NoRevision == [st |-> "none", ver |-> 0, body |-> Nothing, digest |-> Nothing]

NewApp == [st |-> "draft", ver |-> 1, cur |-> 0, can |-> 0]

AppLifecycle(app) ==
  /\ app.st = "draft" => app.cur = 0
  /\ app.st \in {"active", "suspended"} => app.cur # 0
  /\ app.can # 0 => app.cur # 0 /\ app.can # app.cur

AppCanTransitionTo(from, to) == <<from, to>> \in StatusMoves \union {<<"draft", "disabled">>}

-----------------------------------------------------------------------------
(* Revisions.  A draft configuration is abstracted to its runtime policy         *)
(* ("zero" stands for an empty one, "broken" for one out of range) and its tool  *)
(* authorizations, a sequence of tool numbers.                                   *)

NormalizeTools(tools) ==
  When(Cardinality(ToSet(tools)) = Len(tools), SetToSortSeq(ToSet(tools), LAMBDA x, y : x < y))

ValidateRevisionDefinition(body) == body.runtime # "broken"

NormalizeDraft(raw) ==
  {[runtime |-> IF raw.runtime = "zero" THEN "standard" ELSE raw.runtime, tools |-> t] :
     t \in NormalizeTools(raw.tools)}

NewRevision(raw, ver) ==
  {[st |-> "draft", ver |-> ver, body |-> b, digest |-> Nothing] :
     b \in {x \in NormalizeDraft(raw) : ValidateRevisionDefinition(x)}}

\* The digest is as good as the normalized content it is computed from.
ComputeContentDigest(body) == <<"sha256", NormalizeDraft(body)>>

ValidatePublication(rev) ==
  /\ rev.st = "draft" => rev.digest = Nothing
  /\ rev.st = "published" => rev.digest = ComputeContentDigest(rev.body)

ValidRevision(rev) == NormalizeDraft(rev.body) = {rev.body} /\ ValidatePublication(rev)

PublishRevision(rev) ==
  LET done == [rev EXCEPT !.st = "published", !.digest = ComputeContentDigest(rev.body)]
  IN  When(rev.st = "draft" /\ ValidRevision(rev) /\ ValidRevision(done), done)

-----------------------------------------------------------------------------
(* What an accepted operation leaves behind.  Current and canary revision change *)
(* together: publication and rollback clear the canary (in PostgreSQL a trigger  *)
(* does).                                                                        *)

NextRevision(v) == 1 + Cardinality({n \in DOMAIN RevRow : v[RevRow[n]].st # "none"})

IsDraft(v, n, draft) == v[RevRow[n]].st = "draft" /\ v[RevRow[n]].ver = draft

IsPublished(v, n) == n \in DOMAIN RevRow /\ v[RevRow[n]].st = "published"

StoreApp(v, app) == When(AppLifecycle(app), [v EXCEPT !["app"] = app])

\* Mutant: the canary survives a publication or a rollback.
SelectedKeepsCanary(app, n) == [app EXCEPT !.cur = n, !.ver = @ + 1]

Selected(app, n) == [app EXCEPT !.cur = n, !.can = 0, !.ver = @ + 1]

AddDraft(v, raw) ==
  Put(v, RevRow[NextRevision(v)], NewRevision(raw, 1))

EditDraft(v, n, raw) ==
  Put(v, RevRow[n], {r \in NewRevision(raw, v[RevRow[n]].ver + 1) : ValidRevision(r)})

PublishDraft(v, n) ==
  LET app == Selected(v["app"], n)
  IN  UNION {StoreApp([v EXCEPT ![RevRow[n]] = r],
                      [app EXCEPT !.st = IF @ = "draft" THEN "active" ELSE @]) :
               r \in PublishRevision(v[RevRow[n]])}

CanRollback(v, n) == IsPublished(v, n) /\ v["app"].cur \notin {0, n}

CanCanary(v, n) ==
  /\ v["app"].st = "active"
  /\ v["app"].can # n
  /\ n # 0 => IsPublished(v, n) /\ v["app"].cur \notin {0, n}

Canaried(v, n) == StoreApp(v, [v["app"] EXCEPT !.can = n, !.ver = @ + 1])

-----------------------------------------------------------------------------
(* agent/inmemory: every operation runs under the repository's lock.             *)

MemAppLock == Own("app")

MemMutableApp(v, o) == Mutable(v["app"], o.ver)

MemAppCreate(v, o) == When(v["app"].st = "none", [v EXCEPT !["app"] = NewApp])

MemAppMetadata(v, o) ==
  When(MemMutableApp(v, o), [v EXCEPT !["app"].ver = @ + 1])

MemAppDraft(v, o) == Only(MemMutableApp(v, o), AddDraft(v, Drafts[o.raw]))

MemAppEdit(v, o) ==
  Only(MemMutableApp(v, o) /\ IsDraft(v, o.rev, o.draft), EditDraft(v, o.rev, Drafts[o.raw]))

\* Publication trusts the tenant status the handler read before.
MemAppPublish(v, o) ==
  Only(o.active /\ MemMutableApp(v, o) /\ IsDraft(v, o.rev, o.draft), PublishDraft(v, o.rev))

MemAppRollback(v, o) ==
  Only(MemMutableApp(v, o) /\ CanRollback(v, o.rev), StoreApp(v, Selected(v["app"], o.rev)))

MemAppCanary(v, o) ==
  Only(o.active /\ MemMutableApp(v, o) /\ CanCanary(v, o.rev), Canaried(v, o.rev))

MemAppStatus(v, o) ==
  Only(MemMutableApp(v, o) /\ AppCanTransitionTo(v["app"].st, o.to),
       StoreApp(v, Restated(v["app"], o.to)))

-----------------------------------------------------------------------------
(* agent/postgres: the rows each operation locks, in order, and what it does     *)
(* once it holds them.  The SECURITY DEFINER functions repeat the Go checks on   *)
(* the locked rows; an unlocked preflight read can only refuse earlier.          *)

\* A change of status also locks the current revision, whose digest the event names.
\* It is the one the App had in the expected version: with another version the
\* operation is refused while it holds the App.
PgAppLocks(o) ==
  CASE o.kind = "app.publish" -> <<Share("tenant"), Own("app"), Own(RevRow[o.rev])>>
    [] o.kind = "app.canary" /\ o.rev = 0 -> <<Own("tenant"), Own("app")>>
    [] o.kind = "app.canary" /\ o.rev # 0 -> <<Own("tenant"), Own("app"), Share(RevRow[o.rev])>>
    [] o.kind \in {"app.edit", "app.rollback"} -> <<Own("app"), Own(RevRow[o.rev])>>
    [] o.kind = "app.status" /\ o.rev # 0 -> <<Own("app"), Own(RevRow[o.rev])>>
    [] OTHER -> <<Own("app")>>

\* What is read from the database must validate.
PgAppScans(app) == AppLifecycle(app)

PgRevisionScans(rev) == ValidRevision(rev)

PgMutableApp(v, o) == Mutable(v["app"], o.ver)

PgAppCreate(v, o) == When(v["app"].st = "none", [v EXCEPT !["app"] = NewApp])

PgAppMetadata(v, o) == When(PgMutableApp(v, o), [v EXCEPT !["app"].ver = @ + 1])

PgAppDraft(v, o) == Only(PgMutableApp(v, o), AddDraft(v, Drafts[o.raw]))

PgAppEdit(v, o) ==
  Only(PgMutableApp(v, o) /\ IsDraft(v, o.rev, o.draft), EditDraft(v, o.rev, Drafts[o.raw]))

\* Mutant: the tenant is not read again.
PgLoadPublishStateUngated(v, o) == PgMutableApp(v, o) /\ IsDraft(v, o.rev, o.draft)

\* loadPublishState: the tenant row is share-locked and must be active.
PgLoadPublishState(v, o) ==
  /\ v["tenant"].st = "active"
  /\ PgMutableApp(v, o)
  /\ IsDraft(v, o.rev, o.draft)

PgAppPublish(v, o) ==
  Only(o.active /\ PgLoadPublishState(v, o), PublishDraft(v, o.rev))

PgAppRollback(v, o) ==
  Only(PgMutableApp(v, o) /\ CanRollback(v, o.rev), StoreApp(v, Selected(v["app"], o.rev)))

\* The canary function locks and re-reads the tenant before it writes.
PgAppCanary(v, o) ==
  Only(o.active /\ v["tenant"].st = "active" /\ PgMutableApp(v, o) /\ CanCanary(v, o.rev),
       Canaried(v, o.rev))

PgAppStatus(v, o) ==
  Only(PgMutableApp(v, o) /\ AppCanTransitionTo(v["app"].st, o.to),
       StoreApp(v, Restated(v["app"], o.to)))

-----------------------------------------------------------------------------
(* agent/mysql: the same transactions with SELECT ... FOR UPDATE and UPDATEs     *)
(* conditioned on the version.  Canary changes do not look at the tenant row.    *)

MyAppLocks(o) ==
  CASE o.kind = "app.publish" -> <<Share("tenant"), Own("app"), Own(RevRow[o.rev])>>
    [] o.kind \in {"app.edit", "app.rollback"} -> <<Own("app"), Own(RevRow[o.rev])>>
    [] o.kind = "app.status" /\ o.rev # 0 -> <<Own("app"), Own(RevRow[o.rev])>>
    [] OTHER -> <<Own("app")>>

MyAppScans(app) == AppLifecycle(app)

MyRevisionScans(rev) == ValidRevision(rev)

MyMutableApp(v, o) == Mutable(v["app"], o.ver)

MyAppCreate(v, o) == When(v["app"].st = "none", [v EXCEPT !["app"] = NewApp])

MyAppMetadata(v, o) == When(MyMutableApp(v, o), [v EXCEPT !["app"].ver = @ + 1])

MyAppDraft(v, o) == Only(MyMutableApp(v, o), AddDraft(v, Drafts[o.raw]))

MyAppEdit(v, o) ==
  Only(MyMutableApp(v, o) /\ IsDraft(v, o.rev, o.draft), EditDraft(v, o.rev, Drafts[o.raw]))

MyLoadPublishState(v, o) ==
  /\ v["tenant"].st = "active"
  /\ MyMutableApp(v, o)
  /\ IsDraft(v, o.rev, o.draft)

MyAppPublish(v, o) ==
  Only(o.active /\ MyLoadPublishState(v, o), PublishDraft(v, o.rev))

MyAppRollback(v, o) ==
  Only(MyMutableApp(v, o) /\ CanRollback(v, o.rev), StoreApp(v, Selected(v["app"], o.rev)))

MyAppCanary(v, o) ==
  Only(o.active /\ MyMutableApp(v, o) /\ CanCanary(v, o.rev), Canaried(v, o.rev))

MyAppStatus(v, o) ==
  Only(MyMutableApp(v, o) /\ AppCanTransitionTo(v["app"].st, o.to),
       StoreApp(v, Restated(v["app"], o.to)))

=============================================================================
