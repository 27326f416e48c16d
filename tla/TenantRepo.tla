------------------------------ MODULE TenantRepo -------------------------------
(* Tenants (tenant/tenant.go) and their three repositories.  The row "tenant"    *)
(* says whether the tenant has a default App and a default backend profile; the  *)
(* version of the row "roots" counts the tenants that were created.              *)
EXTENDS ControlRows

CONSTANT TenantConfigs     \* the configurations that are submitted, by name

NoTenant == [st |-> "none", ver |-> 0, app |-> FALSE, be |-> FALSE, days |-> 0]

\* An omitted audit retention is 90 days.
NormalizeTenantConfiguration(c) == [c EXCEPT !.days = IF @ = 0 THEN 90 ELSE @]

\* `limits` stands for the rate, concurrency, budget and currency fields.
ValidateTenantConfiguration(c) == c.limits = "fine" /\ c.days > 0

Configured(row, c) == [row EXCEPT !.app = c.app, !.be = c.be, !.days = c.days, !.ver = @ + 1]

NewTenant(o) ==
  LET c == NormalizeTenantConfiguration(TenantConfigs[o.raw])
  IN  When(o.to \in {"active", "suspended"} /\ ValidateTenantConfiguration(c),
           Configured([NoTenant EXCEPT !.st = o.to], c))

ValidTenantTransition(from, to) == <<from, to>> \in StatusMoves

AddTenant(v, o) ==
  {[v EXCEPT !["roots"].ver = @ + 1, !["tenant"] = t] : t \in NewTenant(o)}

SetTenantConfiguration(v, o) ==
  LET c == NormalizeTenantConfiguration(TenantConfigs[o.raw])
  IN  When(ValidateTenantConfiguration(c) /\ Mutable(v["tenant"], o.ver),
           [v EXCEPT !["tenant"] = Configured(@, c)])

SetTenantStatus(v, o) ==
  When(Mutable(v["tenant"], o.ver) /\ ValidTenantTransition(v["tenant"].st, o.to),
       [v EXCEPT !["tenant"] = Restated(@, o.to)])

-----------------------------------------------------------------------------
(* tenant/inmemory.  The defaults are taken as given: the App and the backend    *)
(* profile live in other repositories.  The first tenant is counted and created  *)
(* under a lock of the admin handler.                                            *)

\* The repository's contextRWMutex, held as a writer by every operation that writes.
MemTenantLock == Own("tenant")

MemTenantFirst(v, o) == Only(v["roots"].ver = 0, AddTenant(v, o))

MemTenantConfig(v, o) == SetTenantConfiguration(v, o)

MemTenantStatus(v, o) == SetTenantStatus(v, o)

-----------------------------------------------------------------------------
(* tenant/postgres and tenant/mysql.  The new defaults are locked after the      *)
(* tenant and must be active.                                                    *)

DefaultLocks(c) == (IF c.app THEN <<Own("app")>> ELSE <<>>) \o (IF c.be THEN <<Own("backend")>> ELSE <<>>)

DefaultsActive(v, c) ==
  /\ c.app => v["app"].st = "active"
  /\ c.be => v["backend"].st = "active"

\* Mutant: CreateFirst counts the tenants without the advisory lock.
PgTenantLocksCountFreely(o) ==
  CASE o.kind = "tenant.first"  -> <<>>
    [] o.kind = "tenant.config" -> <<Own("tenant")>> \o DefaultLocks(TenantConfigs[o.raw])
    [] o.kind = "tenant.status" -> <<Own("tenant")>>

\* The advisory lock of CreateFirst.
PgTenantLocks(o) ==
  CASE o.kind = "tenant.first"  -> <<Own("roots")>>
    [] o.kind = "tenant.config" -> <<Own("tenant")>> \o DefaultLocks(TenantConfigs[o.raw])
    [] o.kind = "tenant.status" -> <<Own("tenant")>>

PgTenantScans(t) == t.days > 0

PgTenantFirst(v, o) == Only(v["roots"].ver = 0, AddTenant(v, o))

PgTenantConfig(v, o) == Only(DefaultsActive(v, TenantConfigs[o.raw]), SetTenantConfiguration(v, o))

PgTenantStatus(v, o) == SetTenantStatus(v, o)

\* Mutant: the defaults are locked before the tenant.
MyTenantLocksDefaultsFirst(o) ==
  CASE o.kind = "tenant.first"  -> <<Own("roots")>>
    [] o.kind = "tenant.config" -> DefaultLocks(TenantConfigs[o.raw]) \o <<Own("tenant")>>
    [] o.kind = "tenant.status" -> <<Own("tenant")>>

MyTenantLocks(o) ==
  CASE o.kind = "tenant.first"  -> <<Own("roots")>>
    [] o.kind = "tenant.config" -> <<Own("tenant")>> \o DefaultLocks(TenantConfigs[o.raw])
    [] o.kind = "tenant.status" -> <<Own("tenant")>>

MyTenantScans(t) == t.days > 0

MyTenantFirst(v, o) == Only(v["roots"].ver = 0, AddTenant(v, o))

ValidateTenantDefaults(v, c) == DefaultsActive(v, c)

MyTenantConfig(v, o) == Only(ValidateTenantDefaults(v, TenantConfigs[o.raw]), SetTenantConfiguration(v, o))

MyTenantStatus(v, o) == SetTenantStatus(v, o)

=============================================================================
