----------------------------- MODULE MCExecQueue -----------------------------
(* Small instances of ExecQueue: tasks of two tenants, two Workers. Both       *)
(* Workers carry the same owner name, so nothing but the fencing token tells   *)
(* their leases apart.                                                         *)
EXTENDS ExecQueue, TLC

CONSTANTS w1, w2, t1, t2

MCTenantOf == [k \in Key |-> IF k = 1 THEN t1 ELSE t2]

MCScopeOf == [w \in Worker |-> IF w = w1 THEN AnyTenant ELSE t1]

MCOwnerOf == [w \in Worker |-> "worker"]

=============================================================================
