-------------------------- MODULE MCInboundDispatch --------------------------
(* Three callbacks of one message; replies of one or two segments. *)
EXTENDS InboundDispatch, TLC

CONSTANTS g1, g2, g3, short, long

MCSegmentsOf == (short :> {1}) @@ (long :> {1, 2})

MCCallName == (g1 :> "gateway-1") @@ (g2 :> "gateway-2") @@ (g3 :> "gateway-3")

=============================================================================
