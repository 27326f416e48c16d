---------------------------- MODULE MCDurableReply ----------------------------
(* Two callbacks of one message and one delivery worker; replies of one or two   *)
(* segments, which differ between executions.                                    *)
EXTENDS DurableReply, TLC

CONSTANTS d1, short, long

MCSegmentsOf == (short :> {1}) @@ (long :> {1, 2})

\* Every call has a name of its own; which call it is makes no difference.
MCCallName == [g \in Dispatch |-> g]

MCSymmetry == Permutations(Dispatch)

MCDelivererName == (d1 :> "outbox-1")

=============================================================================
