---------------------------- MODULE MCReplyOutbox ----------------------------
(* Two workers, one event whose reply has one or two segments. *)
EXTENDS ReplyOutbox, TLC

CONSTANTS d1, d2, short, long

MCSegmentsOf == (short :> {1}) @@ (long :> {1, 2})

MCSharedName == [w \in Deliverer |-> "outbox"]

MCOwnName == (d1 :> "outbox-1") @@ (d2 :> "outbox-2")

=============================================================================
