---------------------------- MODULE DurableReply ----------------------------
(***************************************************************************)
(* The durable message path end to end: the gateway's Dispatch calls and    *)
(* the outbox workers over one runtime store. The workers poll while calls  *)
(* are still in progress, so they meet replies whose event has not been     *)
(* committed yet, or never will be by the call that wrote them.             *)
(***************************************************************************)
EXTENDS InboundDispatch, ReplyOutbox

pathVars == <<storeVars, gatewayVars, outboxVars>>

PathInit == EmptyStoreInit /\ GatewayInit /\ OutboxInit

PathNext ==
  \/ GatewayNext /\ UNCHANGED outboxVars
  \/ OutboxNext /\ UNCHANGED gatewayVars

PathSpec == PathInit /\ [][PathNext]_pathVars

\* The calls and the polling loops run.
FairPathSpec ==
  /\ PathSpec
  /\ \A g \in Dispatch : WF_pathVars(CallStep(g) /\ UNCHANGED outboxVars)
  /\ \A w \in Deliverer : WF_pathVars(DelivererStep(w) /\ UNCHANGED gatewayVars)
  /\ \A x \in Slot :
       WF_pathVars(Abandoned(x) /\ ExpireReply(x) /\ UNCHANGED gatewayVars)

-----------------------------------------------------------------------------
(* Properties *)

\* What reaches the user was said by a Runner: every segment the provider took
\* belongs to the reply of one execution of that very message.
DeliveredWasProduced ==
  \A x \in Slot : accepted[x] > 0 =>
    \E g \in ran[x[1]] : call[g].content # NoContent
      /\ reply[x].content = call[g].content /\ x[2] \in SegmentsOf[call[g].content]

\* A replied event was executed to the end by one call, and each segment of that
\* call's reply was sent and taken by the provider.
RepliedEndToEnd ==
  \A e \in Event : event[e].status \in {"reply_pending", "replied"} =>
    \E g \in ran[e] :
      /\ call[g].pc = "done" /\ ~call[g].failed
      /\ \A s \in event[e].segments :
           /\ reply[<<e, s>>].content = call[g].content
           /\ reply[<<e, s>>].status = "sent" /\ accepted[<<e, s>>] > 0

\* "all segments sent -> message_event replied": a completed event all of whose
\* segments are sent becomes replied.
AllSentLeadsToReplied ==
  \A e \in Event :
    AllSent(e) /\ event[e].status = "completed" ~> event[e].status = "replied"

=============================================================================
