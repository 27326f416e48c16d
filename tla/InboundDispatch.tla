--------------------------- MODULE InboundDispatch ---------------------------
(***************************************************************************)
(* The durable side of gateway.Dispatcher: one Dispatch per callback of a   *)
(* channel message. claimInbound records the message and takes its lease,   *)
(* the Runner executes, finishDurable materializes the reply and commits    *)
(* the event. Channels repeat callbacks, gateways crash, leases (30 seconds,*)
(* never renewed) run out while a Runner is still busy.                      *)
(*                                                                         *)
(* Each Dispatch call has an owner name of its own (a fresh UUID), so a     *)
(* call is its own owner. The session row and its sequence numbers, the     *)
(* audit log and the handoff are other components; here their failures are  *)
(* error paths of Dispatch.                                                  *)
(***************************************************************************)
EXTENDS RuntimeStore, FiniteSets

CONSTANTS
  Dispatch,     \* Dispatch calls, each for one callback
  CallName,     \* Dispatch -> owner name, "gateway-" and a fresh UUID
  MaxLapses     \* bound: leases of one event that run out

ASSUME DispatchAssumption ==
  /\ \A g, h \in Dispatch : CallName[g] = CallName[h] => g = h
  /\ \A g \in Dispatch : CallName[g] # Nobody
  /\ MaxLapses \in Nat

VARIABLES
  call,         \* Dispatch -> the local variables of the call
  ran,          \* history, Event -> calls that started a Runner for it
  lapses        \* Event -> its leases that have run out

gatewayVars == <<call, ran, lapses>>

CallState ==
  {"new", "reconcile", "claim", "started", "reserve", "acquire", "execute",
   "materialize", "finish", "done", "crashed"}

\* from is the status claimInbound means to leave, fence the token of its lease,
\* content the reply its Runner produced, failed terminalErr.
Call ==
  [pc : CallState, event : Event,
   from : {"received", "execution_reconciling"}, fence : Nat,
   content : Content \cup {NoContent}, failed : BOOLEAN]

NewCall ==
  [pc |-> "new", event |-> CHOOSE e \in Event : TRUE, from |-> "received",
   fence |-> 0, content |-> NoContent, failed |-> FALSE]

CallNames == {CallName[g] : g \in Dispatch}

\* The gateway's part of the state; ReplyOutbox types the replies.
GatewayTypeOK ==
  /\ event \in [Event -> EventRow(CallNames)]
  /\ call \in [Dispatch -> Call]
  /\ ran \in [Event -> SUBSET Dispatch]
  /\ lapses \in [Event -> 0 .. MaxLapses]

EmptyStoreInit ==
  /\ event = [e \in Event |-> NoEvent]
  /\ reply = [x \in Slot |-> NoReply]

GatewayInit ==
  /\ call = [g \in Dispatch |-> NewCall]
  /\ ran = [e \in Event |-> {}]
  /\ lapses = [e \in Event |-> 0]

-----------------------------------------------------------------------------
(* claimInbound *)

Step(g, from, to) == call[g].pc = from /\ call' = [call EXCEPT ![g].pc = to]

Ev(g) == call[g].event

\* RecordMessage, then prepareInboundEvent's look at what it returned. A known
\* message is taken up again only when nobody is running it: received, given up
\* for reconciliation, or running under an expired lease.
Receive(g, e) ==
  /\ call[g].pc = "new"
  /\ event' = IF event[e].status = "absent"
       THEN [event EXCEPT ![e] = RecordedEvent] ELSE event
  /\ LET status == event'[e].status
         pc == IF status \in {"received", "execution_reconciling"} THEN "claim"
               ELSE IF status = "running" /\ ~event[e].live THEN "reconcile"
               ELSE "done"                           \* ErrDuplicateMessage
     IN call' = [call EXCEPT ![g] =
          [NewCall EXCEPT !.pc = pc, !.event = e,
             !.from = IF status = "received" THEN status ELSE "execution_reconciling"]]
  /\ UNCHANGED <<reply, ran, lapses>>

\* TransitionMessage from "from" to "to" with the call's owner and fence; pc is
\* where the call goes on when the store accepts, otherwise where it goes.
Transition(g, from, to, segments, pc, otherwise) ==
  LET row == event[Ev(g)]
      ok == TransitionMessageOK(row, from, to, CallName[g], call[g].fence)
      after == AfterMessageTransition(row, to, CallName[g], segments)
  IN /\ event' = IF ok THEN [event EXCEPT ![Ev(g)] = after] ELSE event
     /\ call' = [call EXCEPT ![g].pc = IF ok THEN pc ELSE otherwise,
                             ![g].fence = IF ok THEN after.fence ELSE @]
     /\ UNCHANGED <<reply, ran, lapses>>

\* The expired lease of another call is given up before it can be taken.
GiveUpExpired(g) ==
  /\ call[g].pc = "reconcile"
  /\ Transition(g, "running", "execution_reconciling", {}, "claim", "done")

ClaimEvent(g) ==
  /\ call[g].pc = "claim"
  /\ Transition(g, call[g].from, "running", {}, "started", "done")

-----------------------------------------------------------------------------
(* Dispatch and forward *)

\* The execution_started audit record is written.
AuditStarted(g) ==
  /\ Step(g, "started", "reserve")
  /\ UNCHANGED <<storeVars, ran, lapses>>

\* The audit handoff is reserved.
ReserveHandoff(g) ==
  /\ Step(g, "reserve", "acquire")
  /\ UNCHANGED <<storeVars, ran, lapses>>

\* A failed reservation returns without touching the event.
ReserveFails(g) ==
  /\ Step(g, "reserve", "done")
  /\ UNCHANGED <<storeVars, ran, lapses>>

\* failDurable: the audit record, Registry.Acquire or Runner.Run failed.
StartFails(g) ==
  /\ call[g].pc \in {"started", "acquire"}
  /\ Transition(g, "running", "failed", {}, "done", "done")

StartRunner(g) ==
  /\ Step(g, "acquire", "execute")
  /\ ran' = [ran EXCEPT ![Ev(g)] = @ \cup {g}]
  /\ UNCHANGED <<storeVars, lapses>>

\* The event stream ends well, with a reply or with none.
RunnerEnds(g, content) ==
  /\ call[g].pc = "execute"
  /\ call' = [call EXCEPT ![g].content = content,
       ![g].pc = IF content = NoContent THEN "finish" ELSE "materialize"]
  /\ UNCHANGED <<storeVars, ran, lapses>>

\* terminalErr: a Runner error, a cancellation, or an audit record or handoff
\* that cannot be written. Whatever was said so far is not materialized.
RunnerFails(g) ==
  /\ call[g].pc = "execute"
  /\ call' = [call EXCEPT ![g].pc = "finish", ![g].failed = TRUE]
  /\ UNCHANGED <<storeVars, ran, lapses>>

\* Mutant: the text of the reply is read from a buffer that has been reused.
MaterializeReused(g) ==
  /\ call[g].pc = "materialize"
  /\ \E content \in Content :
       EnqueueRepliesOK(Ev(g), content) /\ EnqueueReplies(Ev(g), content)
  /\ call' = [call EXCEPT ![g].pc = "finish"]
  /\ UNCHANGED <<event, ran, lapses>>

\* finishDurable writes the segments before it commits the event, without fence.
Materialize(g) ==
  /\ call[g].pc = "materialize"
  /\ EnqueueRepliesOK(Ev(g), call[g].content)
  /\ EnqueueReplies(Ev(g), call[g].content)
  /\ call' = [call EXCEPT ![g].pc = "finish"]
  /\ UNCHANGED <<event, ran, lapses>>

\* ErrConflict with the reply of another execution, or a store failure.
MaterializeFails(g) ==
  /\ call[g].pc = "materialize"
  /\ call' = [call EXCEPT ![g].pc = "finish", ![g].failed = TRUE]
  /\ UNCHANGED <<storeVars, ran, lapses>>

Finish(g) ==
  /\ call[g].pc = "finish"
  /\ LET done == ~call[g].failed
         segments == IF done /\ call[g].content # NoContent
                     THEN SegmentsOf[call[g].content] ELSE {}
     IN Transition(g, "running", IF done THEN "completed" ELSE "failed", segments,
                   "done", "done")

-----------------------------------------------------------------------------
(* What goes wrong *)

\* A storage error ends claimInbound, or is dropped by finishDurable and
\* failDurable: the call is over and the event keeps its status.
StoreFails(g) ==
  /\ call[g].pc \in {"new", "reconcile", "claim", "started", "acquire", "finish"}
  /\ call' = [call EXCEPT ![g].pc = "done"]
  /\ UNCHANGED <<storeVars, ran, lapses>>

Crash(g) ==
  /\ call[g].pc \notin {"new", "done", "crashed"}
  /\ call' = [call EXCEPT ![g].pc = "crashed"]
  /\ UNCHANGED <<storeVars, ran, lapses>>

ExpireEvent(e) ==
  /\ event[e].status = "running" /\ event[e].live
  /\ lapses[e] < MaxLapses
  /\ lapses' = [lapses EXCEPT ![e] = @ + 1]
  /\ event' = [event EXCEPT ![e].live = FALSE]
  /\ UNCHANGED <<reply, call, ran>>

\* What a call does when nothing goes wrong.
CallStep(g) ==
  \/ \E e \in Event : Receive(g, e)
  \/ GiveUpExpired(g) \/ ClaimEvent(g) \/ AuditStarted(g) \/ ReserveHandoff(g)
  \/ StartRunner(g)
  \/ \E c \in Content \cup {NoContent} : RunnerEnds(g, c)
  \/ Materialize(g)
  \/ Finish(g)

GatewayNext ==
  \/ \E g \in Dispatch :
       \/ CallStep(g)
       \/ ReserveFails(g) \/ StartFails(g) \/ RunnerFails(g) \/ MaterializeFails(g)
       \/ StoreFails(g) \/ Crash(g)
  \/ \E e \in Event : ExpireEvent(e)

GatewayVars == <<storeVars, gatewayVars>>

InboundInit == EmptyStoreInit /\ GatewayInit

GatewaySpec == InboundInit /\ [][GatewayNext]_GatewayVars

-----------------------------------------------------------------------------
(* Properties *)

\* The call holds a fencing token it got from the store.
Holding(g) ==
  call[g].pc \in {"started", "reserve", "acquire", "execute", "materialize", "finish"}

\* Of all calls for an event that believe they run it, at most one can commit:
\* their tokens differ, none is newer than the row's, and the current one's row
\* is still running under that call's name.
InboundFencing ==
  \A g \in Dispatch : Holding(g) =>
    LET row == event[Ev(g)]
    IN /\ call[g].fence \in 1 .. row.fence
       /\ call[g].fence = row.fence =>
            row.status = "running" /\ row.owner = CallName[g]
       /\ \A h \in Dispatch \ {g} :
            Holding(h) /\ Ev(h) = Ev(g) => call[h].fence # call[g].fence

\* Repeated callbacks, in any order and from any process, start a Runner again
\* only after a lease of the message has run out, and then once per lapse.
RunsNeedLapses == \A e \in Event : Cardinality(ran[e]) <= 1 + lapses[e]

\* A completed event carries the reply of the execution that completed it: its
\* segment count and every stored segment are that call's, also when an earlier
\* execution of the same message was overtaken while it was still writing.  The
\* segments of a reply never mix two executions, and come all or none.
CompletedReplyIsOwn ==
  \A e \in Event :
    /\ event[e].status = "completed" =>
         \E g \in ran[e] :
           /\ call[g].fence = event[e].fence /\ ~call[g].failed
           /\ event[e].segments =
                (IF call[g].content = NoContent THEN {} ELSE SegmentsOf[call[g].content])
           /\ \A s \in event[e].segments : reply[<<e, s>>].content = call[g].content
    /\ LET there == {s \in Segment : reply[<<e, s>>].status # "absent"}
       IN there # {} => \E c \in Content :
            there = SegmentsOf[c] /\ \A s \in there : reply[<<e, s>>].content = c

\* "outbox writes of an old Worker are rejected because the fence does not match":
\* reply rows are only written by the call whose token is the event's.
OutboxWritesAreFenced ==
  [][\A x \in Slot : reply'[x] # reply[x] =>
       \E g \in Dispatch :
         /\ call[g].pc = "materialize" /\ Ev(g) = x[1]
         /\ call[g].fence = event[x[1]].fence]_GatewayVars

=============================================================================
