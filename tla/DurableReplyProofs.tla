-------------------------- MODULE DurableReplyProofs --------------------------
(***************************************************************************)
(* Safety of the durable message path: what is proved of the gateway and of *)
(* the workers alone is put together for the two over one store.            *)
(***************************************************************************)
EXTENDS DurableReply, InboundDispatchProofs, ReplyOutboxProofs

-----------------------------------------------------------------------------
(* What one side does to the other *)

\* A call that has nothing more to say.
Over(g) == call[g].pc \in {"finish", "done", "crashed"}

\* A segment g has just written: there was none.
WrittenBy(g, x) ==
  /\ reply[x].status = "absent"
  /\ g \in ran'[x[1]] /\ Over(g)' /\ call'[g].content \in Content
  /\ reply'[x] = [NoReply EXCEPT !.status = "pending", !.content = call'[g].content]

\* The gateway only adds replies, those of a call that is then over; it moves no
\* event into the workers' statuses; what a call that is over said stays said.
LEMMA GatewayDoes ==
  ASSUME ReplyInv, GatewayNext
  PROVE  /\ \A x \in Slot : reply'[x] = reply[x] \/ \E g \in Dispatch : WrittenBy(g, x)
         /\ reply' = reply \/ reply' = [x \in Slot |-> reply'[x]]
         /\ \A e \in Event, c \in Content : Holds(e, c) => Holds(e, c)'
         /\ \A e \in Event : event'[e].status \in {"reply_pending", "replied"} => event'[e] = event[e]
         /\ \A e \in Event : ran[e] \subseteq ran'[e]
         /\ \A g \in Dispatch : Over(g) => Over(g)' /\ call'[g].content = call[g].content
<1>a. GatewayTypeOK /\ RepliesAreWhole /\ \A g \in Dispatch : CallKnows(g)  BY Zenon DEF ReplyInv
<1>c. reply' = reply => \A e \in Event, c \in Content : Holds(e, c) => Holds(e, c)'  BY DEF Holds
<1>1. ASSUME NEW g \in Dispatch, NEW e \in Event, Receive(g, e)
      PROVE  /\ UNCHANGED <<reply, ran>>
             /\ \A d \in Event : event'[d].status \in {"reply_pending", "replied"} => event'[d] = event[d]
             /\ \A h \in Dispatch : Over(h) => Over(h)' /\ call'[h].content = call[h].content
  <2>1. /\ \A h \in Dispatch \ {g} : call'[h] = call[h]
        /\ call[g].pc = "new"
        /\ \A d \in Event : \/ event'[d] = event[d]
                            \/ event[d].status = "absent" /\ event'[d] = RecordedEvent
        /\ UNCHANGED <<reply, ran, lapses>>
    BY <1>1, <1>a, ReceiveStep, Zenon
  <2> QED  BY <2>1, InitialRows, Zenon DEF Over
<1>2. ASSUME NEW g \in Dispatch, LocalStep(g)
      PROVE  /\ \A x \in Slot : reply'[x] = reply[x] \/ \E h \in Dispatch : WrittenBy(h, x)
             /\ reply' = reply \/ reply' = [x \in Slot |-> reply'[x]]
             /\ \A e \in Event, c \in Content : Holds(e, c) => Holds(e, c)'
             /\ event' = event /\ \A e \in Event : ran[e] \subseteq ran'[e]
             /\ \A h \in Dispatch : Over(h) => Over(h)' /\ call'[h].content = call[h].content
  <2>1. PICK pc, content, failed : MovesTo(g, pc, content, failed) /\ LocalMove(g, pc, content, failed)
    BY <1>2, <1>a, LocalStepIs, Zenon
  <2>2. event' = event  BY <1>2, <1>a, LocalStepIs, Zenon
  <2>3. /\ \A h \in Dispatch \ {g} : call'[h] = call[h]
        /\ Ev(g)' = Ev(g) /\ call'[g].pc = pc /\ call'[g].content = content
    BY <1>a, <2>1, MovesKeep
  <2>4. \A e \in Event : ran[e] \subseteq ran'[e]
    BY <1>a, <2>1, Zenon DEF LocalMove, Prepares, Stops, Starts, Ends, Fails, Writes, GatewayTypeOK
  <2>5. Over(g) => pc \in {"done", "crashed"} /\ content = call[g].content
    BY <2>1, Zenon DEF LocalMove, Prepares, Stops, Starts, Ends, Fails, Writes, Keeps, Over
  <2>6. \A h \in Dispatch : Over(h) => Over(h)' /\ call'[h].content = call[h].content
    BY <2>3, <2>5, Zenon DEF Over
  <2>7. CASE Writes(g, pc, content, failed)
    <3>1. PICK e \in Event : e = Ev(g)  BY <1>a, Zenon DEF GatewayTypeOK, Call, Ev
    <3>2. content \in Content /\ g \in ran[e] /\ pc = "finish"
      BY <1>a, <2>7, <3>1, Zenon DEF CallKnows, Writes, Keeps
    <3>3. EnqueueRepliesOK(e, content) /\ EnqueueReplies(e, content)  BY <2>7, <3>1, Zenon DEF Writes
    <3>4. \A d \in Event, c \in Content : Holds(d, c) => Holds(d, c)'
      BY <1>a, <3>2, <3>3, EnqueueKeeps, Zenon
    <3>5. ASSUME NEW x \in Slot, reply'[x] # reply[x] PROVE WrittenBy(g, x)
      <4>1. /\ x[1] = e /\ reply[x].status = "absent"
            /\ reply'[x] = [NoReply EXCEPT !.status = "pending", !.content = content]
        BY <3>3, <3>5, Zenon DEF EnqueueReplies
      <4> QED  BY <2>3, <2>4, <3>2, <4>1, Zenon DEF WrittenBy, Over
    <3>6. reply' = [x \in Slot |-> reply'[x]]  BY <3>3, Zenon DEF EnqueueReplies
    <3> QED  BY <2>2, <2>4, <2>6, <3>4, <3>5, <3>6, Zenon
  <2>8. CASE ~Writes(g, pc, content, failed)
    <3>1. reply' = reply  BY <2>1, <2>8, Zenon DEF LocalMove, Prepares, Stops, Starts, Ends, Fails
    <3> QED  BY <1>c, <2>2, <2>4, <2>6, <3>1, Zenon
  <2> QED  BY <2>7, <2>8, Zenon
<1>3. ASSUME NEW g \in Dispatch, StoreStep(g)
      PROVE  /\ UNCHANGED <<reply, ran>>
             /\ \A d \in Event : event'[d].status \in {"reply_pending", "replied"} => event'[d] = event[d]
             /\ \A h \in Dispatch : Over(h) => Over(h)' /\ call'[h].content = call[h].content
  <2>1. PICK e, from, to, segments, pc, ok :
          Asks(g, from, to, segments, pc) /\ Moved(g, e, from, to, segments, pc, ok)
    BY <1>3, <1>a, StoreStepDoes, Zenon
  <2>2. /\ \A h \in Dispatch \ {g} : call'[h] = call[h]
        /\ call'[g].content = call[g].content
        /\ \A d \in Event \ {e} : event'[d] = event[d]
        /\ UNCHANGED <<reply, ran, lapses>>
        /\ ok => event'[e].status = to /\ call'[g].pc = pc
        /\ ~ok => event' = event /\ call'[g].pc = "done"
    BY <2>1, Zenon DEF Moved
  <2>3. /\ to \notin {"reply_pending", "replied"}
        /\ Over(g) => pc = "done"
    BY <2>1, Zenon DEF Asks, Over
  <2> QED  BY <2>2, <2>3, Zenon DEF Over
<1>4. ASSUME NEW e \in Event, ExpireEvent(e)
      PROVE  /\ UNCHANGED <<reply, ran, call>>
             /\ \A d \in Event : event'[d].status \in {"reply_pending", "replied"} => event'[d] = event[d]
  BY <1>4, <1>a, ExpireStep, Zenon
<1> QED  BY <1>c, <1>1, <1>2, <1>3, <1>4, StepKinds, Zenon DEF Over

\* The workers only handle segments that are there.
Handled ==
  /\ \A w \in Deliverer : dwork[w].pc \in FlightState => reply[dwork[w].slot].status # "absent"
  /\ \A x \in Slot : accepted[x] > 0 => reply[x].status # "absent"

\* Every step of the workers keeps it so.
LEMMA HandledKeeps ==
  ASSUME OutboxTypeOK, Handled, OutboxNext
  PROVE  Handled'
<1>1. \A x \in Slot : reply[x].status = "absent" <=> reply'[x].status = "absent"  BY NothingUndone, Zenon
<1>2. \A v \in Deliverer : dwork[v].slot \in Slot  BY Zenon DEF OutboxTypeOK, Work
<1>3. ASSUME NEW v \in Deliverer, dwork'[v].pc \in FlightState => dwork[v].pc \in FlightState, dwork'[v].slot = dwork[v].slot
      PROVE  dwork'[v].pc \in FlightState => reply'[dwork'[v].slot].status # "absent"
  BY <1>1, <1>2, <1>3, Zenon DEF Handled
<1>4. ASSUME accepted' = accepted PROVE \A x \in Slot : accepted'[x] > 0 => reply'[x].status # "absent"
  BY <1>1, <1>4, Zenon DEF Handled
<1>5. ASSUME NEW w \in Deliverer,
             DelivererStep(w) \/ CallFails(w) \/ CloseDeliverer(w) \/ CrashDeliverer(w)
      PROVE  Handled'
  <2>1. WorkerMoves(w)  BY <1>5, WorkerStepIs, Zenon
  <2>2. CASE Switches(w)  BY <1>3, <1>4, <2>2, Zenon DEF Switches, Handled
  <2>3. ASSUME NEW n, Becomes(w, n)
        PROVE  /\ dwork'[w] = n
               /\ \A v \in Deliverer \ {w} : dwork'[v].pc \in FlightState => reply'[dwork'[v].slot].status # "absent"
    BY <1>3, <2>3, OnlyOne, Zenon
  <2>4. ASSUME NEW n, Becomes(w, n), Walks(w, n) \/ Reconciles(w, n) \/ Commits(w, n) PROVE Handled'
    <3>1. /\ accepted' = accepted
          /\ n.pc \in FlightState => dwork[w].pc \in FlightState /\ n.slot = dwork[w].slot
      BY <2>4, Zenon DEF Walks, Reconciles, Commits, FlightState
    <3>2. n.pc \in FlightState => reply'[n.slot].status # "absent"  BY <1>1, <1>2, <3>1, Zenon DEF Handled
    <3> QED  BY <1>4, <2>3, <2>4, <3>1, <3>2, Zenon DEF Handled
  <2>5. ASSUME NEW n, NEW x \in Slot, Becomes(w, n), Claims(w, x, n) PROVE Handled'
    <3>1. accepted' = accepted /\ n.slot = x /\ reply[x].status # "absent"
      BY <2>5, Zenon DEF Claims, ClaimReplyOK
    <3>2. reply'[n.slot].status # "absent"  BY <1>1, <3>1, Zenon
    <3> QED  BY <1>4, <2>3, <2>5, <3>1, <3>2, Zenon DEF Handled
  <2>6. ASSUME NEW n, NEW answer, Becomes(w, n), Delivers(w, answer, n) PROVE Handled'
    <3>1. /\ dwork[w].pc \in FlightState /\ n.slot = dwork[w].slot
          /\ \A x \in Slot \ {n.slot} : accepted'[x] = accepted[x]
      BY <2>6, Zenon DEF Delivers, FlightState, OutboxTypeOK
    <3>2. reply'[n.slot].status # "absent"  BY <1>1, <1>2, <3>1, Zenon DEF Handled
    <3>3. \A x \in Slot : accepted'[x] > 0 => reply'[x].status # "absent"  BY <1>1, <3>1, <3>2, Zenon DEF Handled
    <3> QED  BY <2>3, <2>6, <3>2, <3>3, Zenon DEF Handled
  <2> QED  BY <2>1, <2>2, <2>4, <2>5, <2>6, Zenon DEF WorkerMoves
<1>6. ASSUME NEW x \in Slot, ExpireReply(x) PROVE Handled'
  <2>1. /\ \A v \in Deliverer : dwork'[v].pc = dwork[v].pc /\ dwork'[v].slot = dwork[v].slot
        /\ accepted' = accepted
    BY <1>6, LeaseEnds, Zenon
  <2> QED  BY <1>3, <1>4, <2>1, Zenon DEF Handled
<1> QED  BY <1>5, <1>6, Zenon DEF OutboxNext

-----------------------------------------------------------------------------
(* End to end *)

\* A stored segment was said by an execution of its message.
SaidBy(g, x) == g \in ran[x[1]] /\ Over(g) /\ call[g].content \in Content /\ reply[x].content = call[g].content

Said(x) == reply[x].status # "absent" => \E g \in Dispatch : SaidBy(g, x)

\* Neither side's invariant says where a stored segment comes from, nor that the
\* workers have nothing else to deliver.
PathInv == ReplyInv /\ AdvanceInv /\ Handled /\ \A x \in Slot : Said(x)

\* The empty store.
LEMMA PathStarts == PathInit => PathInv
<1> SUFFICES ASSUME PathInit PROVE PathInv  BY Zenon
<1>1. ReplyInv  BY RepliesStart, Zenon DEF PathInit, InboundInit
<1>2. /\ \A x \in Slot : reply[x] = NoReply
      /\ \A e \in Event : event[e] = NoEvent
      /\ reply = [x \in Slot |-> NoReply] /\ OutboxInit
  BY Zenon DEF PathInit, EmptyStoreInit
<1>3. OutboxTypeOK /\ \A w \in Deliverer : dwork[w].pc = "idle"  BY <1>2, OutboxTypeStarts, Zenon
<1>4. NoReply.status = "absent" /\ NoEvent.status = "absent"  BY Zenon DEF NoReply, NoEvent
<1>5. AdvanceInv
  BY <1>2, <1>3, <1>4, Zenon DEF AdvanceInv, SentInv, SentWasAccepted, KnowsSent, SeenSent, AdvanceState, RepliedIsSent
<1>6. Handled
  <2>1. \A x \in Slot : accepted[x] = 0  BY <1>2, Zenon DEF OutboxInit
  <2> QED  BY <1>3, <2>1 DEF Handled, FlightState
<1> QED  BY <1>1, <1>2, <1>4, <1>5, <1>6, Zenon DEF PathInv, Said

\* What a committed event names is stored.
LEMMA FinishedIsStored ==
  ASSUME ReplyInv, NEW e \in Event, event[e].status \in FinishedStatus
  PROVE  Stored(e)
<1>1. PICK g \in Dispatch : Completed(g, e)  BY Zenon DEF ReplyInv, FinishedStatus, Finished
<1>2. call[g].content \in Content \cup {NoContent}  BY Zenon DEF ReplyInv, GatewayTypeOK, Call
<1>3. CASE call[g].content = NoContent  BY <1>1, <1>3, Zenon DEF Completed, OwnSegments, Stored
<1>4. CASE call[g].content \in Content
  <2>1. SegmentsOf[call[g].content] \subseteq Segment  BY <1>4, ContentAssumption, Zenon
  <2>2. event[e].segments \subseteq SegmentsOf[call[g].content]  BY <1>1, Zenon DEF Completed, OwnSegments
  <2> QED  BY <1>1, <1>4, <2>1, <2>2, Zenon DEF Completed, Holds, Stored
<1> QED  BY <1>2, <1>3, <1>4, Zenon

\* The steps of the workers keep what the gateway relies on.
LEMMA WorkersKeepPath ==
  ASSUME PathInv, OutboxNext, UNCHANGED gatewayVars
  PROVE  PathInv'
<1>a. ReplyInv /\ AdvanceInv /\ Handled /\ \A x \in Slot : Said(x)  BY Zenon DEF PathInv
<1>b. GatewayTypeOK /\ RepliesAreWhole /\ \A g \in Dispatch : CallKnows(g)  BY <1>a, Zenon DEF ReplyInv
<1>c. OutboxTypeOK /\ event \in [Event -> EventRow(CallNames)]
  BY <1>a, <1>b, Zenon DEF AdvanceInv, SentInv, GatewayTypeOK
<1>1. UNCHANGED <<call, ran, lapses>>  BY Zenon DEF gatewayVars
<1>2. \A e \in Event : event[e].status \in FinishedStatus => Stored(e)  BY <1>a, FinishedIsStored, Zenon
<1>3. AdvanceInv' /\ event' \in [Event -> EventRow(CallNames)] /\ \A e \in Event : EventOnward(e)
  BY <1>a, <1>c, <1>2, AdvanceKeeps, Zenon
<1>4. Handled'  BY <1>a, <1>c, HandledKeeps, Zenon
<1>5. \A x \in Slot : /\ reply'[x].content = reply[x].content
                      /\ reply[x].status = "absent" <=> reply'[x].status = "absent"
  BY <1>c, NothingUndone, Zenon
<1>6. \A x \in Slot : Said(x)'  BY <1>a, <1>1, <1>5, Zenon DEF Said, SaidBy, Over
<1>7. \A e \in Event, s \in Segment : <<e, s>> \in Slot  BY Zenon DEF Slot
<1>8. \A e \in Event, c \in Content : Holds(e, c)' <=> Holds(e, c)  BY <1>5, <1>7 DEF Holds
<1>9. GatewayTypeOK'  BY <1>b, <1>1, <1>3, Zenon DEF GatewayTypeOK
<1>10. RepliesAreWhole'  BY <1>b, <1>5, <1>7, <1>8, Zenon DEF RepliesAreWhole
<1>11. ASSUME NEW g \in Dispatch PROVE CallKnows(g)'
  <2>1. Ev(g) \in Event /\ Ev(g)' = Ev(g) /\ call'[g] = call[g]  BY <1>b, <1>1, Zenon DEF GatewayTypeOK, Call, Ev
  <2>2. CallKnows(g)  BY <1>b, Zenon
  <2>3. call[g].content \in Content => (Holds(Ev(g), call[g].content) => Holds(Ev(g), call[g].content)')
    BY <1>8, <2>1 DEF Holds
  <2> QED  BY <1>1, <2>1, <2>2, <2>3, Zenon DEF CallKnows
<1>12. ASSUME NEW e \in Event
       PROVE  IF event'[e].status \in Finished THEN \E g \in Dispatch : Completed(g, e)' ELSE event'[e].segments = {}
  <2>1. IF event[e].status \in Finished THEN \E g \in Dispatch : Completed(g, e) ELSE event[e].segments = {}
    BY <1>a, Zenon DEF ReplyInv
  <2>2. /\ event'[e].segments = event[e].segments
        /\ \/ event'[e] = event[e]
           \/ /\ event[e].status \in {"completed", "reply_pending"}
              /\ event'[e].status \in {"reply_pending", "replied"}
    BY <1>3, Zenon DEF EventOnward
  <2>3. ASSUME NEW g \in Dispatch, Completed(g, e) PROVE Completed(g, e)'
    BY <1>1, <1>8, <2>2, <2>3, Zenon DEF Completed, OwnSegments
  <2> QED  BY <2>1, <2>2, <2>3, Zenon DEF Finished
<1>13. ReplyInv'  BY <1>9, <1>10, <1>11, <1>12, Zenon DEF ReplyInv
<1> QED  BY <1>3, <1>4, <1>6, <1>13, Zenon DEF PathInv

\* Replies that are written while the workers are at it: the segments of an event all
\* of whose segments are sent are all there already.
LEMMA SentStaysComplete ==
  ASSUME ReplyInv, NEW e \in Event, AllSent(e),
         \A c \in Content : Holds(e, c) => Holds(e, c)',
         \A s \in Segment : reply[<<e, s>>].status # "absent" => reply'[<<e, s>>] = reply[<<e, s>>]
  PROVE  AllSent(e)'
<1>1. PICK c \in Content : Holds(e, c)  BY Zenon DEF ReplyInv, RepliesAreWhole, AllSent
<1>2. \A s \in Segment : reply'[<<e, s>>].status # "absent" <=> reply[<<e, s>>].status # "absent"
  BY <1>1, Zenon DEF Holds
<1> QED  BY <1>2, Zenon DEF AllSent

\* The steps of the gateway keep what the workers rely on.
LEMMA GatewayKeepsPath ==
  ASSUME PathInv, GatewayNext, UNCHANGED outboxVars
  PROVE  PathInv'
<1>a. ReplyInv /\ AdvanceInv /\ Handled /\ \A x \in Slot : Said(x)  BY Zenon DEF PathInv
<1>b. OutboxTypeOK /\ SentInv  BY <1>a, Zenon DEF AdvanceInv, SentInv
<1>1. UNCHANGED <<dlife, dwork, accepted, mishaps>>  BY Zenon DEF outboxVars
<1>2. ReplyInv'  BY <1>a, RepliesKeep, Zenon
<1>3. /\ \A x \in Slot : reply'[x] = reply[x] \/ \E g \in Dispatch : WrittenBy(g, x)
      /\ reply' = reply \/ reply' = [x \in Slot |-> reply'[x]]
      /\ \A e \in Event, c \in Content : Holds(e, c) => Holds(e, c)'
      /\ \A e \in Event : event'[e].status \in {"reply_pending", "replied"} => event'[e] = event[e]
      /\ \A e \in Event : ran[e] \subseteq ran'[e]
      /\ \A g \in Dispatch : Over(g) => Over(g)' /\ call'[g].content = call[g].content
  BY <1>a, GatewayDoes, Zenon
<1>4. ASSUME NEW x \in Slot, reply'[x] # reply[x]
      PROVE  \E g \in Dispatch :
               /\ WrittenBy(g, x) /\ reply[x].status = "absent"
               /\ reply'[x].status = "pending" /\ reply'[x].content = call'[g].content
               /\ reply'[x] \in ReplyRow(DelivererNames)
  <2>1. PICK g \in Dispatch : WrittenBy(g, x)  BY <1>3, <1>4, Zenon
  <2>2. PICK c \in Content : /\ c = call'[g].content
                             /\ reply'[x] = [NoReply EXCEPT !.status = "pending", !.content = c]
    BY <2>1, Zenon DEF WrittenBy
  <2>3. reply'[x] = [status |-> "pending", attempts |-> 0, fence |-> 0, owner |-> Nobody,
                     live |-> FALSE, content |-> c]
    BY <2>2, Zenon DEF NoReply
  <2>4. reply'[x].status = "pending" /\ reply'[x].content = c /\ reply'[x] \in ReplyRow(DelivererNames)
    BY <2>3 DEF ReplyRow, ReplyStatus
  <2> QED  BY <2>1, <2>2, <2>4, Zenon DEF WrittenBy
<1>5. /\ \A x \in Slot : reply[x].status # "absent" => reply'[x] = reply[x]
      /\ \A x \in Slot : reply'[x].status = "sent" => reply'[x] = reply[x]
  BY <1>4, Zenon
<1>6. OutboxTypeOK'
  <2>1. reply' \in [Slot -> ReplyRow(DelivererNames)]
    <3>1. CASE reply' = reply  BY <1>b, <3>1, Zenon DEF OutboxTypeOK
    <3>2. CASE reply' = [x \in Slot |-> reply'[x]]
      <4>1. \A x \in Slot : reply'[x] \in ReplyRow(DelivererNames)  BY <1>4, <1>b, Zenon DEF OutboxTypeOK
      <4> QED  BY <3>2, <4>1, Zenon
    <3> QED  BY <1>3, <3>1, <3>2, Zenon
  <2> QED  BY <1>1, <1>b, <2>1, Zenon DEF OutboxTypeOK
<1>7. SentInv'
  BY <1>1, <1>5, <1>6, <1>b, Zenon DEF SentInv, SentWasAccepted, KnowsSent
<1>8. \A e \in Event, s \in Segment : <<e, s>> \in Slot  BY Zenon DEF Slot
<1>9. ASSUME NEW w \in Deliverer PROVE SeenSent(w)'
  <2>1. PICK e \in Event : e = Replied(w) /\ e = Replied(w)'
    BY <1>1, <1>b, Zenon DEF OutboxTypeOK, Work, Slot, Replied
  <2>2. AllSent(e) => AllSent(e)'  BY <1>3, <1>5, <1>8, <1>a, SentStaysComplete, Zenon
  <2>3. dwork'[w].pc \in AdvanceState => AllSent(e)  BY <1>1, <1>a, <2>1, Zenon DEF AdvanceInv, SeenSent
  <2> QED  BY <2>1, <2>2, <2>3, Zenon DEF SeenSent, AllSent
<1>10. ASSUME NEW e \in Event PROVE RepliedIsSent(e)'
  <2> SUFFICES ASSUME event'[e].status \in {"reply_pending", "replied"}, NEW s \in event'[e].segments
               PROVE  reply'[<<e, s>>].status = "sent"
    BY Zenon DEF RepliedIsSent
  <2>1. event'[e] = event[e]  BY <1>3, Zenon
  <2>2. s \in Segment  BY <1>a, <2>1, FinishedIsStored, Zenon DEF Stored, FinishedStatus
  <2>3. reply[<<e, s>>].status = "sent"  BY <1>a, <2>1, Zenon DEF AdvanceInv, RepliedIsSent
  <2> QED  BY <1>5, <1>8, <2>2, <2>3, Zenon
<1>11. AdvanceInv'  BY <1>7, <1>9, <1>10, Zenon DEF AdvanceInv
<1>12. Handled'
  <2>1. \A w \in Deliverer : dwork[w].slot \in Slot  BY <1>b, Zenon DEF OutboxTypeOK, Work
  <2> QED  BY <1>1, <1>5, <1>a, <2>1, Zenon DEF Handled
<1>13. ASSUME NEW x \in Slot PROVE Said(x)'
  <2>1. x[1] \in Event  BY Zenon DEF Slot
  <2>2. CASE reply'[x] = reply[x]
    <3>1. ASSUME NEW g \in Dispatch, SaidBy(g, x) PROVE SaidBy(g, x)'
      BY <1>3, <2>1, <2>2, <3>1, Zenon DEF SaidBy
    <3> QED  BY <1>a, <2>2, <3>1, Zenon DEF Said
  <2>3. CASE reply'[x] # reply[x]
    <3>1. PICK g \in Dispatch : WrittenBy(g, x) /\ reply'[x].content = call'[g].content  BY <1>4, <2>3, Zenon
    <3>2. SaidBy(g, x)'  BY <3>1, Zenon DEF WrittenBy, SaidBy
    <3> QED  BY <3>2, Zenon DEF Said
  <2> QED  BY <2>2, <2>3, Zenon
<1> QED  BY <1>2, <1>11, <1>12, <1>13, Zenon DEF PathInv

\* Every step of either side.
LEMMA PathKeeps == PathInv /\ [PathNext]_pathVars => PathInv'
<1> SUFFICES ASSUME PathInv, [PathNext]_pathVars PROVE PathInv'  BY Zenon
<1>1. CASE UNCHANGED pathVars
  <2>1. UNCHANGED <<event, reply, call, ran, lapses, dlife, dwork, accepted, mishaps>>
    BY <1>1, Zenon DEF pathVars, storeVars, gatewayVars, outboxVars
  <2>2. ReplyInv'  BY <2>1, RepliesKeep, Zenon DEF PathInv, GatewayVars, storeVars, gatewayVars
  <2>3. SentInv'  BY <2>1, SentKeeps, Zenon DEF PathInv, AdvanceInv, OutboxVars, storeVars, outboxVars
  <2> QED  BY <2>1, <2>2, <2>3, Zenon DEF PathInv, AdvanceInv, SeenSent, Replied, AllSent, RepliedIsSent, Handled,
             Said, SaidBy, Over
<1>2. CASE GatewayNext /\ UNCHANGED outboxVars  BY <1>2, GatewayKeepsPath, Zenon
<1>3. CASE OutboxNext /\ UNCHANGED gatewayVars  BY <1>3, WorkersKeepPath, Zenon
<1> QED  BY <1>1, <1>2, <1>3, Zenon DEF PathNext

\* However callbacks, workers, lapses and mishaps interleave: every segment the
\* provider took was said by an execution of that very message.
THEOREM DeliveredIsProduced == PathSpec => []DeliveredWasProduced
<1>1. PathInv => DeliveredWasProduced
  <2> SUFFICES ASSUME PathInv, NEW x \in Slot, accepted[x] > 0
               PROVE  \E g \in ran[x[1]] : /\ call[g].content # NoContent
                                           /\ reply[x].content = call[g].content
                                           /\ x[2] \in SegmentsOf[call[g].content]
    BY Zenon DEF DeliveredWasProduced
  <2>1. PICK e \in Event, s \in Segment : x = <<e, s>>  BY DEF Slot
  <2>2. reply[x].status # "absent"  BY Zenon DEF PathInv, Handled
  <2>3. PICK g \in Dispatch : SaidBy(g, x)  BY <2>2, Zenon DEF PathInv, Said
  <2>4. PICK c \in Content : Holds(e, c)  BY <2>1, <2>2, Zenon DEF PathInv, ReplyInv, RepliesAreWhole
  <2>5. s \in SegmentsOf[c] /\ reply[x].content = c  BY <2>1, <2>2, <2>4, Zenon DEF Holds
  <2> QED  BY <2>1, <2>3, <2>5, ContentAssumption, Zenon DEF SaidBy
<1> QED  BY PathStarts, PathKeeps, <1>1, PTL DEF PathSpec

\* A replied message was executed to the end by one call, and each segment of that
\* call's reply was sent and taken by the provider.
THEOREM RepliedFromEndToEnd == PathSpec => []RepliedEndToEnd
<1>1. PathInv => RepliedEndToEnd
  <2> SUFFICES ASSUME PathInv, NEW e \in Event, event[e].status \in {"reply_pending", "replied"}
               PROVE  \E g \in ran[e] :
                        /\ call[g].pc = "done" /\ ~call[g].failed
                        /\ \A s \in event[e].segments :
                             /\ reply[<<e, s>>].content = call[g].content
                             /\ reply[<<e, s>>].status = "sent" /\ accepted[<<e, s>>] > 0
    BY Zenon DEF RepliedEndToEnd
  <2>1. PICK g \in Dispatch : Completed(g, e)  BY Zenon DEF PathInv, ReplyInv, Finished
  <2>2. g \in ran[e] /\ call[g].pc = "done" /\ ~call[g].failed  BY <2>1, Zenon DEF Completed
  <2>3. ASSUME NEW s \in event[e].segments
        PROVE  /\ reply[<<e, s>>].content = call[g].content
               /\ reply[<<e, s>>].status = "sent" /\ accepted[<<e, s>>] > 0
    <3>1. s \in Segment  BY FinishedIsStored, Zenon DEF PathInv, Stored, FinishedStatus
    <3>2. <<e, s>> \in Slot  BY <3>1, Zenon DEF Slot
    <3>3. reply[<<e, s>>].status = "sent"  BY Zenon DEF PathInv, AdvanceInv, RepliedIsSent
    <3>4. accepted[<<e, s>>] > 0  BY <3>2, <3>3, Zenon DEF PathInv, AdvanceInv, SentInv, SentWasAccepted
    <3>5. call[g].content \in Content \cup {NoContent}  BY Zenon DEF PathInv, ReplyInv, GatewayTypeOK, Call
    <3>6. call[g].content \in Content /\ s \in SegmentsOf[call[g].content]
      BY <2>1, <3>5, Zenon DEF Completed, OwnSegments
    <3>7. reply[<<e, s>>].content = call[g].content  BY <2>1, <3>1, <3>6, Zenon DEF Completed, Holds
    <3> QED  BY <3>3, <3>4, <3>7, Zenon
  <2> QED  BY <2>2, <2>3, Zenon
<1> QED  BY PathStarts, PathKeeps, <1>1, PTL DEF PathSpec

=============================================================================
