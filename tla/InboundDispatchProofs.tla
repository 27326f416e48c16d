------------------------ MODULE InboundDispatchProofs ------------------------
(***************************************************************************)
(* Safety of the durable dispatch for any number of messages, callbacks,    *)
(* reply contents and expired leases.                                       *)
(***************************************************************************)
EXTENDS InboundDispatch, FiniteSetTheorems, TLAPS

-----------------------------------------------------------------------------
(* Rows and steps *)

\* What TransitionMessage leaves in a row.
LEMMA TransitionRow ==
  ASSUME NEW row \in EventRow(CallNames), NEW to \in EventStatus, NEW g \in Dispatch,
         NEW segments \in SUBSET Segment, NEW after,
         after = AfterMessageTransition(row, to, CallName[g], segments)
  PROVE  /\ after \in EventRow(CallNames)
         /\ after.status = to
         /\ after.fence = row.fence + 1
         /\ after.owner = IF to = "running" THEN CallName[g] ELSE Nobody
         /\ after.live = (to = "running")
         /\ after.segments = IF segments = {} THEN row.segments ELSE segments
<1>1. CallName[g] \in CallNames  BY Zenon DEF CallNames
<1>2. row.fence + 1 \in Nat  BY DEF EventRow
<1> DEFINE f == row.fence + 1
           o == IF to = "running" THEN CallName[g] ELSE Nobody
           t == IF segments = {} THEN row.segments ELSE segments
           l == (to = "running")
<1>3. f \in Nat /\ o \in CallNames \cup {Nobody} /\ t \in SUBSET Segment /\ l \in BOOLEAN
  BY <1>1, <1>2, Zenon DEF EventRow
<1>4. after = [row EXCEPT !.status = to, !.owner = o, !.live = l, !.fence = f, !.segments = t]
  BY Zenon DEF AfterMessageTransition, EventRow
<1> HIDE DEF f, o, t, l
<1> DEFINE a == [row EXCEPT !.status = to, !.owner = o, !.live = l, !.fence = f, !.segments = t]
<1>5. a \in EventRow(CallNames) /\ a.status = to /\ a.fence = f /\ a.owner = o /\ a.live = l /\ a.segments = t
  BY <1>3, Zenon DEF EventRow
<1> QED  BY <1>4, <1>5, Zenon DEF f, o, t, l

\* A transition the store accepts changes one row and the call that asked; one it
\* refuses changes the call alone.
LEMMA TransitionStep ==
  ASSUME GatewayTypeOK, NEW g \in Dispatch, NEW from, NEW to \in EventStatus,
         NEW segments \in SUBSET Segment, NEW pc \in CallState, NEW otherwise \in CallState,
         Transition(g, from, to, segments, pc, otherwise),
         NEW e, e = Ev(g), NEW row, row = event[e], NEW after,
         after = AfterMessageTransition(row, to, CallName[g], segments),
         NEW ok, ok = TransitionMessageOK(row, from, to, CallName[g], call[g].fence)
  PROVE  /\ e \in Event /\ row \in EventRow(CallNames)
         /\ GatewayTypeOK'
         /\ \A h \in Dispatch \ {g} : call'[h] = call[h]
         /\ Ev(g)' = e /\ call'[g].content = call[g].content
         /\ call'[g].failed = call[g].failed
         /\ \A d \in Event \ {e} : event'[d] = event[d]
         /\ UNCHANGED <<reply, ran, lapses>>
         /\ ok => event'[e] = after /\ call'[g].pc = pc /\ call'[g].fence = row.fence + 1
         /\ ~ok => event' = event /\ call'[g].pc = otherwise /\ call'[g].fence = call[g].fence
<1>1. call[g] \in Call /\ e \in Event /\ row \in EventRow(CallNames)
  BY Zenon DEF GatewayTypeOK, Call, Ev
<1>2. after \in EventRow(CallNames) /\ after.fence = row.fence + 1
  <2>1. /\ after = AfterMessageTransition(row, to, CallName[g], segments)
        /\ to \in EventStatus /\ g \in Dispatch /\ segments \in SUBSET Segment
    BY Zenon
  <2> QED  BY ONLY <1>1, <2>1, TransitionRow
<1>3. /\ event' = IF ok THEN [event EXCEPT ![e] = after] ELSE event
      /\ call' = [call EXCEPT ![g].pc = IF ok THEN pc ELSE otherwise,
                              ![g].fence = IF ok THEN after.fence ELSE @]
      /\ UNCHANGED <<reply, ran, lapses>>
  BY Zenon DEF Transition
<1>4. after.fence \in Nat  BY <1>2, Zenon DEF EventRow
<1> DEFINE p == IF ok THEN pc ELSE otherwise
           f == IF ok THEN after.fence ELSE call[g].fence
<1>5. p \in CallState /\ f \in Nat  BY <1>1, <1>4, Zenon DEF Call
<1>6. call' = [call EXCEPT ![g] = [call[g] EXCEPT !.pc = p, !.fence = f]]
  BY <1>3, Zenon DEF GatewayTypeOK, p, f
<1> HIDE DEF p, f
<1>7. [call[g] EXCEPT !.pc = p, !.fence = f] \in Call  BY <1>1, <1>5, Zenon DEF Call
<1>8. /\ call' \in [Dispatch -> Call] /\ \A h \in Dispatch \ {g} : call'[h] = call[h]
      /\ call'[g] = [call[g] EXCEPT !.pc = p, !.fence = f]
  BY <1>6, <1>7, Zenon DEF GatewayTypeOK
<1>9. /\ call'[g].pc = p /\ call'[g].fence = f /\ call'[g].event = call[g].event
      /\ call'[g].content = call[g].content /\ call'[g].failed = call[g].failed
  BY <1>1, <1>8, Zenon DEF Call
<1>10. /\ event' \in [Event -> EventRow(CallNames)]
       /\ \A d \in Event \ {e} : event'[d] = event[d]
       /\ ok => event'[e] = after
       /\ ~ok => event' = event
  BY <1>1, <1>2, <1>3, Zenon DEF GatewayTypeOK
<1>11. GatewayTypeOK'  BY <1>3, <1>8, <1>10, Zenon DEF GatewayTypeOK
<1> QED  BY <1>1, <1>2, <1>3, <1>8, <1>9, <1>10, <1>11, Zenon DEF p, f, Ev

\* The steps of a call that ask the store for no transition.
LocalStep(g) ==
  \/ AuditStarted(g) \/ ReserveHandoff(g) \/ ReserveFails(g) \/ StartRunner(g)
  \/ \E c \in Content \cup {NoContent} : RunnerEnds(g, c)
  \/ RunnerFails(g) \/ Materialize(g) \/ MaterializeFails(g) \/ StoreFails(g) \/ Crash(g)

\* The steps of a call that do.
StoreStep(g) == GiveUpExpired(g) \/ ClaimEvent(g) \/ StartFails(g) \/ Finish(g)

\* Every step is one of the gateway's four kinds.
LEMMA StepKinds ==
  ASSUME GatewayNext
  PROVE  \/ \E g \in Dispatch : \/ \E e \in Event : Receive(g, e)
                                \/ LocalStep(g)
                                \/ StoreStep(g)
         \/ \E e \in Event : ExpireEvent(e)
  BY Zenon DEF GatewayNext, CallStep, LocalStep, StoreStep

\* The rows of a message and of a reply that do not exist, and of a new message.
LEMMA InitialRows ==
  /\ NoEvent \in EventRow(CallNames) /\ RecordedEvent \in EventRow(CallNames)
  /\ RecordedEvent.fence = 0 /\ RecordedEvent.status = "received" /\ RecordedEvent.segments = {}
  /\ NewCall \in Call
<1>1. NoEvent \in EventRow(CallNames)  BY Zenon DEF NoEvent, EventRow, EventStatus, Nobody
<1>2. /\ RecordedEvent \in EventRow(CallNames)
      /\ RecordedEvent.fence = 0 /\ RecordedEvent.status = "received" /\ RecordedEvent.segments = {}
  BY Zenon DEF RecordedEvent, NoEvent, EventRow, EventStatus, Nobody
<1>4. (CHOOSE e \in Event : TRUE) \in Event  BY StoreAssumption, Zenon
<1>5. NewCall \in Call  BY <1>4, Zenon DEF NewCall, Call, CallState
<1> QED  BY <1>1, <1>2, <1>5, Zenon

\* The initial state has its type.
LEMMA TypeStarts ==
  ASSUME InboundInit
  PROVE  GatewayTypeOK
  BY InitialRows, DispatchAssumption DEF InboundInit, EmptyStoreInit, GatewayInit, GatewayTypeOK

\* Recording a message touches no call but the one that records, and no row but
\* one that did not exist.
LEMMA ReceiveStep ==
  ASSUME GatewayTypeOK, NEW g \in Dispatch, NEW e \in Event, Receive(g, e)
  PROVE  /\ GatewayTypeOK'
         /\ \A h \in Dispatch \ {g} : call'[h] = call[h]
         /\ call[g].pc = "new" /\ call'[g].pc \in {"claim", "reconcile", "done"}
         /\ \A d \in Event : \/ event'[d] = event[d]
                             \/ event[d].status = "absent" /\ event'[d] = RecordedEvent
         /\ UNCHANGED <<reply, ran, lapses>>
<1> DEFINE status == event'[e].status
           pc == IF status \in {"received", "execution_reconciling"} THEN "claim"
                 ELSE IF status = "running" /\ ~event[e].live THEN "reconcile" ELSE "done"
           from == IF status = "received" THEN "received" ELSE "execution_reconciling"
<1>1. /\ call[g].pc = "new"
      /\ event' = IF event[e].status = "absent" THEN [event EXCEPT ![e] = RecordedEvent] ELSE event
      /\ call' = [call EXCEPT ![g] = [NewCall EXCEPT !.pc = pc, !.event = e, !.from = from]]
      /\ UNCHANGED <<reply, ran, lapses>>
  BY Zenon DEF Receive
<1>2. pc \in {"claim", "reconcile", "done"} /\ from \in {"received", "execution_reconciling"}  BY Zenon
<1> HIDE DEF pc, from
<1>3. [NewCall EXCEPT !.pc = pc, !.event = e, !.from = from] \in Call
  BY <1>2, InitialRows, Zenon DEF Call, CallState
<1>4. [NewCall EXCEPT !.pc = pc, !.event = e, !.from = from].pc = pc
  BY <1>2, InitialRows, Zenon DEF Call
<1>5. /\ call' \in [Dispatch -> Call] /\ \A h \in Dispatch \ {g} : call'[h] = call[h]
      /\ call'[g].pc = pc
  BY <1>1, <1>3, <1>4, Zenon DEF GatewayTypeOK
<1>6. /\ event' \in [Event -> EventRow(CallNames)]
      /\ \A d \in Event : \/ event'[d] = event[d]
                          \/ event[d].status = "absent" /\ event'[d] = RecordedEvent
  BY <1>1, InitialRows, Zenon DEF GatewayTypeOK
<1> QED  BY <1>1, <1>2, <1>5, <1>6, Zenon DEF GatewayTypeOK

HoldingState == {"started", "reserve", "acquire", "execute", "materialize", "finish"}

\* Where a call is and what it has to say after a step without a transition.
MovesTo(g, pc, content, failed) ==
  /\ pc \in CallState /\ content \in Content \cup {NoContent} /\ failed \in BOOLEAN
  /\ call' = [call EXCEPT ![g] = [call[g] EXCEPT !.pc = pc, !.content = content, !.failed = failed]]

Keeps(g, content, failed) == content = call[g].content /\ failed = call[g].failed

\* The steps without a transition, by what they do.
Prepares(g, pc, content, failed) ==
  /\ call[g].pc \in {"started", "reserve"} /\ pc \in {"reserve", "acquire"} /\ Keeps(g, content, failed)
  /\ UNCHANGED <<reply, ran>>

Stops(g, pc, content, failed) ==
  call[g].pc # "done" /\ pc \in {"done", "crashed"} /\ Keeps(g, content, failed) /\ UNCHANGED <<reply, ran>>

Starts(g, pc, content, failed) ==
  /\ call[g].pc = "acquire" /\ pc = "execute" /\ Keeps(g, content, failed)
  /\ ran' = [ran EXCEPT ![Ev(g)] = @ \cup {g}]
  /\ UNCHANGED reply

Ends(g, pc, content, failed) ==
  /\ call[g].pc = "execute"
  /\ \/ content = NoContent /\ pc = "finish"
     \/ content \in Content /\ pc = "materialize"
  /\ failed = call[g].failed
  /\ UNCHANGED <<reply, ran>>

Fails(g, pc, content, failed) ==
  /\ call[g].pc \in {"execute", "materialize"} /\ pc = "finish" /\ failed = TRUE
  /\ content = call[g].content
  /\ UNCHANGED <<reply, ran>>

Writes(g, pc, content, failed) ==
  /\ call[g].pc = "materialize" /\ pc = "finish" /\ Keeps(g, content, failed)
  /\ EnqueueRepliesOK(Ev(g), content) /\ EnqueueReplies(Ev(g), content)
  /\ UNCHANGED ran

LocalMove(g, pc, content, failed) ==
  \/ Prepares(g, pc, content, failed) \/ Stops(g, pc, content, failed) \/ Starts(g, pc, content, failed)
  \/ Ends(g, pc, content, failed) \/ Fails(g, pc, content, failed) \/ Writes(g, pc, content, failed)

\* The steps without a transition are these.
LEMMA LocalStepIs ==
  ASSUME GatewayTypeOK, NEW g \in Dispatch, LocalStep(g)
  PROVE  /\ \E pc, content, failed : MovesTo(g, pc, content, failed) /\ LocalMove(g, pc, content, failed)
         /\ UNCHANGED <<event, lapses>>
<1>0. call[g] \in Call  BY Zenon DEF GatewayTypeOK
<1>1. call[g].content \in Content \cup {NoContent} /\ call[g].failed \in BOOLEAN  BY <1>0, Zenon DEF Call
<1>2. ASSUME NEW pc \in CallState, call' = [call EXCEPT ![g].pc = pc]
      PROVE  MovesTo(g, pc, call[g].content, call[g].failed) /\ Keeps(g, call[g].content, call[g].failed)
  BY <1>0, <1>1, <1>2, Zenon DEF GatewayTypeOK, Call, MovesTo, Keeps
<1>3. {"reserve", "acquire", "done", "crashed", "execute", "materialize", "finish"} \subseteq CallState
  BY Zenon DEF CallState
<1>4. CASE AuditStarted(g) \/ ReserveHandoff(g)
  <2>1. PICK pc \in {"reserve", "acquire"} :
          /\ call' = [call EXCEPT ![g].pc = pc] /\ call[g].pc \in {"started", "reserve"}
          /\ UNCHANGED <<event, lapses, reply, ran>>
    BY <1>4, Zenon DEF AuditStarted, ReserveHandoff, Step, storeVars
  <2> QED  BY <1>2, <1>3, <2>1, Zenon DEF LocalMove, Prepares
<1>5. CASE ReserveFails(g) \/ StoreFails(g) \/ Crash(g)
  <2>1. PICK pc \in {"done", "crashed"} :
          call' = [call EXCEPT ![g].pc = pc] /\ call[g].pc # "done" /\ UNCHANGED <<event, lapses, reply, ran>>
    BY <1>5, Zenon DEF ReserveFails, StoreFails, Crash, Step, storeVars
  <2> QED  BY <1>2, <1>3, <2>1, Zenon DEF LocalMove, Stops
<1>6. CASE StartRunner(g)
  <2>1. /\ call' = [call EXCEPT ![g].pc = "execute"] /\ call[g].pc = "acquire"
        /\ ran' = [ran EXCEPT ![Ev(g)] = @ \cup {g}] /\ UNCHANGED <<event, lapses, reply>>
    BY <1>6, Zenon DEF StartRunner, Step, storeVars
  <2> QED  BY <1>2, <1>3, <2>1, Zenon DEF LocalMove, Starts
<1>7. ASSUME NEW c \in Content \cup {NoContent}, RunnerEnds(g, c)
      PROVE  /\ \E pc, content, failed : MovesTo(g, pc, content, failed) /\ LocalMove(g, pc, content, failed)
             /\ UNCHANGED <<event, lapses>>
  <2> DEFINE pc == IF c = NoContent THEN "finish" ELSE "materialize"
  <2>1. /\ call[g].pc = "execute" /\ call' = [call EXCEPT ![g].content = c, ![g].pc = pc]
        /\ UNCHANGED <<event, lapses, reply, ran>>
    BY <1>7, Zenon DEF RunnerEnds, storeVars
  <2>2. pc \in CallState /\ ((c = NoContent /\ pc = "finish") \/ (c \in Content /\ pc = "materialize"))
    BY <1>3, Zenon
  <2> HIDE DEF pc
  <2>3. MovesTo(g, pc, c, call[g].failed)  BY <1>0, <1>1, <2>1, <2>2, Zenon DEF MovesTo, GatewayTypeOK, Call
  <2> QED  BY <2>1, <2>2, <2>3, Zenon DEF LocalMove, Ends
<1>8. CASE RunnerFails(g) \/ MaterializeFails(g)
  <2>1. /\ call[g].pc \in {"execute", "materialize"} /\ call' = [call EXCEPT ![g].pc = "finish", ![g].failed = TRUE]
        /\ UNCHANGED <<event, lapses, reply, ran>>
    BY <1>8, Zenon DEF RunnerFails, MaterializeFails, storeVars
  <2>2. MovesTo(g, "finish", call[g].content, TRUE)
    BY <1>0, <1>1, <1>3, <2>1, Zenon DEF MovesTo, GatewayTypeOK, Call
  <2> QED  BY <2>1, <2>2, Zenon DEF LocalMove, Fails
<1>9. CASE Materialize(g)
  <2>1. /\ call[g].pc = "materialize" /\ call' = [call EXCEPT ![g].pc = "finish"]
        /\ EnqueueRepliesOK(Ev(g), call[g].content) /\ EnqueueReplies(Ev(g), call[g].content)
        /\ UNCHANGED <<event, lapses, ran>>
    BY <1>9, Zenon DEF Materialize
  <2> QED  BY <1>2, <1>3, <2>1, Zenon DEF LocalMove, Writes
<1> QED  BY <1>4, <1>5, <1>6, <1>7, <1>8, <1>9, Zenon DEF LocalStep

\* Such a step touches no other call, and the token and the message of its own only
\* if it is a new one.
LEMMA MovesKeep ==
  ASSUME GatewayTypeOK, NEW g \in Dispatch, NEW pc, NEW content, NEW failed, MovesTo(g, pc, content, failed)
  PROVE  /\ call' \in [Dispatch -> Call]
         /\ \A h \in Dispatch \ {g} : call'[h] = call[h]
         /\ Ev(g)' = Ev(g) /\ call'[g].fence = call[g].fence
         /\ call'[g].pc = pc /\ call'[g].content = content /\ call'[g].failed = failed
<1>0. call[g] \in Call  BY Zenon DEF GatewayTypeOK
<1>1. [call[g] EXCEPT !.pc = pc, !.content = content, !.failed = failed] \in Call
  BY <1>0, Zenon DEF Call, MovesTo
<1>2. /\ call' \in [Dispatch -> Call]
      /\ \A h \in Dispatch \ {g} : call'[h] = call[h]
      /\ call'[g] = [call[g] EXCEPT !.pc = pc, !.content = content, !.failed = failed]
  BY <1>1, Zenon DEF GatewayTypeOK, MovesTo
<1> QED  BY <1>0, <1>2, Zenon DEF Call, Ev

\* A step without a transition touches no message, and keeps the token and the
\* message of its call, which holds nothing it did not hold.
LEMMA LocalStepKeeps ==
  ASSUME GatewayTypeOK, NEW g \in Dispatch, LocalStep(g)
  PROVE  /\ GatewayTypeOK'
         /\ \A h \in Dispatch \ {g} : call'[h] = call[h]
         /\ Ev(g)' = Ev(g) /\ call'[g].fence = call[g].fence
         /\ Holding(g)' => Holding(g)
         /\ UNCHANGED <<event, lapses>>
<1>1. PICK pc, content, failed : MovesTo(g, pc, content, failed) /\ LocalMove(g, pc, content, failed)
  BY LocalStepIs, Zenon
<1>2. UNCHANGED <<event, lapses>>  BY LocalStepIs, Zenon
<1>3. /\ call' \in [Dispatch -> Call]
      /\ \A h \in Dispatch \ {g} : call'[h] = call[h]
      /\ Ev(g)' = Ev(g) /\ call'[g].fence = call[g].fence /\ call'[g].pc = pc
  BY <1>1, MovesKeep, Zenon
<1>4. ran' \in [Event -> SUBSET Dispatch]
  BY <1>1 DEF LocalMove, Prepares, Stops, Starts, Ends, Fails, Writes, GatewayTypeOK
<1>6. pc \in HoldingState => Holding(g)
  BY <1>1, Zenon DEF LocalMove, Prepares, Stops, Starts, Ends, Fails, Writes, HoldingState, Holding
<1> QED  BY <1>2, <1>3, <1>4, <1>6, Zenon DEF GatewayTypeOK, Holding, HoldingState

\* Time changes one thing: a lease is no longer live.
LEMMA ExpireStep ==
  ASSUME GatewayTypeOK, NEW e \in Event, ExpireEvent(e)
  PROVE  /\ GatewayTypeOK'
         /\ event[e].status = "running" /\ event[e].live /\ ~event'[e].live
         /\ \A d \in Event : /\ event'[d].status = event[d].status /\ event'[d].fence = event[d].fence
                             /\ event'[d].owner = event[d].owner /\ event'[d].segments = event[d].segments
         /\ \A d \in Event \ {e} : event'[d] = event[d]
         /\ lapses' = [lapses EXCEPT ![e] = @ + 1]
         /\ UNCHANGED <<reply, call, ran>>
<1>1. /\ event[e].status = "running" /\ event[e].live /\ lapses[e] < MaxLapses
      /\ event' = [event EXCEPT ![e] = [event[e] EXCEPT !.live = FALSE]]
      /\ lapses' = [lapses EXCEPT ![e] = @ + 1]
      /\ UNCHANGED <<reply, call, ran>>
  BY Zenon DEF ExpireEvent, GatewayTypeOK
<1>2. event[e] \in EventRow(CallNames)  BY Zenon DEF GatewayTypeOK
<1> DEFINE row == [event[e] EXCEPT !.live = FALSE]
<1>3. /\ row \in EventRow(CallNames) /\ ~row.live
      /\ row.status = event[e].status /\ row.fence = event[e].fence
      /\ row.owner = event[e].owner /\ row.segments = event[e].segments
  BY <1>2, Zenon DEF EventRow
<1> HIDE DEF row
<1>4. event' = [event EXCEPT ![e] = row]  BY <1>1, Zenon DEF row
<1>5. event' \in [Event -> EventRow(CallNames)] /\ event'[e] = row /\ \A d \in Event \ {e} : event'[d] = event[d]
  BY <1>3, <1>4, Zenon DEF GatewayTypeOK
<1>6. lapses' \in [Event -> 0 .. MaxLapses]
  <2>1. lapses[e] + 1 \in 0 .. MaxLapses  BY <1>1, DispatchAssumption DEF GatewayTypeOK
  <2> QED  BY <1>1, <2>1, Zenon DEF GatewayTypeOK
<1> QED  BY <1>1, <1>3, <1>5, <1>6, Zenon DEF GatewayTypeOK

\* What a call writes into the message it completes.
OwnSegments(g) == IF call[g].content = NoContent THEN {} ELSE SegmentsOf[call[g].content]

\* A transition a call asks for: from where to where, and where the call is then.
Asks(g, from, to, segments, pc) ==
  /\ from \in {"received", "running", "execution_reconciling"} /\ segments \in SUBSET Segment
  /\ to \in {"running", "completed", "execution_reconciling", "failed"}
  /\ to = "completed" => call[g].pc = "finish" /\ ~call[g].failed /\ segments = OwnSegments(g)
  /\ to # "completed" => segments = {}
  /\ call[g].pc \in {"reconcile", "claim", "started", "acquire", "finish"}
  /\ pc \in {"claim", "started", "done"}
  /\ pc # "done" => call[g].pc \in {"reconcile", "claim"}
  /\ pc = "started" <=> to = "running"
  /\ to = "completed" => pc = "done"

\* The store steps ask for these.
LEMMA StoreStepIs ==
  ASSUME GatewayTypeOK, NEW g \in Dispatch, StoreStep(g)
  PROVE  \E from, to, segments, pc :
           Asks(g, from, to, segments, pc) /\ Transition(g, from, to, segments, pc, "done")
<1>1. call[g] \in Call  BY Zenon DEF GatewayTypeOK
<1>2. call[g].from \in {"received", "execution_reconciling"}  BY <1>1, Zenon DEF Call
<1>3. CASE GiveUpExpired(g)  BY <1>2, <1>3, Zenon DEF GiveUpExpired, Asks
<1>4. CASE ClaimEvent(g)  BY <1>2, <1>4, Zenon DEF ClaimEvent, Asks
<1>5. CASE StartFails(g)  BY <1>2, <1>5, Zenon DEF StartFails, Asks
<1>6. CASE Finish(g)
  <2>1. OwnSegments(g) \in SUBSET Segment  BY <1>1, ContentAssumption, Zenon DEF Call, OwnSegments
  <2>2. CASE call[g].failed
    <3>1. Transition(g, "running", "failed", {}, "done", "done")  BY <1>6, <2>2, Zenon DEF Finish
    <3>2. Asks(g, "running", "failed", {}, "done")  BY <1>2, <1>6, Zenon DEF Finish, Asks
    <3> QED  BY <3>1, <3>2, Zenon
  <2>3. CASE ~call[g].failed
    <3>1. Transition(g, "running", "completed", OwnSegments(g), "done", "done")
      BY <1>6, <2>3, Zenon DEF Finish, OwnSegments
    <3>2. Asks(g, "running", "completed", OwnSegments(g), "done")  BY <1>2, <1>6, <2>1, <2>3, Zenon DEF Finish, Asks
    <3> QED  BY <3>1, <3>2, Zenon
  <2> QED  BY <2>2, <2>3, Zenon
<1> QED  BY <1>3, <1>4, <1>5, <1>6, Zenon DEF StoreStep

\* What the answer leaves behind.
Moved(g, e, from, to, segments, pc, ok) ==
  /\ e = Ev(g) /\ e \in Event /\ event[e] \in EventRow(CallNames)
  /\ ok = TransitionMessageOK(event[e], from, to, CallName[g], call[g].fence)
  /\ \A h \in Dispatch \ {g} : call'[h] = call[h]
  /\ Ev(g)' = e /\ call'[g].content = call[g].content /\ call'[g].failed = call[g].failed
  /\ \A d \in Event \ {e} : event'[d] = event[d]
  /\ UNCHANGED <<reply, ran, lapses>>
  /\ ok => /\ call'[g].pc = pc /\ call'[g].fence = event[e].fence + 1
           /\ event'[e].status = to /\ event'[e].fence = event[e].fence + 1
           /\ event'[e].owner = IF to = "running" THEN CallName[g] ELSE Nobody
           /\ event'[e].live = (to = "running")
           /\ event'[e].segments = IF segments = {} THEN event[e].segments ELSE segments
  /\ ~ok => event' = event /\ call'[g].pc = "done"

\* Every step that asks the store leaves this behind, with some answer.
LEMMA StoreStepDoes ==
  ASSUME GatewayTypeOK, NEW g \in Dispatch, StoreStep(g)
  PROVE  /\ GatewayTypeOK'
         /\ \E e, from, to, segments, pc, ok :
              Asks(g, from, to, segments, pc) /\ Moved(g, e, from, to, segments, pc, ok)
<1>1. PICK from, to, segments, pc :
        Asks(g, from, to, segments, pc) /\ Transition(g, from, to, segments, pc, "done")
  BY StoreStepIs, Zenon
<1>2. to \in EventStatus /\ pc \in CallState /\ "done" \in CallState /\ segments \in SUBSET Segment
  BY <1>1, Zenon DEF Asks, EventStatus, CallState
<1>3. PICK e, row, ok, after :
        /\ e = Ev(g) /\ row = event[e]
        /\ ok = TransitionMessageOK(row, from, to, CallName[g], call[g].fence)
        /\ after = AfterMessageTransition(row, to, CallName[g], segments)
  BY Zenon
<1>4. /\ e \in Event /\ row \in EventRow(CallNames)
      /\ GatewayTypeOK'
      /\ \A h \in Dispatch \ {g} : call'[h] = call[h]
      /\ Ev(g)' = e /\ call'[g].content = call[g].content /\ call'[g].failed = call[g].failed
      /\ \A d \in Event \ {e} : event'[d] = event[d]
      /\ UNCHANGED <<reply, ran, lapses>>
      /\ ok => event'[e] = after /\ call'[g].pc = pc /\ call'[g].fence = row.fence + 1
      /\ ~ok => event' = event /\ call'[g].pc = "done"
  BY <1>1, <1>2, <1>3, TransitionStep
<1>5. /\ after.status = to /\ after.fence = row.fence + 1
      /\ after.owner = IF to = "running" THEN CallName[g] ELSE Nobody
      /\ after.live = (to = "running")
      /\ after.segments = IF segments = {} THEN row.segments ELSE segments
  <2>1. after = AfterMessageTransition(row, to, CallName[g], segments) /\ g \in Dispatch  BY <1>3, Zenon
  <2> QED  BY ONLY <1>2, <1>4, <2>1, TransitionRow
<1>6. Moved(g, e, from, to, segments, pc, ok)  BY <1>3, <1>4, <1>5, Zenon DEF Moved
<1> QED  BY <1>1, <1>4, <1>6, Zenon

-----------------------------------------------------------------------------
(* Fencing *)

\* A message nobody has recorded was never claimed.
AbsentIsNew == \A e \in Event : event[e].status = "absent" => event[e].fence = 0

\* InboundFencing alone is not inductive: recording a message writes a row with
\* token 0, which is only safe if no call holds a token of it.
FencingInv == GatewayTypeOK /\ InboundFencing /\ AbsentIsNew

\* The empty store.
LEMMA FencingStarts == InboundInit => FencingInv
<1> SUFFICES ASSUME InboundInit PROVE FencingInv  BY Zenon
<1>1. GatewayTypeOK  BY TypeStarts, Zenon
<1>2. \A g \in Dispatch : ~Holding(g)
  BY Zenon DEF InboundInit, GatewayInit, NewCall, Holding
<1>3. AbsentIsNew  BY Zenon DEF InboundInit, EmptyStoreInit, NoEvent, AbsentIsNew
<1> QED  BY <1>1, <1>2, <1>3, Zenon DEF FencingInv, InboundFencing

\* Every step keeps the tokens in order.
LEMMA FencingKeeps == FencingInv /\ [GatewayNext]_GatewayVars => FencingInv'
<1> SUFFICES ASSUME FencingInv, [GatewayNext]_GatewayVars PROVE FencingInv'  BY Zenon
<1> USE DEF FencingInv
<1>0. CASE UNCHANGED GatewayVars
  BY <1>0, Zenon DEF GatewayVars, storeVars, gatewayVars, GatewayTypeOK, InboundFencing, AbsentIsNew, Holding, Ev
<1>a. \A d \in Event : event[d].fence \in Nat  BY Zenon DEF GatewayTypeOK, EventRow
<1>b. \A h \in Dispatch : call[h].fence \in Nat /\ Ev(h) \in Event  BY Zenon DEF GatewayTypeOK, Call, Ev
<1>1. ASSUME NEW g \in Dispatch, NEW e \in Event, Receive(g, e) PROVE FencingInv'
  <2>1. /\ GatewayTypeOK'
        /\ \A h \in Dispatch \ {g} : call'[h] = call[h]
        /\ ~Holding(g)'
        /\ \A d \in Event : \/ event'[d] = event[d]
                            \/ event[d].fence = 0 /\ event'[d].fence = 0
    BY <1>1, ReceiveStep, InitialRows, Zenon DEF Holding, AbsentIsNew
  <2>2. \A h \in Dispatch \ {g} : Holding(h)' = Holding(h) /\ Ev(h)' = Ev(h)
    BY <2>1, Zenon DEF Holding, Ev
  <2>3. \A h \in Dispatch : Holding(h) => event'[Ev(h)] = event[Ev(h)]
    BY <1>a, <1>b, <2>1 DEF InboundFencing
  <2>4. InboundFencing'  BY <2>1, <2>2, <2>3 DEF InboundFencing
  <2>5. AbsentIsNew'  BY <2>1, Zenon DEF AbsentIsNew
  <2> QED  BY <2>1, <2>4, <2>5, Zenon
<1>2. ASSUME NEW g \in Dispatch, LocalStep(g) PROVE FencingInv'
  <2>1. /\ GatewayTypeOK'
        /\ \A h \in Dispatch \ {g} : call'[h] = call[h]
        /\ Ev(g)' = Ev(g) /\ call'[g].fence = call[g].fence
        /\ Holding(g)' => Holding(g)
        /\ event' = event
    BY <1>2, LocalStepKeeps, Zenon
  <2>2. \A h \in Dispatch : Ev(h)' = Ev(h) /\ call'[h].fence = call[h].fence /\ (Holding(h)' => Holding(h))
    BY <2>1, Zenon DEF Holding, Ev
  <2>3. InboundFencing'  BY <2>1, <2>2 DEF InboundFencing
  <2> QED  BY <2>1, <2>3, Zenon DEF AbsentIsNew
<1>3. ASSUME NEW g \in Dispatch, StoreStep(g) PROVE FencingInv'
  <2>1. PICK e, from, to, segments, pc, ok :
          Asks(g, from, to, segments, pc) /\ Moved(g, e, from, to, segments, pc, ok)
    BY <1>3, StoreStepDoes, Zenon
  <2>2. PICK row : row = event[e]  BY Zenon
  <2>3. /\ GatewayTypeOK' /\ e = Ev(g) /\ e \in Event
        /\ ok = TransitionMessageOK(row, from, to, CallName[g], call[g].fence)
        /\ \A h \in Dispatch \ {g} : call'[h] = call[h]
        /\ Ev(g)' = e
        /\ \A d \in Event \ {e} : event'[d] = event[d]
        /\ ok => /\ call'[g].pc = pc /\ call'[g].fence = row.fence + 1
                 /\ event'[e].status = to /\ event'[e].fence = row.fence + 1
                 /\ to = "running" => event'[e].owner = CallName[g]
        /\ ~ok => event' = event /\ call'[g].pc = "done"
    BY <1>3, <2>1, <2>2, StoreStepDoes, Zenon DEF Moved
  <2>4. to # "absent" /\ pc \in {"claim", "started", "done"} /\ (pc = "started" <=> to = "running")
    BY <2>1, Zenon DEF Asks
  <2>5. \A h \in Dispatch \ {g} : Holding(h)' = Holding(h) /\ Ev(h)' = Ev(h) /\ call'[h].fence = call[h].fence
    BY <2>3, Zenon DEF Holding, Ev
  <2>6. CASE ok
    <3>1. Holding(g)' => pc = "started"  BY <2>3, <2>4, <2>6, Zenon DEF Holding
    <3>2. \A h \in Dispatch \ {g} : Holding(h) /\ Ev(h) = e => call[h].fence \in 1 .. row.fence
      BY <2>2, Zenon DEF InboundFencing
    <3>3. ASSUME NEW h \in Dispatch, Holding(h)', h # g
          PROVE  /\ call'[h].fence \in 1 .. event'[Ev(h)'].fence
                 /\ call'[h].fence = event'[Ev(h)'].fence =>
                      event'[Ev(h)'].status = "running" /\ event'[Ev(h)'].owner = CallName[h]
                 /\ Ev(h)' = e => call'[h].fence # row.fence + 1
      <4>1. Holding(h) /\ Ev(h)' = Ev(h) /\ call'[h].fence = call[h].fence  BY <2>5, <3>3, Zenon
      <4>2. CASE Ev(h) = e
        <5>1. call[h].fence \in 1 .. row.fence /\ row.fence \in Nat  BY <1>a, <2>2, <2>3, <3>2, <3>3, <4>1, <4>2, Zenon
        <5>2. event'[e].fence = row.fence + 1  BY <2>3, <2>6, Zenon
        <5> QED  BY <4>1, <4>2, <5>1, <5>2
      <4>3. CASE Ev(h) # e
        <5>1. event'[Ev(h)] = event[Ev(h)]  BY <1>b, <2>3, <4>3, Zenon
        <5> QED  BY <4>1, <4>3, <5>1, Zenon DEF InboundFencing
      <4> QED  BY <4>2, <4>3, Zenon
    <3>4. Holding(g)' => /\ call'[g].fence = row.fence + 1
                         /\ event'[e].fence = row.fence + 1
                         /\ event'[e].status = "running" /\ event'[e].owner = CallName[g]
      BY <2>3, <2>4, <2>6, <3>1, Zenon
    <3>5. row.fence + 1 \in 1 .. row.fence + 1  BY <1>a, <2>2, <2>3
    <3>6. InboundFencing'
      <4> SUFFICES ASSUME NEW h \in Dispatch, Holding(h)'
                   PROVE  /\ call'[h].fence \in 1 .. event'[Ev(h)'].fence
                          /\ call'[h].fence = event'[Ev(h)'].fence =>
                               event'[Ev(h)'].status = "running" /\ event'[Ev(h)'].owner = CallName[h]
                          /\ \A k \in Dispatch \ {h} :
                               Holding(k)' /\ Ev(k)' = Ev(h)' => call'[k].fence # call'[h].fence
        BY Zenon DEF InboundFencing
      <4>1. /\ call'[h].fence \in 1 .. event'[Ev(h)'].fence
            /\ call'[h].fence = event'[Ev(h)'].fence =>
                 event'[Ev(h)'].status = "running" /\ event'[Ev(h)'].owner = CallName[h]
        BY <2>3, <3>3, <3>4, <3>5
      <4>2. ASSUME NEW k \in Dispatch \ {h}, Holding(k)', Ev(k)' = Ev(h)'
            PROVE  call'[k].fence # call'[h].fence
        <5>1. CASE h = g  BY <2>3, <3>3, <3>4, <4>2, <5>1, Zenon
        <5>2. CASE k = g  BY <2>3, <3>3, <3>4, <4>2, <5>2, Zenon
        <5>3. CASE h # g /\ k # g  BY <2>5, <4>2, <5>3 DEF InboundFencing
        <5> QED  BY <5>1, <5>2, <5>3, Zenon
      <4> QED  BY <4>1, <4>2, Zenon
    <3>7. AbsentIsNew'  BY <2>3, <2>4, <2>6, Zenon DEF AbsentIsNew
    <3> QED  BY <2>3, <3>6, <3>7, Zenon
  <2>7. CASE ~ok
    <3>1. ~Holding(g)'  BY <2>3, <2>7, Zenon DEF Holding
    <3>2. InboundFencing'  BY <2>3, <2>5, <2>7, <3>1 DEF InboundFencing
    <3> QED  BY <2>3, <2>7, <3>2, Zenon DEF AbsentIsNew
  <2> QED  BY <2>6, <2>7, Zenon
<1>4. ASSUME NEW e \in Event, ExpireEvent(e) PROVE FencingInv'
  <2>1. /\ GatewayTypeOK' /\ call' = call
        /\ \A d \in Event : /\ event'[d].status = event[d].status /\ event'[d].fence = event[d].fence
                            /\ event'[d].owner = event[d].owner
    BY <1>4, ExpireStep, Zenon
  <2>2. InboundFencing'  BY <1>b, <2>1 DEF InboundFencing, Holding, Ev
  <2> QED  BY <2>1, <2>2, Zenon DEF AbsentIsNew
<1> QED  BY <1>0, <1>1, <1>2, <1>3, <1>4, StepKinds, Zenon

\* However callbacks are repeated and leases run out: of all calls that believe they
\* run a message, only the one claimed last can commit it.
THEOREM InboundFencingHolds == GatewaySpec => []InboundFencing
<1>1. FencingInv => InboundFencing  BY Zenon DEF FencingInv
<1> QED  BY FencingStarts, FencingKeeps, <1>1, PTL DEF GatewaySpec

-----------------------------------------------------------------------------
(* Runs *)

\* The calls that have started a Runner for a message, or are about to.
Started(e) == ran[e] \cup {g \in Dispatch : call[g].pc \in {"started", "reserve", "acquire"} /\ Ev(g) = e}

\* The claim of the message that no lapse has paid for yet.
Unpaid(e) ==
  \/ event[e].status = "running" /\ event[e].live
  \/ event[e].status \in {"completed", "failed"}

RunsBounded(e) ==
  /\ IsFiniteSet(Started(e))
  /\ Cardinality(Started(e)) <= (IF Unpaid(e) THEN 1 ELSE 0) + lapses[e]

\* RunsNeedLapses alone is not inductive: a call that has claimed the message will
\* start its Runner, and a claim is only granted when every earlier one is paid for.
RunsInv == GatewayTypeOK /\ \A e \in Event : RunsBounded(e)

\* Fewer calls, with as many lapses to pay for them.
LEMMA RunsStayBounded ==
  ASSUME NEW S, NEW T, IsFiniteSet(S), T \subseteq S, NEW n \in Nat, NEW m \in Nat,
         Cardinality(S) <= n, n <= m
  PROVE  IsFiniteSet(T) /\ Cardinality(T) <= m
<1>1. IsFiniteSet(T) /\ Cardinality(T) <= Cardinality(S)  BY FS_Subset, Zenon
<1>2. Cardinality(S) \in Nat /\ Cardinality(T) \in Nat  BY <1>1, FS_CardinalityType, Zenon
<1> QED  BY <1>1, <1>2

\* One call more, with one lapse more to pay for it.
LEMMA OneMoreRun ==
  ASSUME NEW S, NEW T, NEW g, IsFiniteSet(S), T \subseteq S \cup {g}, NEW n \in Nat, Cardinality(S) <= n
  PROVE  IsFiniteSet(T) /\ Cardinality(T) <= n + 1
<1>1. /\ IsFiniteSet(S \cup {g})
      /\ Cardinality(S \cup {g}) = IF g \in S THEN Cardinality(S) ELSE Cardinality(S) + 1
  BY FS_AddElement, Zenon
<1>2. Cardinality(S) \in Nat  BY FS_CardinalityType, Zenon
<1>3. Cardinality(S \cup {g}) <= n + 1  BY <1>1, <1>2
<1> QED  BY <1>1, <1>3, RunsStayBounded

\* No message, no call.
LEMMA RunsStart == InboundInit => RunsInv
<1> SUFFICES ASSUME InboundInit PROVE RunsInv  BY Zenon
<1>1. GatewayTypeOK  BY TypeStarts, Zenon
<1>2. ASSUME NEW e \in Event PROVE RunsBounded(e)
  <2>1. Started(e) = {}  BY Zenon DEF InboundInit, GatewayInit, NewCall, Started
  <2>2. lapses[e] = 0  BY Zenon DEF InboundInit, GatewayInit
  <2>3. IsFiniteSet({}) /\ Cardinality({}) = 0  BY FS_EmptySet, Zenon
  <2> QED  BY <2>1, <2>2, <2>3 DEF RunsBounded
<1> QED  BY <1>1, <1>2, Zenon DEF RunsInv

\* Every claim is paid for by the lapse of the one before it.
LEMMA RunsKeep == RunsInv /\ [GatewayNext]_GatewayVars => RunsInv'
<1> SUFFICES ASSUME RunsInv, [GatewayNext]_GatewayVars PROVE RunsInv'  BY Zenon
<1>c. GatewayTypeOK /\ \A d \in Event : RunsBounded(d)  BY Zenon DEF RunsInv
<1>0. CASE UNCHANGED GatewayVars
  BY <1>0, <1>c, Zenon DEF RunsInv, GatewayVars, storeVars, gatewayVars, GatewayTypeOK, RunsBounded, Started, Unpaid, Ev
<1>a. \A d \in Event : lapses[d] \in Nat  BY <1>c DEF GatewayTypeOK
<1>b. ASSUME GatewayTypeOK', NEW d \in Event, Started(d)' \subseteq Started(d),
             \/ lapses'[d] = lapses[d] /\ (Unpaid(d) => Unpaid(d)')
             \/ lapses'[d] = lapses[d] + 1
      PROVE  RunsBounded(d)'
  <2> DEFINE n == (IF Unpaid(d) THEN 1 ELSE 0) + lapses[d]
             m == (IF Unpaid(d)' THEN 1 ELSE 0) + lapses'[d]
  <2>1. n \in Nat /\ m \in Nat /\ n <= m  BY <1>a, <1>b
  <2>2. IsFiniteSet(Started(d)) /\ Cardinality(Started(d)) <= n  BY <1>c, Zenon DEF RunsBounded
  <2>3. IsFiniteSet(Started(d)') /\ Cardinality(Started(d)') <= m
    <3> HIDE DEF n, m
    <3> QED  BY <1>b, <2>1, <2>2, RunsStayBounded, Zenon
  <2> QED  BY <2>3, Zenon DEF RunsBounded
<1>1. ASSUME NEW g \in Dispatch, NEW e \in Event, Receive(g, e) PROVE RunsInv'
  <2>1. /\ GatewayTypeOK'
        /\ \A h \in Dispatch \ {g} : call'[h] = call[h]
        /\ call'[g].pc \in {"claim", "reconcile", "done"}
        /\ \A d \in Event : \/ event'[d] = event[d]
                            \/ event[d].status = "absent"
        /\ UNCHANGED <<ran, lapses>>
    BY <1>1, <1>c, ReceiveStep, Zenon
  <2>2. \A d \in Event : Started(d)' \subseteq Started(d)  BY <2>1, Zenon DEF Started, Ev
  <2>3. \A d \in Event : Unpaid(d) => Unpaid(d)'  BY <2>1, Zenon DEF Unpaid
  <2> QED  BY <1>b, <2>1, <2>2, <2>3, Zenon DEF RunsInv
<1>2. ASSUME NEW g \in Dispatch, LocalStep(g) PROVE RunsInv'
  <2>1. GatewayTypeOK' /\ UNCHANGED <<event, lapses>>  BY <1>2, <1>c, LocalStepKeeps, Zenon
  <2>2. PICK pc, content, failed : MovesTo(g, pc, content, failed) /\ LocalMove(g, pc, content, failed)
    BY <1>2, <1>c, LocalStepIs, Zenon
  <2>3. /\ \A h \in Dispatch \ {g} : call'[h] = call[h]
        /\ Ev(g)' = Ev(g) /\ call'[g].pc = pc
    BY <1>c, <2>2, MovesKeep, Zenon
  <2>4. /\ pc \in {"started", "reserve", "acquire"} => call[g].pc \in {"started", "reserve", "acquire"}
        /\ \/ ran' = ran
           \/ call[g].pc = "acquire" /\ ran' = [ran EXCEPT ![Ev(g)] = @ \cup {g}]
    BY <2>2, Zenon DEF LocalMove, Prepares, Stops, Starts, Ends, Fails, Writes
  <2>5. ASSUME NEW d \in Event PROVE Started(d)' \subseteq Started(d)
    <3>1. ran'[d] \subseteq Started(d)  BY <1>c, <2>4 DEF Started, GatewayTypeOK
    <3>2. \A h \in Dispatch : call'[h].pc \in {"started", "reserve", "acquire"} /\ Ev(h)' = d => h \in Started(d)
      BY <2>3, <2>4, Zenon DEF Started, Ev
    <3> QED  BY <3>1, <3>2, Zenon DEF Started, Ev
  <2> QED  BY <1>b, <2>1, <2>5, Zenon DEF RunsInv, Unpaid
<1>3. ASSUME NEW g \in Dispatch, StoreStep(g) PROVE RunsInv'
  <2>1. PICK e, from, to, segments, pc, ok :
          Asks(g, from, to, segments, pc) /\ Moved(g, e, from, to, segments, pc, ok)
    BY <1>3, <1>c, StoreStepDoes, Zenon
  <2>2. PICK row : row = event[e]  BY Zenon
  <2>3. /\ GatewayTypeOK' /\ e = Ev(g) /\ e \in Event
        /\ ok = TransitionMessageOK(row, from, to, CallName[g], call[g].fence)
        /\ \A h \in Dispatch \ {g} : call'[h] = call[h]
        /\ Ev(g)' = e
        /\ \A d \in Event \ {e} : event'[d] = event[d]
        /\ UNCHANGED <<ran, lapses>>
        /\ ok => call'[g].pc = pc /\ event'[e].status = to /\ event'[e].live = (to = "running")
        /\ ~ok => event' = event /\ call'[g].pc = "done"
    BY <1>3, <1>c, <2>1, <2>2, StoreStepDoes, Zenon DEF Moved
  <2>4. /\ to \in {"running", "completed", "execution_reconciling", "failed"}
        /\ pc \in {"claim", "started", "done"} /\ (pc = "started" <=> to = "running")
    BY <2>1, Zenon DEF Asks
  <2>5. CASE ok /\ to = "running"
    <3>1. \A d \in Event : Started(d)' \subseteq Started(d) \cup (IF d = e THEN {g} ELSE {})
      BY <2>3, Zenon DEF Started, Ev
    <3>2. row.status \in {"received", "execution_reconciling"}
      BY <2>3, <2>5, Zenon DEF TransitionMessageOK, ValidMessageTransition
    <3>3. ~Unpaid(e) /\ Unpaid(e)'  BY <2>2, <2>3, <2>4, <2>5, <3>2, Zenon DEF Unpaid
    <3>4. RunsBounded(e)'
      <4>1. IsFiniteSet(Started(e)) /\ Cardinality(Started(e)) <= lapses[e] /\ lapses[e] \in Nat
        BY <1>a, <1>c, <2>3, <3>3 DEF RunsBounded
      <4>2. Started(e)' \subseteq Started(e) \cup {g}  BY <2>3, <3>1, Zenon
      <4>3. IsFiniteSet(Started(e)') /\ Cardinality(Started(e)') <= lapses[e] + 1
        BY <4>1, <4>2, OneMoreRun, Zenon
      <4> QED  BY <1>a, <2>3, <3>3, <4>3 DEF RunsBounded
    <3>5. ASSUME NEW d \in Event \ {e} PROVE RunsBounded(d)'
      <4>1. Started(d)' \subseteq Started(d)  BY <3>1, Zenon
      <4>2. lapses'[d] = lapses[d] /\ (Unpaid(d) => Unpaid(d)')  BY <2>3, Zenon DEF Unpaid
      <4> QED  BY <1>b, <2>3, <4>1, <4>2, Zenon
    <3> QED  BY <2>3, <3>4, <3>5, Zenon DEF RunsInv
  <2>6. CASE ~(ok /\ to = "running")
    <3>1. call'[g].pc \in {"claim", "done"}  BY <2>3, <2>4, <2>6, Zenon
    <3>2. \A d \in Event : Started(d)' \subseteq Started(d)  BY <2>3, <3>1, Zenon DEF Started, Ev
    <3>3. \A d \in Event : Unpaid(d) => Unpaid(d)'
      <4>1. ok => \/ to \in {"completed", "failed"}
                  \/ to = "execution_reconciling" /\ row.status = "running" /\ ~row.live
        BY <2>3, <2>4, <2>6, Zenon DEF TransitionMessageOK, ValidMessageTransition, MessageLeaseOK
      <4> QED  BY <2>2, <2>3, <2>4, <4>1, Zenon DEF Unpaid
    <3> QED  BY <1>b, <2>3, <3>2, <3>3, Zenon DEF RunsInv
  <2> QED  BY <2>5, <2>6, Zenon
<1>4. ASSUME NEW e \in Event, ExpireEvent(e) PROVE RunsInv'
  <2>1. /\ GatewayTypeOK' /\ \A d \in Event \ {e} : event'[d] = event[d]
        /\ lapses' = [lapses EXCEPT ![e] = @ + 1] /\ UNCHANGED <<call, ran>>
    BY <1>4, <1>c, ExpireStep, Zenon
  <2>2. \A d \in Event : Started(d)' = Started(d)  BY <2>1, Zenon DEF Started, Ev
  <2>3. \A d \in Event : \/ lapses'[d] = lapses[d] /\ (Unpaid(d) => Unpaid(d)')
                         \/ lapses'[d] = lapses[d] + 1
    BY <1>c, <2>1, Zenon DEF Unpaid, GatewayTypeOK
  <2> QED  BY <1>b, <2>1, <2>2, <2>3, Zenon DEF RunsInv
<1> QED  BY <1>0, <1>1, <1>2, <1>3, <1>4, StepKinds, Zenon

\* However often a callback is repeated, by however many processes: a message is
\* executed once, and once more for each of its leases that ran out.
THEOREM RunsAreBounded == GatewaySpec => []RunsNeedLapses
<1>1. RunsInv => RunsNeedLapses
  <2> SUFFICES ASSUME RunsInv, NEW e \in Event PROVE Cardinality(ran[e]) <= 1 + lapses[e]
    BY Zenon DEF RunsNeedLapses
  <2>1. lapses[e] \in Nat /\ ran[e] \subseteq Started(e)  BY DEF RunsInv, GatewayTypeOK, Started
  <2> DEFINE n == (IF Unpaid(e) THEN 1 ELSE 0) + lapses[e]
             m == 1 + lapses[e]
  <2>2. IsFiniteSet(Started(e)) /\ Cardinality(Started(e)) <= n  BY Zenon DEF RunsInv, RunsBounded
  <2>3. n \in Nat /\ m \in Nat /\ n <= m  BY <2>1
  <2> HIDE DEF n, m
  <2>4. Cardinality(ran[e]) <= m  BY <2>1, <2>2, <2>3, RunsStayBounded, Zenon
  <2> QED  BY <2>4, Zenon DEF m
<1> QED  BY RunsStart, RunsKeep, <1>1, PTL DEF GatewaySpec

-----------------------------------------------------------------------------
(* Replies *)

\* The stored segments of a message are those of one content.
Holds(e, c) ==
  \A s \in Segment : /\ reply[<<e, s>>].status # "absent" <=> s \in SegmentsOf[c]
                     /\ s \in SegmentsOf[c] => reply[<<e, s>>].content = c

RepliesAreWhole ==
  \A e \in Event : \/ \A s \in Segment : reply[<<e, s>>].status = "absent"
                   \/ \E c \in Content : Holds(e, c)

\* What a call knows of its own execution.
CallKnows(g) ==
  /\ call[g].pc \in {"execute", "materialize", "finish"} => g \in ran[Ev(g)]
  /\ call[g].pc = "materialize" => call[g].content \in Content
  /\ call[g].pc = "finish" /\ ~call[g].failed /\ call[g].content \in Content => Holds(Ev(g), call[g].content)

\* The statuses of a message whose execution was committed; only the delivery
\* workers leave the first of them.
Finished == {"completed", "reply_pending", "replied"}

\* The call that completed a message, and is over.
Completed(g, e) ==
  /\ g \in ran[e] /\ call[g].pc = "done" /\ ~call[g].failed
  /\ event[e].status = "completed" => call[g].fence = event[e].fence
  /\ event[e].segments = OwnSegments(g)
  /\ call[g].content \in Content => Holds(e, call[g].content)

\* CompletedReplyIsOwn alone is not inductive: the reply is written before the
\* message is completed, so what was written must still be there when it is.
ReplyInv ==
  /\ GatewayTypeOK
  /\ RepliesAreWhole
  /\ \A g \in Dispatch : CallKnows(g)
  /\ \A e \in Event : IF event[e].status \in Finished THEN \E g \in Dispatch : Completed(g, e)
                       ELSE event[e].segments = {}

\* A batch of segments meets the same reply or none: what is stored stays.
LEMMA EnqueueKeeps ==
  ASSUME GatewayTypeOK, RepliesAreWhole, NEW e \in Event, NEW c \in Content,
         EnqueueRepliesOK(e, c), EnqueueReplies(e, c)
  PROVE  /\ Holds(e, c)' /\ RepliesAreWhole'
         /\ \A d \in Event, b \in Content : Holds(d, b) => Holds(d, b)'
<1>1. \A d \in Event, s \in Segment :
        reply'[<<d, s>>] = IF d = e /\ s \in SegmentsOf[c] /\ reply[<<d, s>>].status = "absent"
                           THEN [NoReply EXCEPT !.status = "pending", !.content = c]
                           ELSE reply[<<d, s>>]
  BY Zenon DEF EnqueueReplies, Slot
<1>2. /\ [NoReply EXCEPT !.status = "pending", !.content = c].status = "pending"
      /\ [NoReply EXCEPT !.status = "pending", !.content = c].content = c
  BY Zenon DEF NoReply
<1>3. ASSUME NEW b \in Content, Holds(e, b) PROVE b = c
  <2>1. PICK s \in SegmentsOf[b] : s \in Segment  BY ContentAssumption, Zenon
  <2>2. reply[<<e, s>>].content = b  BY <1>3, <2>1, Zenon DEF Holds
  <2>3. reply[<<e, s>>].content \in {NoContent, c}  BY <2>1, Zenon DEF EnqueueRepliesOK
  <2> QED  BY <2>2, <2>3, ContentAssumption, Zenon
<1>4. Holds(e, c)'
  <2>1. CASE \A s \in Segment : reply[<<e, s>>].status = "absent"
    BY <1>1, <1>2, <2>1, Zenon DEF Holds
  <2>2. CASE \E b \in Content : Holds(e, b)
    <3>1. Holds(e, c)  BY <1>3, <2>2, Zenon
    <3> QED  BY <1>1, <3>1, Zenon DEF Holds
  <2> QED  BY <2>1, <2>2, Zenon DEF RepliesAreWhole
<1>5. \A d \in Event, b \in Content : Holds(d, b) => Holds(d, b)'
  <2> SUFFICES ASSUME NEW d \in Event, NEW b \in Content, Holds(d, b) PROVE Holds(d, b)'
    BY Zenon
  <2>1. CASE d = e  BY <1>3, <1>4, <2>1, Zenon
  <2>2. CASE d # e  BY <1>1, <2>2 DEF Holds
  <2> QED  BY <2>1, <2>2, Zenon
<1>6. RepliesAreWhole'
  <2> SUFFICES ASSUME NEW d \in Event
               PROVE  \/ \A s \in Segment : reply'[<<d, s>>].status = "absent"
                      \/ \E b \in Content : Holds(d, b)'
    BY Zenon DEF RepliesAreWhole
  <2>1. CASE d = e  BY <1>4, <2>1, Zenon
  <2>2. CASE d # e
    <3>1. CASE \A s \in Segment : reply[<<d, s>>].status = "absent"  BY <1>1, <2>2, <3>1, Zenon
    <3>2. CASE \E b \in Content : Holds(d, b)  BY <1>5, <3>2, Zenon
    <3> QED  BY <3>1, <3>2, Zenon DEF RepliesAreWhole
  <2> QED  BY <2>1, <2>2, Zenon
<1> QED  BY <1>4, <1>5, <1>6, Zenon

\* The empty store.
LEMMA RepliesStart ==
  ASSUME InboundInit
  PROVE  ReplyInv
<1>1. GatewayTypeOK  BY TypeStarts, Zenon
<1>2. RepliesAreWhole  BY Zenon DEF InboundInit, EmptyStoreInit, NoReply, RepliesAreWhole, Slot
<1>3. \A g \in Dispatch : CallKnows(g)  BY Zenon DEF InboundInit, GatewayInit, NewCall, CallKnows
<1>4. \A e \in Event : event[e].status \notin Finished /\ event[e].segments = {}
  BY Zenon DEF InboundInit, EmptyStoreInit, NoEvent, Finished
<1> QED  BY <1>1, <1>2, <1>3, <1>4, Zenon DEF ReplyInv

\* What a call that does nothing knows, and what a call that is over did, stays true
\* as long as stored replies and started Runners do.
LEMMA KnowledgeStays ==
  ASSUME GatewayTypeOK, NEW g \in Dispatch, call'[g] = call[g],
         \A e \in Event : ran[e] \subseteq ran'[e],
         \A e \in Event, c \in Content : Holds(e, c) => Holds(e, c)'
  PROVE  /\ CallKnows(g) => CallKnows(g)'
         /\ \A e \in Event : event'[e] = event[e] /\ Completed(g, e) => Completed(g, e)'
<1>1. Ev(g) \in Event /\ Ev(g)' = Ev(g) /\ OwnSegments(g)' = OwnSegments(g)
  BY Zenon DEF GatewayTypeOK, Call, Ev, OwnSegments
<1> QED  BY <1>1, Zenon DEF CallKnows, Completed

\* A step that leaves the messages alone, and the calls that are over.
LEMMA RepliesStay ==
  ASSUME ReplyInv, GatewayTypeOK', RepliesAreWhole', NEW g \in Dispatch, CallKnows(g)',
         \A h \in Dispatch \ {g} : call'[h] = call[h], call[g].pc # "done",
         \A e \in Event : ran[e] \subseteq ran'[e],
         \A e \in Event, c \in Content : Holds(e, c) => Holds(e, c)',
         \A e \in Event : \/ event'[e] = event[e]
                          \/ event'[e].status \notin Finished /\ event'[e].segments = {}
                          \/ event'[e].status \in Finished /\ Completed(g, e)'
  PROVE  ReplyInv'
<1>1. \A h \in Dispatch \ {g} :
        CallKnows(h)' /\ \A e \in Event : event'[e] = event[e] /\ Completed(h, e) => Completed(h, e)'
  BY KnowledgeStays, Zenon DEF ReplyInv
<1>2. ASSUME NEW e \in Event
      PROVE  IF event'[e].status \in Finished THEN \E h \in Dispatch : Completed(h, e)'
             ELSE event'[e].segments = {}
  <2>1. CASE event'[e] = event[e]
    <3>1. CASE event[e].status \in Finished
      <4>1. PICK h \in Dispatch : Completed(h, e)  BY <3>1, Zenon DEF ReplyInv
      <4>2. h # g  BY <4>1, Zenon DEF Completed
      <4> QED  BY <1>1, <2>1, <3>1, <4>1, <4>2, Zenon
    <3>2. CASE event[e].status \notin Finished  BY <2>1, <3>2, Zenon DEF ReplyInv
    <3> QED  BY <3>1, <3>2, Zenon
  <2> QED  BY <2>1, Zenon
<1> QED  BY <1>1, <1>2, Zenon DEF ReplyInv

\* Every step keeps replies whole and with the execution they belong to.
LEMMA RepliesKeep ==
  ASSUME ReplyInv, [GatewayNext]_GatewayVars
  PROVE  ReplyInv'
<1>a. GatewayTypeOK  BY Zenon DEF ReplyInv
<1>b. RepliesAreWhole /\ \A g \in Dispatch : CallKnows(g)  BY Zenon DEF ReplyInv
<1>c. reply' = reply => RepliesAreWhole' /\ \A e \in Event, c \in Content : Holds(e, c) => Holds(e, c)'
  BY <1>b, Zenon DEF RepliesAreWhole, Holds
<1>0. CASE UNCHANGED GatewayVars
  BY <1>0 DEF GatewayVars, storeVars, gatewayVars, ReplyInv, GatewayTypeOK, RepliesAreWhole, CallKnows,
              Completed, Holds, OwnSegments, Ev
<1>1. ASSUME NEW g \in Dispatch, NEW e \in Event, Receive(g, e) PROVE ReplyInv'
  <2>1. /\ GatewayTypeOK'
        /\ \A h \in Dispatch \ {g} : call'[h] = call[h]
        /\ call[g].pc = "new" /\ call'[g].pc \in {"claim", "reconcile", "done"}
        /\ \A d \in Event : \/ event'[d] = event[d]
                            \/ event[d].status = "absent" /\ event'[d] = RecordedEvent
        /\ UNCHANGED <<reply, ran, lapses>>
    BY <1>1, <1>a, ReceiveStep, Zenon
  <2>2. CallKnows(g)'  BY <2>1, Zenon DEF CallKnows
  <2>3. \A d \in Event : \/ event'[d] = event[d]
                         \/ event'[d].status \notin Finished /\ event'[d].segments = {}
    BY <2>1, InitialRows, Zenon DEF Finished
  <2> QED  BY <1>c, <2>1, <2>2, <2>3, RepliesStay, Zenon
<1>2. ASSUME NEW g \in Dispatch, LocalStep(g) PROVE ReplyInv'
  <2>1. GatewayTypeOK' /\ event' = event  BY <1>2, <1>a, LocalStepKeeps, Zenon
  <2>2. PICK pc, content, failed : MovesTo(g, pc, content, failed) /\ LocalMove(g, pc, content, failed)
    BY <1>2, <1>a, LocalStepIs, Zenon
  <2>3. /\ \A h \in Dispatch \ {g} : call'[h] = call[h]
        /\ Ev(g)' = Ev(g) /\ call'[g].pc = pc /\ call'[g].content = content /\ call'[g].failed = failed
    BY <1>a, <2>2, MovesKeep, Zenon
  <2>4. PICK e \in Event : e = Ev(g)  BY <1>a, Zenon DEF GatewayTypeOK, Call, Ev
  <2>5. call[g].pc # "done" /\ \A d \in Event : ran[d] \subseteq ran'[d]
    BY <1>a, <2>2, Zenon DEF LocalMove, Prepares, Stops, Starts, Ends, Fails, Writes, GatewayTypeOK
  <2>6. CASE Writes(g, pc, content, failed)
    <3>1. content \in Content /\ g \in ran[e]  BY <1>b, <2>4, <2>6, Zenon DEF CallKnows, Writes, Keeps
    <3>2. EnqueueRepliesOK(e, content) /\ EnqueueReplies(e, content) /\ pc = "finish"
      BY <2>4, <2>6, Zenon DEF Writes
    <3>3. /\ Holds(e, content)' /\ RepliesAreWhole'
          /\ \A d \in Event, c \in Content : Holds(d, c) => Holds(d, c)'
      BY <1>a, <1>b, <3>1, <3>2, EnqueueKeeps, Zenon
    <3>4. CallKnows(g)'
      <4>1. Ev(g)' = e /\ call'[g].content = content /\ call'[g].pc = "finish" /\ g \in ran'[e]
        BY <2>3, <2>4, <2>5, <3>1, <3>2, Zenon
      <4> QED  BY <3>3, <4>1, Zenon DEF CallKnows, Holds
    <3> QED  BY <2>1, <2>3, <2>5, <3>3, <3>4, RepliesStay, Zenon
  <2>7. CASE ~Writes(g, pc, content, failed)
    <3>1. reply' = reply  BY <2>2, <2>7, Zenon DEF LocalMove, Prepares, Stops, Starts, Ends, Fails
    <3>2. CallKnows(g)'
      <4>1. pc \in {"execute", "materialize", "finish"} => g \in ran'[e]
        <5>1. CASE Starts(g, pc, content, failed)  BY <1>a, <2>4, <5>1, Zenon DEF Starts, GatewayTypeOK
        <5>2. CASE ~Starts(g, pc, content, failed)
          <6>1. pc \in {"execute", "materialize", "finish"} => call[g].pc \in {"execute", "materialize"}
            BY <2>2, <2>7, <5>2, Zenon DEF LocalMove, Prepares, Stops, Ends, Fails
          <6> QED  BY <1>b, <2>4, <2>5, <6>1, Zenon DEF CallKnows
        <5> QED  BY <5>1, <5>2, Zenon
      <4>2. /\ pc = "materialize" => content \in Content
            /\ pc = "finish" /\ ~failed => content \notin Content
        BY <2>2, <2>7, ContentAssumption, Zenon DEF LocalMove, Prepares, Stops, Starts, Ends, Fails
      <4> QED  BY <2>3, <2>4, <4>1, <4>2, Zenon DEF CallKnows
    <3> QED  BY <1>c, <2>1, <2>3, <2>5, <3>1, <3>2, RepliesStay, Zenon
  <2> QED  BY <2>6, <2>7, Zenon
<1>3. ASSUME NEW g \in Dispatch, StoreStep(g) PROVE ReplyInv'
  <2>0. GatewayTypeOK'  BY <1>3, <1>a, StoreStepDoes, Zenon
  <2>1. PICK e, from, to, segments, pc, ok :
          Asks(g, from, to, segments, pc) /\ Moved(g, e, from, to, segments, pc, ok)
    BY <1>3, <1>a, StoreStepDoes, Zenon
  <2>2. /\ e = Ev(g) /\ e \in Event
        /\ ok = TransitionMessageOK(event[e], from, to, CallName[g], call[g].fence)
        /\ \A h \in Dispatch \ {g} : call'[h] = call[h]
        /\ Ev(g)' = e /\ call'[g].content = call[g].content /\ call'[g].failed = call[g].failed
        /\ \A d \in Event \ {e} : event'[d] = event[d]
        /\ UNCHANGED <<reply, ran, lapses>>
        /\ ok => /\ call'[g].pc = pc /\ call'[g].fence = event[e].fence + 1
                 /\ event'[e].status = to /\ event'[e].fence = event[e].fence + 1
                 /\ event'[e].segments = IF segments = {} THEN event[e].segments ELSE segments
        /\ ~ok => event' = event /\ call'[g].pc = "done"
    BY <2>1, Zenon DEF Moved
  <2>3. /\ to = "completed" => call[g].pc = "finish" /\ ~call[g].failed /\ segments = OwnSegments(g)
        /\ to # "completed" => segments = {}
        /\ call[g].pc # "done"
        /\ pc \in {"claim", "started", "done"}
        /\ to = "completed" => pc = "done"
    <3>1. to = "completed" => pc = "done"
      BY <1>3, <1>a, <2>1, Zenon DEF Asks
    <3> QED  BY <2>1, <3>1, Zenon DEF Asks
  <2>4. CallKnows(g)'  BY <2>2, <2>3, Zenon DEF CallKnows
  <2>5. \A d \in Event : \/ event'[d] = event[d]
                         \/ event'[d].status \notin Finished /\ event'[d].segments = {}
                         \/ event'[d].status \in Finished /\ Completed(g, d)'
    <3>1. CASE ok
      <4>1. event[e].segments = {}
        <5>1. event[e].status \notin Finished
          BY <2>1, <2>2, <3>1, Zenon DEF TransitionMessageOK, Asks, Finished
        <5> QED  BY <2>2, <5>1, Zenon DEF ReplyInv
      <4>2. CASE to = "completed"
        <5>1. g \in ran[e] /\ (call[g].content \in Content => Holds(e, call[g].content))
          BY <1>b, <2>2, <2>3, <4>2, Zenon DEF CallKnows
        <5>2. OwnSegments(g)' = OwnSegments(g)  BY <2>2, Zenon DEF OwnSegments
        <5>3. Completed(g, e)'
          BY <1>c, <2>2, <2>3, <3>1, <4>1, <4>2, <5>1, <5>2, Zenon DEF Completed
        <5> QED  BY <2>2, <3>1, <4>2, <5>3, Zenon DEF Finished
      <4>3. CASE to # "completed"
        <5>1. to \notin Finished  BY <2>1, <4>3, Zenon DEF Asks, Finished
        <5> QED  BY <2>2, <2>3, <3>1, <4>1, <4>3, <5>1, Zenon
      <4> QED  BY <4>2, <4>3, Zenon
    <3>2. CASE ~ok  BY <2>2, <3>2, Zenon
    <3> QED  BY <3>1, <3>2, Zenon
  <2> QED  BY <1>c, <2>0, <2>2, <2>3, <2>4, <2>5, RepliesStay, Zenon
<1>4. ASSUME NEW e \in Event, ExpireEvent(e) PROVE ReplyInv'
  <2>1. /\ GatewayTypeOK'
        /\ \A d \in Event : /\ event'[d].status = event[d].status /\ event'[d].fence = event[d].fence
                            /\ event'[d].segments = event[d].segments
        /\ UNCHANGED <<reply, call, ran>>
    BY <1>4, <1>a, ExpireStep, Zenon
  <2>2. \A g \in Dispatch : CallKnows(g)'  BY <1>b, <2>1, Zenon DEF CallKnows, Holds, Ev
  <2>3. \A g \in Dispatch, d \in Event : Completed(g, d) => Completed(g, d)'
    BY <2>1 DEF Completed, Holds, OwnSegments
  <2> QED  BY <1>c, <2>1, <2>2, <2>3, Zenon DEF ReplyInv
<1> QED  BY <1>0, <1>1, <1>2, <1>3, <1>4, StepKinds, Zenon

\* However callbacks, lapses and crashes interleave, the reply of a completed
\* message is that of the execution that completed it, whole.
THEOREM RepliesAreOwn == GatewaySpec => []CompletedReplyIsOwn
<1>1. ReplyInv => CompletedReplyIsOwn
  <2> SUFFICES ASSUME ReplyInv, NEW e \in Event
               PROVE  /\ event[e].status = "completed" =>
                           \E g \in ran[e] :
                             /\ call[g].fence = event[e].fence /\ ~call[g].failed
                             /\ event[e].segments =
                                  (IF call[g].content = NoContent THEN {} ELSE SegmentsOf[call[g].content])
                             /\ \A s \in event[e].segments : reply[<<e, s>>].content = call[g].content
                      /\ LET there == {s \in Segment : reply[<<e, s>>].status # "absent"}
                         IN there # {} => \E c \in Content :
                              there = SegmentsOf[c] /\ \A s \in there : reply[<<e, s>>].content = c
    BY Zenon DEF CompletedReplyIsOwn
  <2>1. ASSUME event[e].status = "completed"
        PROVE  \E g \in ran[e] :
                 /\ call[g].fence = event[e].fence /\ ~call[g].failed
                 /\ event[e].segments =
                      (IF call[g].content = NoContent THEN {} ELSE SegmentsOf[call[g].content])
                 /\ \A s \in event[e].segments : reply[<<e, s>>].content = call[g].content
    <3>1. PICK g \in Dispatch : Completed(g, e)  BY <2>1, Zenon DEF ReplyInv, Finished
    <3>2. call[g].content \in Content \cup {NoContent}  BY Zenon DEF ReplyInv, GatewayTypeOK, Call
    <3>3. \A s \in OwnSegments(g) : reply[<<e, s>>].content = call[g].content
      <4>1. OwnSegments(g) \subseteq Segment  BY <3>2, ContentAssumption, Zenon DEF OwnSegments
      <4> QED  BY <3>1, <3>2, <4>1, Zenon DEF Completed, OwnSegments, Holds
    <3> QED  BY <2>1, <3>1, <3>3, Zenon DEF Completed, OwnSegments
  <2>2. ASSUME NEW there, there = {s \in Segment : reply[<<e, s>>].status # "absent"}, there # {}
        PROVE  \E c \in Content : there = SegmentsOf[c] /\ \A s \in there : reply[<<e, s>>].content = c
    <3>1. PICK c \in Content : Holds(e, c)  BY <2>2, Zenon DEF ReplyInv, RepliesAreWhole
    <3>2. SegmentsOf[c] \subseteq Segment  BY ContentAssumption, Zenon
    <3> QED  BY <2>2, <3>1, <3>2, Zenon DEF Holds
  <2> QED  BY <2>1, <2>2, Zenon
<1>2. InboundInit => ReplyInv  BY RepliesStart, Zenon
<1>3. ReplyInv /\ [GatewayNext]_GatewayVars => ReplyInv'  BY RepliesKeep, Zenon
<1> QED  BY <1>1, <1>2, <1>3, PTL DEF GatewaySpec

=============================================================================
