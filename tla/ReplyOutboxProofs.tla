-------------------------- MODULE ReplyOutboxProofs --------------------------
(***************************************************************************)
(* Safety of the delivery workers for any number of events, segments,       *)
(* workers, delivery attempts and mishaps, whether or not the workers have  *)
(* names of their own.                                                      *)
(***************************************************************************)
EXTENDS ReplyOutbox, FiniteSetTheorems, TLAPS

-----------------------------------------------------------------------------
(* Rows and steps *)

\* What ClaimReply leaves in a row.
LEMMA ClaimRow ==
  ASSUME NEW row \in ReplyRow(DelivererNames), NEW w \in Deliverer, NEW after,
         after = AfterClaimReply(row, DelivererName[w])
  PROVE  /\ after \in ReplyRow(DelivererNames)
         /\ after.status = "sending" /\ after.live /\ after.owner = DelivererName[w]
         /\ after.fence = row.fence + 1 /\ after.attempts = row.attempts + 1
         /\ after.content = row.content
<1> DEFINE f == row.fence + 1
           n == row.attempts + 1
           o == DelivererName[w]
<1>1. f \in Nat /\ n \in Nat /\ o \in DelivererNames  BY DEF ReplyRow, DelivererNames
<1>2. after = [row EXCEPT !.status = "sending", !.attempts = n, !.fence = f, !.owner = o, !.live = TRUE]
  BY Zenon DEF AfterClaimReply, ReplyRow
<1> HIDE DEF f, n, o
<1>3. /\ after \in ReplyRow(DelivererNames)
      /\ after.status = "sending" /\ after.live /\ after.owner = o
      /\ after.fence = f /\ after.attempts = n /\ after.content = row.content
  BY <1>1, <1>2, Zenon DEF ReplyRow, ReplyStatus
<1> QED  BY <1>3, Zenon DEF f, n, o

Target == {"sent", "retryable", "dead_letter"}

\* What TransitionReply leaves in a row.
LEMMA CommitRow ==
  ASSUME NEW row \in ReplyRow(DelivererNames), NEW to \in Target, NEW w \in Deliverer,
         NEW after, after = AfterReplyTransition(row, to, DelivererName[w])
  PROVE  /\ after \in ReplyRow(DelivererNames)
         /\ after.status = to /\ ~after.live
         /\ after.fence = row.fence + 1 /\ after.content = row.content
<1> DEFINE f == row.fence + 1
           o == DelivererName[w]
<1>1. f \in Nat /\ o \in DelivererNames /\ to \in ReplyStatus
  BY DEF ReplyRow, DelivererNames, Target, ReplyStatus
<1>2. after = [row EXCEPT !.status = to, !.owner = o, !.fence = f, !.live = FALSE]
  BY Zenon DEF AfterReplyTransition, ReplyRow
<1> HIDE DEF f, o
<1>3. /\ after \in ReplyRow(DelivererNames)
      /\ after.status = to /\ ~after.live /\ after.fence = f /\ after.content = row.content
  BY <1>1, <1>2, Zenon DEF ReplyRow
<1> QED  BY <1>3, Zenon DEF f, o

FlightState == {"deliver", "reconcile", "commit"}

\* The states in which a worker has seen that every segment is sent.
AdvanceState == {"read", "mark_pending", "mark_replied"}

\* advanceEvent moves the event one status on.
Advances(w) ==
  /\ dwork[w].pc \in AdvanceState
  /\ event[Replied(w)].status \in {"completed", "reply_pending"}
  /\ \E to \in {"reply_pending", "replied"} :
       event' = [event EXCEPT ![Replied(w)] =
                   AfterMessageTransition(event[Replied(w)], to, DelivererName[w], {})]

\* Everything a worker does leaves it with new local variables, n.
Becomes(w, n) == n \in Work /\ dwork' = [dwork EXCEPT ![w] = n]

\* The steps of a worker by what they do. One that is not, or no longer, about a
\* claim: the claim it had is given up for something that went wrong, because the
\* worker is being closed, or because the store refused its result.
Walks(w, n) ==
  /\ n.pc \notin FlightState
  /\ \/ dwork[w].pc \notin FlightState
     \/ mishaps' = mishaps + 1
     \/ dlife[w] = "closing"
     \/ dlife[w] = "running" /\ dwork[w].pc = "commit" /\ ~CommitOK(w)
  /\ \A v \in Deliverer \ {w} : dlife'[v] = dlife[v]
  /\ mishaps' \in {mishaps, mishaps + 1}
  /\ n.pc \in AdvanceState =>
       /\ n.slot = dwork[w].slot
       /\ dwork[w].pc \in AdvanceState \/ AllSent(Replied(w))
  /\ event' = event \/ Advances(w)
  /\ UNCHANGED <<reply, accepted>>

Claims(w, x, n) ==
  /\ dlife[w] = "running" /\ dwork[w].pc = "scan" /\ ClaimReplyOK(reply[x])
  /\ reply' = [reply EXCEPT ![x] = AfterClaimReply(reply[x], DelivererName[w])]
  /\ n.slot = x /\ n.fence = reply[x].fence + 1 /\ n.pc \in {"deliver", "reconcile"}
  /\ mishaps' \in {mishaps, mishaps + 1}
  /\ UNCHANGED <<event, dlife, accepted>>

Delivers(w, answer, n) ==
  /\ dwork[w].pc = "deliver" /\ n.pc = "commit" /\ n.slot = dwork[w].slot /\ n.fence = dwork[w].fence
  /\ n.target = "sent" <=> answer = "ok"
  /\ n.asked = dwork[w].asked
  /\ accepted' = IF answer \in {"ok", "lost"}
                 THEN [accepted EXCEPT ![dwork[w].slot] = @ + 1] ELSE accepted
  /\ mishaps' = IF answer = "lost" THEN mishaps + 1 ELSE mishaps
  /\ UNCHANGED <<storeVars, dlife>>

Reconciles(w, n) ==
  /\ dwork[w].pc = "reconcile" /\ n.pc = "commit" /\ n.slot = dwork[w].slot /\ n.fence = dwork[w].fence
  /\ n.target = "sent" => accepted[n.slot] > 0
  /\ n.target # "dead_letter"
  /\ UNCHANGED <<storeVars, dlife, accepted, mishaps>>

Commits(w, n) ==
  /\ dlife[w] = "running" /\ dwork[w].pc = "commit" /\ CommitOK(w)
  /\ reply' = [reply EXCEPT ![dwork[w].slot] =
                 AfterReplyTransition(reply[dwork[w].slot], dwork[w].target, DelivererName[w])]
  /\ n.pc \in {"audit", "list"}
  /\ UNCHANGED <<event, dlife, accepted, mishaps>>

\* Close is called, or a process comes back.
Switches(w) ==
  /\ \/ dlife[w] = "down" /\ mishaps' = mishaps
     \/ mishaps' = mishaps + 1
  /\ \E s \in DelivererLife : dlife' = [dlife EXCEPT ![w] = s]
  /\ UNCHANGED <<storeVars, dwork, accepted>>

WorkerMoves(w) ==
  \/ \E n : Becomes(w, n) /\ (Walks(w, n) \/ Reconciles(w, n) \/ Commits(w, n))
  \/ \E n, x : x \in Slot /\ Becomes(w, n) /\ Claims(w, x, n)
  \/ \E n, answer : Becomes(w, n) /\ Delivers(w, answer, n)
  \/ Switches(w)

\* Idle local variables, and those of a worker that goes on with its candidates.
LEMMA FreshWork ==
  ASSUME OutboxTypeOK, NEW w \in Deliverer
  PROVE  /\ IdleWork \in Work /\ IdleWork.pc = "idle"
         /\ NextCandidate(w) \in Work /\ NextCandidate(w).pc = "scan"
<1>1. (CHOOSE x \in Slot : TRUE) \in Slot
  <2>1. PICK e \in Event, s \in Segment : TRUE  BY StoreAssumption, Zenon
  <2>2. <<e, s>> \in Slot  BY Zenon DEF Slot
  <2> QED  BY <2>2, Zenon
<1>2. IdleWork \in Work /\ IdleWork.pc = "idle"  BY <1>1, Zenon DEF IdleWork, Work, DelivererState
<1>3. dwork[w] \in Work  BY Zenon DEF OutboxTypeOK
<1>4. dwork[w].fresh \subseteq Slot /\ dwork[w].held \subseteq Slot /\ dwork[w].stuck \subseteq Slot
  BY <1>3, Zenon DEF Work
<1> QED  BY <1>2, <1>4, Zenon DEF NextCandidate, Work, DelivererState

\* Going to another state of the same pass.
LEMMA SameWork ==
  ASSUME NEW n \in Work, NEW pc \in DelivererState, NEW m, m = [n EXCEPT !.pc = pc]
  PROVE  m \in Work /\ m.pc = pc /\ m.slot = n.slot /\ m.fence = n.fence
  BY Zenon DEF Work

\* What a worker does, and what is done to it, is one of these.
LEMMA WorkerStepIs ==
  ASSUME OutboxTypeOK, NEW w \in Deliverer,
         DelivererStep(w) \/ CallFails(w) \/ CloseDeliverer(w) \/ CrashDeliverer(w)
  PROVE  WorkerMoves(w) /\ dlife' \in [Deliverer -> DelivererLife] /\ mishaps' \in 0 .. MaxMishaps
<1>0. /\ dwork \in [Deliverer -> Work] /\ dlife \in [Deliverer -> DelivererLife]
      /\ mishaps \in 0 .. MaxMishaps /\ dwork[w] \in Work
  BY Zenon DEF OutboxTypeOK
<1>1. /\ IdleWork \in Work /\ IdleWork.pc = "idle"
      /\ NextCandidate(w) \in Work /\ NextCandidate(w).pc = "scan"
  BY FreshWork, Zenon
<1>m. Mishap => mishaps' = mishaps + 1 /\ mishaps' \in 0 .. MaxMishaps
  BY <1>0, DelivererAssumption DEF Mishap
\* A worker that holds no claim, before and after.
<1>w. ASSUME NEW n \in Work, n.pc \notin FlightState, dwork[w].pc \notin FlightState,
             dwork' = [dwork EXCEPT ![w] = n],
             n.pc \in AdvanceState => n.slot = dwork[w].slot /\ (dwork[w].pc \in AdvanceState \/ AllSent(Replied(w))),
             event' = event \/ Advances(w), UNCHANGED <<reply, dlife, accepted, mishaps>>
      PROVE  WorkerMoves(w) /\ dlife' \in [Deliverer -> DelivererLife] /\ mishaps' \in 0 .. MaxMishaps
  <2>1. Becomes(w, n) /\ Walks(w, n)  BY <1>w, Zenon DEF Becomes, Walks
  <2> QED  BY <1>0, <1>w, <2>1, Zenon DEF WorkerMoves
<1>2. CASE ListCandidates(w)
  <2> DEFINE n == [IdleWork EXCEPT
       !.pc = "scan",
       !.fresh = {x \in Slot : reply[x].status \in {"pending", "retryable"}},
       !.held = {x \in Slot : reply[x].status = "sending" /\ reply[x].live},
       !.stuck = {x \in Slot : reply[x].status = "sending" /\ ~reply[x].live}]
  <2>1. n \in Work /\ n.pc = "scan"  BY <1>1, Zenon DEF Work, DelivererState
  <2>2. /\ dwork' = [dwork EXCEPT ![w] = n] /\ dwork[w].pc = "idle"
        /\ UNCHANGED <<event, reply, dlife, accepted, mishaps>>
    BY <1>2, Zenon DEF ListCandidates, At, storeVars
  <2> HIDE DEF n
  <2> QED  BY <1>w, <2>1, <2>2, Zenon DEF FlightState, AdvanceState
<1>3. ASSUME NEW x \in Slot, ClaimCandidate(w, x)
      PROVE  WorkerMoves(w) /\ dlife' \in [Deliverer -> DelivererLife] /\ mishaps' \in 0 .. MaxMishaps
  <2> DEFINE ask == IF x \in dwork[w].fresh THEN "deliver" ELSE "reconcile"
             claimed == AfterClaimReply(reply[x], DelivererName[w])
             n == [pc |-> ask, fresh |-> dwork[w].fresh \ {x}, held |-> dwork[w].held \ {x},
                   stuck |-> dwork[w].stuck \ {x}, slot |-> x, fence |-> claimed.fence,
                   attempts |-> claimed.attempts, target |-> "sent", asked |-> ask,
                   took |-> reply[x].status = "sending"]
  <2>1. reply[x] \in ReplyRow(DelivererNames)  BY Zenon DEF OutboxTypeOK
  <2>2. /\ claimed.fence = reply[x].fence + 1 /\ claimed.attempts = reply[x].attempts + 1
        /\ claimed.fence \in Nat /\ claimed.attempts \in Nat
    <3>1. claimed \in ReplyRow(DelivererNames) /\ claimed.fence = reply[x].fence + 1
          /\ claimed.attempts = reply[x].attempts + 1
      BY <2>1, ClaimRow
    <3> QED  BY <3>1, Zenon DEF ReplyRow
  <2>3. ask \in {"deliver", "reconcile"}  BY Zenon
  <2>4. /\ dlife[w] = "running" /\ dwork[w].pc = "scan" /\ ClaimReplyOK(reply[x])
        /\ reply' = [reply EXCEPT ![x] = claimed] /\ dwork' = [dwork EXCEPT ![w] = n]
        /\ Mishap \/ mishaps' = mishaps
        /\ UNCHANGED <<event, dlife, accepted>>
    BY <1>0, <1>3, Zenon DEF ClaimCandidate, At
  <2>5. /\ dwork[w].fresh \ {x} \in SUBSET Slot /\ dwork[w].held \ {x} \in SUBSET Slot
        /\ dwork[w].stuck \ {x} \in SUBSET Slot
    BY <1>0, Zenon DEF Work
  <2>6. n \in Work /\ n.slot = x /\ n.fence = reply[x].fence + 1 /\ n.pc = ask
    <3> HIDE DEF ask, claimed
    <3> QED  BY <2>2, <2>3, <2>5, Zenon DEF Work, DelivererState
  <2>7. Becomes(w, n) /\ Claims(w, x, n)
    <3> HIDE DEF n, ask
    <3> QED  BY <1>m, <2>3, <2>4, <2>6, Zenon DEF Becomes, Claims
  <2> QED
    <3> HIDE DEF n
    <3> QED  BY <1>0, <1>m, <2>4, <2>7, Zenon DEF WorkerMoves
<1>4. ASSUME NEW x \in Slot, SkipCandidate(w, x)
      PROVE  WorkerMoves(w) /\ dlife' \in [Deliverer -> DelivererLife] /\ mishaps' \in 0 .. MaxMishaps
  <2> DEFINE n == [dwork[w] EXCEPT !.fresh = @ \ {x}, !.held = @ \ {x}, !.stuck = @ \ {x}]
  <2>1. n \in Work /\ n.pc = dwork[w].pc  BY <1>0, Zenon DEF Work
  <2>2. /\ dwork' = [dwork EXCEPT ![w] = n] /\ dwork[w].pc = "scan"
        /\ UNCHANGED <<event, reply, dlife, accepted, mishaps>>
    BY <1>0, <1>4, Zenon DEF SkipCandidate, At, storeVars
  <2> HIDE DEF n
  <2> QED  BY <1>w, <2>1, <2>2, Zenon DEF FlightState, AdvanceState
<1>5. CASE ScanEnds(w)
  <2>1. /\ dwork' = [dwork EXCEPT ![w] = IdleWork] /\ dwork[w].pc = "scan"
        /\ UNCHANGED <<event, reply, dlife, accepted, mishaps>>
    BY <1>5, Zenon DEF ScanEnds, At, storeVars
  <2> QED  BY <1>1, <1>w, <2>1, Zenon DEF FlightState, AdvanceState

<1>6. ASSUME NEW answer \in DeliverAnswer, Deliver(w, answer)
      PROVE  WorkerMoves(w) /\ dlife' \in [Deliverer -> DelivererLife] /\ mishaps' \in 0 .. MaxMishaps
  <2> DEFINE t == IF answer = "ok" THEN "sent" ELSE Rejection(w, answer # "permanent")
             n == [dwork[w] EXCEPT !.pc = "commit", !.target = t]
  <2>1. t \in Target /\ (t = "sent" <=> answer = "ok")  BY Zenon DEF Rejection, Target
  <2>2. /\ dwork[w].pc = "deliver" /\ dwork' = [dwork EXCEPT ![w] = n]
        /\ accepted' = IF answer \in {"ok", "lost"}
                       THEN [accepted EXCEPT ![dwork[w].slot] = @ + 1] ELSE accepted
        /\ answer = "lost" => mishaps < MaxMishaps
        /\ mishaps' = IF answer = "lost" THEN mishaps + 1 ELSE mishaps
        /\ UNCHANGED <<storeVars, dlife>>
    BY <1>0, <1>6, Zenon DEF Deliver
  <2> HIDE DEF t
  <2>3. /\ n \in Work /\ n.pc = "commit" /\ n.slot = dwork[w].slot /\ n.fence = dwork[w].fence
        /\ n.target = t /\ n.asked = dwork[w].asked
    BY <1>0, <2>1, Zenon DEF Work, DelivererState, Target
  <2> HIDE DEF n
  <2>4. Becomes(w, n) /\ Delivers(w, answer, n)  BY <2>1, <2>2, <2>3, Zenon DEF Becomes, Delivers
  <2>5. mishaps' \in 0 .. MaxMishaps  BY <1>0, <2>2, DelivererAssumption
  <2> QED  BY <1>0, <2>2, <2>4, <2>5, Zenon DEF WorkerMoves
<1>7. ASSUME NEW answer \in ReconcileAnswer, Reconcile(w, answer)
      PROVE  WorkerMoves(w) /\ dlife' \in [Deliverer -> DelivererLife] /\ mishaps' \in 0 .. MaxMishaps
  <2>1. /\ dlife[w] = "running" /\ dwork[w].pc = "reconcile"
        /\ answer = "accepted" => accepted[dwork[w].slot] > 0
        /\ answer = "unknown" => mishaps < MaxMishaps
        /\ mishaps' = IF answer = "unknown" THEN mishaps + 1 ELSE mishaps
        /\ UNCHANGED <<event, reply, dlife, accepted>>
    BY <1>7, Zenon DEF Reconcile, At, storeVars
  <2>2. mishaps' \in 0 .. MaxMishaps  BY <1>0, <2>1, DelivererAssumption
  <2>3. CASE answer = "unknown"
    <3>1. dwork' = [dwork EXCEPT ![w] = NextCandidate(w)]  BY <1>7, <2>3, Zenon DEF Reconcile
    <3>2. Becomes(w, NextCandidate(w)) /\ Walks(w, NextCandidate(w))
      BY <1>1, <2>1, <2>3, <3>1, Zenon DEF Becomes, Walks, FlightState, AdvanceState
    <3> QED  BY <1>0, <2>1, <2>2, <3>2, Zenon DEF WorkerMoves
  <2>4. CASE answer # "unknown"
    <3> DEFINE t == Reconciled(answer)
               n == [dwork[w] EXCEPT !.pc = "commit", !.target = t]
    <3>1. dwork' = [dwork EXCEPT ![w] = n]  BY <1>0, <1>7, <2>4, Zenon DEF Reconcile
    <3>2. t \in Target /\ t # "dead_letter" /\ (t = "sent" => answer = "accepted")
      BY Zenon DEF Reconciled, Target
    <3> HIDE DEF t
    <3>3. n \in Work /\ n.pc = "commit" /\ n.slot = dwork[w].slot /\ n.fence = dwork[w].fence /\ n.target = t
      BY <1>0, <3>2, Zenon DEF Work, DelivererState, Target
    <3> HIDE DEF n
    <3>4. Becomes(w, n) /\ Reconciles(w, n)
      BY <2>1, <2>4, <3>1, <3>2, <3>3, Zenon DEF Becomes, Reconciles, storeVars
    <3> QED  BY <1>0, <2>1, <2>2, <3>4, Zenon DEF WorkerMoves
  <2> QED  BY <2>3, <2>4, Zenon
<1>8. CASE CommitDelivery(w)
  <2> DEFINE pc == IF dwork[w].asked = "reconcile" THEN "list" ELSE "audit"
             n == [dwork[w] EXCEPT !.pc = pc]
  <2>1. /\ dlife[w] = "running" /\ dwork[w].pc = "commit" /\ CommitOK(w)
        /\ reply' = [reply EXCEPT ![dwork[w].slot] =
                       AfterReplyTransition(reply[dwork[w].slot], dwork[w].target, DelivererName[w])]
        /\ dwork' = [dwork EXCEPT ![w] = n]
        /\ UNCHANGED <<event, dlife, accepted, mishaps>>
    BY <1>0, <1>8, Zenon DEF CommitDelivery, At, Goto, OutboxTypeOK
  <2>2. pc \in {"audit", "list"} /\ pc \in DelivererState  BY Zenon DEF DelivererState
  <2>3. n \in Work /\ n.pc = pc
    <3> HIDE DEF pc
    <3> QED  BY <1>0, <2>2, SameWork
  <2> HIDE DEF n, pc
  <2>4. Becomes(w, n) /\ Commits(w, n)  BY <2>1, <2>2, <2>3, Zenon DEF Becomes, Commits
  <2> QED  BY <1>0, <2>1, <2>4, Zenon DEF WorkerMoves
<1>9. CASE DeliveryConflict(w)
  <2>1. /\ dlife[w] = "running" /\ dwork[w].pc = "commit" /\ ~CommitOK(w)
        /\ dwork' = [dwork EXCEPT ![w] = NextCandidate(w)]
        /\ UNCHANGED <<event, reply, dlife, accepted, mishaps>>
    BY <1>9, Zenon DEF DeliveryConflict, At, storeVars
  <2>2. Becomes(w, NextCandidate(w)) /\ Walks(w, NextCandidate(w))
    BY <1>1, <2>1, Zenon DEF Becomes, Walks, FlightState, AdvanceState
  <2> QED  BY <1>0, <2>1, <2>2, Zenon DEF WorkerMoves
<1>10. CASE AuditDelivery(w) \/ AdvanceList(w) \/ AdvanceRead(w)
  <2>1. PICK pc \in {"list", "read", "mark_pending", "mark_replied"} :
          /\ \/ dwork' = [dwork EXCEPT ![w] = NextCandidate(w)]
             \/ /\ dwork' = [dwork EXCEPT ![w] = [dwork[w] EXCEPT !.pc = pc]]
                /\ pc \in AdvanceState => dwork[w].pc \in AdvanceState \/ AllSent(Replied(w))
          /\ dwork[w].pc \in {"audit", "list", "read"}
          /\ UNCHANGED <<event, reply, dlife, accepted, mishaps>>
    <3>1. CASE AuditDelivery(w)  BY <1>0, <1>10, <3>1, Zenon DEF AuditDelivery, At, storeVars, AdvanceState
    <3>2. CASE AdvanceList(w)  BY <1>0, <1>10, <3>2, Zenon DEF AdvanceList, At, storeVars, AdvanceState
    <3>3. CASE AdvanceRead(w)  BY <1>0, <1>10, <3>3, Zenon DEF AdvanceRead, At, storeVars, AdvanceState
    <3> QED  BY <1>10, <3>1, <3>2, <3>3, Zenon
  <2>2. pc \in DelivererState  BY Zenon DEF DelivererState
  <2>3. PICK n : n = [dwork[w] EXCEPT !.pc = pc]  BY Zenon
  <2>4. n \in Work /\ n.pc = pc /\ n.slot = dwork[w].slot  BY <1>0, <2>2, <2>3, SameWork
  <2> QED  BY <1>1, <1>w, <2>1, <2>3, <2>4, Zenon DEF FlightState, AdvanceState
<1>11. CASE AdvancePending(w) \/ AdvanceReplied(w)
  <2>1. PICK from \in {"completed", "reply_pending"}, to \in {"reply_pending", "replied"},
             pc \in {"mark_replied", "scan"} :
          Advance(w, from, to, pc) /\ dwork[w].pc \in {"mark_pending", "mark_replied"}
    BY <1>11, Zenon DEF AdvancePending, AdvanceReplied, At
  <2>2. PICK ok : ok = TransitionMessageOK(event[Replied(w)], from, to, DelivererName[w], 0)
    BY Zenon
  <2>3. /\ event' = IF ok THEN [event EXCEPT ![Replied(w)] =
                                  AfterMessageTransition(event[Replied(w)], to, DelivererName[w], {})]
                    ELSE event
        /\ dwork' = [dwork EXCEPT ![w] = IF ok /\ pc # "scan" THEN [dwork[w] EXCEPT !.pc = pc] ELSE NextCandidate(w)]
        /\ UNCHANGED <<reply, dlife, accepted, mishaps>>
    BY <1>0, <2>1, <2>2, Zenon DEF Advance
  <2>4. event' = event \/ Advances(w)
    <3>1. ok => event[Replied(w)].status \in {"completed", "reply_pending"}
      BY <2>1, <2>2, Zenon DEF TransitionMessageOK
    <3> QED  BY <2>1, <2>3, <3>1, Zenon DEF Advances, AdvanceState
  <2>5. pc \in DelivererState  BY Zenon DEF DelivererState
  <2>6. PICK n : n = [dwork[w] EXCEPT !.pc = pc]  BY Zenon
  <2>7. n \in Work /\ n.pc = pc /\ n.slot = dwork[w].slot  BY <1>0, <2>5, <2>6, SameWork
  <2> QED  BY <1>1, <1>w, <2>1, <2>3, <2>4, <2>6, <2>7, Zenon DEF FlightState, AdvanceState
<1>12. CASE DelivererExits(w) \/ CrashDeliverer(w)
  <2>1. PICK s \in DelivererLife : dlife' = [dlife EXCEPT ![w] = s]
    BY <1>12, Zenon DEF DelivererExits, CrashDeliverer, DelivererLife
  <2>2. /\ dwork' = [dwork EXCEPT ![w] = IdleWork]
        /\ (dlife[w] = "closing" /\ mishaps' = mishaps) \/ Mishap
        /\ UNCHANGED <<event, reply, accepted>>
    BY <1>12, Zenon DEF DelivererExits, CrashDeliverer, storeVars
  <2>3. /\ dlife' \in [Deliverer -> DelivererLife] /\ \A v \in Deliverer \ {w} : dlife'[v] = dlife[v]
    BY <1>0, <2>1, Zenon
  <2>4. Becomes(w, IdleWork) /\ Walks(w, IdleWork)
    BY <1>1, <1>m, <2>2, <2>3, Zenon DEF Becomes, Walks, FlightState, AdvanceState
  <2> QED  BY <1>0, <1>m, <2>2, <2>3, <2>4, Zenon DEF WorkerMoves
<1>13. CASE CallFails(w)
  <2>1. /\ Mishap /\ UNCHANGED <<event, reply, accepted>>
        /\ dlife' = dlife \/ dlife' = [dlife EXCEPT ![w] = "stopped"]
        /\ \/ dwork' = [dwork EXCEPT ![w] = IdleWork]
           \/ dwork' = [dwork EXCEPT ![w] = NextCandidate(w)]
    BY <1>13, Zenon DEF CallFails, storeVars
  <2>2. dlife' \in [Deliverer -> DelivererLife] /\ \A v \in Deliverer \ {w} : dlife'[v] = dlife[v]
    BY <1>0, <2>1, Zenon DEF DelivererLife
  <2>3. PICK n \in {IdleWork, NextCandidate(w)} : dwork' = [dwork EXCEPT ![w] = n]  BY <2>1, Zenon
  <2>4. n \in Work /\ n.pc \in {"idle", "scan"}  BY <1>1, <2>3, Zenon
  <2>5. Becomes(w, n) /\ Walks(w, n)
    BY <1>m, <2>1, <2>2, <2>3, <2>4, Zenon DEF Becomes, Walks, FlightState, AdvanceState
  <2> QED  BY <1>m, <2>1, <2>2, <2>5, Zenon DEF WorkerMoves
<1>14. CASE CloseDeliverer(w) \/ RestartDeliverer(w)
  <2>1. /\ \/ dlife[w] = "down" /\ mishaps' = mishaps
           \/ Mishap
        /\ \E s \in DelivererLife : dlife' = [dlife EXCEPT ![w] = s]
        /\ UNCHANGED <<storeVars, dwork, accepted>>
    BY <1>14, Zenon DEF CloseDeliverer, RestartDeliverer, DelivererLife
  <2>2. mishaps' \in 0 .. MaxMishaps /\ (mishaps' = mishaps \/ mishaps' = mishaps + 1)  BY <1>0, <1>m, <2>1, Zenon
  <2>3. dlife' \in [Deliverer -> DelivererLife]  BY <1>0, <2>1, Zenon
  <2>4. Switches(w)  BY <1>m, <2>1, Zenon DEF Switches
  <2> QED  BY <2>2, <2>3, <2>4, Zenon DEF WorkerMoves
<1> QED  BY <1>2, <1>3, <1>4, <1>5, <1>6, <1>7, <1>8, <1>9, <1>10, <1>11, <1>12, <1>13, <1>14, Zenon
         DEF DelivererStep

\* A step of one worker leaves the others alone.
LEMMA OnlyOne ==
  ASSUME OutboxTypeOK, NEW w \in Deliverer, NEW n, Becomes(w, n)
  PROVE  /\ dwork' \in [Deliverer -> Work] /\ dwork'[w] = n
         /\ \A v \in Deliverer \ {w} : dwork'[v] = dwork[v]
  BY Zenon DEF OutboxTypeOK, Becomes

\* A claim changes one row.
LEMMA ClaimStep ==
  ASSUME OutboxTypeOK, NEW w \in Deliverer, NEW x \in Slot, NEW n, Claims(w, x, n)
  PROVE  /\ reply' \in [Slot -> ReplyRow(DelivererNames)]
         /\ \A y \in Slot \ {x} : reply'[y] = reply[y]
         /\ reply'[x].status = "sending" /\ reply'[x].live /\ reply'[x].owner = DelivererName[w]
         /\ reply'[x].fence = reply[x].fence + 1 /\ reply'[x].content = reply[x].content
<1>1. reply[x] \in ReplyRow(DelivererNames)  BY Zenon DEF OutboxTypeOK
<1>2. PICK after : after = AfterClaimReply(reply[x], DelivererName[w])  BY Zenon
<1>3. /\ after \in ReplyRow(DelivererNames)
      /\ after.status = "sending" /\ after.live /\ after.owner = DelivererName[w]
      /\ after.fence = reply[x].fence + 1 /\ after.content = reply[x].content
  BY <1>1, <1>2, ClaimRow
<1>4. reply' = [reply EXCEPT ![x] = after]  BY <1>2, Zenon DEF Claims
<1> QED  BY <1>3, <1>4, Zenon DEF OutboxTypeOK

\* So does a commit.
LEMMA CommitStep ==
  ASSUME OutboxTypeOK, NEW w \in Deliverer, NEW n, Commits(w, n), NEW x, x = dwork[w].slot
  PROVE  /\ x \in Slot /\ dwork[w].target \in Target
         /\ reply' \in [Slot -> ReplyRow(DelivererNames)]
         /\ \A y \in Slot \ {x} : reply'[y] = reply[y]
         /\ reply'[x].status = dwork[w].target /\ ~reply'[x].live
         /\ reply'[x].fence = reply[x].fence + 1 /\ reply'[x].content = reply[x].content
<1>1. dwork[w].slot \in Slot /\ dwork[w].target \in Target  BY Zenon DEF OutboxTypeOK, Work, Target
<1>2. x \in Slot /\ reply[x] \in ReplyRow(DelivererNames)  BY <1>1, Zenon DEF OutboxTypeOK
<1>3. PICK to, after : to = dwork[w].target /\ after = AfterReplyTransition(reply[x], to, DelivererName[w])
  BY Zenon
<1>4. /\ after \in ReplyRow(DelivererNames) /\ after.status = to /\ ~after.live
      /\ after.fence = reply[x].fence + 1 /\ after.content = reply[x].content
  <2>1. to \in Target  BY <1>1, <1>3, Zenon
  <2> QED  BY <1>2, <1>3, <2>1, CommitRow
<1>5. reply' = [reply EXCEPT ![x] = after]  BY <1>3, Zenon DEF Commits
<1> QED  BY <1>1, <1>2, <1>3, <1>4, <1>5, Zenon DEF OutboxTypeOK

\* A lease that runs out: the row keeps all but its lease, the workers all but their
\* listed copies of it.
LEMMA LeaseEnds ==
  ASSUME OutboxTypeOK, NEW x \in Slot, ExpireReply(x)
  PROVE  /\ OutboxTypeOK'
         /\ reply[x].status = "sending" /\ reply[x].live
         /\ reply' = [reply EXCEPT ![x] = [reply[x] EXCEPT !.live = FALSE]]
         /\ ~reply'[x].live
         /\ \A y \in Slot : /\ reply'[y].status = reply[y].status /\ reply'[y].fence = reply[y].fence
                            /\ reply'[y].owner = reply[y].owner /\ reply'[y].content = reply[y].content
         /\ \A y \in Slot \ {x} : reply'[y] = reply[y]
         /\ \A w \in Deliverer :
              /\ dwork'[w].pc = dwork[w].pc /\ dwork'[w].slot = dwork[w].slot
              /\ dwork'[w].fence = dwork[w].fence /\ dwork'[w].target = dwork[w].target
         /\ \/ Abandoned(x) /\ mishaps' = mishaps
            \/ mishaps' = mishaps + 1
         /\ UNCHANGED <<event, dlife, accepted>>
<1>1. /\ reply[x].status = "sending" /\ reply[x].live
      /\ reply' = [reply EXCEPT ![x] = [reply[x] EXCEPT !.live = FALSE]]
      /\ (Abandoned(x) /\ mishaps' = mishaps) \/ Mishap
      /\ UNCHANGED <<event, dlife, accepted>>
  BY Zenon DEF ExpireReply, OutboxTypeOK
<1>2. mishaps' \in 0 .. MaxMishaps /\ (Mishap => mishaps' = mishaps + 1)
  BY <1>1, DelivererAssumption DEF Mishap, OutboxTypeOK
<1>3. reply[x] \in ReplyRow(DelivererNames)  BY Zenon DEF OutboxTypeOK
<1>4. PICK row : row = [reply[x] EXCEPT !.live = FALSE]  BY Zenon
<1>5. /\ row \in ReplyRow(DelivererNames) /\ ~row.live
      /\ row.status = reply[x].status /\ row.fence = reply[x].fence
      /\ row.owner = reply[x].owner /\ row.content = reply[x].content
  BY <1>3, <1>4, Zenon DEF ReplyRow
<1>6. /\ reply' \in [Slot -> ReplyRow(DelivererNames)] /\ reply'[x] = row
      /\ \A y \in Slot \ {x} : reply'[y] = reply[y]
  BY <1>1, <1>4, <1>5, Zenon DEF OutboxTypeOK
<1>7. ASSUME NEW w \in Deliverer
      PROVE  /\ dwork'[w] \in Work
             /\ dwork'[w].pc = dwork[w].pc /\ dwork'[w].slot = dwork[w].slot
             /\ dwork'[w].fence = dwork[w].fence /\ dwork'[w].target = dwork[w].target
  <2>1. dwork[w] \in Work  BY Zenon DEF OutboxTypeOK
  <2> DEFINE h == dwork[w].held \ {x}
             t == IF x \in dwork[w].held THEN dwork[w].stuck \cup {x} ELSE dwork[w].stuck
  <2>2. h \in SUBSET Slot /\ t \in SUBSET Slot  BY <2>1, Zenon DEF Work
  <2>3. dwork'[w] = [dwork[w] EXCEPT !.held = h, !.stuck = t]  BY <2>1, Zenon DEF ExpireReply, Work
  <2> HIDE DEF h, t
  <2> QED  BY <2>1, <2>2, <2>3, Zenon DEF Work
<1>8. dwork' \in [Deliverer -> Work]
  <2>1. DOMAIN dwork' = Deliverer /\ dwork' = [w \in Deliverer |-> dwork'[w]]  BY Zenon DEF ExpireReply
  <2> QED  BY <1>7, <2>1, Zenon
<1> QED  BY <1>1, <1>2, <1>5, <1>6, <1>7, <1>8, Zenon DEF OutboxTypeOK

\* Every step keeps the types.
LEMMA TypeKeeps ==
  ASSUME OutboxTypeOK, OutboxNext
  PROVE  OutboxTypeOK'
<1>1. ASSUME NEW w \in Deliverer,
             DelivererStep(w) \/ CallFails(w) \/ CloseDeliverer(w) \/ CrashDeliverer(w)
      PROVE  OutboxTypeOK'
  <2>1. WorkerMoves(w) /\ dlife' \in [Deliverer -> DelivererLife] /\ mishaps' \in 0 .. MaxMishaps
    BY <1>1, WorkerStepIs, Zenon
  <2>2. CASE Switches(w)  BY <2>1, <2>2, Zenon DEF Switches, OutboxTypeOK, storeVars
  <2>3. ASSUME NEW n, Becomes(w, n), Walks(w, n) \/ Reconciles(w, n) PROVE OutboxTypeOK'
    BY <2>1, <2>3, OnlyOne, Zenon DEF Walks, Reconciles, OutboxTypeOK, storeVars
  <2>4. ASSUME NEW n, Becomes(w, n), Commits(w, n) PROVE OutboxTypeOK'
    BY <2>1, <2>4, OnlyOne, CommitStep, Zenon DEF Commits, OutboxTypeOK
  <2>5. ASSUME NEW n, NEW x \in Slot, Becomes(w, n), Claims(w, x, n) PROVE OutboxTypeOK'
    BY <2>1, <2>5, OnlyOne, ClaimStep, Zenon DEF Claims, OutboxTypeOK
  <2>6. ASSUME NEW n, NEW answer, Becomes(w, n), Delivers(w, answer, n) PROVE OutboxTypeOK'
    <3>1. dwork[w].slot \in Slot  BY Zenon DEF OutboxTypeOK, Work
    <3>2. accepted' \in [Slot -> Nat]  BY <2>6, <3>1 DEF Delivers, OutboxTypeOK
    <3> QED  BY <2>1, <2>6, <3>2, OnlyOne, Zenon DEF Delivers, OutboxTypeOK, storeVars
  <2> QED  BY <2>1, <2>2, <2>3, <2>4, <2>5, <2>6, Zenon DEF WorkerMoves
<1> QED  BY <1>1, LeaseEnds, Zenon DEF OutboxNext

-----------------------------------------------------------------------------
(* Fencing *)

FenceInv == OutboxTypeOK /\ ReplyFencing

\* Nothing but the claim or the commit of a worker raises a token.
LEMMA FencingStays ==
  ASSUME FenceInv, OutboxTypeOK',
         \A y \in Slot : /\ reply'[y].status = reply[y].status /\ reply'[y].fence = reply[y].fence
                         /\ reply'[y].owner = reply[y].owner,
         \A v \in Deliverer : \A y \in Slot : InFlight(v, y)' => InFlight(v, y) /\ dwork'[v].fence = dwork[v].fence
  PROVE  FenceInv'
<1>1. ReplyFencing  BY Zenon DEF FenceInv
<1>2. ReplyFencing'
  <2> SUFFICES ASSUME NEW v \in Deliverer, NEW y \in Slot, InFlight(v, y)'
               PROVE  /\ dwork'[v].fence \in 1 .. reply'[y].fence
                      /\ dwork'[v].fence = reply'[y].fence =>
                           reply'[y].status = "sending" /\ reply'[y].owner = DelivererName[v]
                      /\ \A u \in Deliverer \ {v} : InFlight(u, y)' => dwork'[u].fence # dwork'[v].fence
    BY Zenon DEF ReplyFencing
  <2> QED  BY <1>1 DEF ReplyFencing
<1> QED  BY <1>2, Zenon DEF FenceInv

\* A row whose token rises: every claim in flight is then old, but for the one that
\* takes the new token.
LEMMA FencingRises ==
  ASSUME FenceInv, OutboxTypeOK', NEW x \in Slot, NEW w \in Deliverer,
         \A y \in Slot \ {x} : reply'[y] = reply[y],
         reply'[x].fence = reply[x].fence + 1,
         \A v \in Deliverer \ {w} : dwork'[v] = dwork[v],
         \A y \in Slot : InFlight(w, y)' =>
           /\ y = x /\ dwork'[w].fence = reply[x].fence + 1
           /\ reply'[x].status = "sending" /\ reply'[x].owner = DelivererName[w]
  PROVE  FenceInv'
<1>1. ReplyFencing  BY Zenon DEF FenceInv
<1>2. reply[x].fence \in Nat  BY Zenon DEF FenceInv, OutboxTypeOK, ReplyRow
<1>3. \A v \in Deliverer \ {w} : \A y \in Slot : InFlight(v, y)' = InFlight(v, y)  BY Zenon DEF InFlight
<1>4. ASSUME NEW v \in Deliverer \ {w}, NEW y \in Slot, InFlight(v, y)'
      PROVE  /\ dwork'[v].fence \in 1 .. reply'[y].fence
             /\ dwork'[v].fence = reply'[y].fence =>
                  reply'[y].status = "sending" /\ reply'[y].owner = DelivererName[v]
             /\ y = x => dwork'[v].fence # reply[x].fence + 1
             /\ \A u \in Deliverer \ {v, w} : InFlight(u, y)' => dwork'[u].fence # dwork'[v].fence
  <2>1. /\ dwork'[v] = dwork[v] /\ InFlight(v, y) /\ dwork[v].fence \in 1 .. reply[y].fence
        /\ dwork[v].fence = reply[y].fence => reply[y].status = "sending" /\ reply[y].owner = DelivererName[v]
        /\ \A u \in Deliverer \ {v} : InFlight(u, y) => dwork[u].fence # dwork[v].fence
    BY <1>1, <1>3, <1>4, Zenon DEF ReplyFencing
  <2>2. CASE y = x  BY <1>2, <1>3, <2>1, <2>2
  <2>3. CASE y # x  BY <1>3, <2>1, <2>3, Zenon
  <2> QED  BY <2>2, <2>3, Zenon
<1>5. reply[x].fence + 1 \in 1 .. reply[x].fence + 1  BY <1>2
<1>6. ReplyFencing'
  <2> SUFFICES ASSUME NEW v \in Deliverer, NEW y \in Slot, InFlight(v, y)'
               PROVE  /\ dwork'[v].fence \in 1 .. reply'[y].fence
                      /\ dwork'[v].fence = reply'[y].fence =>
                           reply'[y].status = "sending" /\ reply'[y].owner = DelivererName[v]
                      /\ \A u \in Deliverer \ {v} : InFlight(u, y)' => dwork'[u].fence # dwork'[v].fence
    BY Zenon DEF ReplyFencing
  <2>1. CASE v = w  BY <1>4, <1>5, <2>1, Zenon
  <2>2. CASE v # w  BY <1>4, <2>2, Zenon
  <2> QED  BY <2>1, <2>2, Zenon
<1> QED  BY <1>6, Zenon DEF FenceInv

\* A worker about to commit has the token of a claim, so that a commit the store
\* accepts is that of the newest claim.
LEMMA CommitIsNewest ==
  ASSUME FenceInv, NEW w \in Deliverer, NEW n, Commits(w, n), NEW x, x = dwork[w].slot
  PROVE  /\ x \in Slot /\ InFlight(w, x) /\ dwork[w].fence = reply[x].fence
         /\ reply[x].status = "sending" /\ reply[x].live
<1>1. dwork[w] \in Work  BY Zenon DEF FenceInv, OutboxTypeOK
<1>2. x \in Slot /\ InFlight(w, x)  BY <1>1, Zenon DEF Commits, InFlight, Work
<1>3. dwork[w].fence \in 1 .. reply[x].fence  BY <1>2, Zenon DEF FenceInv, ReplyFencing
<1>4. dwork[w].fence # 0  BY <1>1, <1>3 DEF Work
<1> QED  BY <1>2, <1>4, Zenon DEF Commits, CommitOK, TransitionReplyOK

\* Every step keeps the tokens in order.
LEMMA ReplyFencingKeeps == FenceInv /\ [OutboxNext]_OutboxVars => FenceInv'
<1> SUFFICES ASSUME FenceInv, [OutboxNext]_OutboxVars PROVE FenceInv'  BY Zenon
<1>a. OutboxTypeOK  BY Zenon DEF FenceInv
<1>0. CASE UNCHANGED OutboxVars
  BY <1>0 DEF OutboxVars, storeVars, outboxVars, FenceInv, OutboxTypeOK, ReplyFencing, InFlight
<1>1. ASSUME NEW w \in Deliverer, OutboxTypeOK',
             DelivererStep(w) \/ CallFails(w) \/ CloseDeliverer(w) \/ CrashDeliverer(w)
      PROVE  FenceInv'
  <2>1. WorkerMoves(w)  BY <1>1, <1>a, WorkerStepIs, Zenon
  <2>2. CASE Switches(w)  BY <1>1, <2>2, FencingStays, Zenon DEF Switches, storeVars, InFlight
  <2>3. ASSUME NEW n, Becomes(w, n), Walks(w, n) \/ Reconciles(w, n) \/ \E answer : Delivers(w, answer, n)
        PROVE  FenceInv'
    <3>1. dwork'[w] = n /\ \A v \in Deliverer \ {w} : dwork'[v] = dwork[v]  BY <1>a, <2>3, OnlyOne, Zenon
    <3>2. /\ reply' = reply
          /\ \/ n.pc \notin FlightState
             \/ dwork[w].pc \in FlightState /\ n.slot = dwork[w].slot /\ n.fence = dwork[w].fence
      BY <2>3, Zenon DEF Walks, Reconciles, Delivers, FlightState, storeVars
    <3>3. \A v \in Deliverer : \A y \in Slot : InFlight(v, y)' => InFlight(v, y) /\ dwork'[v].fence = dwork[v].fence
      BY <3>1, <3>2, Zenon DEF InFlight, FlightState
    <3> QED  BY <1>1, <3>2, <3>3, FencingStays, Zenon
  <2>4. ASSUME NEW n, Becomes(w, n), Commits(w, n) PROVE FenceInv'
    <3>1. dwork'[w] = n /\ \A v \in Deliverer \ {w} : dwork'[v] = dwork[v]  BY <1>a, <2>4, OnlyOne, Zenon
    <3>2. PICK x : x = dwork[w].slot  BY Zenon
    <3>3. x \in Slot /\ reply'[x].fence = reply[x].fence + 1 /\ \A y \in Slot \ {x} : reply'[y] = reply[y]
      BY <1>a, <2>4, <3>2, CommitStep, Zenon
    <3>4. \A y \in Slot : ~InFlight(w, y)'  BY <2>4, <3>1, Zenon DEF InFlight, Commits
    <3> QED  BY <1>1, <3>1, <3>3, <3>4, FencingRises, Zenon
  <2>5. ASSUME NEW n, NEW x \in Slot, Becomes(w, n), Claims(w, x, n) PROVE FenceInv'
    <3>1. dwork'[w] = n /\ \A v \in Deliverer \ {w} : dwork'[v] = dwork[v]  BY <1>a, <2>5, OnlyOne, Zenon
    <3>2. /\ reply'[x].status = "sending" /\ reply'[x].owner = DelivererName[w]
          /\ reply'[x].fence = reply[x].fence + 1 /\ \A y \in Slot \ {x} : reply'[y] = reply[y]
      BY <1>a, <2>5, ClaimStep, Zenon
    <3>3. \A y \in Slot : InFlight(w, y)' => y = x /\ dwork'[w].fence = reply[x].fence + 1
      BY <2>5, <3>1, Zenon DEF InFlight, Claims
    <3> QED  BY <1>1, <3>1, <3>2, <3>3, FencingRises, Zenon
  <2> QED  BY <2>1, <2>2, <2>3, <2>4, <2>5, Zenon DEF WorkerMoves
<1>2. ASSUME NEW x \in Slot, OutboxTypeOK', ExpireReply(x) PROVE FenceInv'
  BY <1>a, <1>2, LeaseEnds, FencingStays, Zenon DEF InFlight
<1>3. CASE OutboxNext
  <2>1. OutboxTypeOK'  BY <1>3, <1>a, TypeKeeps, Zenon
  <2> QED  BY <1>1, <1>2, <1>3, <2>1, Zenon DEF OutboxNext
<1> QED  BY <1>0, <1>3, Zenon

\* The materialized replies.
LEMMA OutboxTypeStarts ==
  ASSUME OutboxInit, MaterializedInit \/ reply = [x \in Slot |-> NoReply]
  PROVE  OutboxTypeOK /\ \A w \in Deliverer : dwork[w].pc = "idle"
<1>1. PICK x \in Slot : x = CHOOSE y \in Slot : TRUE
  <2>1. PICK e \in Event, s \in Segment : TRUE  BY StoreAssumption, Zenon
  <2>2. <<e, s>> \in Slot  BY Zenon DEF Slot
  <2> QED  BY <2>2, Zenon
<1>2. IdleWork \in Work /\ IdleWork.pc = "idle"  BY <1>1, Zenon DEF IdleWork, Work, DelivererState
<1>3. NoReply \in ReplyRow(DelivererNames)  BY Zenon DEF NoReply, ReplyRow, ReplyStatus, Nobody
<1>4. ASSUME NEW c \in Content
      PROVE  [NoReply EXCEPT !.status = "pending", !.content = c] \in ReplyRow(DelivererNames)
  BY <1>3, Zenon DEF ReplyRow, ReplyStatus
<1>5. reply \in [Slot -> ReplyRow(DelivererNames)]
  <2>1. CASE MaterializedInit
    <3>1. PICK content \in [Event -> Content] :
            reply = [y \in Slot |-> IF y[2] \in SegmentsOf[content[y[1]]]
                                    THEN [NoReply EXCEPT !.status = "pending", !.content = content[y[1]]]
                                    ELSE NoReply]
      BY <2>1, Zenon DEF MaterializedInit
    <3>2. \A y \in Slot : content[y[1]] \in Content  BY Zenon DEF Slot
    <3> QED  BY <1>3, <1>4, <3>1, <3>2, Zenon
  <2> QED  BY <1>3, <2>1, Zenon
<1> QED  BY <1>2, <1>5, DelivererAssumption DEF OutboxInit, OutboxTypeOK, DelivererLife

\* Nobody is in flight at the start.
LEMMA ReplyFencingStarts == DeliveryInit => FenceInv
  BY OutboxTypeStarts, Zenon DEF DeliveryInit, FenceInv, ReplyFencing, InFlight

\* Whatever names the workers have and whatever goes wrong: only the latest claim of
\* a segment can commit.
THEOREM ReplyFencingHolds == OutboxSpec => []ReplyFencing
<1>1. FenceInv => ReplyFencing  BY Zenon DEF FenceInv
<1> QED  BY ReplyFencingStarts, ReplyFencingKeeps, <1>1, PTL DEF OutboxSpec

\* Who may touch a row: a claim, only when it is free to be claimed; a commit, only
\* that of the newest claim, which is then over; and time.
LEMMA RowChanges ==
  ASSUME FenceInv, OutboxNext, NEW x \in Slot, reply'[x] # reply[x]
  PROVE  \/ ClaimReplyOK(reply[x])
         \/ /\ reply[x].status = "sending" /\ reply[x].live
            /\ \/ reply'[x] = [reply[x] EXCEPT !.live = FALSE]
               \/ \E w \in Deliverer : /\ InFlight(w, x) /\ dwork[w].fence = reply[x].fence
                                       /\ ~InFlight(w, x)'
<1>a. OutboxTypeOK  BY Zenon DEF FenceInv
<1>1. ASSUME NEW w \in Deliverer,
             DelivererStep(w) \/ CallFails(w) \/ CloseDeliverer(w) \/ CrashDeliverer(w)
      PROVE  \/ ClaimReplyOK(reply[x])
             \/ /\ reply[x].status = "sending" /\ reply[x].live
                /\ InFlight(w, x) /\ dwork[w].fence = reply[x].fence /\ ~InFlight(w, x)'
  <2>1. WorkerMoves(w)  BY <1>1, <1>a, WorkerStepIs, Zenon
  <2>2. ~Switches(w) /\ \A n, answer : ~Walks(w, n) /\ ~Reconciles(w, n) /\ ~Delivers(w, answer, n)
    BY Zenon DEF Switches, Walks, Reconciles, Delivers, storeVars
  <2>3. ASSUME NEW n, NEW y \in Slot, Claims(w, y, n) PROVE ClaimReplyOK(reply[x])
    BY <1>a, <2>3, ClaimStep, Zenon DEF Claims
  <2>4. ASSUME NEW n, Becomes(w, n), Commits(w, n)
        PROVE  /\ reply[x].status = "sending" /\ reply[x].live
               /\ InFlight(w, x) /\ dwork[w].fence = reply[x].fence /\ ~InFlight(w, x)'
    <3>1. x = dwork[w].slot  BY <1>a, <2>4, CommitStep
    <3>2. /\ reply[x].status = "sending" /\ reply[x].live
          /\ InFlight(w, x) /\ dwork[w].fence = reply[x].fence
      BY <2>4, <3>1, CommitIsNewest, Zenon
    <3>3. ~InFlight(w, x)'  BY <1>a, <2>4, OnlyOne, Zenon DEF InFlight, Commits
    <3> QED  BY <3>2, <3>3, Zenon
  <2> QED  BY <2>1, <2>2, <2>3, <2>4, Zenon DEF WorkerMoves
<1>2. ASSUME NEW y \in Slot, ExpireReply(y)
      PROVE  reply[x].status = "sending" /\ reply[x].live /\ reply'[x] = [reply[x] EXCEPT !.live = FALSE]
  <2>1. y = x  BY <1>2, <1>a, LeaseEnds, Zenon
  <2> QED  BY <1>2, <1>a, <2>1, LeaseEnds, Zenon DEF OutboxTypeOK
<1> QED  BY <1>1, <1>2, Zenon DEF OutboxNext

\* While the newest claim of a segment has its lease, nobody else changes the
\* segment, and one that is sent or dead-lettered never changes again.
THEOREM LeasesAreRespected == OutboxSpec => LeaseIsRespected
<1> DEFINE Respects(x) ==
      /\ reply[x].status \in {"sent", "dead_letter"} => reply'[x] = reply[x]
      /\ \A w \in Deliverer :
           /\ InFlight(w, x) /\ dwork[w].fence = reply[x].fence /\ reply[x].live
           /\ reply'[x] # reply[x]
           => reply'[x] = [reply[x] EXCEPT !.live = FALSE] \/ ~InFlight(w, x)'
<1>1. FenceInv /\ [OutboxNext]_OutboxVars => [\A x \in Slot : Respects(x)]_OutboxVars
  <2> SUFFICES ASSUME FenceInv, OutboxNext, NEW x \in Slot, reply'[x] # reply[x] PROVE Respects(x)
    BY Zenon
  <2>1. reply[x].status \notin {"sent", "dead_letter"}  BY RowChanges, Zenon DEF ClaimReplyOK
  <2>2. ASSUME NEW w \in Deliverer, InFlight(w, x), dwork[w].fence = reply[x].fence, reply[x].live
        PROVE  reply'[x] = [reply[x] EXCEPT !.live = FALSE] \/ ~InFlight(w, x)'
    <3>1. /\ reply[x].status = "sending"
          /\ \A v \in Deliverer \ {w} : InFlight(v, x) => dwork[v].fence # dwork[w].fence
      BY <2>2, Zenon DEF FenceInv, ReplyFencing
    <3>2. ~ClaimReplyOK(reply[x])  BY <2>2, <3>1, Zenon DEF ClaimReplyOK
    <3> QED  BY <2>2, <3>1, <3>2, RowChanges, Zenon
  <2> QED  BY <2>1, <2>2, Zenon
<1> HIDE DEF Respects
<1>2. LeaseIsRespected <=> [][\A x \in Slot : Respects(x)]_OutboxVars  BY Zenon DEF LeaseIsRespected, Respects
<1> QED  BY ReplyFencingStarts, ReplyFencingKeeps, <1>1, <1>2, PTL DEF OutboxSpec

-----------------------------------------------------------------------------
(* Delivery *)

\* What no step of the workers undoes: a segment keeps its content and stays where
\* it is, acceptances stay counted, a sent segment stays sent.
LEMMA NothingUndone ==
  ASSUME OutboxTypeOK, OutboxNext, NEW x \in Slot
  PROVE  /\ reply'[x].content = reply[x].content
         /\ reply[x].status = "absent" <=> reply'[x].status = "absent"
         /\ reply[x].status = "sent" => reply'[x].status = "sent"
         /\ accepted[x] > 0 => accepted'[x] > 0
<1>1. ASSUME NEW w \in Deliverer,
             DelivererStep(w) \/ CallFails(w) \/ CloseDeliverer(w) \/ CrashDeliverer(w)
      PROVE  /\ reply'[x].content = reply[x].content
             /\ reply[x].status = "absent" <=> reply'[x].status = "absent"
             /\ reply[x].status = "sent" => reply'[x].status = "sent"
             /\ accepted[x] > 0 => accepted'[x] > 0
  <2>1. WorkerMoves(w)  BY <1>1, WorkerStepIs, Zenon
  <2>2. CASE Switches(w)  BY <2>2, Zenon DEF Switches, storeVars
  <2>3. ASSUME NEW n, Walks(w, n) \/ Reconciles(w, n) PROVE UNCHANGED <<reply, accepted>>
    BY <2>3, Zenon DEF Walks, Reconciles, storeVars
  <2>4. ASSUME NEW n, NEW y \in Slot, Claims(w, y, n)
        PROVE  /\ reply'[x].content = reply[x].content /\ accepted' = accepted
               /\ x = y => reply[x].status \notin {"absent", "sent"} /\ reply'[x].status = "sending"
               /\ x # y => reply'[x] = reply[x]
    <3>1. accepted' = accepted /\ reply[y].status \notin {"absent", "sent"}
      BY <2>4, Zenon DEF Claims, ClaimReplyOK
    <3>2. /\ \A z \in Slot \ {y} : reply'[z] = reply[z]
          /\ reply'[y].status = "sending" /\ reply'[y].content = reply[y].content
      BY <2>4, ClaimStep, Zenon
    <3> QED  BY <3>1, <3>2, Zenon
  <2>5. ASSUME NEW n, Commits(w, n)
        PROVE  /\ reply'[x].content = reply[x].content /\ accepted' = accepted
               /\ x = dwork[w].slot => reply[x].status = "sending" /\ reply'[x].status # "absent"
               /\ x # dwork[w].slot => reply'[x] = reply[x]
    BY <2>5, CommitStep, Zenon DEF Commits, CommitOK, TransitionReplyOK, Target
  <2>6. ASSUME NEW n, NEW answer, Delivers(w, answer, n)
        PROVE  reply' = reply /\ (accepted[x] > 0 => accepted'[x] > 0)
    <3>1. accepted[x] \in Nat /\ accepted \in [Slot -> Nat]  BY Zenon DEF OutboxTypeOK
    <3> QED  BY <2>6, <3>1 DEF Delivers, storeVars
  <2> QED  BY <2>1, <2>2, <2>3, <2>4, <2>5, <2>6, Zenon DEF WorkerMoves
<1>2. ASSUME NEW y \in Slot, ExpireReply(y)
      PROVE  /\ reply'[x].content = reply[x].content /\ reply'[x].status = reply[x].status
             /\ accepted' = accepted
  BY <1>2, LeaseEnds, Zenon
<1> QED  BY <1>1, <1>2, Zenon DEF OutboxNext

\* The worker has heard that the provider took the segment.
KnowsSent(w) ==
  dwork[w].pc = "commit" /\ dwork[w].target = "sent" => accepted[dwork[w].slot] > 0

\* SentWasAccepted alone is not inductive: it rests on what the worker that commits
\* knows.
SentInv == OutboxTypeOK /\ SentWasAccepted /\ \A w \in Deliverer : KnowsSent(w)

\* Every step keeps what is known to be true.
LEMMA SentKeeps == SentInv /\ [OutboxNext]_OutboxVars => SentInv'
<1> SUFFICES ASSUME SentInv, [OutboxNext]_OutboxVars PROVE SentInv'  BY Zenon
<1>a. OutboxTypeOK /\ SentWasAccepted /\ \A w \in Deliverer : KnowsSent(w)  BY Zenon DEF SentInv
<1>0. CASE UNCHANGED OutboxVars
  BY <1>0, Zenon DEF OutboxVars, storeVars, outboxVars, SentInv, OutboxTypeOK, SentWasAccepted, KnowsSent
<1>1. CASE OutboxNext
  <2>1. OutboxTypeOK'  BY <1>1, <1>a, TypeKeeps, Zenon
  <2>2. \A x \in Slot : accepted[x] > 0 => accepted'[x] > 0  BY <1>1, <1>a, NothingUndone, Zenon
  <2>3. \A v \in Deliverer : dwork[v].slot \in Slot  BY <1>a, Zenon DEF OutboxTypeOK, Work
  <2>4. ASSUME NEW w \in Deliverer,
               DelivererStep(w) \/ CallFails(w) \/ CloseDeliverer(w) \/ CrashDeliverer(w)
        PROVE  SentWasAccepted' /\ \A v \in Deliverer : KnowsSent(v)'
    <3>1. WorkerMoves(w)  BY <2>4, <1>a, WorkerStepIs, Zenon
    <3>2. ASSUME NEW v \in Deliverer, dwork'[v] = dwork[v] PROVE KnowsSent(v)'
      BY <1>a, <2>2, <2>3, <3>2, Zenon DEF KnowsSent
    <3>3. CASE Switches(w)
      BY <1>a, <3>2, <3>3, Zenon DEF Switches, storeVars, SentWasAccepted
    <3>4. ASSUME NEW n, Becomes(w, n)
          PROVE  dwork'[w] = n /\ \A v \in Deliverer \ {w} : KnowsSent(v)'
      BY <1>a, <3>2, <3>4, OnlyOne, Zenon
    <3>5. ASSUME NEW n, Becomes(w, n), Walks(w, n) \/ Reconciles(w, n)
          PROVE  SentWasAccepted' /\ KnowsSent(w)'
      <4>1. UNCHANGED <<reply, accepted>> /\ (n.pc = "commit" /\ n.target = "sent" => accepted[n.slot] > 0)
        BY <3>5, Zenon DEF Walks, Reconciles, storeVars, FlightState
      <4> QED  BY <1>a, <3>4, <3>5, <4>1, Zenon DEF SentWasAccepted, KnowsSent
    <3>6. ASSUME NEW n, Becomes(w, n), Commits(w, n) PROVE SentWasAccepted' /\ KnowsSent(w)'
      <4>1. PICK x : x = dwork[w].slot  BY Zenon
      <4>2. /\ x \in Slot /\ reply'[x].status = dwork[w].target
            /\ \A y \in Slot \ {x} : reply'[y] = reply[y]
        BY <1>a, <3>6, <4>1, CommitStep, Zenon
      <4>3. reply'[x].status = "sent" => accepted[x] > 0  BY <1>a, <3>6, <4>1, <4>2, Zenon DEF KnowsSent, Commits
      <4>4. accepted' = accepted /\ n.pc # "commit"  BY <3>6, Zenon DEF Commits
      <4> QED  BY <1>a, <3>4, <3>6, <4>2, <4>3, <4>4, Zenon DEF SentWasAccepted, KnowsSent
    <3>7. ASSUME NEW n, NEW x \in Slot, Becomes(w, n), Claims(w, x, n) PROVE SentWasAccepted' /\ KnowsSent(w)'
      <4>1. reply'[x].status # "sent" /\ \A y \in Slot \ {x} : reply'[y] = reply[y]
        BY <1>a, <3>7, ClaimStep, Zenon
      <4>2. accepted' = accepted /\ n.pc # "commit"  BY <3>7, Zenon DEF Claims
      <4> QED  BY <1>a, <3>4, <3>7, <4>1, <4>2, Zenon DEF SentWasAccepted, KnowsSent
    <3>8. ASSUME NEW n, NEW answer, Becomes(w, n), Delivers(w, answer, n) PROVE SentWasAccepted' /\ KnowsSent(w)'
      <4>1. SentWasAccepted'  BY <1>a, <2>2, <3>8, Zenon DEF SentWasAccepted, Delivers, storeVars
      <4>2. n.target = "sent" => accepted'[n.slot] > 0
        <5>1. dwork[w].slot \in Slot /\ accepted \in [Slot -> Nat]  BY <1>a, <2>3, Zenon DEF OutboxTypeOK
        <5> QED  BY <3>8, <5>1 DEF Delivers
      <4> QED  BY <3>4, <3>8, <4>1, <4>2, Zenon DEF KnowsSent
    <3> QED  BY <3>1, <3>3, <3>4, <3>5, <3>6, <3>7, <3>8, Zenon DEF WorkerMoves
  <2>5. ASSUME NEW x \in Slot, ExpireReply(x) PROVE SentWasAccepted' /\ \A v \in Deliverer : KnowsSent(v)'
    BY <1>a, <2>5, LeaseEnds, Zenon DEF SentWasAccepted, KnowsSent
  <2> QED  BY <1>1, <2>1, <2>4, <2>5, Zenon DEF OutboxNext, SentInv
<1> QED  BY <1>0, <1>1, Zenon

\* Nothing is sent at the start.
LEMMA SentStarts == DeliveryInit => SentInv
<1> SUFFICES ASSUME DeliveryInit PROVE SentInv  BY Zenon
<1>1. OutboxTypeOK /\ \A w \in Deliverer : dwork[w].pc = "idle"  BY OutboxTypeStarts, Zenon DEF DeliveryInit
<1>2. \A x \in Slot : reply[x].status # "sent"
  <2> SUFFICES ASSUME NEW x \in Slot PROVE reply[x].status # "sent"  BY Zenon
  <2>1. PICK c : reply[x] = NoReply \/ reply[x] = [NoReply EXCEPT !.status = "pending", !.content = c]
    BY Zenon DEF DeliveryInit, MaterializedInit
  <2>2. NoReply.status = "absent" /\ [NoReply EXCEPT !.status = "pending", !.content = c].status = "pending"
    BY Zenon DEF NoReply
  <2> QED  BY <2>1, <2>2, Zenon
<1> QED  BY <1>1, <1>2, Zenon DEF SentInv, SentWasAccepted, KnowsSent

\* However claims are lost and taken over: a segment is recorded as sent only when
\* the provider took it.
THEOREM SentIsAccepted == OutboxSpec => []SentWasAccepted
<1>1. SentInv => SentWasAccepted  BY Zenon DEF SentInv
<1> QED  BY SentStarts, SentKeeps, <1>1, PTL DEF OutboxSpec

\* The workers' transitions of an event keep its segments, and only move on one that
\* is completed.
LEMMA EventMoves ==
  ASSUME NEW names, event \in [Event -> EventRow(names)], NEW w \in Deliverer,
         Advances(w), NEW e \in Event, e = Replied(w)
  PROVE  /\ event' \in [Event -> EventRow(names)]
         /\ \A d \in Event \ {e} : event'[d] = event[d]
         /\ event'[e].segments = event[e].segments
         /\ event[e].status \in {"completed", "reply_pending"}
         /\ event'[e].status \in {"reply_pending", "replied"}
<1>1. PICK to \in {"reply_pending", "replied"} :
        event' = [event EXCEPT ![e] = AfterMessageTransition(event[e], to, DelivererName[w], {})]
  BY Zenon DEF Advances
<1>2. event[e] \in EventRow(names)  BY Zenon DEF EventRow
<1>3. PICK f, row, after :
        /\ row = event[e] /\ f = row.fence + 1
        /\ after = [row EXCEPT !.status = to, !.owner = Nobody, !.live = FALSE, !.fence = f]
  BY Zenon
<1>4. f \in Nat /\ to \in EventStatus /\ Nobody \in names \cup {Nobody} /\ row \in EventRow(names)
  BY <1>2, <1>3 DEF EventRow, EventStatus
<1>5. after \in EventRow(names) /\ after.status = to /\ after.segments = row.segments
  BY <1>3, <1>4, Zenon DEF EventRow
<1>6. AfterMessageTransition(row, to, DelivererName[w], {}) = after
  BY <1>3, <1>4, Zenon DEF AfterMessageTransition, EventRow
<1>7. event' = [event EXCEPT ![e] = after]  BY <1>1, <1>3, <1>6, Zenon
<1> QED  BY <1>3, <1>5, <1>7, Zenon DEF Advances

\* The segments an event names are there.
Stored(e) == \A s \in event[e].segments : s \in Segment /\ reply[<<e, s>>].status # "absent"

FinishedStatus == {"completed", "reply_pending", "replied"}

\* Every event is at a status the delivery workers lead to.
EventOnward(e) ==
  /\ event'[e].segments = event[e].segments
  /\ \/ event'[e] = event[e]
     \/ /\ event[e].status \in {"completed", "reply_pending"}
        /\ event'[e].status \in {"reply_pending", "replied"}

\* A worker that is moving an event on has seen all its segments sent, and they are.
SeenSent(w) == dwork[w].pc \in AdvanceState => AllSent(Replied(w))

RepliedIsSent(e) ==
  event[e].status \in {"reply_pending", "replied"} =>
    \A s \in event[e].segments : reply[<<e, s>>].status = "sent"

AdvanceInv ==
  /\ SentInv
  /\ \A w \in Deliverer : SeenSent(w)
  /\ \A e \in Event : RepliedIsSent(e)

\* What happens to events, and that the workers only move them on when every
\* segment is sent.
LEMMA AdvanceKeeps ==
  ASSUME NEW names, event \in [Event -> EventRow(names)], AdvanceInv, OutboxNext,
         \A e \in Event : event[e].status \in FinishedStatus => Stored(e)
  PROVE  /\ AdvanceInv'
         /\ event' \in [Event -> EventRow(names)]
         /\ \A e \in Event : EventOnward(e)
<1>a. OutboxTypeOK /\ (\A w \in Deliverer : SeenSent(w)) /\ \A e \in Event : RepliedIsSent(e)
  BY Zenon DEF AdvanceInv, SentInv
<1>b. SentInv'  BY SentKeeps, Zenon DEF AdvanceInv
<1>c. \A e \in Event, s \in Segment : <<e, s>> \in Slot  BY Zenon DEF Slot
<1>d. \A v \in Deliverer : dwork[v].slot \in Slot /\ Replied(v) \in Event
  BY <1>a, Zenon DEF OutboxTypeOK, Work, Slot, Replied
<1>1. \A e \in Event, s \in Segment :
        /\ reply[<<e, s>>].status = "absent" <=> reply'[<<e, s>>].status = "absent"
        /\ reply[<<e, s>>].status = "sent" => reply'[<<e, s>>].status = "sent"
  BY <1>a, <1>c, NothingUndone, Zenon
<1>2. \A e \in Event : AllSent(e) => AllSent(e)'  BY <1>1, Zenon DEF AllSent
<1>3. ASSUME NEW e \in Event, event'[e] = event[e] PROVE RepliedIsSent(e)' /\ EventOnward(e)
  <2>1. event[e].status \in {"reply_pending", "replied"} => \A s \in event[e].segments : s \in Segment
    BY Zenon DEF Stored, FinishedStatus
  <2> QED  BY <1>1, <1>3, <1>a, <2>1, Zenon DEF RepliedIsSent, EventOnward
<1>4. ASSUME event' = event PROVE event' \in [Event -> EventRow(names)] /\ \A e \in Event : RepliedIsSent(e)' /\ EventOnward(e)
  BY <1>3, <1>4, Zenon
<1>5. ASSUME NEW v \in Deliverer, dwork'[v].pc = dwork[v].pc, dwork'[v].slot = dwork[v].slot PROVE SeenSent(v)'
  <2>1. Replied(v)' = Replied(v)  BY <1>5, Zenon DEF Replied
  <2> QED  BY <1>2, <1>5, <1>a, <1>d, <2>1, Zenon DEF SeenSent, AllSent
<1>6. ASSUME NEW w \in Deliverer,
             DelivererStep(w) \/ CallFails(w) \/ CloseDeliverer(w) \/ CrashDeliverer(w)
      PROVE  /\ \A v \in Deliverer : SeenSent(v)'
             /\ event' \in [Event -> EventRow(names)]
             /\ \A e \in Event : RepliedIsSent(e)' /\ EventOnward(e)
  <2>1. WorkerMoves(w)  BY <1>6, <1>a, WorkerStepIs, Zenon
  <2>2. CASE Switches(w)  BY <1>4, <1>5, <2>2, Zenon DEF Switches, storeVars
  <2>3. ASSUME NEW n, Becomes(w, n)
        PROVE  dwork'[w] = n /\ \A v \in Deliverer \ {w} : SeenSent(v)'
    BY <1>a, <1>5, <2>3, OnlyOne, Zenon
  <2>4. ASSUME NEW n, Becomes(w, n),
               Reconciles(w, n) \/ Commits(w, n) \/ (\E x \in Slot : Claims(w, x, n)) \/ \E answer : Delivers(w, answer, n)
        PROVE  event' = event /\ SeenSent(w)'
    <3>1. event' = event /\ n.pc \notin AdvanceState
      BY <2>4, Zenon DEF Reconciles, Commits, Claims, Delivers, storeVars, AdvanceState
    <3> QED  BY <2>3, <2>4, <3>1, Zenon DEF SeenSent
  <2>5. ASSUME NEW n, Becomes(w, n), Walks(w, n)
        PROVE  /\ SeenSent(w)' /\ event' \in [Event -> EventRow(names)]
               /\ \A e \in Event : RepliedIsSent(e)' /\ EventOnward(e)
    <3>1. SeenSent(w)'
      <4>1. dwork'[w] = n  BY <2>3, <2>5, Zenon
      <4>2. dwork'[w].pc \in AdvanceState => Replied(w)' = Replied(w) /\ AllSent(Replied(w))
        BY <1>a, <2>5, <4>1, Zenon DEF Walks, Replied, SeenSent
      <4> QED  BY <1>2, <1>d, <4>2, Zenon DEF SeenSent, AllSent
    <3>2. CASE event' = event  BY <1>4, <3>1, <3>2, Zenon
    <3>3. CASE Advances(w)
      <4>1. PICK e \in Event : e = Replied(w)  BY <1>d, Zenon
      <4>2. AllSent(e)  BY <1>a, <3>3, <4>1, Zenon DEF SeenSent, Advances
      <4>3. /\ event' \in [Event -> EventRow(names)]
            /\ \A d \in Event \ {e} : event'[d] = event[d]
            /\ event'[e].segments = event[e].segments
            /\ event[e].status \in {"completed", "reply_pending"}
            /\ event'[e].status \in {"reply_pending", "replied"}
        BY <3>3, <4>1, EventMoves, Zenon
      <4>4. \A s \in event[e].segments : s \in Segment /\ reply[<<e, s>>].status = "sent"
        BY <4>2, <4>3, Zenon DEF Stored, FinishedStatus, AllSent
      <4>5. RepliedIsSent(e)' /\ EventOnward(e)  BY <1>1, <4>3, <4>4, Zenon DEF RepliedIsSent, EventOnward
      <4> QED  BY <1>3, <3>1, <4>3, <4>5, Zenon
    <3> QED  BY <2>5, <3>2, <3>3, Zenon DEF Walks
  <2> QED  BY <1>4, <2>1, <2>2, <2>3, <2>4, <2>5, Zenon DEF WorkerMoves
<1>7. ASSUME NEW x \in Slot, ExpireReply(x)
      PROVE  event' = event /\ \A v \in Deliverer : SeenSent(v)'
  BY <1>a, <1>5, <1>7, LeaseEnds, Zenon
<1> QED  BY <1>b, <1>4, <1>6, <1>7, Zenon DEF OutboxNext, AdvanceInv

\* RepliedMeansDelivered alone is not inductive: it rests on what a worker that moves
\* an event on has seen, on what the worker that committed had heard, and on every
\* segment of the event being there.
DeliveredInv ==
  /\ AdvanceInv
  /\ event \in [Event -> EventRow({})]
  /\ \A e \in Event : event[e].status \in FinishedStatus /\ Stored(e)

\* The materialized replies of completed events.
LEMMA DeliveredStarts == DeliveryInit => DeliveredInv
<1> SUFFICES ASSUME DeliveryInit PROVE DeliveredInv  BY Zenon
<1>1. SentInv  BY SentStarts, Zenon
<1>2. \A w \in Deliverer : SeenSent(w)
  BY OutboxTypeStarts, Zenon DEF DeliveryInit, SeenSent, AdvanceState
<1>3. PICK content \in [Event -> Content] :
        /\ event = [e \in Event |-> [NoEvent EXCEPT !.status = "completed", !.fence = 2,
                                                    !.segments = SegmentsOf[content[e]]]]
        /\ reply = [x \in Slot |->
             IF x[2] \in SegmentsOf[content[x[1]]]
             THEN [NoReply EXCEPT !.status = "pending", !.content = content[x[1]]]
             ELSE NoReply]
  BY Zenon DEF DeliveryInit, MaterializedInit
<1>4. ASSUME NEW e \in Event
      PROVE  /\ event[e] \in EventRow({}) /\ event[e].status = "completed"
             /\ event[e].segments = SegmentsOf[content[e]] /\ SegmentsOf[content[e]] \subseteq Segment
  <2>1. PICK t : t = SegmentsOf[content[e]]  BY Zenon
  <2>2. t \subseteq Segment  BY <2>1, ContentAssumption, Zenon
  <2>3. event[e] = [status |-> "completed", fence |-> 2, owner |-> Nobody, live |-> FALSE, segments |-> t]
    BY <1>3, <2>1, Zenon DEF NoEvent
  <2> QED  BY <2>1, <2>2, <2>3 DEF EventRow, EventStatus
<1>5. event \in [Event -> EventRow({})]
  <2>1. DOMAIN event = Event /\ event = [e \in Event |-> event[e]]  BY <1>3, Zenon
  <2> QED  BY <1>4, <2>1, Zenon
<1>6. ASSUME NEW e \in Event PROVE Stored(e)
  <2>1. ASSUME NEW s \in SegmentsOf[content[e]] PROVE s \in Segment /\ reply[<<e, s>>].status # "absent"
    <3>1. s \in Segment  BY <1>4, Zenon
    <3>2. <<e, s>> \in Slot  BY <3>1, Zenon DEF Slot
    <3>3. reply[<<e, s>>] = [NoReply EXCEPT !.status = "pending", !.content = content[e]]  BY <1>3, <3>2, Zenon
    <3> QED  BY <3>1, <3>3, Zenon DEF NoReply
  <2> QED  BY <1>4, <2>1, Zenon DEF Stored
<1> QED  BY <1>1, <1>2, <1>4, <1>5, <1>6, Zenon DEF DeliveredInv, AdvanceInv, RepliedIsSent, FinishedStatus

\* Every step keeps it.
LEMMA DeliveredKeeps == DeliveredInv /\ [OutboxNext]_OutboxVars => DeliveredInv'
<1> SUFFICES ASSUME DeliveredInv, [OutboxNext]_OutboxVars PROVE DeliveredInv'  BY Zenon
<1>0. CASE UNCHANGED OutboxVars
  <2>1. SentInv'  BY <1>0, SentKeeps, Zenon DEF DeliveredInv, AdvanceInv
  <2> QED  BY <1>0, <2>1, Zenon DEF OutboxVars, storeVars, outboxVars, DeliveredInv, AdvanceInv, SeenSent, Replied,
             AllSent, RepliedIsSent, Stored
<1>1. CASE OutboxNext
  <2>1. OutboxTypeOK /\ AdvanceInv /\ event \in [Event -> EventRow({})]
    BY Zenon DEF DeliveredInv, AdvanceInv, SentInv
  <2>2. \A e \in Event : event[e].status \in FinishedStatus /\ Stored(e)  BY Zenon DEF DeliveredInv
  <2>3. AdvanceInv' /\ event' \in [Event -> EventRow({})] /\ \A e \in Event : EventOnward(e)
    BY <1>1, <2>1, <2>2, AdvanceKeeps, Zenon
  <2>4. \A e \in Event, s \in Segment : reply[<<e, s>>].status # "absent" => reply'[<<e, s>>].status # "absent"
    <3>1. \A e \in Event, s \in Segment : <<e, s>> \in Slot  BY Zenon DEF Slot
    <3> QED  BY <1>1, <2>1, <3>1, NothingUndone, Zenon
  <2>5. \A e \in Event : event'[e].status \in FinishedStatus /\ Stored(e)'
    BY <2>2, <2>3, <2>4, Zenon DEF EventOnward, FinishedStatus, Stored
  <2> QED  BY <2>3, <2>5, Zenon DEF DeliveredInv
<1> QED  BY <1>0, <1>1, Zenon

\* However the workers share the segments of an event: it is replied only after
\* every one of them reached the channel.
THEOREM RepliedIsDelivered == OutboxSpec => []RepliedMeansDelivered
<1>1. DeliveredInv => RepliedMeansDelivered
  <2> SUFFICES ASSUME DeliveredInv, NEW e \in Event, event[e].status \in {"reply_pending", "replied"},
                      NEW s \in event[e].segments
               PROVE  reply[<<e, s>>].status = "sent" /\ accepted[<<e, s>>] > 0
    BY Zenon DEF RepliedMeansDelivered
  <2>1. reply[<<e, s>>].status = "sent"  BY Zenon DEF DeliveredInv, AdvanceInv, RepliedIsSent
  <2>2. <<e, s>> \in Slot  BY Zenon DEF DeliveredInv, Stored, Slot
  <2> QED  BY <2>1, <2>2, Zenon DEF DeliveredInv, AdvanceInv, SentInv, SentWasAccepted
<1> QED  BY DeliveredStarts, DeliveredKeeps, <1>1, PTL DEF OutboxSpec

-----------------------------------------------------------------------------
(* Duplicates *)

\* The workers whose next word from the provider may be one more acceptance.
Delivering(x) == {w \in Deliverer : dwork[w].pc = "deliver" /\ dwork[w].slot = x}

\* The worker with the newest claim, as long as it may still end with the segment
\* sent or dead-lettered.
Entitled(w, x) ==
  /\ dlife[w] = "running" /\ InFlight(w, x) /\ dwork[w].fence = reply[x].fence
  /\ \/ dwork[w].pc = "deliver"
     \/ dwork[w].pc = "commit" /\ dwork[w].target # "retryable"

\* The one delivery no mishap has to pay for is made or being made.
Granted(x) ==
  \/ reply[x].status \in {"sent", "dead_letter"}
  \/ reply[x].live /\ \E w \in Deliverer : Entitled(w, x)

Paid(x) ==
  /\ IsFiniteSet(Delivering(x))
  /\ accepted[x] + Cardinality(Delivering(x)) <= mishaps + (IF Granted(x) THEN 1 ELSE 0)

\* DuplicatesNeedMishaps alone is not inductive: deliveries in progress count as
\* made, and a segment that can be claimed again has had a mishap for each of them.
DuplicateInv == FenceInv /\ \A x \in Slot : Paid(x)

\* No delivery more, and none that is less paid for.
LEMMA PaidStays ==
  ASSUME OutboxTypeOK, NEW x \in Slot, Paid(x), Delivering(x)' \subseteq Delivering(x),
         accepted'[x] = accepted[x],
         \/ mishaps' = mishaps + 1
         \/ mishaps' = mishaps /\ (Granted(x) => Granted(x)')
  PROVE  Paid(x)'
<1> DEFINE a == Cardinality(Delivering(x))
           b == Cardinality(Delivering(x)')
<1>1. IsFiniteSet(Delivering(x)) /\ IsFiniteSet(Delivering(x)') /\ b <= a  BY FS_Subset, Zenon DEF Paid
<1>2. a \in Nat /\ b \in Nat  BY <1>1, FS_CardinalityType, Zenon
<1>3. accepted[x] \in Nat /\ mishaps \in Nat  BY DEF OutboxTypeOK
<1>4. accepted[x] + a <= mishaps + (IF Granted(x) THEN 1 ELSE 0)  BY Zenon DEF Paid
<1> HIDE DEF a, b
<1>5. accepted'[x] + b <= mishaps' + (IF Granted(x)' THEN 1 ELSE 0)  BY <1>1, <1>2, <1>3, <1>4
<1> QED  BY <1>1, <1>5, Zenon DEF Paid, b

\* The claim of a worker that will deliver.
LEMMA PaidClaim ==
  ASSUME OutboxTypeOK, NEW x \in Slot, NEW w, Paid(x), Delivering(x)' \subseteq Delivering(x) \cup {w},
         accepted'[x] = accepted[x], mishaps' \in {mishaps, mishaps + 1}, ~Granted(x), Granted(x)'
  PROVE  Paid(x)'
<1> DEFINE a == Cardinality(Delivering(x))
           b == Cardinality(Delivering(x)')
<1>1. IsFiniteSet(Delivering(x)) /\ a \in Nat  BY FS_CardinalityType, Zenon DEF Paid
<1>2. /\ IsFiniteSet(Delivering(x) \cup {w})
      /\ Cardinality(Delivering(x) \cup {w}) = IF w \in Delivering(x) THEN a ELSE a + 1
  BY <1>1, FS_AddElement, Zenon
<1>3. IsFiniteSet(Delivering(x)') /\ b <= Cardinality(Delivering(x) \cup {w})  BY <1>2, FS_Subset, Zenon
<1>4. b \in Nat  BY <1>3, FS_CardinalityType, Zenon
<1>5. accepted[x] \in Nat /\ mishaps \in Nat  BY DEF OutboxTypeOK
<1>6. accepted[x] + a <= mishaps  BY <1>1, <1>5 DEF Paid
<1> HIDE DEF a, b
<1>7. accepted'[x] + b <= mishaps' + (IF Granted(x)' THEN 1 ELSE 0)
  BY <1>1, <1>2, <1>3, <1>4, <1>5, <1>6
<1> QED  BY <1>3, <1>7, Zenon DEF Paid, b

\* The provider's answer to a delivery: what was in progress is made, or is not.
LEMMA PaidDelivery ==
  ASSUME OutboxTypeOK, NEW x \in Slot, NEW w \in Delivering(x), Paid(x), Delivering(x)' = Delivering(x) \ {w},
         \/ accepted'[x] = accepted[x] /\ mishaps' = mishaps
         \/ accepted'[x] = accepted[x] + 1 /\ mishaps' = mishaps + 1
         \/ accepted'[x] = accepted[x] + 1 /\ mishaps' = mishaps /\ (Granted(x) => Granted(x)')
  PROVE  Paid(x)'
<1> DEFINE a == Cardinality(Delivering(x))
           b == Cardinality(Delivering(x)')
<1>1. IsFiniteSet(Delivering(x)) /\ a \in Nat  BY FS_CardinalityType, Zenon DEF Paid
<1>2. IsFiniteSet(Delivering(x)') /\ b = a - 1  BY <1>1, FS_RemoveElement
<1>3. b \in Nat  BY <1>2, FS_CardinalityType, Zenon
<1>4. accepted[x] \in Nat /\ mishaps \in Nat  BY DEF OutboxTypeOK
<1>5. accepted[x] + a <= mishaps + (IF Granted(x) THEN 1 ELSE 0)  BY Zenon DEF Paid
<1> HIDE DEF a, b
<1>6. accepted'[x] + b <= mishaps' + (IF Granted(x)' THEN 1 ELSE 0)  BY <1>1, <1>2, <1>3, <1>4, <1>5
<1> QED  BY <1>2, <1>6, Zenon DEF Paid, b

\* A segment has one entitled worker, whose result the store would accept while its
\* lease is live; while there is one, nobody can claim.
LEMMA EntitledIsNewest ==
  ASSUME FenceInv, NEW x \in Slot, NEW w \in Deliverer, Entitled(w, x), reply[x].live
  PROVE  /\ dwork[w].slot = x /\ reply[x].status = "sending" /\ ~ClaimReplyOK(reply[x])
         /\ dwork[w].pc = "commit" => CommitOK(w)
         /\ \A v \in Deliverer : InFlight(v, x) /\ dwork[v].fence = reply[x].fence => v = w
<1>1. /\ InFlight(w, x) /\ dwork[w].fence = reply[x].fence
      /\ reply[x].status = "sending" /\ reply[x].owner = DelivererName[w]
      /\ \A v \in Deliverer \ {w} : InFlight(v, x) => dwork[v].fence # dwork[w].fence
  BY Zenon DEF FenceInv, ReplyFencing, Entitled
<1>2. dwork[w].slot = x /\ dwork[w].target \in Target
  BY <1>1, Zenon DEF FenceInv, OutboxTypeOK, Work, InFlight, Target
<1>3. CommitOK(w)
  BY <1>1, <1>2, Zenon DEF CommitOK, TransitionReplyOK, ValidReplyTransition, Target
<1> QED  BY <1>1, <1>2, <1>3, Zenon DEF ClaimReplyOK

\* Workers and rows that do not change stay entitled.
LEMMA StaysGranted ==
  ASSUME NEW x \in Slot, NEW w \in Deliverer, reply'[x] = reply[x], Granted(x),
         \A v \in Deliverer \ {w} : dwork'[v] = dwork[v] /\ dlife'[v] = dlife[v],
         Entitled(w, x) => Entitled(w, x)' \/ ~reply[x].live
  PROVE  Granted(x)'
<1>1. \A v \in Deliverer \ {w} : Entitled(v, x) => Entitled(v, x)'  BY Zenon DEF Entitled, InFlight
<1> QED  BY <1>1, Zenon DEF Granted

\* Every step of a worker pays for the deliveries it makes possible.
LEMMA PaidByWorkers ==
  ASSUME DuplicateInv, NEW w \in Deliverer, NEW x \in Slot,
         DelivererStep(w) \/ CallFails(w) \/ CloseDeliverer(w) \/ CrashDeliverer(w)
  PROVE  Paid(x)'
<1>a. FenceInv /\ OutboxTypeOK /\ Paid(x)  BY Zenon DEF DuplicateInv, FenceInv
<1>1. WorkerMoves(w)  BY <1>a, WorkerStepIs, Zenon
<1>2. CASE Switches(w)
  <2>1. /\ \/ dlife[w] = "down" /\ mishaps' = mishaps
           \/ mishaps' = mishaps + 1
        /\ \E s \in DelivererLife : dlife' = [dlife EXCEPT ![w] = s]
        /\ UNCHANGED <<reply, dwork, accepted>>
    BY <1>2, Zenon DEF Switches, storeVars
  <2>2. \A v \in Deliverer \ {w} : dwork'[v] = dwork[v] /\ dlife'[v] = dlife[v]  BY <1>a, <2>1, Zenon DEF OutboxTypeOK
  <2>3. mishaps' = mishaps => ~Entitled(w, x) \/ mishaps' = mishaps + 1  BY <2>1, Zenon DEF Entitled
  <2>4. Delivering(x)' = Delivering(x)  BY <2>1, Zenon DEF Delivering
  <2> QED  BY <1>a, <2>1, <2>2, <2>3, <2>4, StaysGranted, PaidStays, Zenon
<1>3. ASSUME NEW n, Becomes(w, n), Walks(w, n) PROVE Paid(x)'
  <2>1. dwork'[w] = n /\ \A v \in Deliverer \ {w} : dwork'[v] = dwork[v]  BY <1>a, <1>3, OnlyOne, Zenon
  <2>2. /\ n.pc \notin FlightState /\ UNCHANGED <<reply, accepted>> /\ mishaps' \in {mishaps, mishaps + 1}
        /\ \A v \in Deliverer \ {w} : dlife'[v] = dlife[v]
        /\ \/ dwork[w].pc \notin FlightState
           \/ mishaps' = mishaps + 1
           \/ dlife[w] = "closing"
           \/ dwork[w].pc = "commit" /\ ~CommitOK(w)
    BY <1>3, Zenon DEF Walks
  <2>3. Delivering(x)' \subseteq Delivering(x)  BY <2>1, <2>2, Zenon DEF Delivering, FlightState
  <2>4. mishaps' # mishaps + 1 /\ reply[x].live => ~Entitled(w, x)
    <3> SUFFICES ASSUME mishaps' # mishaps + 1, reply[x].live, Entitled(w, x) PROVE FALSE  BY Zenon
    <3>1. dwork[w].pc = "commit" => CommitOK(w)  BY <1>a, EntitledIsNewest, Zenon
    <3>2. dwork[w].pc \in FlightState /\ dlife[w] = "running"  BY Zenon DEF Entitled, InFlight, FlightState
    <3> QED  BY <2>2, <3>1, <3>2, Zenon
  <2> QED  BY <1>a, <2>1, <2>2, <2>3, <2>4, StaysGranted, PaidStays, Zenon
<1>4. ASSUME NEW n, Becomes(w, n), Reconciles(w, n) PROVE Paid(x)'
  <2>1. dwork'[w] = n /\ \A v \in Deliverer \ {w} : dwork'[v] = dwork[v]  BY <1>a, <1>4, OnlyOne, Zenon
  <2>2. dwork[w].pc = "reconcile" /\ n.pc = "commit" /\ UNCHANGED <<reply, dlife, accepted, mishaps>>
    BY <1>4, Zenon DEF Reconciles, storeVars
  <2>3. Delivering(x)' \subseteq Delivering(x) /\ ~Entitled(w, x)  BY <2>1, <2>2, Zenon DEF Delivering, Entitled
  <2> QED  BY <1>a, <2>1, <2>2, <2>3, StaysGranted, PaidStays, Zenon
<1>5. ASSUME NEW n, Becomes(w, n), Commits(w, n) PROVE Paid(x)'
  <2>1. dwork'[w] = n /\ \A v \in Deliverer \ {w} : dwork'[v] = dwork[v]  BY <1>a, <1>5, OnlyOne, Zenon
  <2>2. PICK y : y = dwork[w].slot  BY Zenon
  <2>3. /\ y \in Slot /\ dwork[w].target \in Target /\ \A z \in Slot \ {y} : reply'[z] = reply[z]
        /\ reply'[y].status = dwork[w].target
    BY <1>a, <1>5, <2>2, CommitStep, Zenon
  <2>4. /\ InFlight(w, y) /\ dwork[w].fence = reply[y].fence /\ reply[y].status = "sending" /\ reply[y].live
    BY <1>a, <1>5, <2>2, CommitIsNewest, Zenon
  <2>5. n.pc # "deliver" /\ UNCHANGED <<dlife, accepted, mishaps>> /\ dwork[w].pc = "commit"
    BY <1>5, Zenon DEF Commits
  <2>6. Delivering(x)' \subseteq Delivering(x)  BY <2>1, <2>5, Zenon DEF Delivering
  <2>7. Granted(x) => Granted(x)'
    <3>1. CASE x # y
      <4>1. ~Entitled(w, x)  BY <2>2, <3>1, Zenon DEF Entitled, InFlight
      <4> QED  BY <2>1, <2>3, <2>5, <3>1, <4>1, StaysGranted, Zenon
    <3>2. CASE x = y /\ dwork[w].target # "retryable"
      BY <2>3, <3>2, Zenon DEF Granted, Target
    <3>3. CASE x = y /\ dwork[w].target = "retryable"
      <4>1. ~Entitled(w, x)  BY <2>5, <3>3, Zenon DEF Entitled
      <4>2. \A v \in Deliverer : Entitled(v, x) => v = w
        BY <1>a, <2>4, <3>3, EntitledIsNewest, Zenon
      <4> QED  BY <2>4, <3>3, <4>1, <4>2, Zenon DEF Granted
    <3> QED  BY <3>1, <3>2, <3>3, Zenon
  <2> QED  BY <1>a, <2>5, <2>6, <2>7, PaidStays, Zenon
<1>6. ASSUME NEW n, NEW y \in Slot, Becomes(w, n), Claims(w, y, n) PROVE Paid(x)'
  <2>1. dwork'[w] = n /\ \A v \in Deliverer \ {w} : dwork'[v] = dwork[v]  BY <1>a, <1>6, OnlyOne, Zenon
  <2>2. /\ \A z \in Slot \ {y} : reply'[z] = reply[z]
        /\ reply'[y].live /\ reply'[y].fence = reply[y].fence + 1
    BY <1>a, <1>6, ClaimStep, Zenon
  <2>3. /\ dlife[w] = "running" /\ dwork[w].pc = "scan" /\ ClaimReplyOK(reply[y])
        /\ n.slot = y /\ n.fence = reply[y].fence + 1 /\ n.pc \in {"deliver", "reconcile"}
        /\ mishaps' \in {mishaps, mishaps + 1} /\ UNCHANGED <<dlife, accepted>>
    BY <1>6, Zenon DEF Claims
  <2>4. ~Entitled(w, x)  BY <2>3, Zenon DEF Entitled, InFlight
  <2>5. CASE x # y
    <3>1. Delivering(x)' \subseteq Delivering(x)  BY <2>1, <2>3, <2>5, Zenon DEF Delivering
    <3> QED  BY <1>a, <2>1, <2>2, <2>3, <2>4, <2>5, <3>1, StaysGranted, PaidStays, Zenon
  <2>6. CASE x = y
    <3>1. ~Granted(x)
      <4>1. reply[x].status \notin {"sent", "dead_letter"}  BY <2>3, <2>6, Zenon DEF ClaimReplyOK
      <4>2. ASSUME reply[x].live, NEW v \in Deliverer, Entitled(v, x) PROVE FALSE
        BY <1>a, <2>3, <2>6, <4>2, EntitledIsNewest, Zenon
      <4> QED  BY <4>1, <4>2, Zenon DEF Granted
    <3>2. CASE n.pc = "deliver"
      <4>1. Delivering(x)' \subseteq Delivering(x) \cup {w}  BY <2>1, Zenon DEF Delivering
      <4>2. Entitled(w, x)'  BY <2>1, <2>2, <2>3, <2>6, <3>2, Zenon DEF Entitled, InFlight
      <4>3. Granted(x)'  BY <2>2, <2>6, <4>2, Zenon DEF Granted
      <4> QED  BY <1>a, <2>3, <3>1, <4>1, <4>3, PaidClaim, Zenon
    <3>3. CASE n.pc = "reconcile"
      <4>1. Delivering(x)' \subseteq Delivering(x)  BY <2>1, <3>3, Zenon DEF Delivering
      <4> QED  BY <1>a, <2>3, <3>1, <4>1, PaidStays, Zenon
    <3> QED  BY <2>3, <3>2, <3>3, Zenon
  <2> QED  BY <2>5, <2>6, Zenon
<1>7. ASSUME NEW n, NEW answer, Becomes(w, n), Delivers(w, answer, n) PROVE Paid(x)'
  <2>1. dwork'[w] = n /\ \A v \in Deliverer \ {w} : dwork'[v] = dwork[v]  BY <1>a, <1>7, OnlyOne, Zenon
  <2>2. /\ dwork[w].pc = "deliver" /\ n.pc = "commit" /\ n.slot = dwork[w].slot /\ n.fence = dwork[w].fence
        /\ n.target = "sent" <=> answer = "ok"
        /\ accepted' = IF answer \in {"ok", "lost"}
                       THEN [accepted EXCEPT ![dwork[w].slot] = @ + 1] ELSE accepted
        /\ mishaps' = IF answer = "lost" THEN mishaps + 1 ELSE mishaps
        /\ UNCHANGED <<reply, dlife>>
    BY <1>7, Zenon DEF Delivers, storeVars
  <2>3. CASE x # dwork[w].slot
    <3>1. Delivering(x)' \subseteq Delivering(x)  BY <2>1, <2>2, Zenon DEF Delivering
    <3>2. ~Entitled(w, x)  BY <2>3, Zenon DEF Entitled, InFlight
    <3>3. accepted'[x] = accepted[x]  BY <1>a, <2>2, <2>3, Zenon DEF OutboxTypeOK
    <3> QED  BY <1>a, <2>1, <2>2, <3>1, <3>2, <3>3, StaysGranted, PaidStays, Zenon
  <2>4. CASE x = dwork[w].slot
    <3>1. w \in Delivering(x) /\ Delivering(x)' = Delivering(x) \ {w}  BY <2>1, <2>2, <2>4, Zenon DEF Delivering
    <3>2. /\ answer \in {"ok", "lost"} => accepted'[x] = accepted[x] + 1
          /\ answer \notin {"ok", "lost"} => accepted'[x] = accepted[x]
      BY <1>a, <2>2, <2>4, Zenon DEF OutboxTypeOK
    <3>3. answer = "ok" /\ Granted(x) => Granted(x)'
      <4>1. answer = "ok" => (Entitled(w, x) => Entitled(w, x)')
        BY <2>1, <2>2, <2>4, Zenon DEF Entitled, InFlight
      <4> QED  BY <2>1, <2>2, <4>1, StaysGranted, Zenon
    <3> QED  BY <1>a, <2>2, <3>1, <3>2, <3>3, PaidDelivery, Zenon
  <2> QED  BY <2>3, <2>4, Zenon
<1> QED  BY <1>1, <1>2, <1>3, <1>4, <1>5, <1>6, <1>7, Zenon DEF WorkerMoves

\* Every step pays.
LEMMA DuplicatesKeep == DuplicateInv /\ [OutboxNext]_OutboxVars => DuplicateInv'
<1> SUFFICES ASSUME DuplicateInv, [OutboxNext]_OutboxVars PROVE DuplicateInv'  BY Zenon
<1>1. FenceInv'  BY ReplyFencingKeeps, Zenon DEF DuplicateInv
<1>2. CASE UNCHANGED OutboxVars
  BY <1>1, <1>2, Zenon DEF OutboxVars, storeVars, outboxVars, DuplicateInv, Paid, Delivering, Granted, Entitled, InFlight
<1>3. ASSUME NEW y \in Slot, ExpireReply(y), NEW x \in Slot PROVE Paid(x)'
  <2>1. OutboxTypeOK /\ Paid(x)  BY Zenon DEF DuplicateInv, FenceInv
  <2>2. /\ reply[y].status = "sending"
        /\ \A z \in Slot \ {y} : reply'[z] = reply[z]
        /\ \A w \in Deliverer :
             /\ dwork'[w].pc = dwork[w].pc /\ dwork'[w].slot = dwork[w].slot
             /\ dwork'[w].fence = dwork[w].fence /\ dwork'[w].target = dwork[w].target
        /\ \/ Abandoned(y) /\ mishaps' = mishaps
           \/ mishaps' = mishaps + 1
        /\ UNCHANGED <<dlife, accepted>>
    BY <1>3, <2>1, LeaseEnds, Zenon
  <2>3. Delivering(x)' = Delivering(x)  BY <2>2, Zenon DEF Delivering
  <2>4. x # y /\ Granted(x) => Granted(x)'  BY <2>2, Zenon DEF Granted, Entitled, InFlight
  <2>5. Abandoned(y) => ~Granted(y)  BY <2>2, Zenon DEF Abandoned, Granted, Entitled
  <2> QED  BY <2>1, <2>2, <2>3, <2>4, <2>5, PaidStays, Zenon
<1> QED  BY <1>1, <1>2, <1>3, PaidByWorkers, Zenon DEF OutboxNext, DuplicateInv

\* Nothing is delivered at the start.
LEMMA DuplicatesStart == DeliveryInit => DuplicateInv
<1> SUFFICES ASSUME DeliveryInit PROVE DuplicateInv  BY Zenon
<1>1. FenceInv  BY ReplyFencingStarts, Zenon
<1>2. ASSUME NEW x \in Slot PROVE Paid(x)
  <2>1. Delivering(x) = {}  BY OutboxTypeStarts, Zenon DEF DeliveryInit, Delivering
  <2>2. accepted[x] = 0 /\ mishaps = 0  BY Zenon DEF DeliveryInit, OutboxInit
  <2>3. IsFiniteSet({}) /\ Cardinality({}) = 0  BY FS_EmptySet, Zenon
  <2> QED  BY <2>1, <2>2, <2>3 DEF Paid
<1> QED  BY <1>1, <1>2, Zenon DEF DuplicateInv

\* However many workers compete, and with whatever stale listings: the provider takes
\* a segment once, and once more for each thing that went wrong.
THEOREM DuplicatesArePaid == OutboxSpec => []DuplicatesNeedMishaps
<1>1. DuplicateInv => DuplicatesNeedMishaps
  <2> SUFFICES ASSUME DuplicateInv, NEW x \in Slot PROVE accepted[x] <= 1 + mishaps
    BY Zenon DEF DuplicatesNeedMishaps
  <2> DEFINE a == Cardinality(Delivering(x))
  <2>1. accepted[x] \in Nat /\ mishaps \in Nat  BY DEF DuplicateInv, FenceInv, OutboxTypeOK
  <2>2. a \in Nat  BY FS_CardinalityType, Zenon DEF DuplicateInv, Paid
  <2>3. accepted[x] + a <= mishaps + (IF Granted(x) THEN 1 ELSE 0)  BY Zenon DEF DuplicateInv, Paid
  <2> HIDE DEF a
  <2> QED  BY <2>1, <2>2, <2>3
<1> QED  BY DuplicatesStart, DuplicatesKeep, <1>1, PTL DEF OutboxSpec

=============================================================================
