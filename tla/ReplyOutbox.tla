---------------------------- MODULE ReplyOutbox ----------------------------
(***************************************************************************)
(* The delivery workers of trpcservice/runtime/outbox over the runtime      *)
(* store: RunOnce lists candidates, claims them one by one, delivers or     *)
(* reconciles each with the channel's provider, commits the result, records *)
(* it in the audit log and advances the message event.                      *)
(*                                                                         *)
(* Backoff is left out: retryDue only postpones a claim, and a worker may   *)
(* poll as late as it likes. Everything that goes wrong outside the worker  *)
(* (a lease outlived by its provider call, a lost acknowledgement, an       *)
(* unknown reconciliation, a failed store or audit call, a crash, a         *)
(* shutdown) is counted in mishaps and bounded by MaxMishaps.               *)
(***************************************************************************)
EXTENDS RuntimeStore

CONSTANTS
  Deliverer,    \* outbox.Worker values, over all processes
  DelivererName,\* Deliverer -> Config.Owner; names may coincide
  MaxDeliveries,\* Config.MaxAttempts
  MaxMishaps    \* bound: things that go wrong outside the workers

ASSUME DelivererAssumption ==
  /\ \A w \in Deliverer : DelivererName[w] # Nobody
  /\ MaxDeliveries \in Nat \ {0}
  /\ MaxMishaps \in Nat

VARIABLES
  dlife,        \* Deliverer -> its run loop: running, closing, stopped, ...
  dwork,        \* Deliverer -> the local variables of RunOnce
  accepted,     \* external, Slot -> times the provider took the segment
  mishaps       \* what has gone wrong so far

outboxVars == <<dlife, dwork, accepted, mishaps>>

DelivererLife == {"running", "closing", "closed", "stopped", "down"}

DelivererState ==
  {"idle", "scan", "deliver", "reconcile", "commit", "audit",
   "list", "read", "mark_pending", "mark_replied"}

\* fresh, held and stuck are the candidates RunOnce has not looked at yet: listed
\* as pending or retryable, as sending under a lease still live, and as sending
\* under a lease that has run out. took records that the claim took over a row
\* somebody else had been sending.
Work ==
  [pc : DelivererState, fresh : SUBSET Slot, held : SUBSET Slot,
   stuck : SUBSET Slot, slot : Slot, fence : Nat, attempts : Nat,
   target : {"sent", "retryable", "dead_letter"},
   asked : {"deliver", "reconcile"}, took : BOOLEAN]

DelivererNames == {DelivererName[w] : w \in Deliverer}

\* The workers' part of the state; InboundDispatch types the events.
OutboxTypeOK ==
  /\ reply \in [Slot -> ReplyRow(DelivererNames)]
  /\ dlife \in [Deliverer -> DelivererLife]
  /\ dwork \in [Deliverer -> Work]
  /\ accepted \in [Slot -> Nat]
  /\ mishaps \in 0 .. MaxMishaps

IdleWork ==
  [pc |-> "idle", fresh |-> {}, held |-> {}, stuck |-> {},
   slot |-> CHOOSE x \in Slot : TRUE, fence |-> 0, attempts |-> 0,
   target |-> "sent", asked |-> "deliver", took |-> FALSE]

OutboxInit ==
  /\ dlife = [w \in Deliverer |-> "running"]
  /\ dwork = [w \in Deliverer |-> IdleWork]
  /\ accepted = [x \in Slot |-> 0]
  /\ mishaps = 0

-----------------------------------------------------------------------------
(* Steps of a worker *)

At(w, pc) == dlife[w] = "running" /\ dwork[w].pc = pc

\* Back to the loop over the candidates: everything about the last claim is gone.
NextCandidate(w) ==
  [IdleWork EXCEPT !.pc = "scan", !.fresh = dwork[w].fresh,
                   !.held = dwork[w].held, !.stuck = dwork[w].stuck]

Goto(w, pc) == dwork' = [dwork EXCEPT ![w].pc = pc]

ListCandidates(w) ==
  /\ At(w, "idle")
  /\ dwork' = [dwork EXCEPT ![w] = [IdleWork EXCEPT
       !.pc = "scan",
       !.fresh = {x \in Slot : reply[x].status \in {"pending", "retryable"}},
       !.held = {x \in Slot : reply[x].status = "sending" /\ reply[x].live},
       !.stuck = {x \in Slot : reply[x].status = "sending" /\ ~reply[x].live}]]
  /\ UNCHANGED <<storeVars, dlife, accepted, mishaps>>

Unseen(w) == dwork[w].fresh \cup dwork[w].held \cup dwork[w].stuck

Mishap == mishaps < MaxMishaps /\ mishaps' = mishaps + 1

\* claimCandidate: eligible judges the listed copy, whose lease must have run out
\* (a pass so slow that a lease it listed as live ends before the claim is a
\* mishap), and the store decides again on the row. processClaimed then looks at
\* the status of the listed copy, not of the row that was claimed.
ClaimCandidate(w, x) ==
  /\ At(w, "scan")
  /\ x \in Unseen(w)
  /\ ClaimReplyOK(reply[x])
  /\ IF x \in dwork[w].held THEN Mishap ELSE UNCHANGED mishaps
  /\ LET ask == IF x \in dwork[w].fresh THEN "deliver" ELSE "reconcile"
         claimed == AfterClaimReply(reply[x], DelivererName[w])
     IN /\ reply' = [reply EXCEPT ![x] = claimed]
        /\ dwork' = [dwork EXCEPT ![w] =
             [pc |-> ask, fresh |-> @.fresh \ {x}, held |-> @.held \ {x},
              stuck |-> @.stuck \ {x}, slot |-> x, fence |-> claimed.fence,
              attempts |-> claimed.attempts, target |-> "sent", asked |-> ask,
              took |-> reply[x].status = "sending"]]
  /\ UNCHANGED <<event, dlife, accepted>>

\* Not eligible, or ErrConflict because another worker has it: RunOnce goes on.
SkipCandidate(w, x) ==
  /\ At(w, "scan")
  /\ x \in Unseen(w)
  /\ x \in dwork[w].held \/ ~ClaimReplyOK(reply[x])
  /\ dwork' = [dwork EXCEPT ![w].fresh = @ \ {x}, ![w].held = @ \ {x},
                            ![w].stuck = @ \ {x}]
  /\ UNCHANGED <<storeVars, dlife, accepted, mishaps>>

ScanEnds(w) ==
  /\ At(w, "scan")
  /\ Unseen(w) = {}
  /\ dwork' = [dwork EXCEPT ![w] = IdleWork]
  /\ UNCHANGED <<storeVars, dlife, accepted, mishaps>>

\* What rejectDelivery asks for once classify has said retryable or not.
Rejection(w, retryable) ==
  IF retryable /\ dwork[w].attempts < MaxDeliveries
  THEN "retryable" ELSE "dead_letter"

\* Provider.Deliver returns. "lost" is a timeout or a broken connection after
\* the channel took the message: the worker sees a retryable error. A worker that
\* is being closed may still have its call in flight.
Deliver(w, answer) ==
  /\ dlife[w] \in {"running", "closing"} /\ dwork[w].pc = "deliver"
  /\ answer = "lost" => mishaps < MaxMishaps
  /\ mishaps' = IF answer = "lost" THEN mishaps + 1 ELSE mishaps
  /\ accepted' = IF answer \in {"ok", "lost"}
       THEN [accepted EXCEPT ![dwork[w].slot] = @ + 1] ELSE accepted
  /\ dwork' = [dwork EXCEPT ![w].pc = "commit",
       ![w].target = IF answer = "ok" THEN "sent"
                     ELSE Rejection(w, answer # "permanent")]
  /\ UNCHANGED <<storeVars, dlife>>

DeliverAnswer == {"ok", "lost", "refused", "permanent"}

\* Mutant: every answer of the provider counts as acceptance.
ReconciledSent(answer) == "sent"

\* Where a reconciled segment goes.
Reconciled(answer) == IF answer = "accepted" THEN "sent" ELSE "retryable"

\* Provider.Reconcile returns; it answers truthfully or not at all.
Reconcile(w, answer) ==
  /\ At(w, "reconcile")
  /\ answer = "accepted" => accepted[dwork[w].slot] > 0
  /\ answer = "rejected" => accepted[dwork[w].slot] = 0
  /\ answer = "unknown" => mishaps < MaxMishaps
  /\ mishaps' = IF answer = "unknown" THEN mishaps + 1 ELSE mishaps
  /\ dwork' = [dwork EXCEPT ![w] =
       IF answer = "unknown" THEN NextCandidate(w)
       ELSE [@ EXCEPT !.pc = "commit", !.target = Reconciled(answer)]]
  /\ UNCHANGED <<storeVars, dlife, accepted>>

ReconcileAnswer == {"accepted", "rejected", "unknown"}

CommitOK(w) ==
  TransitionReplyOK(reply[dwork[w].slot], "sending", dwork[w].target,
                    DelivererName[w], dwork[w].fence)

\* TransitionReply accepted. A reconciled segment is not audited; whatever its
\* verdict, advanceEvent follows.
CommitDelivery(w) ==
  /\ At(w, "commit")
  /\ CommitOK(w)
  /\ reply' = [reply EXCEPT ![dwork[w].slot] =
       AfterReplyTransition(@, dwork[w].target, DelivererName[w])]
  /\ Goto(w, IF dwork[w].asked = "reconcile" THEN "list" ELSE "audit")
  /\ UNCHANGED <<event, dlife, accepted, mishaps>>

\* ErrConflict: the result is dropped and RunOnce goes on.
DeliveryConflict(w) ==
  /\ At(w, "commit")
  /\ ~CommitOK(w)
  /\ dwork' = [dwork EXCEPT ![w] = NextCandidate(w)]
  /\ UNCHANGED <<storeVars, dlife, accepted, mishaps>>

\* Mutant: the event is not advanced after a delivery.
AuditDeliveryOnly(w) ==
  /\ At(w, "audit")
  /\ dwork' = [dwork EXCEPT ![w] = NextCandidate(w)]
  /\ UNCHANGED <<storeVars, dlife, accepted, mishaps>>

\* recordDelivery; advanceEvent only follows a segment that was sent.
AuditDelivery(w) ==
  /\ At(w, "audit")
  /\ dwork' = [dwork EXCEPT ![w] =
       IF dwork[w].target = "sent" THEN [@ EXCEPT !.pc = "list"] ELSE NextCandidate(w)]
  /\ UNCHANGED <<storeVars, dlife, accepted, mishaps>>

-----------------------------------------------------------------------------
(* advanceEvent *)

Replied(w) == dwork[w].slot[1]

AdvanceList(w) ==
  /\ At(w, "list")
  /\ dwork' = [dwork EXCEPT ![w] =
       IF AllSent(Replied(w)) THEN [@ EXCEPT !.pc = "read"] ELSE NextCandidate(w)]
  /\ UNCHANGED <<storeVars, dlife, accepted, mishaps>>

AdvanceRead(w) ==
  /\ At(w, "read")
  /\ LET status == event[Replied(w)].status
     IN dwork' = [dwork EXCEPT ![w] =
          IF status = "completed" THEN [@ EXCEPT !.pc = "mark_pending"]
          ELSE IF status = "reply_pending" THEN [@ EXCEPT !.pc = "mark_replied"]
          ELSE NextCandidate(w)]
  /\ UNCHANGED <<storeVars, dlife, accepted, mishaps>>

\* TransitionMessage from one status to the next, or its error, which ends
\* advanceEvent.
Advance(w, from, to, pc) ==
  LET row == event[Replied(w)]
      ok == TransitionMessageOK(row, from, to, DelivererName[w], 0)
  IN /\ event' = IF ok
          THEN [event EXCEPT ![Replied(w)] =
                  AfterMessageTransition(row, to, DelivererName[w], {})]
          ELSE event
     /\ dwork' = [dwork EXCEPT ![w] =
          IF ok /\ pc # "scan" THEN [@ EXCEPT !.pc = pc] ELSE NextCandidate(w)]
     /\ UNCHANGED <<reply, dlife, accepted, mishaps>>

AdvancePending(w) ==
  At(w, "mark_pending") /\ Advance(w, "completed", "reply_pending", "mark_replied")

AdvanceReplied(w) ==
  At(w, "mark_replied") /\ Advance(w, "reply_pending", "replied", "scan")

-----------------------------------------------------------------------------
(* What goes wrong *)

\* A failed store or audit call. reconcile and advanceEvent swallow it; otherwise
\* RunOnce returns it and runLoop ends for good, unless the call ran into a
\* deadline, after which it polls again.
CallFails(w) ==
  /\ Mishap
  /\ dlife[w] = "running" /\ dwork[w].pc \notin {"deliver", "reconcile"}
  /\ IF \/ dwork[w].pc \in {"idle", "scan", "audit"}
        \/ dwork[w].pc = "commit" /\ dwork[w].asked = "deliver"
     THEN /\ dlife' \in {[dlife EXCEPT ![w] = "stopped"], dlife}
          /\ dwork' = [dwork EXCEPT ![w] = IdleWork]
     ELSE /\ dwork' = [dwork EXCEPT ![w] = NextCandidate(w)]
          /\ UNCHANGED dlife
  /\ UNCHANGED <<storeVars, accepted>>

CloseDeliverer(w) ==
  /\ Mishap
  /\ dlife[w] = "running"
  /\ dlife' = [dlife EXCEPT ![w] = "closing"]
  /\ UNCHANGED <<storeVars, dwork, accepted>>

\* With its context cancelled every store call fails, RunOnce returns, the loop
\* ends and Close returns.
DelivererExits(w) ==
  /\ dlife[w] = "closing"
  /\ dlife' = [dlife EXCEPT ![w] = "closed"]
  /\ dwork' = [dwork EXCEPT ![w] = IdleWork]
  /\ UNCHANGED <<storeVars, accepted, mishaps>>

CrashDeliverer(w) ==
  /\ Mishap
  /\ dlife[w] \in {"running", "closing"}
  /\ dlife' = [dlife EXCEPT ![w] = "down"]
  /\ dwork' = [dwork EXCEPT ![w] = IdleWork]
  /\ UNCHANGED <<storeVars, accepted>>

RestartDeliverer(w) ==
  /\ dlife[w] = "down"
  /\ dlife' = [dlife EXCEPT ![w] = "running"]
  /\ UNCHANGED <<storeVars, dwork, accepted, mishaps>>

InFlight(w, x) ==
  dwork[w].pc \in {"deliver", "reconcile", "commit"} /\ dwork[w].slot = x

Abandoned(x) ==
  \A w \in Deliverer : InFlight(w, x) => dwork[w].fence # reply[x].fence

\* A lease runs out, in the row and in every listed copy of it: freely once its
\* worker has given up on it, as a mishap while the worker still means to use it.
ExpireReply(x) ==
  /\ reply[x].status = "sending" /\ reply[x].live
  /\ IF Abandoned(x) THEN UNCHANGED mishaps ELSE Mishap
  /\ reply' = [reply EXCEPT ![x].live = FALSE]
  /\ dwork' = [w \in Deliverer |-> [dwork[w] EXCEPT
       !.held = @ \ {x},
       !.stuck = IF x \in dwork[w].held THEN @ \cup {x} ELSE @]]
  /\ UNCHANGED <<event, dlife, accepted>>

DelivererStep(w) ==
  \/ ListCandidates(w)
  \/ \E x \in Slot : ClaimCandidate(w, x) \/ SkipCandidate(w, x)
  \/ ScanEnds(w)
  \/ \E answer \in DeliverAnswer : Deliver(w, answer)
  \/ \E answer \in ReconcileAnswer : Reconcile(w, answer)
  \/ CommitDelivery(w) \/ DeliveryConflict(w) \/ AuditDelivery(w)
  \/ AdvanceList(w) \/ AdvanceRead(w) \/ AdvancePending(w) \/ AdvanceReplied(w)
  \/ DelivererExits(w) \/ RestartDeliverer(w)

OutboxNext ==
  \/ \E w \in Deliverer :
       DelivererStep(w) \/ CallFails(w) \/ CloseDeliverer(w) \/ CrashDeliverer(w)
  \/ \E x \in Slot : ExpireReply(x)

\* The polling loop runs, provider calls return, clocks advance, and a crashed
\* process is restarted.
OutboxFairness ==
  /\ \A w \in Deliverer : WF_<<dlife[w], dwork[w]>>(DelivererStep(w))
  /\ \A x \in Slot :
       WF_<<reply[x]>>(Abandoned(x) /\ ExpireReply(x))

\* The workers alone, on replies the gateway has finished with: each event was
\* claimed, executed and completed, and its segments are materialized.
MaterializedInit ==
  \E content \in [Event -> Content] :
    /\ event = [e \in Event |->
         [NoEvent EXCEPT !.status = "completed", !.fence = 2,
                         !.segments = SegmentsOf[content[e]]]]
    /\ reply = [x \in Slot |->
         IF x[2] \in SegmentsOf[content[x[1]]]
         THEN [NoReply EXCEPT !.status = "pending", !.content = content[x[1]]]
         ELSE NoReply]

OutboxVars == <<storeVars, outboxVars>>

DeliveryInit == MaterializedInit /\ OutboxInit

OutboxSpec == DeliveryInit /\ [][OutboxNext]_OutboxVars

FairOutboxSpec == OutboxSpec /\ OutboxFairness

-----------------------------------------------------------------------------
(* Properties *)

\* Only the latest claim of a segment can commit: claims in flight hold distinct
\* fencing tokens no newer than the row's, and the newest one finds the row still
\* sending under its owner, even when workers share an owner name.
ReplyFencing ==
  \A w \in Deliverer : \A x \in Slot : InFlight(w, x) =>
    /\ dwork[w].fence \in 1 .. reply[x].fence
    /\ dwork[w].fence = reply[x].fence =>
         reply[x].status = "sending" /\ reply[x].owner = DelivererName[w]
    /\ \A v \in Deliverer \ {w} :
         InFlight(v, x) => dwork[v].fence # dwork[w].fence

\* While a worker's claim is the newest and its lease live, nobody else changes
\* the segment: a worker that was overtaken cannot commit over its successor.
\* Sent and dead-lettered segments are final, against late workers and repeated
\* materializations.
LeaseIsRespected ==
  [][\A x \in Slot :
       /\ reply[x].status \in {"sent", "dead_letter"} => reply'[x] = reply[x]
       /\ \A w \in Deliverer :
            /\ InFlight(w, x) /\ dwork[w].fence = reply[x].fence /\ reply[x].live
            /\ reply'[x] # reply[x]
            => reply'[x] = [reply[x] EXCEPT !.live = FALSE] \/ ~InFlight(w, x)']_OutboxVars

\* A segment is recorded as sent only when the provider really took it, whether
\* the worker heard so from Deliver or found out by Reconcile after a takeover.
SentWasAccepted == \A x \in Slot : reply[x].status = "sent" => accepted[x] > 0

\* The provider takes a segment twice only if something went wrong: in quiet
\* running, competing workers and stale listings never duplicate a delivery.
DuplicatesNeedMishaps == \A x \in Slot : accepted[x] <= 1 + mishaps

\* An event is replied only after every segment of its reply reached the channel.
RepliedMeansDelivered ==
  \A e \in Event : event[e].status \in {"reply_pending", "replied"} =>
    \A s \in event[e].segments :
      reply[<<e, s>>].status = "sent" /\ accepted[<<e, s>>] > 0

\* Every materialized segment is sent or dead-lettered as long as one worker's
\* loop keeps running.
SegmentsSettle ==
  <>[](\E w \in Deliverer : dlife[w] \in {"running", "down"}) =>
    <>[](\A x \in Slot : reply[x].status \in {"absent", "sent", "dead_letter"})

\* In quiet running, the worker that sends the last segment of a completed event
\* also moves the event to replied, however the workers share the segments.
LastSegmentReplies ==
  \A e \in Event : AllSent(e) /\ event[e].status = "completed" ~>
    event[e].status = "replied" \/ mishaps > 0

\* "An expired sending lease is first reconciled with the provider": a claim that
\* takes over a row in sending never goes straight to Deliver.
ExpiredIsReconciled ==
  \A w \in Deliverer : dwork[w].pc = "deliver" => ~dwork[w].took

=============================================================================
