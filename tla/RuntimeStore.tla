---------------------------- MODULE RuntimeStore ----------------------------
(***************************************************************************)
(* The message and reply rows of trpcservice/runtime/storage (contract) and *)
(* storage/inmemory (implementation), with the checks and the updates each  *)
(* of its operations makes under the store's lock. Both users of the store, *)
(* the gateway (InboundDispatch) and the delivery workers (ReplyOutbox),    *)
(* extend this module and share its two variables.                          *)
(*                                                                         *)
(* One tenant is modelled: every lookup of the code is by tenant id. A      *)
(* message is its unique key (binding, external message id), a reply has    *)
(* its event's id, so a reply row is an event and a segment index. A lease  *)
(* is live until a separate action lets it run out.                         *)
(***************************************************************************)
EXTENDS Naturals

CONSTANTS
  Event,     \* inbound messages, by unique key
  Segment,   \* segment indexes a reply may have
  Content,   \* reply payloads together with their request correlation
  NoContent, \* the empty reply, and the content of a row that does not exist
  SegmentsOf \* Content -> the segments splitRunes cuts it into

ASSUME StoreAssumption == Event # {} /\ Segment # {}

ASSUME ContentAssumption ==
  /\ NoContent \notin Content
  /\ SegmentsOf \in [Content -> (SUBSET Segment) \ {{}}]

VARIABLES
  event,     \* Event -> row of Store.events
  reply      \* <<Event, Segment>> -> row of Store.replies

storeVars == <<event, reply>>

Slot == Event \X Segment

Nobody == ""

-----------------------------------------------------------------------------
(* Message events *)

EventStatus ==
  {"absent", "received", "running", "completed", "execution_reconciling",
   "reply_pending", "replied", "failed"}

\* segments is the SegmentCount (and ReplyID) a completed execution leaves.
EventRow(owners) ==
  [status : EventStatus, fence : Nat, owner : owners \cup {Nobody},
   live : BOOLEAN, segments : SUBSET Segment]

NoEvent ==
  [status |-> "absent", fence |-> 0, owner |-> Nobody, live |-> FALSE,
   segments |-> {}]

ValidMessageTransition(from, to) ==
  \/ from = "received" /\ to \in {"running", "failed"}
  \/ from = "running" /\ to \in {"completed", "execution_reconciling", "failed"}
  \/ from = "execution_reconciling" /\ to \in {"running", "failed"}
  \/ from = "completed" /\ to \in {"reply_pending", "failed"}
  \/ from = "reply_pending" /\ to \in {"replied", "failed"}

\* Leaving running takes the current owner, fence and an unexpired lease; giving
\* a running event up for reconciliation takes an expired one.
MessageLeaseOK(row, from, to, owner, fence) ==
  from = "running" =>
    IF to = "execution_reconciling" THEN ~row.live
    ELSE row.owner = owner /\ fence # 0 /\ row.fence = fence /\ row.live

\* Mutant: the row's own status is not compared with the one to leave.
TransitionMessageOKAnyStatus(row, from, to, owner, fence) ==
  ValidMessageTransition(from, to) /\ MessageLeaseOK(row, from, to, owner, fence)

TransitionMessageOK(row, from, to, owner, fence) ==
  /\ ValidMessageTransition(from, to)
  /\ row.status = from
  /\ MessageLeaseOK(row, from, to, owner, fence)

\* Mutant: only a claim takes a new fence.
AfterMessageTransitionKeepsFence(row, to, owner, segments) ==
  [row EXCEPT !.status = to,
              !.owner = IF to = "running" THEN owner ELSE Nobody,
              !.live = (to = "running"),
              !.fence = IF to = "running" THEN @ + 1 ELSE @,
              !.segments = IF segments = {} THEN @ ELSE segments]

\* Every transition takes a new fence; only running holds a lease.
AfterMessageTransition(row, to, owner, segments) ==
  [row EXCEPT !.status = to,
              !.owner = IF to = "running" THEN owner ELSE Nobody,
              !.live = (to = "running"),
              !.fence = @ + 1,
              !.segments = IF segments = {} THEN @ ELSE segments]

\* RecordMessage of a key not seen before.
RecordedEvent == [NoEvent EXCEPT !.status = "received"]

-----------------------------------------------------------------------------
(* Reply segments *)

ReplyStatus ==
  {"absent", "pending", "sending", "sent", "retryable", "dead_letter"}

ReplyRow(owners) ==
  [status : ReplyStatus, attempts : Nat, fence : Nat,
   owner : owners \cup {Nobody}, live : BOOLEAN,
   content : Content \cup {NoContent}]

NoReply ==
  [status |-> "absent", attempts |-> 0, fence |-> 0, owner |-> Nobody,
   live |-> FALSE, content |-> NoContent]

ValidReplyTransition(from, to) ==
  \/ from = "pending" /\ to \in {"sending", "retryable"}
  \/ from = "sending" /\ to \in {"sent", "retryable", "dead_letter"}
  \/ from = "retryable" /\ to \in {"sending", "dead_letter"}

\* Mutants: a live lease does not protect the row; an expired lease is never taken
\* over.
ClaimReplyOKWhileLive(row) == row.status \in {"pending", "retryable", "sending"}

ClaimReplyOKFresh(row) == row.status \in {"pending", "retryable"}

ClaimReplyOK(row) ==
  \/ row.status \in {"pending", "retryable"}
  \/ row.status = "sending" /\ ~row.live

\* Mutant: taking over an expired lease keeps its fencing token.
AfterClaimReplySameFence(row, owner) ==
  [row EXCEPT !.status = "sending", !.attempts = @ + 1,
              !.fence = IF row.status = "sending" THEN @ ELSE @ + 1,
              !.owner = owner, !.live = TRUE]

AfterClaimReply(row, owner) ==
  [row EXCEPT !.status = "sending", !.attempts = @ + 1, !.fence = @ + 1,
              !.owner = owner, !.live = TRUE]

\* Mutant: the fencing token is not compared.
TransitionReplyOKNoFence(row, from, to, owner, fence) ==
  /\ ValidReplyTransition(from, to)
  /\ row.status = from
  /\ row.owner # Nobody => row.owner = owner
  /\ row.status = "sending" => row.live

TransitionReplyOK(row, from, to, owner, fence) ==
  /\ ValidReplyTransition(from, to)
  /\ row.status = from
  /\ row.owner # Nobody => row.owner = owner
  /\ fence # 0 => row.fence = fence
  /\ row.status = "sending" => row.live

\* The row keeps the name of the worker that moved it. No caller moves a row to
\* sending this way: ClaimReply does that.
AfterReplyTransition(row, to, owner) ==
  [row EXCEPT !.status = to, !.owner = owner, !.fence = @ + 1, !.live = FALSE]

\* Mutant: existing rows are kept whatever they contain.
EnqueueRepliesOKAnyContent(e, content) == event[e].status # "absent"

\* The batch of Materialize meets rows of the same content, or none.
EnqueueRepliesOK(e, content) ==
  /\ event[e].status # "absent"
  /\ \A s \in Segment : reply[<<e, s>>].content \in {NoContent, content}

\* All segments of the batch become visible at once; existing ones are kept.
EnqueueReplies(e, content) ==
  reply' = [x \in Slot |->
    IF x[1] = e /\ x[2] \in SegmentsOf[content] /\ reply[x].status = "absent"
    THEN [NoReply EXCEPT !.status = "pending", !.content = content]
    ELSE reply[x]]

\* Mutant: it is enough that the event has replies.
AllSentAnyStatus(e) == \E s \in Segment : reply[<<e, s>>].status # "absent"

AllSent(e) ==
  /\ \E s \in Segment : reply[<<e, s>>].status # "absent"
  /\ \A s \in Segment : reply[<<e, s>>].status \in {"absent", "sent"}

=============================================================================
