--------------------------- MODULE ExecutionForward ----------------------------
(* One execution of a chat request (gateway/dispatch.go): Dispatch records the   *)
(* start, reserves the handoff and starts the Runner; the forward goroutine      *)
(* moves the Runner's events into the output channel and records the outcome,    *)
(* in the audit log and in the handoff store, before it says that it is done.    *)
(* The request's context may be cancelled at any point.                          *)
(* Events of the channel: "text", "status", "error", and the terminal "done",    *)
(* "done-error", "done-canceled".                                                *)
EXTENDS Integers, Sequences, FiniteSets, SequencesExt

CONSTANTS Requests,       \* the HTTP requests, each with at most one execution
          RequestIds,     \* the request IDs they may carry
          ChannelSize,    \* capacity of the output channel
          NoId            \* no request ID yet

VARIABLES run,       \* the execution of each request
          facts,     \* the audit log: <<request ID, event type>>
          handoff,   \* the handoff of each request ID
          faults     \* writes of audit log and handoff that may still fail

forwardVars == <<run, facts, handoff, faults>>

\* What the Runner does: at most `texts` texts, then one of `endings`.  `ran`, `hit` and
\* `cut` are not program state: the Runner was started, a write failed, the context was
\* cancelled while the last item waited for room.
NoRun == [pc |-> "idle", id |-> NoId, live |-> TRUE, out |-> <<>>, texts |-> 0, endings |-> {}, type |-> "",
          err |-> "", audited |-> FALSE, ran |-> FALSE, hit |-> FALSE, cut |-> FALSE]

TerminalFacts == {"completed", "failed", "canceled"}

RunAt(r, pc) == run[r].pc = pc

Turns(r, next) == run' = [run EXCEPT ![r] = next]

Refused(r) == [run[r] EXCEPT !.pc = "refused"]

\* A write fails.
Fault(r, next) == faults > 0 /\ faults' = faults - 1 /\ Turns(r, [next EXCEPT !.hit = TRUE])

\* Mutant: an event that is known already counts as written, whatever it says.
AuditsKnown(r, type, good, bad) ==
  \/ /\ facts' = facts \union {<<run[r].id, type>>}
     /\ Turns(r, good)
     /\ UNCHANGED faults
  \/ /\ Fault(r, bad)
     /\ facts' \in {facts, facts \union {<<run[r].id, type>>}}

\* Append: the event is named by request ID and type.  A second one has another
\* time, so its digest differs and it is refused.  A failed write may have happened.
Audits(r, type, good, bad) ==
  LET fact == <<run[r].id, type>>
  IN  \/ /\ fact \notin facts
         /\ facts' = facts \union {fact}
         /\ Turns(r, good)
         /\ UNCHANGED faults
      \/ /\ fact \in facts
         /\ Turns(r, bad)
         /\ UNCHANGED <<facts, faults>>
      \/ /\ Fault(r, bad)
         /\ facts' \in {facts, facts \union {fact}}

Finalized(r, result) == [handoff EXCEPT ![run[r].id] = IF @ = "pending" THEN result ELSE @]

\* Finalize: only a pending handoff changes.
Settles(r, result, good, bad) ==
  \/ /\ handoff' = Finalized(r, result)
     /\ Turns(r, good)
     /\ UNCHANGED faults
  \/ /\ Fault(r, bad)
     /\ handoff' \in {handoff, Finalized(r, result)}

\* trySendDispatchEvent: an event that finds no room is dropped.
TrySend(out, event) == IF Len(out) < ChannelSize THEN Append(out, event) ELSE out

-----------------------------------------------------------------------------
(* Dispatch.                                                                     *)

\* The plan cannot be resolved, or the context is cancelled: nothing is recorded.
ResolveFails(r) ==
  /\ RunAt(r, "dispatch")
  /\ Turns(r, Refused(r))
  /\ UNCHANGED <<facts, handoff, faults>>

RecordStart(r) ==
  /\ RunAt(r, "dispatch")
  /\ Audits(r, "started", [run[r] EXCEPT !.pc = "started"], Refused(r))
  /\ UNCHANGED handoff

\* An execution whose handoff is not reserved has no terminal audit event.
ReserveHandoff(r) ==
  /\ RunAt(r, "started")
  /\ LET reserved == [handoff EXCEPT ![run[r].id] = IF @ = "none" THEN "pending" ELSE @]
     IN  \/ handoff' = reserved /\ Turns(r, [run[r] EXCEPT !.pc = "reserved"]) /\ UNCHANGED faults
         \/ ~ run[r].live /\ Turns(r, Refused(r)) /\ UNCHANGED <<handoff, faults>>
         \/ Fault(r, Refused(r)) /\ handoff' \in {handoff, reserved}
  /\ UNCHANGED facts

StartRunner(r) ==
  /\ RunAt(r, "reserved")
  /\ Turns(r, [run[r] EXCEPT !.pc = "loop", !.ran = TRUE])
  /\ UNCHANGED <<facts, handoff, faults>>

\* Acquire or Run fails: the audit log says so, the handoff stays pending.
StartRunnerFails(r) ==
  /\ RunAt(r, "reserved")
  /\ \E type \in {"failed", "canceled"} :
       /\ type = "canceled" => ~ run[r].live
       /\ Audits(r, type, Refused(r), Refused(r))
  /\ UNCHANGED handoff

-----------------------------------------------------------------------------
(* The forward goroutine.                                                        *)

\* finalizeAudit: the terminal event is written at most once.
Concludes(r, type, good, bad) ==
  Audits(r, type, [good EXCEPT !.type = type, !.audited = TRUE], [bad EXCEPT !.type = type])

\* finishAuditFailure comes next.
Unaudited(r) == [run[r] EXCEPT !.pc = "auditFailed", !.err = "failed"]

\* The context is looked at before the Runner's channel.
Loop(r) ==
  /\ RunAt(r, "loop")
  /\ run[r].live
  /\ Turns(r, [run[r] EXCEPT !.pc = "select"])
  /\ UNCHANGED <<facts, handoff, faults>>

Canceled(r) ==
  /\ RunAt(r, "loop") \/ RunAt(r, "select")
  /\ ~ run[r].live
  /\ Concludes(r, "canceled", [run[r] EXCEPT !.pc = "cancelHandoff", !.err = "canceled"], Unaudited(r))
  /\ UNCHANGED handoff

\* A response that is not the last one: its text, or how far the Runner is.
RunnerText(r) ==
  /\ RunAt(r, "select")
  /\ run[r].texts > 0
  /\ \E pc \in {"text", "status"} : Turns(r, [run[r] EXCEPT !.pc = pc, !.texts = @ - 1])
  /\ UNCHANGED <<facts, handoff, faults>>

\* A final response, with text or without.
RunnerDone(r) ==
  /\ RunAt(r, "select")
  /\ \E pc \in {"lastText", "handoff"} \intersect run[r].endings :
       Concludes(r, "completed", [run[r] EXCEPT !.pc = pc], Unaudited(r))
  /\ UNCHANGED handoff

RunnerError(r) ==
  /\ RunAt(r, "select")
  /\ "error" \in run[r].endings
  /\ Concludes(r, "failed", [run[r] EXCEPT !.pc = "errorItem", !.err = "failed"], Unaudited(r))
  /\ UNCHANGED handoff

\* The Runner closes its channel without a final response: this is success too,
\* even if it did so because the context was cancelled.
RunnerCloses(r) ==
  /\ RunAt(r, "select")
  /\ "close" \in run[r].endings
  /\ Concludes(r, "completed", [run[r] EXCEPT !.pc = "closeHandoff"], Unaudited(r))
  /\ UNCHANGED handoff

ItemOf == [text |-> "text", status |-> "status", lastText |-> "text", errorItem |-> "error"]

\* sendDispatchEvent waits for room or for the cancellation.
SendItem(r) ==
  /\ run[r].pc \in DOMAIN ItemOf
  /\ \/ /\ Len(run[r].out) < ChannelSize
        /\ Turns(r, [run[r] EXCEPT !.pc = IF @ \in {"text", "status"} THEN "loop" ELSE "handoff",
                                   !.out = Append(@, ItemOf[run[r].pc])])
     \/ /\ ~ run[r].live
        /\ Turns(r, [run[r] EXCEPT !.pc = "final", !.err = "canceled", !.cut = run[r].pc \in {"lastText", "errorItem"}])
  /\ UNCHANGED <<facts, handoff, faults>>

\* Mutant: an execution that ends in an error is settled as a success.
SettleHandoffAsSuccess(r) ==
  /\ RunAt(r, "handoff")
  /\ Settles(r, "success", [run[r] EXCEPT !.pc = "sendDone"], Unaudited(r))
  /\ UNCHANGED facts

SettleHandoff(r) ==
  /\ RunAt(r, "handoff")
  /\ Settles(r, IF run[r].err = "" THEN "success" ELSE "failure", [run[r] EXCEPT !.pc = "sendDone"], Unaudited(r))
  /\ UNCHANGED facts

SendDone(r) ==
  /\ RunAt(r, "sendDone")
  /\ \/ /\ Len(run[r].out) < ChannelSize
        /\ Turns(r, [run[r] EXCEPT !.pc = "final", !.out = Append(@, IF run[r].err = "" THEN "done" ELSE "done-error")])
     \/ /\ ~ run[r].live
        /\ Turns(r, [run[r] EXCEPT !.pc = "final"])
  /\ UNCHANGED <<facts, handoff, faults>>

\* Mutant: the client is told before the handoff is settled.
StreamClosedEarly(r) ==
  /\ RunAt(r, "closeHandoff")
  /\ Turns(r, [run[r] EXCEPT !.pc = "final", !.out = TrySend(@, "done")])
  /\ UNCHANGED <<facts, handoff, faults>>

StreamClosed(r) ==
  /\ RunAt(r, "closeHandoff")
  /\ Settles(r, "success", [run[r] EXCEPT !.pc = "final", !.out = TrySend(@, "done")], Unaudited(r))
  /\ UNCHANGED facts

FinishCanceled(r) ==
  /\ RunAt(r, "cancelHandoff")
  /\ Settles(r, "canceled",
             [run[r] EXCEPT !.pc = "final", !.out = TrySend(TrySend(@, "error"), "done-canceled")], Unaudited(r))
  /\ UNCHANGED facts

FinishAuditFailure(r) ==
  /\ RunAt(r, "auditFailed")
  /\ Turns(r, [run[r] EXCEPT !.pc = "final", !.out = TrySend(TrySend(@, "error"), "done-error")])
  /\ UNCHANGED <<facts, handoff, faults>>

ResultOf == [x \in {"", "failed", "canceled"} |->
               CASE x = "" -> "success" [] x = "failed" -> "failure" [] x = "canceled" -> "canceled"]

\* finalizeForward settles the handoff, unless it is settled already ...
FinalHandoff(r) ==
  /\ RunAt(r, "final")
  /\ LET done == [run[r] EXCEPT !.pc = "finalAudit"]
     IN  Settles(r, ResultOf[run[r].err], done, [done EXCEPT !.err = IF @ = "" THEN "failed" ELSE @])
  /\ UNCHANGED facts

\* ... and writes the terminal audit event, unless it is written already; then the
\* channel is closed and the Runner is given back.
FinalAudit(r) ==
  /\ RunAt(r, "finalAudit")
  /\ LET closed == [run[r] EXCEPT !.pc = "closed"]
         type   == CASE run[r].type # "" -> run[r].type
                     [] run[r].type = "" /\ run[r].err = "" -> "completed"
                     [] OTHER -> run[r].err
     IN  IF run[r].audited
         THEN Turns(r, closed) /\ UNCHANGED <<facts, faults>>
         ELSE Audits(r, type, closed, closed)
  /\ UNCHANGED handoff

ForwardNext ==
  \E r \in Requests :
    \/ ResolveFails(r) \/ RecordStart(r) \/ ReserveHandoff(r) \/ StartRunner(r) \/ StartRunnerFails(r)
    \/ Loop(r) \/ Canceled(r) \/ RunnerText(r) \/ RunnerDone(r) \/ RunnerError(r) \/ RunnerCloses(r)
    \/ SendItem(r) \/ SettleHandoff(r) \/ SendDone(r) \/ StreamClosed(r) \/ FinishCanceled(r)
    \/ FinishAuditFailure(r) \/ FinalHandoff(r) \/ FinalAudit(r)

=============================================================================
