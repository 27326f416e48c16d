------------------------------- MODULE HttpChat --------------------------------
(* The chat endpoint (gateway/http.go): readiness, the tenant's limits           *)
(* (gateway/limits.go), the idempotency key (gateway/idempotency.go), the        *)
(* execution, and what the client and the key are left with.  One tenant.        *)
EXTENDS ExecutionForward

CONSTANTS Keys,             \* idempotency keys
          MaxRequests,      \* requests of one window
          Situations        \* what the requests ask for and what may happen to them

VARIABLES server,     \* "open", "draining" or "closed"
          limiter,    \* the tenant's entry: requests of the window, active leases
          records,    \* the idempotency store
          chat,       \* the handler of each request
          lapsed,     \* requests whose pending record was pruned; not program state
          situation   \* the situation, with the expiries that may still happen

chatVars == <<server, limiter, records, chat, lapsed, situation>>

\* `by` is not program state: who claimed the key, or whose events are stored.
NoRecord == [st |-> "none", events |-> <<>>, late |-> FALSE, by |-> NoId]

NoRequests == [requests |-> 0, active |-> 0]

\* `src` and `told` are not program state: whose events `got` holds, and the status
\* the client was answered with ("" if it got none, or an HTTP error).
NoChat == [pc |-> "new", key |-> NoId, stream |-> FALSE, got |-> <<>>, src |-> NoId, told |-> ""]

ChatAt(r, pc) == chat[r].pc = pc

Goes(r, pc) == chat' = [chat EXCEPT ![r].pc = pc]

\* The handlers that hold a lease of the limiter, and those that hold a claim.
Holds(r) == chat[r].pc \in {"begin", "collect", "releasing"}

TerminalEvents == {"done", "done-error", "done-canceled"}

StatusOf == [e \in {"status", "error"} \union TerminalEvents |->
               CASE e = "status" -> "progress"
                 [] e = "done" -> "complete"
                 [] e = "done-canceled" -> "canceled"
                 [] OTHER -> "error"]

\* finalChatResponse: complete, unless an event that carries a status says otherwise.
FinalStatus(events) ==
  LET said == SelectSeq(events, LAMBDA e : e # "text")
  IN  IF said = <<>> THEN "complete" ELSE StatusOf[Last(said)]

\* What the client learns: a stream ends in its terminal event, or in none.
Told(stream, events) ==
  CASE ~ stream -> FinalStatus(events)
    [] stream /\ events # <<>> /\ Last(events) \in TerminalEvents -> StatusOf[Last(events)]
    [] OTHER -> ""

-----------------------------------------------------------------------------
(* Admission.                                                                    *)

\* Ready, the request ID and the key; both are the client's.
Arrive(r) ==
  /\ ChatAt(r, "new")
  /\ r \in DOMAIN situation.asks
  /\ LET ask == situation.asks[r]
     IN  IF server = "open"
         THEN /\ \E stream \in ask.streams :
                   chat' = [chat EXCEPT ![r].pc = "acquire", ![r].key = ask.key, ![r].stream = stream, ![r].src = r]
              /\ Turns(r, [run[r] EXCEPT !.id = ask.id])
         ELSE Goes(r, "done") /\ UNCHANGED run
  /\ UNCHANGED <<server, limiter, records, lapsed, situation, facts, handoff, faults>>

\* Mutant: a new window starts from nothing, leases included.
WindowForgetsLeases(entry) == [requests |-> 0, active |-> 0]

\* A new window counts requests from 0 and keeps the leases.
NewWindow(entry) == [entry EXCEPT !.requests = 0]

\* The window may have passed when the request asks.
AcquireSlot(r) ==
  /\ ChatAt(r, "acquire")
  /\ \E entry \in {limiter, NewWindow(limiter)} :
       IF server # "closed" /\ run[r].live /\ entry.requests < MaxRequests /\ entry.active < situation.maxConcurrent
       THEN limiter' = [requests |-> entry.requests + 1, active |-> entry.active + 1] /\ Goes(r, "begin")
       ELSE limiter' = (IF server # "closed" /\ run[r].live THEN entry ELSE limiter) /\ Goes(r, "done")
  /\ UNCHANGED <<server, records, lapsed, situation, forwardVars>>

Prune(recs) == [k \in Keys |-> IF recs[k].late THEN NoRecord ELSE recs[k]]

Lapses(recs) == {recs[k].by : k \in {x \in Keys : recs[x].late /\ recs[x].st = "pending"}}

\* Mutant: a pending record does not stop a second request.
ClaimablePending(rec) == rec.st # "completed"

\* There is no record, or that of a failed request.
Claimable(rec) == rec.st \in {"none", "failed"}

\* A failed record of the key makes room for itself.
HasRoom(recs, k) == Cardinality({x \in Keys \ {k} : recs[x].st # "none"}) < situation.maxEntries

Begin(r) ==
  /\ ChatAt(r, "begin")
  /\ LET k     == chat[r].key
         kept  == Prune(records)
         opens == server # "closed" /\ run[r].live
     IN  /\ records' = CASE ~ opens -> records
                         [] opens /\ Claimable(kept[k]) /\ HasRoom(kept, k) ->
                              [kept EXCEPT ![k] = [NoRecord EXCEPT !.st = "pending", !.by = r]]
                         [] opens /\ Claimable(kept[k]) /\ ~ HasRoom(kept, k) -> [kept EXCEPT ![k] = NoRecord]
                         [] OTHER -> kept
         /\ lapsed' = IF opens THEN lapsed \union Lapses(records) ELSE lapsed
         /\ IF opens /\ Claimable(kept[k]) /\ HasRoom(kept, k)
            THEN Goes(r, "collect") /\ Turns(r, [run[r] EXCEPT !.pc = "dispatch"])
            ELSE /\ IF opens /\ kept[k].st = "completed"
                    THEN chat' = [chat EXCEPT ![r].pc = "releasing", ![r].got = kept[k].events, ![r].src = kept[k].by,
                                              ![r].told = Told(chat[r].stream, kept[k].events)]
                    ELSE Goes(r, "releasing")
                 /\ UNCHANGED run
  /\ UNCHANGED <<server, limiter, situation, facts, handoff, faults>>

-----------------------------------------------------------------------------
(* The answer.                                                                   *)

\* Complete and Fail act on the pending record of the key, whoever claimed it.
Completed(recs, r, events) ==
  [recs EXCEPT ![chat[r].key] =
     IF @.st = "pending" THEN [NoRecord EXCEPT !.st = "completed", !.events = events, !.by = r] ELSE @]

Failed(recs, r) ==
  [recs EXCEPT ![chat[r].key] = IF @.st = "pending" THEN [NoRecord EXCEPT !.st = "failed", !.by = r] ELSE @]

Ends(r, recs) == records' = recs /\ Goes(r, "releasing")

\* Dispatch returned an error.
DispatchFails(r) ==
  /\ ChatAt(r, "collect")
  /\ RunAt(r, "refused")
  /\ Ends(r, Failed(records, r))
  /\ UNCHANGED <<server, limiter, lapsed, situation, forwardVars>>

Take(r) == Turns(r, [run[r] EXCEPT !.out = Tail(@)])

\* collectHTTPEvents reads on until the channel is closed; writeStream returns with
\* the terminal event.
Collect(r) ==
  /\ ChatAt(r, "collect")
  /\ run[r].out # <<>>
  /\ LET got  == Append(chat[r].got, Head(run[r].out))
         ends == chat[r].stream /\ Head(run[r].out) \in TerminalEvents
     IN  /\ chat' = [chat EXCEPT ![r].got = got, ![r].pc = IF ends THEN "releasing" ELSE @,
                                 ![r].told = IF ends THEN Told(TRUE, got) ELSE @]
         /\ records' = IF ends THEN Completed(records, r, got) ELSE records
  /\ Take(r)
  /\ UNCHANGED <<server, limiter, lapsed, situation, facts, handoff, faults>>

\* The client of a stream is gone: the event cannot be written.
WriteFails(r) ==
  /\ ChatAt(r, "collect")
  /\ run[r].out # <<>>
  /\ chat[r].stream
  /\ Ends(r, Failed(records, r))
  /\ Take(r)
  /\ UNCHANGED <<server, limiter, lapsed, situation, facts, handoff, faults>>

\* The channel is closed; an empty stream counts as failed.  An ordinary response is
\* written from what was collected.
Closes(r) ==
  /\ ChatAt(r, "collect")
  /\ RunAt(r, "closed")
  /\ run[r].out = <<>>
  /\ records' = IF chat[r].stream /\ chat[r].got = <<>> THEN Failed(records, r) ELSE Completed(records, r, chat[r].got)
  /\ chat' = [chat EXCEPT ![r].pc = "releasing", ![r].told = Told(chat[r].stream, chat[r].got)]
  /\ UNCHANGED <<server, limiter, lapsed, situation, forwardVars>>

\* Mutant: what was collected so far is kept as the answer.
CtxDoneKeeps(r) ==
  /\ ChatAt(r, "collect")
  /\ run[r].pc \notin {"dispatch", "started", "reserved", "refused"}
  /\ ~ run[r].live
  /\ Ends(r, Completed(records, r, chat[r].got))
  /\ UNCHANGED <<server, limiter, lapsed, situation, forwardVars>>

\* The context is done first.
CtxDone(r) ==
  /\ ChatAt(r, "collect")
  /\ run[r].pc \notin {"dispatch", "started", "reserved", "refused"}
  /\ ~ run[r].live
  /\ Ends(r, Failed(records, r))
  /\ UNCHANGED <<server, limiter, lapsed, situation, forwardVars>>

\* The deferred calls: the lease is released, then the context is cancelled.
Leave(r) ==
  /\ ChatAt(r, "releasing")
  /\ limiter' = [limiter EXCEPT !.active = IF @ > 0 THEN @ - 1 ELSE 0]
  /\ Goes(r, "done")
  /\ Turns(r, [run[r] EXCEPT !.live = FALSE])
  /\ UNCHANGED <<server, records, lapsed, situation, facts, handoff, faults>>

-----------------------------------------------------------------------------
(* The surroundings.                                                             *)

\* The client goes away or the request times out.
Disconnect(r) ==
  /\ chat[r].pc \notin {"new", "done"}
  /\ run[r].live
  /\ Turns(r, [run[r] EXCEPT !.live = FALSE])
  /\ UNCHANGED <<chatVars, facts, handoff, faults>>

\* The time to live of a record passes.
RecordExpires ==
  /\ \E k \in Keys :
       /\ records[k].st # "none" /\ ~ records[k].late
       /\ records' = [records EXCEPT ![k].late = TRUE]
  /\ situation.expiries > 0
  /\ situation' = [situation EXCEPT !.expiries = @ - 1]
  /\ UNCHANGED <<server, limiter, chat, lapsed, forwardVars>>

BeginShutdown ==
  /\ server = "open"
  /\ situation.shutdown
  /\ server' = "draining"
  /\ UNCHANGED <<limiter, records, chat, lapsed, situation, forwardVars>>

\* Close drops the state of limiter and store, also when the server gave up waiting
\* for the handlers.
CloseHandler ==
  /\ server = "draining"
  /\ server' = "closed"
  /\ limiter' = NoRequests
  /\ records' = [k \in Keys |-> NoRecord]
  /\ UNCHANGED <<chat, lapsed, situation, forwardVars>>

HandlerNext ==
  \/ \E r \in Requests :
       \/ Arrive(r) \/ AcquireSlot(r) \/ Begin(r) \/ DispatchFails(r) \/ Collect(r) \/ WriteFails(r)
       \/ Closes(r) \/ CtxDone(r) \/ Leave(r) \/ Disconnect(r)
  \/ RecordExpires \/ BeginShutdown \/ CloseHandler

\* A start, with the requests of situation s.
ChatStart(s) ==
  /\ situation = s
  /\ run = [r \in Requests |-> [NoRun EXCEPT !.texts = s.texts, !.endings = s.endings]]
  /\ facts = {} /\ handoff = [i \in RequestIds |-> "none"] /\ faults = s.faults
  /\ server = "open" /\ limiter = NoRequests /\ records = [k \in Keys |-> NoRecord]
  /\ chat = [r \in Requests |-> NoChat] /\ lapsed = {}

ChatInit == \E s \in Situations : ChatStart(s)

ChatNext == HandlerNext \/ (ForwardNext /\ UNCHANGED chatVars)

ChatSpec == ChatInit /\ [][ChatNext]_<<chatVars, forwardVars>>

-----------------------------------------------------------------------------
(* Properties.                                                                   *)

\* The terminal events of the audit log that a request ID has.
OutcomeOf(i) == {t \in TerminalFacts : <<i, t>> \in facts}

\* The audit log says that the execution of q is completed, the handoff that it was a
\* success.
Recorded(q) == OutcomeOf(run[q].id) = {"completed"} /\ handoff[run[q].id] = "success"

\* A done event that says complete, be it replayed, is backed by the records: the audit
\* log says completed and the handoff says success (handleForwardRunnerEvent,
\* handleForwardStreamClosed).  A client that is answered complete without such an
\* event, because that is what finalChatResponse starts from, may still rely on the
\* records, unless a write failed or the handoff says canceled.
SuccessIsRecorded ==
  \A r \in Requests :
    LET q == chat[r].src
    IN  /\ "done" \in ToSet(run[r].out) => Recorded(r)
        /\ "done" \in ToSet(chat[r].got) => Recorded(q)
        /\ chat[r].told = "complete" => Recorded(q) \/ run[q].hit \/ handoff[run[q].id] = "canceled"

\* A client that still waits is not answered complete unless audit log and handoff
\* say so (audit-usage.md: an ordinary response must not return success before the
\* handoff is finalized, and no success appears when that fails).
AnswerIsRecorded ==
  \A r \in Requests : chat[r].told = "complete" /\ run[r].live => Recorded(chat[r].src)

\* The audit log knows at most one outcome of a request ID, and the handoff says success
\* only if that is completed, though both are written from several places and written
\* again after a failure (finalizeAudit, finalizeForward).  When an execution is over
\* and no write of it failed, audit log and handoff agree on the outcome, a cancelled
\* one included; but the handoff says canceled when the context was cancelled while
\* the last item, whose outcome the audit log has already, waited for room.
LedgersAgree ==
  /\ \A i \in RequestIds :
       Cardinality(OutcomeOf(i)) <= 1 /\ (handoff[i] = "success" => OutcomeOf(i) = {"completed"})
  /\ \A r \in Requests :
       RunAt(r, "closed") /\ ~ run[r].hit =>
         <<OutcomeOf(run[r].id), handoff[run[r].id]>> \in
           IF run[r].cut
           THEN {<<{"completed"}, "canceled">>, <<{"failed"}, "canceled">>}
           ELSE {<<{"completed"}, "success">>, <<{"failed"}, "failure">>, <<{"canceled"}, "canceled">>}

\* A request ID is run at most once, whatever keys its requests carry and however
\* the first one ended: the start of the second is refused by the audit log.
RequestIdRunsOnce ==
  \A r, q \in Requests : run[r].ran /\ run[q].ran /\ run[r].id = run[q].id => r = q

\* The executions of a key that somebody still waits for, and the requests of a key
\* whose pending record was pruned.
Overlapping(k) ==
  {r \in Requests : /\ chat[r].key = k /\ chat[r].pc = "collect" /\ run[r].live
                    /\ run[r].pc \notin {"refused", "closed"}}

LapsedFor(k) == {r \in lapsed : chat[r].key = k}

\* Executions of one key overlap only after a pending record of it was pruned, and by
\* one more for each such record, although the late Complete or Fail of a request
\* that lost its record ends the record of another one (Begin, Fail, pruneLocked).
OverlapNeedsLapse ==
  \A k \in Keys : Cardinality(Overlapping(k)) <= 1 + Cardinality(LapsedFor(k))

\* A stored answer is the whole answer of the execution it came from: it ends in a
\* terminal event, or the channel was read to its end (writeStream, Complete).
StoredIsWhole ==
  \A k \in Keys :
    LET rec == records[k]
    IN  rec.st = "completed" =>
          /\ rec.events = chat[rec.by].got
          /\ \/ rec.events # <<>> /\ Last(rec.events) \in TerminalEvents
             \/ RunAt(rec.by, "closed") /\ run[rec.by].out = <<>>

\* A request leaves nothing behind.  The limiter counts the requests in flight, across
\* windows, and never more than allowed (Acquire, Release).  A forward goroutine never
\* waits for room in a channel nobody reads: its handler still reads, is about to
\* cancel the context, or has cancelled it.
NothingLeaks ==
  /\ server # "closed" =>
       limiter.active = Cardinality({r \in Requests : Holds(r)}) /\ limiter.active <= situation.maxConcurrent
  /\ \A r \in Requests :
       run[r].pc \in DOMAIN ItemOf \union {"sendDone"} /\ Len(run[r].out) = ChannelSize =>
         chat[r].pc \in {"collect", "releasing"} \/ ~ run[r].live

=============================================================================
