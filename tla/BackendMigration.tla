--------------------------- MODULE BackendMigration ----------------------------
(* Moving the records of one tenant to another backend (runtime/migration): the  *)
(* phases of Tool with the adapters of memory.go, called by several operators    *)
(* while clients write to the backend the router names.  A record is a key with  *)
(* the version of its last write; the versions of the source are the positions   *)
(* of its change log.                                                            *)
EXTENDS Integers, Sequences, FiniteSets

CONSTANTS Operators,    \* the callers of Tool
          Records,      \* record keys
          Migrations,   \* where a migration may stand at first, and the bounds of what follows
          Fresh           \* version of a record written to the destination only

VARIABLES log,        \* source: the key of every change
          sink,       \* destination: the version of every key, 0 if there is none
          router,     \* the backend the tenant uses
          tool,       \* what Tool remembers of the tenant
          task,       \* the call of each operator
          left,       \* bounds: writes and calls still to come
          latest,     \* the last write of each key that a client made; not program state
          raced       \* a write or an Apply met a switch; not program state

migrationVars == <<log, sink, router, tool, task, left, latest, raced>>

Newest(positions) == IF positions = {} THEN 0 ELSE CHOOSE n \in positions : \A m \in positions : m <= n

\* The records of the source: for every key the version of its last change.
SourceRecords == [k \in Records |-> Newest({n \in DOMAIN log : log[n] = k})]

NoBarrier == -1

NoTool == [barrier |-> NoBarrier, copied |-> FALSE, caughtUp |-> FALSE, cutover |-> "none"]

\* `batch`: for every key the versions the call is about to apply.
NoTask == [pc |-> "idle", op |-> "none", mark |-> 0, batch |-> [k \in Records |-> {}],
           seen |-> [k \in Records |-> 0]]

Tasks(p, next) == task' = [task EXCEPT ![p] = next]

TaskAt(p, pc) == task[p].pc = pc

\* Between the look at the source and the switch.
Switching(p) == task[p].op \in {"cutover", "rollback"} /\ task[p].pc \in {"compare", "current", "set"}

-----------------------------------------------------------------------------
(* The calls.  Each step is one call of an adapter or one critical section of    *)
(* Tool's mutex.                                                                 *)

FirstStep ==
  [begin |-> "watermark", copy |-> "snapshot", catchup |-> "changes", cutover |-> "validate", rollback |-> "validate"]

\* What a call needs to know before its first step.
Prepared(op) ==
  CASE op = "begin" -> TRUE
    [] op = "copy" -> tool.barrier # NoBarrier
    [] op = "catchup" -> tool.barrier # NoBarrier /\ tool.copied
    [] op = "cutover" -> tool.barrier # NoBarrier /\ tool.copied /\ tool.caughtUp
    [] op = "rollback" -> tool.cutover = "source"

Call(p) ==
  /\ TaskAt(p, "idle")
  /\ left.calls > 0
  /\ \E op \in left.ops :
       /\ Prepared(op)
       /\ Tasks(p, [NoTask EXCEPT !.pc = FirstStep[op], !.op = op, !.mark = tool.barrier])
  /\ left' = [left EXCEPT !.calls = @ - 1]
  /\ UNCHANGED <<log, sink, router, tool, latest, raced>>

\* An adapter fails before it did anything, or the context is done.
CallFails(p) ==
  /\ task[p].pc \notin {"idle", "restart", "applied", "remember"}
  /\ Tasks(p, NoTask)
  /\ UNCHANGED <<log, sink, router, tool, left, latest, raced>>

\* BeginDualWrite answers the watermark of the source.
ReadWatermark(p) ==
  /\ TaskAt(p, "watermark")
  /\ Tasks(p, [task[p] EXCEPT !.pc = "restart", !.mark = Len(log)])
  /\ UNCHANGED <<log, sink, router, tool, left, latest, raced>>

\* Begin forgets the cutover, and with it the way back.
BeginDualWrite(p) ==
  /\ TaskAt(p, "restart")
  /\ tool' = [NoTool EXCEPT !.barrier = task[p].mark]
  /\ Tasks(p, NoTask)
  /\ UNCHANGED <<log, sink, router, left, latest, raced>>

\* Copy reads a snapshot; its watermark is never below the barrier.
CopySnapshot(p) ==
  /\ TaskAt(p, "snapshot")
  /\ Len(log) >= task[p].mark
  /\ Tasks(p, [task[p] EXCEPT !.pc = "apply", !.batch = [k \in Records |-> {SourceRecords[k]} \ {0}]])
  /\ UNCHANGED <<log, sink, router, tool, left, latest, raced>>

\* CatchUp reads the changes after the barrier of its start.
ReadChanges(p) ==
  /\ TaskAt(p, "changes")
  /\ Tasks(p, [task[p] EXCEPT !.pc = "apply",
                 !.batch = [k \in Records |-> {n \in DOMAIN log : n > task[p].mark /\ log[n] = k}]])
  /\ UNCHANGED <<log, sink, router, tool, left, latest, raced>>

\* normalizeRecords sorts by key with an unstable sort, so any change of a key may
\* come last; Apply overwrites what is there.  A failed Apply may have stored some.
Apply(p) ==
  /\ TaskAt(p, "apply")
  /\ \E stored \in {[k \in Records |-> IF k \in some THEN task[p].batch[k] ELSE {}] : some \in SUBSET Records} :
       /\ sink' \in {s \in [Records -> {Fresh} \union 0 .. Len(log)] :
                       \A k \in Records : IF stored[k] = {} THEN s[k] = sink[k] ELSE s[k] \in stored[k]}
       /\ Tasks(p, IF stored = task[p].batch THEN [task[p] EXCEPT !.pc = "applied"] ELSE NoTask)
  /\ raced' = (raced \/ router = "destination" \/ \E q \in Operators \ {p} : Switching(q))
  /\ UNCHANGED <<log, router, tool, left, latest>>

Applied(p) ==
  /\ TaskAt(p, "applied")
  /\ tool' = IF task[p].op = "copy" THEN [tool EXCEPT !.copied = TRUE, !.caughtUp = FALSE]
                                    ELSE [tool EXCEPT !.caughtUp = TRUE]
  /\ Tasks(p, NoTask)
  /\ UNCHANGED <<log, sink, router, left, latest, raced>>

\* Validate takes two snapshots, one after the other ...
ValidateSource(p) ==
  /\ TaskAt(p, "validate")
  /\ Tasks(p, [task[p] EXCEPT !.pc = "compare", !.seen = SourceRecords])
  /\ UNCHANGED <<log, sink, router, tool, left, latest, raced>>

\* Mutant: only the number of records is compared.
SameRecordsByCount(source, destination) ==
  {k \in Records : source[k] # 0} = {k \in Records : destination[k] # 0}

\* ... and compares number and digest of the records.
SameRecords(source, destination) == source = destination

ValidateDestination(p) ==
  /\ TaskAt(p, "compare")
  /\ Tasks(p, CASE ~ SameRecords(task[p].seen, sink) -> NoTask
                [] SameRecords(task[p].seen, sink) /\ task[p].op = "cutover" -> [task[p] EXCEPT !.pc = "current"]
                [] OTHER -> [task[p] EXCEPT !.pc = "set"])
  /\ UNCHANGED <<log, sink, router, tool, left, latest, raced>>

\* Cutover of a tenant that uses the destination already changes nothing.
ReadRouter(p) ==
  /\ TaskAt(p, "current")
  /\ Tasks(p, IF router = "destination" THEN NoTask ELSE [task[p] EXCEPT !.pc = "set"])
  /\ UNCHANGED <<log, sink, router, tool, left, latest, raced>>

SetRouter(p) ==
  /\ TaskAt(p, "set")
  /\ IF task[p].op = "cutover"
     THEN router' = "destination" /\ Tasks(p, [task[p] EXCEPT !.pc = "remember"])
     ELSE router' = "source" /\ Tasks(p, NoTask)
  /\ UNCHANGED <<log, sink, tool, left, latest, raced>>

RememberCutover(p) ==
  /\ TaskAt(p, "remember")
  /\ tool' = [tool EXCEPT !.cutover = "source"]
  /\ Tasks(p, NoTask)
  /\ UNCHANGED <<log, sink, router, left, latest, raced>>

-----------------------------------------------------------------------------
(* The clients, and the process of the operators.                                *)

\* A client writes to the backend the tenant uses; only the source keeps a log.
ClientWrites ==
  /\ left.writes > 0
  /\ \E k \in Records :
       IF router = "source"
       THEN /\ log' = Append(log, k)
            /\ latest' = [latest EXCEPT ![k] = Len(log) + 1]
            /\ UNCHANGED sink
       ELSE /\ sink' = [sink EXCEPT ![k] = Fresh]
            /\ latest' = [latest EXCEPT ![k] = Fresh]
            /\ UNCHANGED log
  /\ left' = [left EXCEPT !.writes = @ - 1]
  /\ raced' = (raced \/ \E p \in Operators : Switching(p))
  /\ UNCHANGED <<router, tool, task>>

MigrationNext ==
  \/ \E p \in Operators :
       \/ Call(p) \/ CallFails(p) \/ ReadWatermark(p) \/ BeginDualWrite(p) \/ CopySnapshot(p) \/ ReadChanges(p)
       \/ Apply(p) \/ Applied(p) \/ ValidateSource(p) \/ ValidateDestination(p) \/ ReadRouter(p)
       \/ SetRouter(p) \/ RememberCutover(p)
  \/ ClientWrites

-----------------------------------------------------------------------------
(* Properties.                                                                   *)

\* Whatever phases are called, repeated, aborted and interleaved, the backend the
\* tenant uses has the last write of every key; only a write or an Apply that meets
\* a switch, or a copy after it, can cost one (Validate, Cutover, Rollback).
OnlyRacesLose ==
  ~ raced => (IF router = "source" THEN SourceRecords ELSE sink) = latest

=============================================================================
