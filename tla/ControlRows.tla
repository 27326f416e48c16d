------------------------------ MODULE ControlRows ------------------------------
(* What the control-plane repositories have in common.  A repository operation  *)
(* is a function of the rows it sees (a view) and of the request: it yields the  *)
(* set of the views it may leave behind, the empty set when it refuses.  Rows    *)
(* carry the optimistic version `ver` and the status `st`; a row that does not   *)
(* exist has status "none".                                                      *)
EXTENDS Integers, Sequences, FiniteSets, TLC

CONSTANT Nothing     \* a configuration or a digest that is not there

Only(guard, results) == IF guard THEN results ELSE {}

When(guard, result) == Only(guard, {result})

\* One view for each row that may be stored.
Put(v, row, rows) == {[v EXCEPT ![row] = r] : r \in rows}

\* SELECT ... FOR UPDATE and SELECT ... FOR SHARE.
Own(row) == <<row, "update">>

Share(row) == <<row, "share">>

\* Two sessions cannot hold a row together unless both only share it.
LockClash(mine, theirs) == mine[1] = theirs[1] /\ "update" \in {mine[2], theirs[2]}

\* Mutant: the expected version is not compared.
MutableAnyVersion(row, ver) == row.st \notin {"none", "disabled"}

\* The row exists, is not disabled and has the version the request expects.
Mutable(row, ver) == row.st \notin {"none", "disabled"} /\ row.ver = ver

\* Status changes of tenants, model profiles and backend profiles.
StatusMoves == {<<"active", "suspended">>, <<"active", "disabled">>,
                <<"suspended", "active">>, <<"suspended", "disabled">>}

Restated(row, next) == [row EXCEPT !.st = next, !.ver = @ + 1]

=============================================================================
