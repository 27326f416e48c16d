------------------------------ MODULE AppRegistry ------------------------------
(* What the Agent App repositories promise to the data plane, whatever database  *)
(* stands behind them: one step changes the App by one version; published        *)
(* revisions are never changed or taken back; the current and the canary         *)
(* revision are published ones, and a canary exists only beside a current one.   *)
EXTENDS Integers

VARIABLES app,        \* the App row: status, version, current and canary revision
          library     \* published revision -> content digest

vars == <<app, library>>

Moves == {<<"active", "suspended">>, <<"active", "disabled">>, <<"suspended", "active">>,
          <<"suspended", "disabled">>, <<"draft", "disabled">>}

Init ==
  /\ app.cur \in {0} \union DOMAIN library
  /\ app.can \in {0} \union DOMAIN library
  /\ app.st \in {"active", "suspended"} => app.cur # 0
  /\ app.can # 0 => app.can # app.cur /\ app.cur # 0

\* One more version, and nothing else than the named fields.
Becomes(st, cur, can) == app' = [app EXCEPT !.st = st, !.cur = cur, !.can = can, !.ver = @ + 1]

Create ==
  /\ app.st = "none"
  /\ Becomes("draft", 0, 0)
  /\ UNCHANGED library

Describe ==
  /\ app.st \notin {"none", "disabled"}
  /\ Becomes(app.st, app.cur, app.can)
  /\ UNCHANGED library

\* A draft becomes the current revision; the library only grows.
Publish ==
  /\ app.st \in {"draft", "active", "suspended"}
  /\ \E n \in DOMAIN library' \ DOMAIN library :
       /\ DOMAIN library' = DOMAIN library \union {n}
       /\ \A m \in DOMAIN library : library'[m] = library[m]
       /\ Becomes(IF app.st = "draft" THEN "active" ELSE app.st, n, 0)

Rollback ==
  /\ app.st \in {"active", "suspended"}
  /\ \E n \in DOMAIN library \ {app.cur} : Becomes(app.st, n, 0)
  /\ UNCHANGED library

SetCanary ==
  /\ app.st = "active"
  /\ \E n \in ({0} \union DOMAIN library) \ {app.cur, app.can} : Becomes(app.st, app.cur, n)
  /\ UNCHANGED library

Transition ==
  /\ \E st \in {"active", "suspended", "disabled"} :
       /\ <<app.st, st>> \in Moves
       /\ Becomes(st, app.cur, app.can)
  /\ UNCHANGED library

Next ==
  /\ app'.ver = app.ver + 1
  /\ Create \/ Describe \/ Publish \/ Rollback \/ SetCanary \/ Transition

Spec == Init /\ [][Next]_vars

=============================================================================
