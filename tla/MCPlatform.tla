------------------------------ MODULE MCPlatform -------------------------------
EXTENDS MCControlPlane, MCHttpChat, Platform

CONSTANTS x, y

MCNoScene == Scene({"memory"}, {}, NoRows, 0, 0, 0, 0)

-----------------------------------------------------------------------------

Calls == {"begin", "copy", "catchup", "cutover", "rollback"}

Migration(changes, stored, known, writes, calls, ops) ==
  [log |-> changes, sink |-> stored, tool |-> known, left |-> [writes |-> writes, calls |-> calls, ops |-> ops]]

Nowhere == [k \in Records |-> 0]

MCNoMigration == Migration(<<>>, Nowhere, NoTool, 0, 0, {})

\* From the beginning; and from where a record is copied and caught up.
MCMigrations ==
  {Migration(<<>>, Nowhere, NoTool, 2, 4, Calls),
   Migration(<<x>>, [Nowhere EXCEPT ![x] = 1], [barrier |-> 0, copied |-> TRUE, caughtUp |-> TRUE, cutover |-> "none"],
             1, 3, Calls \ {"begin"})}

=============================================================================
