------------------------------ MODULE MCHttpChat -------------------------------
EXTENDS HttpChat, TLC

CONSTANTS r1, r2, k1, k2, i1, i2

Situation(asks, maxConcurrent, maxEntries, expirations, shutdown, most, endings, failures) ==
  [asks |-> asks, maxConcurrent |-> maxConcurrent, maxEntries |-> maxEntries, expiries |-> expirations,
   shutdown |-> shutdown, texts |-> most, endings |-> endings, faults |-> failures]

MCNoSituation == Situation(<<>>, 1, 1, 0, FALSE, 0, {}, 0)

Endings == {"lastText", "handoff", "error", "close"}

Ask(key, id, streams) == [key |-> key, id |-> id, streams |-> streams]

\* A request alone, with failing writes and a shutdown; a key used twice, with
\* different request IDs; a request repeated; two keys with one request ID; a store
\* with room for one of two keys.
MCSituations ==
  {Situation(r1 :> Ask(k1, i1, BOOLEAN), 1, 1, 0, TRUE, 1, Endings, 2),
   Situation(r1 :> Ask(k1, i1, {FALSE}) @@ r2 :> Ask(k1, i2, {TRUE}), 2, 1, 1, FALSE, 0, {"close"}, 0),
   Situation(r1 :> Ask(k1, i1, {TRUE}) @@ r2 :> Ask(k1, i1, {FALSE}), 1, 1, 0, FALSE, 1, {"lastText", "close"}, 1),
   Situation(r1 :> Ask(k1, i1, {FALSE}) @@ r2 :> Ask(k2, i1, {FALSE}), 2, 2, 0, FALSE, 1, Endings, 0),
   Situation(r1 :> Ask(k1, i1, {TRUE}) @@ r2 :> Ask(k2, i2, {TRUE}), 2, 1, 1, FALSE, 0, {"handoff"}, 0)}

\* One ordinary request, one write that fails.
MCOneRequest == {Situation(r1 :> Ask(k1, i1, {FALSE}), 1, 1, 0, FALSE, 1, Endings, 1)}

=============================================================================
