------------------------- MODULE MCRunnerRegistry -------------------------
(* Three keys for two slots, two callers, two Runners to be made. *)
EXTENDS RunnerRegistry

===========================================================================
