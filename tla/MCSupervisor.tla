---- MODULE MCSupervisor ----
(***************************************************************************)
(* Values of Supervisor's constants for the model checker.  _refresh_      *)
(* integrations stops at the first missing dependency, so a launch sees    *)
(* everything it can see with nothing missing or one thing missing.        *)
(***************************************************************************)
EXTENDS Supervisor, TLC

AllEnvironments == Environments

(* A launch that runs the loop and monitors, and a dry run of one cycle. *)
SomeEnvironments ==
  {[loop |-> TRUE, dry |-> FALSE, overTokens |-> FALSE],
   [loop |-> TRUE, dry |-> TRUE, overTokens |-> FALSE]}

DefaultEnvironment == {[loop |-> TRUE, dry |-> FALSE, overTokens |-> FALSE]}

(* A launch with HT_LAB_DISABLE_AUTONOMOUS_LOOP=1: it goes straight to the
   monitor. *)
NoLoopEnvironment == {[loop |-> FALSE, dry |-> FALSE, overTokens |-> FALSE]}

OneMissing == {{}} \cup {{d} : d \in Dependencies}

NothingMissing == {{}}

Symmetric == Permutations(Launchers)
====
