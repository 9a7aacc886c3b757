---------------------------- MODULE GeneratorHealth ----------------------------
(***************************************************************************)
(* GeneratorHealthTracker.evaluate of runners/tuning.py: the status of a   *)
(* generator is a function of the list of its L2 outcomes, oldest first,   *)
(* that the caller passes.  evaluate keeps nothing, and nothing else in    *)
(* src/ keeps outcomes between two calls: the list below belongs to the    *)
(* caller, which makes up any list of outcomes one outcome at a time.      *)
(* Every state is one call, every step two calls whose lists differ by the *)
(* newest outcome.                                                         *)
(***************************************************************************)
EXTENDS Naturals, Sequences, FiniteSets

CONSTANTS
  Window,      \* GENERATOR_QUARANTINE_WINDOW
  MaxOutcomes  \* bound on the length of the list

ASSUME WindowAssumption == Window \in Nat \ {0}

VARIABLE l2_passes  \* the argument: whether each candidate passed level L2

(* The positions of the last Window outcomes: l2_passes[-Window:]. *)
MutRecentFirst(s) == {i \in DOMAIN s : i <= Window}
Recent(s) == {i \in DOMAIN s : i + Window > Len(s)}
RecentPasses(s) == {i \in Recent(s) : s[i]}

(* A generator is quarantined when less than half of the outcomes in the   *)
(* window passed; with no outcomes at all it is healthy.                   *)
MutStatusOverWindow(s) ==
  IF s # <<>> /\ 2 * Cardinality(RecentPasses(s)) < Window
  THEN "generator_quarantine" ELSE "healthy"
Status(s) ==
  IF 2 * Cardinality(RecentPasses(s)) < Cardinality(Recent(s))
  THEN "generator_quarantine" ELSE "healthy"

InitCalls == l2_passes = <<>>

Outcome(passed) ==
  /\ Len(l2_passes) < MaxOutcomes
  /\ l2_passes' = Append(l2_passes, passed)

(* The next list. *)
Another ==
  /\ Len(l2_passes) = MaxOutcomes
  /\ l2_passes' = <<>>

NextCall == Another \/ \E passed \in BOOLEAN : Outcome(passed)

Calls == InitCalls /\ [][NextCall]_l2_passes

-----------------------------------------------------------------------------
(* Properties *)

(* One outcome more puts a generator into quarantine only if it failed and *)
(* takes it out only if it passed, also where the window slides and the    *)
(* outcome that drops out counts the other way (tuning.py: evaluate).      *)
OutcomeMovesHealthItsWay ==
  [][\A passed \in BOOLEAN : Outcome(passed) =>
       Status(l2_passes') \in
         {Status(l2_passes), IF passed THEN "healthy" ELSE "generator_quarantine"}]_l2_passes

(* Whether the k newest outcomes are all the same. *)
Streak(s, k, passed) == \A i \in DOMAIN s : i + k > Len(s) => s[i] = passed

(* No past is held against a generator for ever, and none protects it: as  *)
(* many passes in a row as make half the window clear it, whatever went    *)
(* before, and more failures in a row than that condemn it (tuning.py:     *)
(* evaluate).                                                              *)
StreakDecidesHealth ==
  \A k \in 1..Len(l2_passes) :
    /\ 2 * k >= Window /\ Streak(l2_passes, k, TRUE) => Status(l2_passes) = "healthy"
    /\ 2 * k > Window /\ Streak(l2_passes, k, FALSE) => Status(l2_passes) = "generator_quarantine"
=============================================================================
