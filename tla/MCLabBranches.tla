---------------------------- MODULE MCLabBranches ----------------------------
(***************************************************************************)
(* The two operations of runners/tuning.py for the model checker.  They    *)
(* share no state, so the specification is not the product of the two: the *)
(* calls of evaluate go on before any process has opened the store.        *)
(* LabBranches has a first script of two tables (so one can be cut in      *)
(* half) and a second of one.                                              *)
(***************************************************************************)
EXTENDS LabBranches, GeneratorHealth, TLC

TwoScripts == <<<<"hypotheses", "hypothesis_edges">>, <<"generator_health">>>>
AnyHypothesis == Permutations(Hypotheses)
AnyProcess == Permutations(Workers)
AnyName == AnyHypothesis \cup AnyProcess

TuningInit == Init /\ InitCalls

TuningNext ==
  \/ Next /\ InitCalls /\ UNCHANGED l2_passes
  \/ NextCall /\ UNCHANGED vars /\ Init

TuningSpec == TuningInit /\ [][TuningNext]_<<vars, l2_passes>>
=============================================================================
