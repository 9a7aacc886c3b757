---------------------------- MODULE PromotionRule ----------------------------
(***************************************************************************)
(* What policy.PROMOTION_REQUIREMENTS promises of a stable internal        *)
(* candidate, whoever promotes it and however often its checks are run:    *)
(* it was replicated, replicated in a broad enough scope, and passed the   *)
(* registered adversarial gate after it had been replicated.               *)
(***************************************************************************)
CONSTANT Candidates

VARIABLES
  earned,  \* what each candidate has shown so far
  stable   \* the candidates in the stable registry

Credits == {"replicated", "broad", "validated"}

Init ==
  /\ earned = [c \in Candidates |-> {}]
  /\ stable = {}

Replicate(c) ==
  /\ \E gained \in {{"replicated"}, {"replicated", "broad"}} :
       earned' = [earned EXCEPT ![c] = @ \cup gained]
  /\ UNCHANGED stable

Validate(c) ==
  /\ "replicated" \in earned[c]
  /\ earned' = [earned EXCEPT ![c] = @ \cup {"validated"}]
  /\ UNCHANGED stable

Promote(c) ==
  /\ earned[c] = Credits
  /\ stable' = stable \cup {c}
  /\ UNCHANGED earned

Next == \E c \in Candidates : Replicate(c) \/ Validate(c) \/ Promote(c)

Spec == Init /\ [][Next]_<<earned, stable>>
=============================================================================
