--------------------------- MODULE MCExternalStatus ---------------------------
(***************************************************************************)
(* Values of ExternalStatus's constants for the model checker: two reports *)
(* of one candidate.  Support and a refutation can be cited for the first, *)
(* so its verdict can be overtaken while a worker carries it; a remark     *)
(* takes the second from "not_submitted" to "unchecked", and with it the   *)
(* registry entry both reports share.                                      *)
(***************************************************************************)
EXTENDS ExternalStatus, TLC

CONSTANTS r1, r2, c1, remark, support, refutation

SameCandidate == (r1 :> c1) @@ (r2 :> c1)
FirstStatuses == (r1 :> "unchecked") @@ (r2 :> "not_submitted")
Relation ==
  (remark :> "context") @@ (support :> "independent_support") @@ (refutation :> "refutes")
Citations == (r1 :> {support, refutation}) @@ (r2 :> {remark})
=============================================================================
