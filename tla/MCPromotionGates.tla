--------------------------- MODULE MCPromotionGates ---------------------------
(***************************************************************************)
(* Values of PromotionGates's constants for the model checker: a candidate *)
(* the reference tables cover and one that is only replicated on its       *)
(* background; the suite of phase 12 and suites that fall short of it by   *)
(* one failure, one repeated attempt or one attempt that is not counted,   *)
(* one the schema rejects, and two where an attempt at one registered      *)
(* check is repeated in place of another check, once under an id of its    *)
(* own and once as the same attempt.                                       *)
(***************************************************************************)
EXTENDS PromotionGates, TLC

CONSTANTS covered, narrow, theta, d1, d2

TwoFamilies == (covered :> "lambda_cdm") @@ (narrow :> "background_only")

Repeated(attempt) == Append([Phase12Attempts EXCEPT ![4].counted = FALSE], attempt)

AnyDriver == Permutations({d1, d2})

SomeSuites ==
  {Phase12Attempts,
   [Phase12Attempts EXCEPT ![7].passed = FALSE],
   [Phase12Attempts EXCEPT ![12].id = 11],
   [Phase12Attempts EXCEPT ![4].counted = FALSE],
   [Phase12Attempts EXCEPT ![5].coded = TRUE],
   Repeated([Phase12Attempts[1] EXCEPT !.id = 13]),
   Repeated(Phase12Attempts[1])}
=============================================================================
