---------------------------- MODULE PromotionGates ----------------------------
(***************************************************************************)
(* From a promising candidate to the stable registry: the replication      *)
(* queue and reviewer (replication/independent.py, compressed_obs/), the   *)
(* adversarial queue and registered gate (adversarial/checks.py), the      *)
(* validators of their reports (schemas/), the policy that guards the      *)
(* promotion (policy.py) and the tables they write (state/store.py).       *)
(*                                                                         *)
(* src/ has the calls and no caller: a driver here makes them in the order *)
(* the queues ask for and copies each result into the candidate record it  *)
(* carries, as the tests do.  Every store method is one transaction and    *)
(* one action; several drivers may work on a candidate, die between two    *)
(* transactions and begin again.                                           *)
(***************************************************************************)
EXTENDS Naturals, Sequences, FiniteSets

CONSTANTS
  Drivers,
  Candidates,
  FamilyOf,     \* the candidate's model family, case-folded
  Screened,     \* the candidates with at least one passed dataset
  Observables,  \* the observables of a reference table
  Suites,       \* the sequences of adversarial attempts a driver may run
  NoRow,        \* no such row
  NoReport,     \* no compressed-observable report was made
  MaxBegins     \* bound on how often a driver takes up a candidate

BackgroundOnlyFamilies == {"background_only", "phenomenological_background"}
CmbCompressedFamilies ==
  {"lambda_cdm", "lambdacdm", "early_dark_energy", "ede", "axi_ede", "axion_ede"}
RecombinationFamilies ==
  {"recombination_history", "recombination_model", "hyrec_recombination"}
Families ==
  BackgroundOnlyFamilies \cup CmbCompressedFamilies \cup RecombinationFamilies \cup {"other"}

ReplicationStatuses ==
  {"not_run", "passed_independent_path", "failed_independent_path", "unreplicated_timeout"}
Scopes == {"not_recorded", "background_only", "compressed_observable"}
AdversarialStatuses ==
  {"not_run", "passed_registered_gate", "failed_registered_gate",
   "inconclusive_adversarial_budget"}
CandidateStatuses ==
  {"promising_internal", "adversarial_validation", "stable_internal_candidate"}

ASSUME ConstantsAssumption ==
  /\ FamilyOf \in [Candidates -> Families]
  /\ Screened \subseteq Candidates
  /\ MaxBegins \in Nat

-----------------------------------------------------------------------------
(* The independent replication of a candidate. *)

(* compare_cmb_perturbations and compare_recombination_history: a missing  *)
(* observable outweighs one out of tolerance.                              *)
Measurements == [Observables -> {"close", "far", "missing"}]
TableStatus(measured) ==
  IF \E o \in Observables : measured[o] = "missing" THEN "missing_observable"
  ELSE IF \E o \in Observables : measured[o] = "far" THEN "failed_reference_table"
  ELSE "passed_reference_table"

(* CompressedObservableReport.passed: an empty comparison passes nothing. *)
TablePassed(measured) ==
  /\ measured # NoReport
  /\ TableStatus(measured) = "passed_reference_table"
  /\ \E o \in Observables : measured[o] = "close"

ReplicationReport(status, scope) == [status |-> status, scope |-> scope]

(* IndependentReplicationReviewer.evaluate; the validator of               *)
(* ReplicationReport agrees with every report it builds.                   *)
MutReviewOneScope(family, cmb, recombination, timedOut) ==
  IF timedOut THEN ReplicationReport("unreplicated_timeout", "not_recorded")
  ELSE IF family \in BackgroundOnlyFamilies \/ TablePassed(cmb) \/ TablePassed(recombination) THEN
    ReplicationReport("passed_independent_path", "compressed_observable")
  ELSE ReplicationReport("failed_independent_path", "not_recorded")
Review(family, cmb, recombination, timedOut) ==
  LET required == IF family \in CmbCompressedFamilies THEN cmb ELSE recombination IN
  IF timedOut THEN ReplicationReport("unreplicated_timeout", "not_recorded")
  ELSE IF family \in BackgroundOnlyFamilies THEN
    ReplicationReport("passed_independent_path", "background_only")
  ELSE IF family \in CmbCompressedFamilies \cup RecombinationFamilies /\ TablePassed(required) THEN
    ReplicationReport("passed_independent_path", "compressed_observable")
  ELSE ReplicationReport("failed_independent_path", "not_recorded")

-----------------------------------------------------------------------------
(* The registered adversarial gate. *)

RegisteredChecks ==
  {"StricterToleranceRerun", "OutOfPriorAudit", "LikelihoodCrashAudit", "AlternateDatasetSplit"}

(* An attempt: its id, its check and check type, whether it passed, counts *)
(* and claims to be a code-defined check.                                  *)
Counted(attempts) == {i \in DOMAIN attempts : attempts[i].counted}
DistinctAttempts(attempts) == Cardinality({attempts[i].id : i \in Counted(attempts)})
CheckTypes(attempts) == Cardinality({attempts[i].type : i \in Counted(attempts)})
Preregistered(attempts) ==
  Cardinality({i \in Counted(attempts) :
                 attempts[i].coded /\ attempts[i].check \in RegisteredChecks})

MinDistinctAttempts == 12
MinRequiredCheckTypes == 5
MinRegisteredChecks == 4

(* evaluate_adversarial_gate. *)
GateStatus(attempts, exhausted) ==
  IF exhausted THEN "inconclusive_adversarial_budget"
  ELSE IF /\ DistinctAttempts(attempts) >= MinDistinctAttempts
          /\ CheckTypes(attempts) >= MinRequiredCheckTypes
          /\ Preregistered(attempts) >= MinRegisteredChecks
          /\ \A i \in Counted(attempts) : attempts[i].passed
  THEN "passed_registered_gate"
  ELSE "failed_registered_gate"

(* AdversarialValidationReport's validator: what it rejects of the reports *)
(* the gate builds.                                                        *)
ValidAttempts(attempts) ==
  \A i \in Counted(attempts) : attempts[i].coded => attempts[i].check \in RegisteredChecks

(* phase12_registered_gate_attempts: the registered checks and eight more. *)
Phase12Specs ==
  <<<<"StricterToleranceRerun", "stricter_tolerance_rerun">>,
    <<"OutOfPriorAudit", "out_of_prior_audit">>,
    <<"LikelihoodCrashAudit", "likelihood_crash_audit">>,
    <<"AlternateDatasetSplit", "alternate_dataset_split">>,
    <<"calibration-suite-l3", "calibration_suite_rerun">>,
    <<"known-bad-calibration-suite", "calibration_suite_rerun">>,
    <<"nan-neutral-score-probe", "neutral_score_audit">>,
    <<"malformed-neutral-score-probe", "neutral_score_audit">>,
    <<"local-corpus-refutation-search", "prior_art_refutation_search">>,
    <<"arxiv-refutation-search", "prior_art_refutation_search">>,
    <<"l7-half-tolerance-replay", "stricter_tolerance_rerun">>,
    <<"published-alternate-split-replay", "alternate_dataset_split">>>>
Phase12Attempts ==
  [i \in DOMAIN Phase12Specs |->
     [id |-> i, check |-> Phase12Specs[i][1], type |-> Phase12Specs[i][2],
      passed |-> TRUE, counted |-> TRUE, coded |-> i <= 4]]

-----------------------------------------------------------------------------
VARIABLES
  replicationQueue,    \* candidates with a row in replication_queue
  replication,         \* replication_reports, one row per candidate
  adversarialQueue,    \* candidates with a row in adversarial_queue
  adversarial,         \* adversarial_reports, one row per candidate
  reports,             \* reports: the adversarial candidate report
  registry,            \* stable_candidate_registry
  rows,                \* candidates
  pc, at, record, finding,  \* a driver: where it is, its candidate, the record
                            \* it carries, the adversarial report it has made
  begins,              \* how often a candidate was taken up
  earned,              \* history: what each candidate has ever shown
  again                \* history: the candidates whose replication or
                       \* adversarial report has been recorded over

tables == <<replicationQueue, replication, adversarialQueue, adversarial, reports, registry, rows>>
driver == <<pc, at, record, finding, begins>>
history == <<earned, again>>
vars == <<tables, driver, history>>

(* A candidate record as the screening levels leave it. *)
Discovered ==
  [status |-> "promising_internal", replication |-> "not_run",
   scope |-> "not_recorded", adversarial |-> "not_run"]

Records ==
  [status : CandidateStatuses, replication : ReplicationStatuses,
   scope : Scopes, adversarial : AdversarialStatuses]
Replications == [status : ReplicationStatuses, scope : Scopes]
Verdicts == [status : AdversarialStatuses, replication : ReplicationStatuses, scope : Scopes]

ASSUME NoRowAssumption == NoRow \notin Candidates \cup Records \cup Replications \cup Verdicts

Init ==
  /\ replicationQueue = {}
  /\ replication = [c \in Candidates |-> NoRow]
  /\ adversarialQueue = {}
  /\ adversarial = [c \in Candidates |-> NoRow]
  /\ reports = [c \in Candidates |-> NoRow]
  /\ registry = [c \in Candidates |-> NoRow]
  /\ rows = [c \in Candidates |-> NoRow]
  /\ pc = [d \in Drivers |-> "idle"]
  /\ at = [d \in Drivers |-> NoRow]
  /\ record = [d \in Drivers |-> Discovered]
  /\ finding = [d \in Drivers |-> NoRow]
  /\ begins = 0
  /\ earned = [c \in Candidates |-> {}]
  /\ again = {}

Goto(d, place) == pc' = [pc EXCEPT ![d] = place]

BroadScopes == {"compressed_observable", "full_supported_family"}

(* policy.can_promote_to for the two targets that are asked for. *)
CanPromoteToAdversarial(c, rec) ==
  rec.replication = "passed_independent_path" /\ c \in Screened
PassedConfiguredGates(rec) ==
  /\ rec.status = "stable_internal_candidate"
  /\ rec.replication = "passed_independent_path"
  /\ rec.scope \in BroadScopes
  /\ rec.adversarial = "passed_registered_gate"

(* build_replication_queue and build_adversarial_queue list a candidate. *)
WantsReplication(rec) ==
  /\ rec.replication # "passed_independent_path"
  /\ rec.status \in {"promising_internal", "adversarial_validation"}
WantsAdversarial(c, rec) ==
  rec.adversarial # "passed_registered_gate" /\ CanPromoteToAdversarial(c, rec)

(* StableCandidateRegistryEntry's validator, for an entry that claims the  *)
(* stable status.                                                          *)
MutValidEntryAnyScope(c, rec, verdict) ==
  /\ rec.replication = "passed_independent_path"
  /\ verdict.status = "passed_registered_gate"
  /\ c \in Screened
ValidEntry(c, rec, verdict) ==
  /\ rec.replication = "passed_independent_path"
  /\ rec.scope \in BroadScopes
  /\ verdict.status = "passed_registered_gate"
  /\ c \in Screened

-----------------------------------------------------------------------------
(* The driver takes up a candidate: from its row if it was stored, else    *)
(* from the record the screening left.                                     *)
Begin(d, c) ==
  /\ pc[d] = "idle"
  /\ begins < MaxBegins
  /\ begins' = begins + 1
  /\ at' = [at EXCEPT ![d] = c]
  /\ record' = [record EXCEPT ![d] = IF rows[c] = NoRow THEN Discovered ELSE rows[c]]
  /\ Goto(d, "ready")
  /\ UNCHANGED <<tables, finding, history>>

(* enqueue_replication: an upsert that queues a decided candidate again. *)
EnqueueReplication(d) ==
  /\ pc[d] = "ready"
  /\ WantsReplication(record[d])
  /\ replicationQueue' = replicationQueue \cup {at[d]}
  /\ Goto(d, "replicate")
  /\ UNCHANGED <<replication, adversarialQueue, adversarial, reports, registry, rows,
                 at, record, finding, begins, history>>

(* Review and record_replication_report: an upsert, so a later attempt     *)
(* overwrites an earlier one.  The driver copies the outcome.              *)
Replicate(d) ==
  LET c == at[d] IN
  /\ pc[d] = "replicate"
  /\ \E cmb, recombination \in Measurements \cup {NoReport}, timedOut \in BOOLEAN :
       LET report == Review(FamilyOf[c], cmb, recombination, timedOut) IN
       /\ replication' = [replication EXCEPT ![c] = report]
       /\ record' = [record EXCEPT ![d].replication = report.status,
                                   ![d].scope = report.scope]
       /\ earned' = [earned EXCEPT ![c] = @ \cup
            (IF report.status = "passed_independent_path" THEN {"replicated"} ELSE {}) \cup
            (IF report.scope \in BroadScopes THEN {"broad"} ELSE {})]
  /\ again' = IF replication[c] = NoRow THEN again ELSE again \cup {c}
  /\ Goto(d, "ready")
  /\ UNCHANGED <<replicationQueue, adversarialQueue, adversarial, reports, registry, rows,
                 at, finding, begins>>

(* enqueue_adversarial; the candidate may call itself adversarial now. *)
EnqueueAdversarial(d) ==
  /\ pc[d] = "ready"
  /\ WantsAdversarial(at[d], record[d])
  /\ adversarialQueue' = adversarialQueue \cup {at[d]}
  /\ record' = [record EXCEPT ![d].status = "adversarial_validation"]
  /\ Goto(d, "attack")
  /\ UNCHANGED <<replicationQueue, replication, adversarial, reports, registry, rows,
                 at, finding, begins, history>>

(* evaluate_adversarial_gate and the first transaction of                  *)
(* register_adversarial_candidate_report: an upsert.  A suite with a       *)
(* code-defined attempt that is not registered raises.                     *)
MutRecordAdversarialUnsaved(d) ==
  LET c == at[d] IN
  /\ pc[d] = "attack"
  /\ \E suite \in Suites, exhausted \in BOOLEAN :
       LET verdict == [status |-> GateStatus(suite, exhausted),
                       replication |-> record[d].replication,
                       scope |-> record[d].scope] IN
       /\ ValidAttempts(suite)
       /\ finding' = [finding EXCEPT ![d] = verdict]
       /\ earned' = IF verdict.status = "passed_registered_gate"
                    THEN [earned EXCEPT ![c] = @ \cup {"validated"}] ELSE earned
  /\ again' = IF adversarial[c] = NoRow THEN again ELSE again \cup {c}
  /\ Goto(d, "register")
  /\ UNCHANGED <<replicationQueue, replication, adversarialQueue, adversarial, reports, registry, rows,
                 at, record, begins>>
RecordAdversarial(d) ==
  LET c == at[d] IN
  /\ pc[d] = "attack"
  /\ \E suite \in Suites, exhausted \in BOOLEAN :
       LET verdict == [status |-> GateStatus(suite, exhausted),
                       replication |-> record[d].replication,
                       scope |-> record[d].scope] IN
       /\ ValidAttempts(suite)
       /\ adversarial' = [adversarial EXCEPT ![c] = verdict]
       /\ finding' = [finding EXCEPT ![d] = verdict]
       /\ earned' = IF verdict.status = "passed_registered_gate"
                    THEN [earned EXCEPT ![c] = @ \cup {"validated"}] ELSE earned
  /\ again' = IF adversarial[c] = NoRow THEN again ELSE again \cup {c}
  /\ Goto(d, "register")
  /\ UNCHANGED <<replicationQueue, replication, adversarialQueue, reports, registry, rows,
                 at, record, begins>>

(* Its second transaction, register_report: a plain INSERT.  If the report *)
(* is there it raises IntegrityError, which Stop stands for: the row of    *)
(* the first transaction is overwritten by then.                           *)
(* The report's id is the caller's (checks.py:125-130); the model takes    *)
(* callers that give a candidate's report the same id each time.           *)
MutRegisterReportUpserts(d) ==
  LET c == at[d] IN
  /\ pc[d] = "register"
  /\ reports' = [reports EXCEPT ![c] = finding[d]]
  /\ record' = [record EXCEPT ![d].adversarial = finding[d].status]
  /\ Goto(d, "promote")
  /\ UNCHANGED <<replicationQueue, replication, adversarialQueue, adversarial, registry, rows,
                 at, finding, begins, history>>
RegisterReport(d) ==
  LET c == at[d] IN
  /\ pc[d] = "register"
  /\ reports[c] = NoRow
  /\ reports' = [reports EXCEPT ![c] = finding[d]]
  /\ record' = [record EXCEPT ![d].adversarial = finding[d].status]
  /\ Goto(d, "promote")
  /\ UNCHANGED <<replicationQueue, replication, adversarialQueue, adversarial, registry, rows,
                 at, finding, begins, history>>

(* StableCandidateRegistryEntry and register_stable_candidate: the driver  *)
(* always tries; the validator decides.                                    *)
Promote(d) ==
  LET c == at[d] IN
  /\ pc[d] = "promote"
  /\ IF ValidEntry(c, record[d], finding[d])
     THEN /\ registry' = [registry EXCEPT ![c] = finding[d]]
          /\ record' = [record EXCEPT ![d].status = "stable_internal_candidate"]
     ELSE UNCHANGED <<registry, record>>
  /\ finding' = [finding EXCEPT ![d] = NoRow]
  /\ Goto(d, "ready")
  /\ UNCHANGED <<replicationQueue, replication, adversarialQueue, adversarial, reports, rows,
                 at, begins, history>>

(* insert_candidate, at any time: a plain INSERT and no statement of the   *)
(* store updates a candidate's row.                                        *)
InsertCandidate(d) ==
  /\ pc[d] = "ready"
  /\ rows[at[d]] = NoRow
  /\ rows' = [rows EXCEPT ![at[d]] = record[d]]
  /\ UNCHANGED <<replicationQueue, replication, adversarialQueue, adversarial, reports, registry,
                 driver, history>>

MutStopKeepsFinding(d) ==
  /\ pc[d] # "idle"
  /\ at' = [at EXCEPT ![d] = NoRow]
  /\ record' = [record EXCEPT ![d] = Discovered]
  /\ UNCHANGED finding
  /\ Goto(d, "idle")
  /\ UNCHANGED <<tables, begins, history>>
(* The driver gives up, dies of an exception or is killed. *)
Stop(d) ==
  /\ pc[d] # "idle"
  /\ at' = [at EXCEPT ![d] = NoRow]
  /\ record' = [record EXCEPT ![d] = Discovered]
  /\ finding' = [finding EXCEPT ![d] = NoRow]
  /\ Goto(d, "idle")
  /\ UNCHANGED <<tables, begins, history>>

Next ==
  \E d \in Drivers :
    \/ \E c \in Candidates : Begin(d, c)
    \/ EnqueueReplication(d)
    \/ Replicate(d)
    \/ EnqueueAdversarial(d)
    \/ RecordAdversarial(d)
    \/ RegisterReport(d)
    \/ Promote(d)
    \/ InsertCandidate(d)
    \/ Stop(d)

Spec == Init /\ [][Next]_vars

-----------------------------------------------------------------------------
(* Properties *)

Places == {"idle", "ready", "replicate", "attack", "register", "promote"}

(* The types of the variables; a driver holds an adversarial report        *)
(* exactly between making it and trying the promotion.                     *)
TypeOK ==
  /\ replicationQueue \subseteq Candidates
  /\ replication \in [Candidates -> Replications \cup {NoRow}]
  /\ adversarialQueue \subseteq Candidates
  /\ adversarial \in [Candidates -> Verdicts \cup {NoRow}]
  /\ reports \in [Candidates -> Verdicts \cup {NoRow}]
  /\ registry \in [Candidates -> Verdicts \cup {NoRow}]
  /\ rows \in [Candidates -> Records \cup {NoRow}]
  /\ pc \in [Drivers -> Places]
  /\ at \in [Drivers -> Candidates \cup {NoRow}]
  /\ record \in [Drivers -> Records]
  /\ finding \in [Drivers -> Verdicts \cup {NoRow}]
  /\ begins \in Nat
  /\ earned \in [Candidates -> SUBSET {"replicated", "broad", "validated"}]
  /\ again \subseteq Candidates
  /\ \A d \in Drivers :
       /\ (pc[d] # "idle") <=> (at[d] \in Candidates)
       /\ (pc[d] \in {"register", "promote"}) <=> (finding[d] # NoRow)

(* The drivers implement PromotionRule: however many of them work on a     *)
(* candidate, from whatever stale record, none reaches the registry that   *)
(* has not been replicated in a broad scope and then validated             *)
(* (policy.py: PROMOTION_REQUIREMENTS).                                    *)
Rule == INSTANCE PromotionRule WITH
  stable <- {c \in Candidates : registry[c] # NoRow}
PromotionRuleSpec == Rule!Spec

(* The reports table keeps the first adversarial verdict on a candidate,   *)
(* and a candidate in the stable registry is one whose first verdict was a *)
(* pass with a broad replication: a rerun can neither promote a candidate  *)
(* over a registered failure nor leave a promoted one with it              *)
(* (store.py: register_adversarial_candidate_report).                      *)
RegistryRestsOnFirstVerdict ==
  \A c \in Candidates : registry[c] # NoRow =>
    /\ reports[c] = registry[c]
    /\ reports[c].status = "passed_registered_gate"
    /\ reports[c].replication = "passed_independent_path"
    /\ reports[c].scope = "compressed_observable"

(* A candidate row that renders as having passed all configured gates      *)
(* (policy.py: render_stable_candidate_banner) has its entry in the        *)
(* registry, and its family has a reference table: a background-only       *)
(* replication, which also passes, never gets there.                       *)
BannerIsBacked ==
  \A c \in Candidates : rows[c] # NoRow /\ PassedConfiguredGates(rows[c]) =>
    /\ registry[c] # NoRow
    /\ FamilyOf[c] \in CmbCompressedFamilies \cup RecombinationFamilies

(* The detailed reports agree with what was concluded from them: the       *)
(* adversarial report with the report row, the replication report with the *)
(* registry entry.  Only a report that was recorded over can disagree.     *)
RowsStandUnlessRedone ==
  \A c \in Candidates :
    /\ reports[c] # NoRow => adversarial[c] # NoRow
    /\ c \notin again =>
         /\ reports[c] \in {NoRow, adversarial[c]}
         /\ registry[c] # NoRow =>
              replication[c] = [status |-> "passed_independent_path",
                                scope |-> "compressed_observable"]
=============================================================================
