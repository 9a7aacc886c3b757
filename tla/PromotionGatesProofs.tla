-------------------------- MODULE PromotionGatesProofs --------------------------
(***************************************************************************)
(* Proofs about PromotionGates for every value of its constants: the type  *)
(* invariant, that a candidate's registry entry, banner and reports rest   *)
(* on what it has shown, and that the drivers implement PromotionRule.     *)
(***************************************************************************)
EXTENDS PromotionGates, TLAPS

USE DEF ReplicationStatuses, Scopes, AdversarialStatuses, CandidateStatuses

Covered(c) == FamilyOf[c] \in CmbCompressedFamilies \cup RecombinationFamilies

(* A review passes exactly in a recorded scope, and in the broad one only  *)
(* for a family that has a reference table.                                *)
LEMMA ReviewOutcome ==
  ASSUME NEW c \in Candidates, NEW cmb, NEW recombination, NEW timedOut \in BOOLEAN
  PROVE LET report == Review(FamilyOf[c], cmb, recombination, timedOut) IN
        /\ report \in Replications
        /\ report.status # "not_run"
        /\ report.status = "passed_independent_path" <=> report.scope # "not_recorded"
        /\ report.scope \in BroadScopes => report.scope = "compressed_observable" /\ Covered(c)
BY DEF Review, ReplicationReport, Replications, BroadScopes, Covered

LEMMA GateOutcome == \A suite, exhausted : GateStatus(suite, exhausted) \in AdversarialStatuses
BY DEF GateStatus

(* Updating one or two fields of a record gives a record, with the other   *)
(* fields as they were.                                                    *)
LEMMA RecordUpdates ==
  ASSUME NEW r \in Records
  PROVE /\ \A s \in CandidateStatuses : [r EXCEPT !.status = s] \in Records
        /\ \A report \in Replications :
             [r EXCEPT !.replication = report.status, !.scope = report.scope] \in Records
BY DEF Records, Replications

(* What a driver writes with the report it was given. *)
Reviewed(d, report) ==
  /\ replication' = [replication EXCEPT ![at[d]] = report]
  /\ record' = [record EXCEPT ![d].replication = report.status, ![d].scope = report.scope]
  /\ earned' = [earned EXCEPT ![at[d]] = @ \cup
       (IF report.status = "passed_independent_path" THEN {"replicated"} ELSE {}) \cup
       (IF report.scope \in BroadScopes THEN {"broad"} ELSE {})]
  /\ report.status # "not_run"
  /\ report.status = "passed_independent_path" <=> report.scope # "not_recorded"
  /\ report.scope \in BroadScopes => report.scope = "compressed_observable" /\ Covered(at[d])

LEMMA ReplicateStep ==
  ASSUME TypeOK, NEW d \in Drivers, Replicate(d)
  PROVE \E report \in Replications : Reviewed(d, report)
<1>1. at[d] \in Candidates
  BY DEF Replicate, TypeOK
<1>2. PICK cmb \in Measurements \cup {NoReport}, recombination \in Measurements \cup {NoReport},
           timedOut \in BOOLEAN :
        LET report == Review(FamilyOf[at[d]], cmb, recombination, timedOut) IN
        /\ replication' = [replication EXCEPT ![at[d]] = report]
        /\ record' = [record EXCEPT ![d].replication = report.status, ![d].scope = report.scope]
        /\ earned' = [earned EXCEPT ![at[d]] = @ \cup
             (IF report.status = "passed_independent_path" THEN {"replicated"} ELSE {}) \cup
             (IF report.scope \in BroadScopes THEN {"broad"} ELSE {})]
  BY DEF Replicate
<1> DEFINE report == Review(FamilyOf[at[d]], cmb, recombination, timedOut)
<1>3. /\ report \in Replications
      /\ report.status # "not_run"
      /\ report.status = "passed_independent_path" <=> report.scope # "not_recorded"
      /\ report.scope \in BroadScopes => report.scope = "compressed_observable" /\ Covered(at[d])
  BY <1>1, ReviewOutcome
<1>4. Reviewed(d, report)
  BY <1>2, <1>3 DEF Reviewed
<1> QED BY <1>3, <1>4

Attacked(d, verdict) ==
  /\ adversarial' = [adversarial EXCEPT ![at[d]] = verdict]
  /\ finding' = [finding EXCEPT ![d] = verdict]
  /\ earned' = IF verdict.status = "passed_registered_gate"
               THEN [earned EXCEPT ![at[d]] = @ \cup {"validated"}] ELSE earned
  /\ verdict.replication = record[d].replication
  /\ verdict.scope = record[d].scope

LEMMA AttackStep ==
  ASSUME TypeOK, NEW d \in Drivers, RecordAdversarial(d)
  PROVE \E verdict \in Verdicts : Attacked(d, verdict)
<1>1. PICK suite \in Suites, exhausted \in BOOLEAN :
        LET verdict == [status |-> GateStatus(suite, exhausted),
                        replication |-> record[d].replication, scope |-> record[d].scope] IN
        /\ adversarial' = [adversarial EXCEPT ![at[d]] = verdict]
        /\ finding' = [finding EXCEPT ![d] = verdict]
        /\ earned' = IF verdict.status = "passed_registered_gate"
                     THEN [earned EXCEPT ![at[d]] = @ \cup {"validated"}] ELSE earned
  BY DEF RecordAdversarial
<1> DEFINE verdict == [status |-> GateStatus(suite, exhausted),
                       replication |-> record[d].replication, scope |-> record[d].scope]
<1>2. verdict \in Verdicts
  BY GateOutcome DEF TypeOK, Verdicts, Records
<1>3. Attacked(d, verdict)
  BY <1>1 DEF Attacked
<1> QED BY <1>2, <1>3

(* The types of PromotionGates's variables hold in every state; a driver   *)
(* holds an adversarial report exactly while it registers and promotes.    *)
THEOREM TypeCorrect == Spec => []TypeOK
<1> USE NoRowAssumption
<1>1. Init => TypeOK
  BY ConstantsAssumption DEF Init, TypeOK, Discovered, Records, Places
<1>2. ASSUME TypeOK, [Next]_vars PROVE TypeOK'
  <2> USE <1>2 DEF TypeOK, Places
  <2>1. CASE UNCHANGED vars
    BY <2>1 DEF vars, tables, driver, history
  <2>2. ASSUME NEW d \in Drivers, NEW c \in Candidates, Begin(d, c) PROVE TypeOK'
    BY <2>2 DEF Begin, Goto, tables, history, Discovered, Records
  <2>3. ASSUME NEW d \in Drivers, EnqueueReplication(d) PROVE TypeOK'
    BY <2>3 DEF EnqueueReplication, Goto, history
  <2>4. ASSUME NEW d \in Drivers, Replicate(d) PROVE TypeOK'
    <3>1. PICK report \in Replications : Reviewed(d, report)
      BY <2>4, ReplicateStep
    <3>2. at[d] \in Candidates
      BY <2>4 DEF Replicate
    <3>3. record' = [record EXCEPT ![d] =
                       [record[d] EXCEPT !.replication = report.status, !.scope = report.scope]]
      BY <3>1 DEF Reviewed
    <3>4. record' \in [Drivers -> Records]
      BY <3>3, RecordUpdates
    <3>5. earned' \in [Candidates -> SUBSET {"replicated", "broad", "validated"}]
      BY <3>1 DEF Reviewed
    <3>6. replication' \in [Candidates -> Replications \cup {NoRow}]
      BY <3>1 DEF Reviewed
    <3> QED BY <2>4, <3>2, <3>4, <3>5, <3>6 DEF Replicate, Goto
  <2>5. ASSUME NEW d \in Drivers, EnqueueAdversarial(d) PROVE TypeOK'
    <3>1. record' = [record EXCEPT ![d] = [record[d] EXCEPT !.status = "adversarial_validation"]]
      BY <2>5 DEF EnqueueAdversarial
    <3>2. record' \in [Drivers -> Records]
      BY <3>1, RecordUpdates
    <3> QED BY <2>5, <3>2 DEF EnqueueAdversarial, Goto, history
  <2>6. ASSUME NEW d \in Drivers, RecordAdversarial(d) PROVE TypeOK'
    <3>1. PICK verdict \in Verdicts : Attacked(d, verdict)
      BY <2>6, AttackStep
    <3>2. at[d] \in Candidates
      BY <2>6 DEF RecordAdversarial
    <3>4. earned' \in [Candidates -> SUBSET {"replicated", "broad", "validated"}]
      BY <3>1 DEF Attacked
    <3> QED BY <2>6, <3>1, <3>2, <3>4 DEF RecordAdversarial, Attacked, Goto
  <2>7. ASSUME NEW d \in Drivers, RegisterReport(d) PROVE TypeOK'
    <3>1. at[d] \in Candidates /\ finding[d] \in Verdicts
      BY <2>7 DEF RegisterReport
    <3>2. record' \in [Drivers -> Records]
      BY <2>7, <3>1 DEF RegisterReport, Records, Verdicts
    <3> QED BY <2>7, <3>1, <3>2 DEF RegisterReport, Goto, history
  <2>8. ASSUME NEW d \in Drivers, Promote(d) PROVE TypeOK'
    <3>1. at[d] \in Candidates /\ finding[d] \in Verdicts
      BY <2>8 DEF Promote
    <3>2. record' \in [Drivers -> Records]
      <4>1. CASE ValidEntry(at[d], record[d], finding[d])
        <5>1. record' = [record EXCEPT ![d] =
                           [record[d] EXCEPT !.status = "stable_internal_candidate"]]
          BY <2>8, <4>1 DEF Promote
        <5> QED BY <5>1, RecordUpdates
      <4>2. CASE ~ValidEntry(at[d], record[d], finding[d])
        BY <2>8, <4>2 DEF Promote
      <4> QED BY <4>1, <4>2
    <3> QED BY <2>8, <3>1, <3>2 DEF Promote, Goto, history
  <2>9. ASSUME NEW d \in Drivers, InsertCandidate(d) PROVE TypeOK'
    BY <2>9 DEF InsertCandidate, driver, history
  <2>10. ASSUME NEW d \in Drivers, Stop(d) PROVE TypeOK'
    BY <2>10 DEF Stop, Goto, tables, history, Discovered, Records
  <2> QED
    BY <2>1, <2>2, <2>3, <2>4, <2>5, <2>6, <2>7, <2>8, <2>9, <2>10 DEF Next
<1> QED BY <1>1, <1>2, PTL DEF Spec

-----------------------------------------------------------------------------
(* What stands behind a record: its replication was earned, its broad      *)
(* scope by a family with a table, its stable status is in the registry;   *)
(* and unless something was recorded over, its replication report says so. *)
Backed(c, rec) ==
  /\ rec.replication = "passed_independent_path" => "replicated" \in earned[c]
  /\ rec.scope \in BroadScopes =>
       "broad" \in earned[c] /\ rec.scope = "compressed_observable" /\ Covered(c)
  /\ rec.status = "stable_internal_candidate" => registry[c] # NoRow
  /\ c \notin again /\ rec.replication # "not_run" =>
       replication[c] = [status |-> rec.replication, scope |-> rec.scope]

DriverInv(d) ==
  /\ pc[d] # "idle" => Backed(at[d], record[d])
  /\ pc[d] \in {"attack", "register", "promote"} =>
       record[d].replication = "passed_independent_path"
  /\ pc[d] \in {"register", "promote"} =>
       /\ finding[d].replication = record[d].replication
       /\ finding[d].scope = record[d].scope
       /\ finding[d].status = "passed_registered_gate" => "validated" \in earned[at[d]]
       /\ at[d] \notin again => adversarial[at[d]] = finding[d]
       /\ adversarial[at[d]] # NoRow
  /\ pc[d] = "promote" => reports[at[d]] = finding[d]

CandidateInv(c) ==
  /\ rows[c] # NoRow => Backed(c, rows[c])
  /\ reports[c] # NoRow =>
       adversarial[c] # NoRow /\ (c \notin again => reports[c] = adversarial[c])
  /\ registry[c] # NoRow =>
       /\ reports[c] = registry[c]
       /\ registry[c].status = "passed_registered_gate"
       /\ registry[c].replication = "passed_independent_path"
       /\ registry[c].scope = "compressed_observable"
       /\ c \notin again => replication[c] = [status |-> "passed_independent_path",
                                              scope |-> "compressed_observable"]

GatesInv ==
  /\ \A d \in Drivers : DriverInv(d)
  /\ \A c \in Candidates : CandidateInv(c)

(* A step of d in which nothing that was shown is taken back.              *)
Grows(d) ==
  /\ \A e \in Drivers \ {d} :
       pc'[e] = pc[e] /\ at'[e] = at[e] /\ record'[e] = record[e] /\ finding'[e] = finding[e]
  /\ \A c \in Candidates :
       /\ earned[c] \subseteq earned'[c]
       /\ registry[c] # NoRow => registry'[c] # NoRow
       /\ reports[c] # NoRow => reports'[c] = reports[c]
       /\ adversarial[c] # NoRow => adversarial'[c] # NoRow
       /\ c \notin again' =>
            /\ c \notin again
            /\ replication[c] = NoRow \/ replication'[c] = replication[c]
            /\ adversarial[c] = NoRow \/ adversarial'[c] = adversarial[c]

(* What backs a record is not taken back. *)
LEMMA BackedGrows ==
  ASSUME TypeOK, NEW d \in Drivers, Grows(d), NEW c \in Candidates, NEW rec \in Records,
         Backed(c, rec)
  PROVE Backed(c, rec)'
<1>1. [status |-> rec.replication, scope |-> rec.scope] \in Replications
  BY DEF Records, Replications
<1>2. [status |-> rec.replication, scope |-> rec.scope] # NoRow
  BY <1>1, NoRowAssumption
<1>3. c \notin again' /\ rec.replication # "not_run" =>
        replication'[c] = [status |-> rec.replication, scope |-> rec.scope]
  BY <1>2 DEF Backed, Grows
<1>4. rec.status = "stable_internal_candidate" => registry'[c] # NoRow
  BY DEF Backed, Grows
<1>5. earned[c] \subseteq earned'[c]
  BY DEF Grows
<1> QED BY <1>3, <1>4, <1>5 DEF Backed

(* Then the other drivers and the stored rows stay backed. *)
LEMMA OthersStayBacked ==
  ASSUME TypeOK, GatesInv, NEW d \in Drivers, Grows(d)
  PROVE /\ \A e \in Drivers \ {d} : DriverInv(e)'
        /\ \A c \in Candidates : rows[c] # NoRow /\ rows'[c] = rows[c] => Backed(c, rows[c])'
<1> USE NoRowAssumption
<1>1. ASSUME NEW e \in Drivers \ {d} PROVE DriverInv(e)'
  <2>1. /\ pc'[e] = pc[e] /\ at'[e] = at[e] /\ record'[e] = record[e] /\ finding'[e] = finding[e]
    BY DEF Grows
  <2>2. CASE pc[e] = "idle"
    BY <2>1, <2>2 DEF DriverInv
  <2>3. CASE pc[e] # "idle"
    <3>1. at[e] \in Candidates /\ DriverInv(e)
      BY <2>3 DEF TypeOK, GatesInv
    <3>2. Backed(at[e], record[e])'
      <4>1. PICK rec \in Records : rec = record[e]
        BY DEF TypeOK
      <4>2. PICK c \in Candidates : c = at[e]
        BY <3>1
      <4>3. Backed(c, rec)
        BY <2>3, <3>1, <4>1, <4>2 DEF DriverInv
      <4>4. Backed(c, rec)'
        BY <4>3, BackedGrows
      <4> QED BY <2>1, <4>1, <4>2, <4>4 DEF Backed
    <3>3. pc[e] \in {"register", "promote"} => finding[e] # NoRow
      BY DEF TypeOK
    <3> QED BY <2>1, <3>1, <3>2, <3>3 DEF DriverInv, Grows
  <2> QED BY <2>2, <2>3
<1>2. ASSUME NEW c \in Candidates, rows[c] # NoRow, rows'[c] = rows[c] PROVE Backed(c, rows[c])'
  <2>1. PICK rec \in Records : rec = rows[c]
    BY <1>2 DEF TypeOK
  <2>2. Backed(c, rec)
    BY <1>2, <2>1 DEF GatesInv, CandidateInv
  <2>3. Backed(c, rec)'
    BY <2>2, BackedGrows
  <2> QED BY <1>2, <2>1, <2>3 DEF Backed
<1> QED BY <1>1, <1>2

(* A step that writes neither tables nor history keeps what candidates     *)
(* have.                                                                   *)
LEMMA QuietStep ==
  ASSUME TypeOK, GatesInv, NEW d \in Drivers, Grows(d), DriverInv(d)',
         UNCHANGED <<replication, adversarial, reports, registry, rows, again>>
  PROVE GatesInv'
<1>1. ASSUME NEW c \in Candidates PROVE CandidateInv(c)'
  <2>1. rows'[c] # NoRow => Backed(c, rows[c])'
    BY OthersStayBacked
  <2> QED BY <2>1 DEF GatesInv, CandidateInv
<1> QED BY <1>1, OthersStayBacked DEF GatesInv

LEMMA BeginStep ==
  ASSUME TypeOK, GatesInv, NEW d \in Drivers, NEW c \in Candidates, Begin(d, c)
  PROVE GatesInv'
<1>1. Grows(d)
  BY DEF Begin, Goto, Grows, tables, history, TypeOK
<1>2. Backed(c, Discovered)' /\ (rows[c] # NoRow => Backed(c, rows[c])')
  BY DEF Begin, tables, history, Backed, Discovered, BroadScopes, GatesInv, CandidateInv
<1>3. /\ pc'[d] = "ready" /\ at'[d] = c
      /\ record'[d] = IF rows[c] = NoRow THEN Discovered ELSE rows[c]
      /\ UNCHANGED <<replication, adversarial, reports, registry, rows, earned, again>>
  BY DEF Begin, Goto, tables, history, TypeOK
<1>4. DriverInv(d)'
  BY <1>2, <1>3 DEF DriverInv, Backed
<1> QED BY <1>1, <1>3, <1>4, QuietStep

LEMMA EnqueueReplicationStep ==
  ASSUME TypeOK, GatesInv, NEW d \in Drivers, EnqueueReplication(d)
  PROVE GatesInv'
<1>1. Grows(d)
  BY DEF EnqueueReplication, Goto, Grows, history, TypeOK
<1>2. DriverInv(d)'
  BY DEF EnqueueReplication, Goto, history, GatesInv, DriverInv, Backed, TypeOK
<1> QED BY <1>1, <1>2, QuietStep DEF EnqueueReplication, history

LEMMA EnqueueAdversarialStep ==
  ASSUME TypeOK, GatesInv, NEW d \in Drivers, EnqueueAdversarial(d)
  PROVE GatesInv'
<1>1. Grows(d)
  BY DEF EnqueueAdversarial, Goto, Grows, history, TypeOK
<1>2. /\ record'[d].replication = record[d].replication
      /\ record'[d].scope = record[d].scope
      /\ record'[d].status = "adversarial_validation"
      /\ record[d].replication = "passed_independent_path"
      /\ pc[d] = "ready" /\ pc'[d] = "attack" /\ at'[d] = at[d]
      /\ UNCHANGED <<replication, adversarial, reports, registry, rows, earned, again>>
  BY DEF EnqueueAdversarial, WantsAdversarial, CanPromoteToAdversarial, Goto, history, TypeOK, Records
<1>3. DriverInv(d)'
  BY <1>2 DEF GatesInv, DriverInv, Backed
<1> QED BY <1>1, <1>2, <1>3, QuietStep

LEMMA ReplicationStep ==
  ASSUME TypeOK, GatesInv, NEW d \in Drivers, Replicate(d)
  PROVE GatesInv'
<1> USE NoRowAssumption
<1> DEFINE c == at[d]
<1>1. PICK report \in Replications : Reviewed(d, report)
  BY ReplicateStep
<1>2. /\ c \in Candidates
      /\ UNCHANGED <<adversarial, reports, registry, rows, at, finding>>
      /\ again' = IF replication[c] = NoRow THEN again ELSE again \cup {c}
      /\ pc[d] = "replicate" /\ pc' = [pc EXCEPT ![d] = "ready"]
  BY DEF Replicate, Goto, TypeOK
<1>3. /\ replication' = [replication EXCEPT ![c] = report]
      /\ record'[d].replication = report.status
      /\ record'[d].scope = report.scope
      /\ record'[d].status = record[d].status
      /\ \A e \in Drivers \ {d} : record'[e] = record[e]
      /\ earned' = [earned EXCEPT ![c] = @ \cup
           (IF report.status = "passed_independent_path" THEN {"replicated"} ELSE {}) \cup
           (IF report.scope \in BroadScopes THEN {"broad"} ELSE {})]
      /\ report.scope \in BroadScopes => report.scope = "compressed_observable" /\ Covered(c)
      /\ report = [status |-> report.status, scope |-> report.scope]
  BY <1>1 DEF Reviewed, TypeOK, Records, Replications
<1>4. Grows(d)
  BY <1>2, <1>3 DEF Grows, TypeOK
<1>5. DriverInv(d)'
  <2>1. Backed(at[d], record[d])'
    BY <1>2, <1>3 DEF GatesInv, DriverInv, Backed, TypeOK
  <2> QED BY <1>2, <2>1 DEF DriverInv, TypeOK
<1>6. ASSUME NEW q \in Candidates PROVE CandidateInv(q)'
  <2>1. rows'[q] # NoRow => Backed(q, rows[q])'
    BY <1>2, <1>4, OthersStayBacked
  <2>2. q \notin again' => q \notin again /\ (replication'[q] = replication[q] \/ replication[q] = NoRow)
    BY <1>4 DEF Grows
  <2>3. [status |-> "passed_independent_path", scope |-> "compressed_observable"] # NoRow
    <3>1. [status |-> "passed_independent_path", scope |-> "compressed_observable"] \in Replications
      BY DEF Replications
    <3> QED BY <3>1
  <2>4. CandidateInv(q)
    BY DEF GatesInv
  <2> QED BY <1>2, <2>1, <2>2, <2>3, <2>4 DEF CandidateInv
<1> QED BY <1>4, <1>5, <1>6, OthersStayBacked DEF GatesInv

LEMMA AdversarialStep ==
  ASSUME TypeOK, GatesInv, NEW d \in Drivers, RecordAdversarial(d)
  PROVE GatesInv'
<1> USE NoRowAssumption
<1> DEFINE c == at[d]
<1>1. PICK verdict \in Verdicts : Attacked(d, verdict)
  BY AttackStep
<1>2. /\ c \in Candidates
      /\ UNCHANGED <<replication, reports, registry, rows, at, record>>
      /\ again' = IF adversarial[c] = NoRow THEN again ELSE again \cup {c}
      /\ pc[d] = "attack" /\ pc' = [pc EXCEPT ![d] = "register"]
  BY DEF RecordAdversarial, Goto, TypeOK
<1>3. Grows(d)
  BY <1>1, <1>2 DEF Attacked, Grows, TypeOK
<1>4. DriverInv(d)'
  <2>1. Backed(at[d], record[d])'
    BY <1>2, <1>3 DEF GatesInv, DriverInv, Backed, Grows
  <2>2. /\ adversarial'[c] = verdict /\ finding'[d] = verdict /\ verdict # NoRow
        /\ verdict.status = "passed_registered_gate" => "validated" \in earned'[c]
        /\ verdict.replication = record[d].replication /\ verdict.scope = record[d].scope
    BY <1>1, <1>2 DEF Attacked, TypeOK
  <2>3. record[d].replication = "passed_independent_path"
    BY <1>2 DEF GatesInv, DriverInv
  <2>4. pc'[d] = "register"
    BY <1>2 DEF TypeOK
  <2> QED BY <1>2, <2>1, <2>2, <2>3, <2>4 DEF DriverInv
<1>5. ASSUME NEW q \in Candidates PROVE CandidateInv(q)'
  <2>1. rows'[q] # NoRow => Backed(q, rows[q])'
    BY <1>2, <1>3, OthersStayBacked
  <2>2. /\ q \notin again' => q \notin again /\ (adversarial'[q] = adversarial[q] \/ adversarial[q] = NoRow)
        /\ adversarial[q] # NoRow => adversarial'[q] # NoRow
    BY <1>3 DEF Grows
  <2> QED BY <1>2, <2>1, <2>2 DEF GatesInv, CandidateInv
<1> QED BY <1>3, <1>4, <1>5, OthersStayBacked DEF GatesInv

LEMMA RegisterStep ==
  ASSUME TypeOK, GatesInv, NEW d \in Drivers, RegisterReport(d)
  PROVE GatesInv'
<1> USE NoRowAssumption
<1> DEFINE c == at[d]
<1>1. /\ c \in Candidates /\ finding[d] \in Verdicts /\ finding[d] # NoRow
      /\ reports[c] = NoRow /\ reports' = [reports EXCEPT ![c] = finding[d]]
      /\ pc[d] = "register" /\ pc' = [pc EXCEPT ![d] = "promote"]
      /\ UNCHANGED <<replication, adversarial, registry, rows, at, finding, earned, again>>
  BY DEF RegisterReport, Goto, history, TypeOK
<1>2. /\ record'[d].replication = record[d].replication
      /\ record'[d].scope = record[d].scope
      /\ record'[d].status = record[d].status
      /\ \A e \in Drivers \ {d} : record'[e] = record[e]
  BY DEF RegisterReport, TypeOK, Records
<1>3. Grows(d)
  BY <1>1, <1>2 DEF Grows, TypeOK
<1>4. DriverInv(d)'
  <2>1. Backed(at[d], record[d])'
    BY <1>1, <1>2 DEF GatesInv, DriverInv, Backed
  <2>2. reports'[c] = finding[d] /\ pc'[d] = "promote"
    BY <1>1 DEF TypeOK
  <2> QED BY <1>1, <1>2, <2>1, <2>2 DEF GatesInv, DriverInv
<1>5. ASSUME NEW q \in Candidates PROVE CandidateInv(q)'
  <2>1. rows'[q] # NoRow => Backed(q, rows[q])'
    BY <1>1, <1>3, OthersStayBacked
  <2>2. q = c => /\ adversarial[q] # NoRow
                 /\ q \notin again => adversarial[q] = finding[d]
    BY <1>1 DEF GatesInv, DriverInv
  <2>3. q = c => registry[q] = NoRow
    BY <1>1 DEF GatesInv, CandidateInv, TypeOK
  <2>4. reports'[q] = IF q = c THEN finding[d] ELSE reports[q]
    BY <1>1 DEF TypeOK
  <2> QED BY <1>1, <2>1, <2>2, <2>3, <2>4 DEF GatesInv, CandidateInv
<1> QED BY <1>3, <1>4, <1>5, OthersStayBacked DEF GatesInv

LEMMA PromoteStep ==
  ASSUME TypeOK, GatesInv, NEW d \in Drivers, Promote(d)
  PROVE GatesInv'
<1> USE NoRowAssumption
<1> DEFINE c == at[d]
<1>1. /\ c \in Candidates /\ finding[d] \in Verdicts /\ finding[d] # NoRow
      /\ pc[d] = "promote" /\ pc' = [pc EXCEPT ![d] = "ready"]
      /\ finding' = [finding EXCEPT ![d] = NoRow]
      /\ UNCHANGED <<replication, adversarial, reports, rows, at, earned, again>>
      /\ DriverInv(d)
  BY DEF Promote, Goto, history, TypeOK, GatesInv
<1>2. CASE ~ValidEntry(c, record[d], finding[d])
  <2>1. UNCHANGED <<registry, record>>
    BY <1>2 DEF Promote
  <2>2. Grows(d)
    BY <1>1, <2>1 DEF Grows, TypeOK
  <2>3. DriverInv(d)'
    BY <1>1, <2>1 DEF DriverInv, Backed, TypeOK
  <2> QED BY <1>1, <2>1, <2>2, <2>3, QuietStep
<1>3. CASE ValidEntry(c, record[d], finding[d])
  <2>1. /\ registry' = [registry EXCEPT ![c] = finding[d]]
        /\ record'[d].replication = record[d].replication
        /\ record'[d].scope = record[d].scope
        /\ \A e \in Drivers \ {d} : record'[e] = record[e]
    BY <1>3 DEF Promote, TypeOK, Records
  <2>2. Grows(d)
    BY <1>1, <2>1 DEF Grows, TypeOK
  <2>3. registry'[c] # NoRow
    BY <1>1, <2>1 DEF TypeOK
  <2>4. DriverInv(d)'
    <3>1. Backed(at[d], record[d])'
      BY <1>1, <2>1, <2>3 DEF DriverInv, Backed
    <3> QED BY <1>1, <3>1 DEF DriverInv, TypeOK
  <2>5. /\ reports[c] = finding[d]
        /\ finding[d].status = "passed_registered_gate"
        /\ finding[d].replication = "passed_independent_path"
        /\ finding[d].scope = "compressed_observable"
        /\ c \notin again => replication[c] = [status |-> "passed_independent_path",
                                               scope |-> "compressed_observable"]
    BY <1>1, <1>3 DEF ValidEntry, DriverInv, Backed
  <2>6. ASSUME NEW q \in Candidates PROVE CandidateInv(q)'
    <3>1. rows'[q] # NoRow => Backed(q, rows[q])'
      BY <1>1, <2>2, OthersStayBacked
    <3>2. registry'[q] = IF q = c THEN finding[d] ELSE registry[q]
      BY <1>1, <2>1 DEF TypeOK
    <3> QED BY <1>1, <2>5, <3>1, <3>2 DEF GatesInv, CandidateInv
  <2> QED BY <2>2, <2>4, <2>6, OthersStayBacked DEF GatesInv
<1> QED BY <1>2, <1>3

LEMMA InsertStep ==
  ASSUME TypeOK, GatesInv, NEW d \in Drivers, InsertCandidate(d)
  PROVE GatesInv'
<1>1. /\ pc[d] = "ready" /\ at[d] \in Candidates
      /\ rows' = [rows EXCEPT ![at[d]] = record[d]]
      /\ UNCHANGED <<replication, adversarial, reports, registry, pc, at, record, finding, earned, again>>
  BY DEF InsertCandidate, driver, history, TypeOK
<1>2. Backed(at[d], record[d])
  BY <1>1 DEF GatesInv, DriverInv
<1>3. ASSUME NEW e \in Drivers PROVE DriverInv(e)'
  BY <1>1 DEF GatesInv, DriverInv, Backed
<1>4. ASSUME NEW q \in Candidates PROVE CandidateInv(q)'
  <2>1. rows'[q] = IF q = at[d] THEN record[d] ELSE rows[q]
    BY <1>1 DEF TypeOK
  <2>2. CandidateInv(q)
    BY DEF GatesInv
  <2>3. CASE q = at[d]
    <3>1. Backed(q, rows'[q])
      BY <1>2, <2>1, <2>3
    <3> QED BY <1>1, <2>2, <3>1 DEF CandidateInv, Backed
  <2>4. CASE q # at[d]
    BY <1>1, <2>1, <2>2, <2>4 DEF CandidateInv, Backed
  <2> QED BY <2>3, <2>4
<1> QED BY <1>3, <1>4 DEF GatesInv

LEMMA StopStep ==
  ASSUME TypeOK, GatesInv, NEW d \in Drivers, Stop(d)
  PROVE GatesInv'
<1>1. Grows(d) /\ DriverInv(d)'
  BY DEF Stop, Goto, Grows, DriverInv, tables, history, TypeOK
<1> QED BY <1>1, QuietStep DEF Stop, tables, history

LEMMA GatesInvariant == Spec => []GatesInv
<1>1. Init => GatesInv
  BY DEF Init, GatesInv, DriverInv, CandidateInv
<1>2. ASSUME TypeOK, GatesInv, [Next]_vars PROVE GatesInv'
  <2>1. CASE UNCHANGED vars
    BY <1>2, <2>1 DEF vars, tables, driver, history, GatesInv, DriverInv, CandidateInv, Backed
  <2> QED
    BY <1>2, <2>1, BeginStep, EnqueueReplicationStep, ReplicationStep, EnqueueAdversarialStep,
       AdversarialStep, RegisterStep, PromoteStep, InsertStep, StopStep DEF Next
<1> QED BY <1>1, <1>2, TypeCorrect, PTL DEF Spec

(* A registry entry rests on the one verdict the reports table took, a     *)
(* pass with a broad replication, whatever is recorded later               *)
(* (store.py: register_adversarial_candidate_report).                      *)
THEOREM RegistryRests == Spec => []RegistryRestsOnFirstVerdict
<1>1. TypeOK /\ GatesInv => RegistryRestsOnFirstVerdict
  BY DEF GatesInv, CandidateInv, RegistryRestsOnFirstVerdict
<1> QED BY <1>1, TypeCorrect, GatesInvariant, PTL

(* A stored row with the banner of all configured gates is in the registry *)
(* and of a family with a reference table (policy.py:                      *)
(* render_stable_candidate_banner).                                        *)
THEOREM BannerBacked == Spec => []BannerIsBacked
<1>1. TypeOK /\ GatesInv => BannerIsBacked
  BY DEF GatesInv, CandidateInv, Backed, Covered, PassedConfiguredGates, BannerIsBacked
<1> QED BY <1>1, TypeCorrect, GatesInvariant, PTL

(* The detailed reports agree with the report row and the registry entry   *)
(* that were drawn from them, unless they were recorded over (store.py:    *)
(* record_replication_report, record_adversarial_report).                  *)
THEOREM RowsStand == Spec => []RowsStandUnlessRedone
<1>1. TypeOK /\ GatesInv => RowsStandUnlessRedone
  BY DEF GatesInv, CandidateInv, RowsStandUnlessRedone
<1> QED BY <1>1, TypeCorrect, GatesInvariant, PTL

-----------------------------------------------------------------------------
(* The refinement of PromotionRule. *)

stable == {c \in Candidates : registry[c] # NoRow}
USE DEF stable

LEMMA ReplicateRefines ==
  ASSUME TypeOK, NEW d \in Drivers, Replicate(d), NEW c \in Candidates, c = at[d]
  PROVE Rule!Replicate(c) \/ UNCHANGED <<earned, stable>>
<1>1. PICK report \in Replications : Reviewed(d, report)
  BY ReplicateStep
<1>2. at[d] \in Candidates /\ UNCHANGED registry
  BY DEF Replicate, TypeOK
<1>3. UNCHANGED stable
  BY <1>2
<1>4. CASE report.status # "passed_independent_path"
  <2>1. report.scope \notin BroadScopes
    BY <1>1, <1>4 DEF Reviewed, BroadScopes, Replications
  <2>2. earned' = [earned EXCEPT ![at[d]] = earned[at[d]] \cup {} \cup {}]
    BY <1>1, <1>4, <2>1 DEF Reviewed
  <2>3. UNCHANGED earned
    BY <1>2, <2>2 DEF TypeOK
  <2> QED BY <1>3, <2>3
<1>5. CASE report.status = "passed_independent_path"
  <2>1. PICK gained \in {{"replicated"}, {"replicated", "broad"}} :
          gained = {"replicated"} \cup (IF report.scope \in BroadScopes THEN {"broad"} ELSE {})
    OBVIOUS
  <2>2. earned' = [earned EXCEPT ![at[d]] = earned[at[d]] \cup gained]
    BY <1>1, <1>2, <1>5, <2>1 DEF Reviewed, TypeOK
  <2> QED BY <1>3, <2>2 DEF Rule!Replicate
<1> QED BY <1>4, <1>5

LEMMA AttackRefines ==
  ASSUME TypeOK, GatesInv, NEW d \in Drivers, RecordAdversarial(d), NEW c \in Candidates, c = at[d]
  PROVE Rule!Validate(c) \/ UNCHANGED <<earned, stable>>
<1>1. PICK verdict \in Verdicts : Attacked(d, verdict)
  BY AttackStep
<1>2. at[d] \in Candidates /\ UNCHANGED stable /\ pc[d] = "attack"
  BY DEF RecordAdversarial, TypeOK
<1>3. "replicated" \in earned[at[d]]
  BY <1>2 DEF GatesInv, DriverInv, Backed
<1> QED BY <1>1, <1>2, <1>3 DEF Attacked, Rule!Validate

LEMMA PromoteRefines ==
  ASSUME TypeOK, GatesInv, NEW d \in Drivers, Promote(d), NEW c \in Candidates, c = at[d]
  PROVE Rule!Promote(c) \/ UNCHANGED <<earned, stable>>
<1>1. at[d] \in Candidates /\ UNCHANGED earned /\ DriverInv(d) /\ pc[d] = "promote"
  BY DEF Promote, history, TypeOK, GatesInv
<1>2. CASE ~ValidEntry(at[d], record[d], finding[d])
  BY <1>1, <1>2 DEF Promote
<1>3. CASE ValidEntry(at[d], record[d], finding[d])
  <2>1. {"replicated", "broad", "validated"} \subseteq earned[at[d]]
    BY <1>1, <1>3 DEF ValidEntry, DriverInv, Backed
  <2>2. earned[at[d]] = Rule!Credits
    BY <1>1, <2>1 DEF TypeOK, Rule!Credits
  <2>3. registry' = [registry EXCEPT ![at[d]] = finding[d]] /\ finding[d] # NoRow
    BY <1>1, <1>3 DEF Promote, TypeOK
  <2>4. stable' = stable \cup {at[d]}
    BY <1>1, <2>3 DEF TypeOK
  <2> QED BY <1>1, <2>2, <2>4 DEF Rule!Promote
<1> QED BY <1>2, <1>3

(* However many drivers work on a candidate, from whatever stale record    *)
(* and with whatever crashes, it enters the registry only replicated, in a *)
(* broad scope, and validated after that (policy.py:                       *)
(* PROMOTION_REQUIREMENTS).                                                *)
THEOREM ImplementsRule == Spec => PromotionRuleSpec
<1>1. Init => Rule!Init
  BY DEF Init, Rule!Init
<1>2. ASSUME TypeOK, GatesInv, [Next]_vars PROVE [Rule!Next]_<<earned, stable>>
  <2>1. CASE UNCHANGED vars
    BY <2>1 DEF vars, tables, history
  <2>2. ASSUME NEW d \in Drivers,
               \/ \E c \in Candidates : Begin(d, c)
               \/ EnqueueReplication(d) \/ EnqueueAdversarial(d)
               \/ RegisterReport(d) \/ InsertCandidate(d) \/ Stop(d)
        PROVE UNCHANGED <<earned, stable>>
    BY <2>2 DEF Begin, EnqueueReplication, EnqueueAdversarial, RegisterReport, InsertCandidate,
                Stop, tables, history
  <2>3. ASSUME NEW d \in Drivers, Replicate(d) \/ RecordAdversarial(d) \/ Promote(d)
        PROVE at[d] \in Candidates
    BY <1>2, <2>3 DEF Replicate, RecordAdversarial, Promote, TypeOK
  <2>4. ASSUME NEW d \in Drivers, Replicate(d) \/ RecordAdversarial(d) \/ Promote(d)
        PROVE [Rule!Next]_<<earned, stable>>
    <3>1. PICK c \in Candidates : c = at[d]
      BY <2>3, <2>4
    <3>2. \/ Rule!Replicate(c) \/ Rule!Validate(c) \/ Rule!Promote(c)
          \/ UNCHANGED <<earned, stable>>
      BY <1>2, <2>4, <3>1, ReplicateRefines, AttackRefines, PromoteRefines
    <3> QED BY <3>2 DEF Rule!Next
  <2>5. CASE Next
    <3>1. PICK d \in Drivers :
            \/ \E c \in Candidates : Begin(d, c)
            \/ EnqueueReplication(d) \/ EnqueueAdversarial(d)
            \/ RegisterReport(d) \/ InsertCandidate(d) \/ Stop(d)
            \/ Replicate(d) \/ RecordAdversarial(d) \/ Promote(d)
      BY <2>5 DEF Next
    <3> QED BY <2>2, <2>4, <3>1
  <2> QED BY <1>2, <2>1, <2>5
<1> QED BY <1>1, <1>2, TypeCorrect, GatesInvariant, PTL DEF Spec, PromotionRuleSpec, Rule!Spec
=============================================================================
