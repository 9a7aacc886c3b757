---------------------------- MODULE ExternalStatus ----------------------------
(***************************************************************************)
(* operations/external_status.py over state/store.py: the external status  *)
(* of reports.  A worker takes a snapshot of the reports and of the        *)
(* evidence cited for them, computes the proposals (monitor_external_      *)
(* status_for_reports) and carries each one through the store: record the  *)
(* proposal, decide it, queue the rerun it requires, read the report back  *)
(* and index it.  Every store method is one SQLite transaction and one     *)
(* action; what the pure functions between them compute is part of the     *)
(* action that uses it.  Nothing in the store keeps two workers apart.     *)
(*                                                                         *)
(* Evidence only accumulates: a record that was cited stays cited.         *)
(***************************************************************************)
EXTENDS Naturals

CONSTANTS
  Workers,        \* processes that run the monitor's cycle
  Reports,        \* report ids
  Candidates,     \* candidate ids
  CandidateOf,    \* reports.candidate_id, NoCandidate where it is NULL
  NoCandidate,
  FirstStatus,    \* the status a report is registered with
  Evidence,       \* external evidence records
  RelationOf,     \* their relation to the report
  Citable,        \* the evidence that may be cited for each report
  Absent,         \* no such row
  NoProposal,     \* a worker with no proposal in hand
  MaxMishaps      \* bound on the crashes and on the monitor calls with a
                  \* confidence below 0.5, together

Refuting == {"refutes", "constrains", "contradicts_required_observable"}
Superseding == {"superseding_dataset", "superseding_likelihood"}
Supporting == {"independent_support", "reproduces_prediction"}
Relations == Refuting \cup Superseding \cup Supporting \cup {"context"}

ASSUME ConstantsAssumption ==
  /\ CandidateOf \in [Reports -> Candidates \cup {NoCandidate}]
  /\ NoCandidate \notin Candidates
  /\ FirstStatus \in [Reports -> {"not_submitted", "unchecked"}]
  /\ RelationOf \in [Evidence -> Relations]
  /\ Citable \in [Reports -> SUBSET Evidence]
  /\ MaxMishaps \in Nat

Targets == {"unchecked", "externally_supported", "superseded", "externally_refuted"}
Statuses == Targets \cup {"not_submitted"}
Decisions == {"pending", "accepted", "rejected"}

ASSUME AbsentAssumption == Absent \notin Statuses

(* What a set of evidence says: a refutation outweighs a newer dataset,    *)
(* which outweighs support.                                                *)
MutInferSupportFirst(cited) ==
  LET relations == {RelationOf[e] : e \in cited} IN
  IF relations \cap Supporting # {} THEN "externally_supported"
  ELSE IF relations \cap Refuting # {} THEN "externally_refuted"
  ELSE IF relations \cap Superseding # {} THEN "superseded"
  ELSE "unchecked"
Infer(cited) ==
  LET relations == {RelationOf[e] : e \in cited} IN
  IF relations \cap Refuting # {} THEN "externally_refuted"
  ELSE IF relations \cap Superseding # {} THEN "superseded"
  ELSE IF relations \cap Supporting # {} THEN "externally_supported"
  ELSE "unchecked"

(* proposal_id is a hash of the report, the target and the evidence ids:   *)
(* neither the confidence nor the status it starts from is part of it.     *)
ProposalIds == [report : Reports, target : Targets, evidence : SUBSET Evidence]

(* ExternalTransitionProposal's validator: a verdict needs evidence of its *)
(* own kind.                                                               *)
ValidProposal(p) ==
  LET relations == {RelationOf[e] : e \in p.evidence} IN
  /\ p.target = "externally_refuted" => relations \cap Refuting # {}
  /\ p.target = "superseded" => relations \cap Superseding # {}
  /\ p.target = "externally_supported" => relations \cap Supporting # {}
ValidProposals == {p \in ProposalIds : ValidProposal(p)}

VARIABLES
  cited,      \* evidence cited for each report so far (external)
  status,     \* reports.external_status
  registry,   \* stable_candidate_registry.external_status
  proposals,  \* pending_external_transitions: decision by proposal_id
  reruns,     \* external_rerun_queue: the proposals with a queued rerun
  index,      \* report_search_index.external_status
  pc,         \* where each worker is
  todo,       \* the proposals of its cycle that are not finished
  current,    \* the one it carries through the store
  seen,       \* the statuses in its snapshot
  sure,       \* is its confidence at least 0.5?
  entry,      \* the status in the index entry it has built
  mishaps,    \* crashes and doubts so far
  disturbed   \* history: reports that two workers had in hand at once, or a
              \* crashed worker

rows == <<status, registry, proposals, reruns, index>>
local == <<pc, todo, current, seen, sure, entry>>
vars == <<cited, rows, local, mishaps, disturbed>>

Registered == {r \in Reports : status[r] # Absent}
InHand(w) == {p.report : p \in todo[w]}

Init ==
  /\ cited = [r \in Reports |-> {}]
  /\ status = [r \in Reports |-> Absent]
  /\ registry = [c \in Candidates |-> Absent]
  /\ proposals = [p \in {} |-> "pending"]
  /\ reruns = {}
  /\ index = [r \in Reports |-> Absent]
  /\ pc = [w \in Workers |-> "idle"]
  /\ todo = [w \in Workers |-> {}]
  /\ current = [w \in Workers |-> NoProposal]
  /\ seen = [w \in Workers |-> [r \in Reports |-> Absent]]
  /\ sure = [w \in Workers |-> TRUE]
  /\ entry = [w \in Workers |-> Absent]
  /\ mishaps = 0
  /\ disturbed = {}

Goto(w, place) == pc' = [pc EXCEPT ![w] = place]

(* The worker's local variables end with its cycle. *)
Forget(w) ==
  /\ Goto(w, "idle")
  /\ todo' = [todo EXCEPT ![w] = {}]
  /\ current' = [current EXCEPT ![w] = NoProposal]
  /\ seen' = [seen EXCEPT ![w] = [r \in Reports |-> Absent]]
  /\ sure' = [sure EXCEPT ![w] = TRUE]
  /\ entry' = [entry EXCEPT ![w] = Absent]

(* INSERT ... ON CONFLICT DO UPDATE on the proposal table. *)
Upsert(p, decision) ==
  [q \in DOMAIN proposals \cup {p} |-> IF q = p THEN decision ELSE proposals[q]]

-----------------------------------------------------------------------------
(* The surroundings of the monitor. *)

(* A plain INSERT: a second registration raises and changes nothing.       *)
RegisterReport(r) ==
  /\ status[r] = Absent
  /\ status' = [status EXCEPT ![r] = FirstStatus[r]]
  /\ UNCHANGED <<cited, registry, proposals, reruns, index, local, mishaps, disturbed>>

(* An upsert of the registry entry, whose external status is the one it is *)
(* built with: also over a status a transition has set.                    *)
RegisterStable(c) ==
  /\ registry[c] # "not_submitted"
  /\ registry' = [registry EXCEPT ![c] = "not_submitted"]
  /\ UNCHANGED <<cited, status, proposals, reruns, index, local, mishaps, disturbed>>

Cite(r, e) ==
  /\ e \in Citable[r] \ cited[r]
  /\ cited' = [cited EXCEPT ![r] = @ \cup {e}]
  /\ UNCHANGED <<rows, local, mishaps, disturbed>>

-----------------------------------------------------------------------------
(* The worker's cycle. *)

(* One proposal per registered report whose evidence says something else   *)
(* than its status; no evidence, no proposal.                              *)
MonitorProposals ==
  {[report |-> r, target |-> Infer(cited[r]), evidence |-> cited[r]] :
     r \in {q \in Registered : cited[q] # {} /\ Infer(cited[q]) # status[q]}}

Monitor(w, confident) ==
  /\ pc[w] = "idle"
  /\ MonitorProposals # {}
  /\ todo' = [todo EXCEPT ![w] = MonitorProposals]
  /\ seen' = [seen EXCEPT ![w] = status]
  /\ sure' = [sure EXCEPT ![w] = confident]
  /\ confident \/ mishaps < MaxMishaps
  /\ mishaps' = IF confident THEN mishaps ELSE mishaps + 1
  /\ disturbed' = disturbed \cup
       {p.report : p \in {q \in MonitorProposals :
          \E v \in Workers \ {w} : q.report \in InHand(v)}}
  /\ Goto(w, "record")
  /\ UNCHANGED <<cited, rows, current, entry>>

(* The upsert puts the decision of a proposal that is recorded again back  *)
(* to pending.                                                             *)
MutRecordUnsaved(w) ==
  /\ pc[w] = "record"
  /\ \E p \in todo[w] : current' = [current EXCEPT ![w] = p]
  /\ Goto(w, "decide")
  /\ UNCHANGED <<cited, rows, todo, seen, sure, entry, mishaps, disturbed>>
MutRecordOnce(w) ==
  /\ pc[w] = "record"
  /\ \E p \in todo[w] :
       /\ p \notin DOMAIN proposals
       /\ current' = [current EXCEPT ![w] = p]
       /\ proposals' = Upsert(p, "pending")
  /\ Goto(w, "decide")
  /\ UNCHANGED <<cited, status, registry, reruns, index, todo, seen, sure, entry, mishaps, disturbed>>
RecordProposal(w) ==
  /\ pc[w] = "record"
  /\ \E p \in todo[w] :
       /\ current' = [current EXCEPT ![w] = p]
       /\ proposals' = Upsert(p, "pending")
  /\ Goto(w, "decide")
  /\ UNCHANGED <<cited, status, registry, reruns, index, todo, seen, sure, entry, mishaps, disturbed>>

(* automated_transition_decision: a proposal that only says "unchecked" is *)
(* accepted whatever the confidence.                                       *)
Verdict(w, p) ==
  IF p.target = "unchecked" \/ sure[w] THEN "accepted" ELSE "rejected"

(* decide_external_transition: one transaction for the decision, the       *)
(* report and the registry.  It does not ask whether the proposal is       *)
(* pending, nor whether the report still has the status it starts from.    *)
MutDecideReportLater(w) ==
  LET p == current[w] IN
  /\ pc[w] = "decide"
  /\ proposals' = [proposals EXCEPT ![p] = Verdict(w, p)]
  /\ status' = status
  /\ registry' = IF Verdict(w, p) = "accepted" /\ CandidateOf[p.report] \in Candidates
                    /\ registry[CandidateOf[p.report]] # Absent
                 THEN [registry EXCEPT ![CandidateOf[p.report]] = p.target] ELSE registry
  /\ Goto(w, "rerun")
  /\ UNCHANGED <<cited, reruns, index, todo, current, seen, sure, entry, mishaps, disturbed>>
MutDecideFresh(w) ==
  LET p == current[w] IN
  /\ pc[w] = "decide"
  /\ proposals' = [proposals EXCEPT ![p] = Verdict(w, p)]
  /\ status' = IF Verdict(w, p) = "accepted"
               THEN [status EXCEPT ![p.report] = Infer(cited[p.report])] ELSE status
  /\ UNCHANGED registry
  /\ Goto(w, "rerun")
  /\ UNCHANGED <<cited, reruns, index, todo, current, seen, sure, entry, mishaps, disturbed>>
Decide(w) ==
  LET p == current[w]
      c == CandidateOf[p.report]
      accepted == Verdict(w, p) = "accepted" IN
  /\ pc[w] = "decide"
  /\ proposals' = [proposals EXCEPT ![p] = Verdict(w, p)]
  /\ status' = IF accepted THEN [status EXCEPT ![p.report] = p.target] ELSE status
  /\ registry' = IF accepted /\ c \in Candidates /\ registry[c] # Absent
                 THEN [registry EXCEPT ![c] = p.target] ELSE registry
  /\ Goto(w, "rerun")
  /\ UNCHANGED <<cited, reruns, index, todo, current, seen, sure, entry, mishaps, disturbed>>

(* rerun_request_from_transition: only an accepted change of status asks   *)
(* for a rerun.                                                            *)
NeedsRerun(w, p) == Verdict(w, p) = "accepted" /\ p.target # "unchecked"

(* record_external_rerun_request: the upsert queues it again. *)
QueueRerun(w) ==
  /\ pc[w] = "rerun"
  /\ reruns' = IF NeedsRerun(w, current[w])
               THEN reruns \cup {current[w]} ELSE reruns
  /\ Goto(w, "read")
  /\ UNCHANGED <<cited, status, registry, proposals, index, todo, current, seen, sure, entry, mishaps, disturbed>>

(* report_by_id, build_report_index_entry. *)
ReadReport(w) ==
  /\ pc[w] = "read"
  /\ entry' = [entry EXCEPT ![w] = status[current[w].report]]
  /\ Goto(w, "index")
  /\ UNCHANGED <<cited, rows, todo, current, seen, sure, mishaps, disturbed>>

(* upsert_report_index_entry; the cycle goes on with its next proposal. *)
MutIndexStale(w) ==
  /\ pc[w] = "index"
  /\ index' = [index EXCEPT ![current[w].report] = seen[w][current[w].report]]
  /\ Forget(w)
  /\ UNCHANGED <<cited, status, registry, proposals, reruns, mishaps, disturbed>>
Index(w) ==
  /\ pc[w] = "index"
  /\ index' = [index EXCEPT ![current[w].report] = entry[w]]
  /\ IF todo[w] = {current[w]} THEN Forget(w)
     ELSE /\ Goto(w, "record")
          /\ todo' = [todo EXCEPT ![w] = @ \ {current[w]}]
          /\ current' = [current EXCEPT ![w] = NoProposal]
          /\ entry' = [entry EXCEPT ![w] = Absent]
          /\ UNCHANGED <<seen, sure>>
  /\ UNCHANGED <<cited, status, registry, proposals, reruns, mishaps, disturbed>>

Crash(w) ==
  /\ pc[w] # "idle"
  /\ mishaps < MaxMishaps
  /\ mishaps' = mishaps + 1
  /\ disturbed' = disturbed \cup InHand(w)
  /\ Forget(w)
  /\ UNCHANGED <<cited, rows>>

Step(w) ==
  \/ RecordProposal(w)
  \/ Decide(w)
  \/ QueueRerun(w)
  \/ ReadReport(w)
  \/ Index(w)

Next ==
  \/ \E r \in Reports : RegisterReport(r)
  \/ \E c \in Candidates : RegisterStable(c)
  \/ \E r \in Reports, e \in Evidence : Cite(r, e)
  \/ \E w \in Workers :
       \/ \E confident \in BOOLEAN : Monitor(w, confident)
       \/ Step(w)
       \/ Crash(w)

Spec == Init /\ [][Next]_vars

(* A worker that began a cycle goes on, and the monitor is called again    *)
(* and again with its default confidence of 0.75.                          *)
Fairness ==
  \A w \in Workers : WF_vars(Step(w)) /\ SF_vars(Monitor(w, TRUE))

FairSpec == Spec /\ Fairness

-----------------------------------------------------------------------------
(* Properties *)

Places == {"idle", "record", "decide", "rerun", "read", "index"}

(* The types of the variables; a worker has a proposal in hand exactly     *)
(* between recording it and indexing its report, the proposal is then a    *)
(* row of the store (so decide_external_transition cannot raise KeyError   *)
(* and the rerun's foreign key holds), and its report is registered.  No   *)
(* proposal is one that the validator would have rejected.                 *)
TypeOK ==
  /\ cited \in [Reports -> SUBSET Evidence]
  /\ status \in [Reports -> Statuses \cup {Absent}]
  /\ registry \in [Candidates -> Statuses \cup {Absent}]
  /\ DOMAIN proposals \subseteq ValidProposals
  /\ proposals \in [DOMAIN proposals -> Decisions]
  /\ reruns \subseteq DOMAIN proposals
  /\ index \in [Reports -> Statuses \cup {Absent}]
  /\ pc \in [Workers -> Places]
  /\ todo \in [Workers -> SUBSET ValidProposals]
  /\ current \in [Workers -> ProposalIds \cup {NoProposal}]
  /\ seen \in [Workers -> [Reports -> Statuses \cup {Absent}]]
  /\ sure \in [Workers -> BOOLEAN]
  /\ entry \in [Workers -> Statuses \cup {Absent}]
  /\ mishaps \in Nat
  /\ disturbed \subseteq Reports
  /\ \A w \in Workers :
       /\ InHand(w) \subseteq Registered
       /\ IF pc[w] \in {"idle", "record"} THEN current[w] = NoProposal
          ELSE current[w] \in todo[w] \cap DOMAIN proposals

(* A report shows an external verdict only if evidence cited for it says   *)
(* so and the proposal that cites it is in the store                       *)
(* (external_status.py: infer, propose; store.py: decide).                 *)
StatusIsCited ==
  \A r \in Registered : status[r] \notin {"not_submitted", "unchecked"} =>
    \E p \in DOMAIN proposals :
      /\ p.report = r
      /\ p.target = status[r]
      /\ p.evidence \subseteq cited[r]
      /\ Infer(p.evidence) = status[r]

(* The registry of stable candidates shows the status it was registered    *)
(* with or the present status of one of the candidate's reports: a         *)
(* decision changes both or neither (store.py: decide).                    *)
RegistryFollowsReports ==
  \A c \in Candidates :
    registry[c] \in {Absent, "not_submitted"} \cup
      {status[r] : r \in {q \in Registered : CandidateOf[q] = c}}

(* When no two workers had a report in hand at once and no worker crashed  *)
(* with it, then once its cycle is over nothing about it is left pending,  *)
(* its verdict is an accepted proposal with a queued rerun, and the search *)
(* index shows its status.                                                 *)
QuietReportIsSettled ==
  \A r \in Registered \ disturbed : (\A w \in Workers : r \notin InHand(w)) =>
    /\ \A p \in DOMAIN proposals : p.report = r => proposals[p] # "pending"
    /\ status[r] \notin {"not_submitted", "unchecked"} =>
         /\ index[r] = status[r]
         /\ \E p \in reruns :
              p.report = r /\ p.target = status[r] /\ proposals[p] = "accepted"
    /\ index[r] \in {Absent, status[r]}

Rank(s) ==
  CASE s = "externally_refuted" -> 3
    [] s = "superseded" -> 2
    [] s = "externally_supported" -> 1
    [] OTHER -> 0

(* Evidence accumulates, so a verdict only gets graver; a decision that    *)
(* takes a report back to a lighter one comes from a snapshot another      *)
(* worker's decision has overtaken (store.py: decide does not compare the  *)
(* report with the status the proposal starts from).                       *)
FallBackNeedsStaleSnapshot ==
  [][\A r \in Reports : Rank(status'[r]) < Rank(status[r]) =>
       \E w \in Workers :
         /\ pc[w] = "decide"
         /\ current[w].report = r
         /\ seen[w][r] # status[r]]_vars

(* However many workers carry proposals through the five transactions,     *)
(* every change of a report's status and of its candidate's registry entry *)
(* is one step that shows what some evidence cited for it says             *)
(* (store.py: decide; external_status.py: monitor, infer).                 *)
Rule == INSTANCE StatusRule WITH VerdictOf <- [basis \in SUBSET Evidence |-> Infer(basis)]
StatusRuleSpec == Rule!Spec

(* Once no more evidence comes in, every registered report that has some   *)
(* ends with what all of it says, in spite of stale snapshots, crashes and *)
(* rejections.                                                             *)
StatusConverges ==
  \A r \in Reports :
    <>[](status[r] # Absent /\ cited[r] # {} => status[r] = Infer(cited[r]))
=============================================================================
