------------------------ MODULE ExternalStatusProofs ------------------------
(***************************************************************************)
(* Proofs about ExternalStatus for every value of its constants: the type  *)
(* invariant, that reports and registry show only what was cited and       *)
(* decided, and that only a stale snapshot takes a verdict back.           *)
(***************************************************************************)
EXTENDS ExternalStatus, TLAPS

USE DEF Targets, Statuses, Decisions, Places

(* The store's validator accepts every proposal the monitor makes. *)
LEMMA MonitorProposalsValid ==
  ASSUME TypeOK, NEW p \in MonitorProposals
  PROVE /\ p \in ValidProposals
        /\ p.report \in Registered
        /\ p.evidence = cited[p.report]
        /\ p.target = Infer(p.evidence)
        /\ p.target # status[p.report]
<1>1. PICK r \in Registered :
        /\ p = [report |-> r, target |-> Infer(cited[r]), evidence |-> cited[r]]
        /\ Infer(cited[r]) # status[r]
  BY DEF MonitorProposals
<1>2. /\ p.report = r /\ p.evidence = cited[r] /\ p.target = Infer(cited[r])
      /\ r \in Reports /\ cited[r] \in SUBSET Evidence
  BY <1>1 DEF TypeOK, Registered
<1>3. Infer(cited[r]) \in Targets
  BY DEF Infer
<1>4. p \in ProposalIds
  BY <1>1, <1>2, <1>3 DEF ProposalIds
<1>5. ValidProposal(p)
  BY <1>2 DEF ValidProposal, Infer
<1> QED BY <1>1, <1>2, <1>4, <1>5 DEF ValidProposals

(* The types of ExternalStatus's variables hold in every state; what a     *)
(* worker has in hand is in the store and valid.                           *)
THEOREM TypeCorrect == Spec => []TypeOK
<1> USE AbsentAssumption
<1>1. Init => TypeOK
  BY ConstantsAssumption DEF Init, TypeOK, InHand
<1>2. ASSUME TypeOK, [Next]_vars PROVE TypeOK'
  <2> USE <1>2 DEF TypeOK, Goto, InHand, Registered
  <2>1. CASE UNCHANGED vars
    BY <2>1 DEF vars, rows, local
  <2>2. ASSUME NEW r \in Reports, RegisterReport(r) PROVE TypeOK'
    <3>1. FirstStatus[r] \in Statuses
      BY ConstantsAssumption
    <3> QED BY <2>2, <3>1 DEF RegisterReport, local
  <2>3. ASSUME NEW c \in Candidates, RegisterStable(c) PROVE TypeOK'
    BY <2>3 DEF RegisterStable, local
  <2>4. ASSUME NEW r \in Reports, NEW e \in Evidence, Cite(r, e) PROVE TypeOK'
    BY <2>4 DEF Cite, rows, local
  <2>5. ASSUME NEW w \in Workers, NEW confident \in BOOLEAN, Monitor(w, confident) PROVE TypeOK'
    <3>1. /\ MonitorProposals \subseteq ValidProposals
          /\ \A p \in MonitorProposals : p.report \in Registered
      BY MonitorProposalsValid
    <3>2. mishaps' \in Nat
      BY <2>5 DEF Monitor
    <3>3. todo' \in [Workers -> SUBSET ValidProposals]
      BY <2>5, <3>1 DEF Monitor
    <3>4. disturbed' \subseteq Reports
      BY <2>5, <3>1 DEF Monitor
    <3>5. \A v \in Workers : InHand(v)' \subseteq Registered'
      BY <2>5, <3>1 DEF Monitor, rows
    <3>6. \A v \in Workers :
            IF pc'[v] \in {"idle", "record"} THEN current'[v] = NoProposal
            ELSE current'[v] \in todo'[v] \cap DOMAIN proposals'
      BY <2>5 DEF Monitor, rows
    <3> QED BY <2>5, <3>2, <3>3, <3>4, <3>5, <3>6 DEF Monitor, rows
  <2>6. ASSUME NEW w \in Workers, RecordProposal(w) PROVE TypeOK'
    <3>1. PICK p \in todo[w] :
            /\ current' = [current EXCEPT ![w] = p]
            /\ proposals' = Upsert(p, "pending")
      BY <2>6 DEF RecordProposal
    <3>2. p \in ValidProposals /\ p \in ProposalIds
      BY DEF ValidProposals
    <3>3. /\ DOMAIN proposals' = DOMAIN proposals \cup {p}
          /\ proposals' \in [DOMAIN proposals' -> Decisions]
      BY <3>1 DEF Upsert
    <3> QED BY <2>6, <3>1, <3>2, <3>3 DEF RecordProposal
  <2>7. ASSUME NEW w \in Workers, Decide(w) PROVE TypeOK'
    <3> DEFINE p == current[w]
    <3>1. p \in todo[w] /\ p \in DOMAIN proposals
      BY <2>7 DEF Decide
    <3>2. p \in ProposalIds /\ p.report \in Reports /\ p.target \in Targets
      BY <3>1 DEF ValidProposals, ProposalIds
    <3>3. Verdict(w, p) \in Decisions
      BY DEF Verdict
    <3>4. /\ status' \in [Reports -> Statuses \cup {Absent}]
          /\ \A r \in Reports : status[r] # Absent => status'[r] # Absent
      BY <2>7, <3>2 DEF Decide
    <3>5. registry' \in [Candidates -> Statuses \cup {Absent}]
      BY <2>7, <3>2 DEF Decide
    <3>6. /\ DOMAIN proposals' = DOMAIN proposals
          /\ proposals' \in [DOMAIN proposals -> Decisions]
      BY <2>7, <3>3 DEF Decide
    <3> QED BY <2>7, <3>4, <3>5, <3>6 DEF Decide
  <2>8. ASSUME NEW w \in Workers, QueueRerun(w) PROVE TypeOK'
    <3>1. reruns' \subseteq DOMAIN proposals
      BY <2>8 DEF QueueRerun
    <3> QED BY <2>8, <3>1 DEF QueueRerun
  <2>9. ASSUME NEW w \in Workers, ReadReport(w) PROVE TypeOK'
    <3>1. current[w].report \in Reports
      BY <2>9 DEF ReadReport, ValidProposals, ProposalIds
    <3> QED BY <2>9, <3>1 DEF ReadReport, rows
  <2>10. ASSUME NEW w \in Workers, Index(w) PROVE TypeOK'
    <3>1. index' \in [Reports -> Statuses \cup {Absent}]
      BY <2>10 DEF Index
    <3>2. CASE todo[w] = {current[w]}
      <4>1. Forget(w)
        BY <2>10, <3>2 DEF Index
      <4>2. /\ pc' \in [Workers -> Places] /\ sure' \in [Workers -> BOOLEAN]
            /\ entry' \in [Workers -> Statuses \cup {Absent}]
        BY <4>1 DEF Forget
      <4>3. todo' \in [Workers -> SUBSET ValidProposals]
        BY <4>1 DEF Forget
      <4>4. current' \in [Workers -> ProposalIds \cup {NoProposal}]
        BY <4>1 DEF Forget
      <4>5. seen' \in [Workers -> [Reports -> Statuses \cup {Absent}]]
        BY <4>1 DEF Forget
      <4>6. ASSUME NEW v \in Workers
            PROVE /\ \A p \in todo'[v] : p.report \in Reports /\ status[p.report] # Absent
                  /\ IF pc'[v] \in {"idle", "record"} THEN current'[v] = NoProposal
                     ELSE current'[v] \in todo'[v] \cap DOMAIN proposals
        BY <4>1 DEF Forget
      <4>7. status' = status /\ proposals' = proposals
        BY <2>10 DEF Index
      <4>8. \A v \in Workers :
              /\ InHand(v)' \subseteq Registered'
              /\ IF pc'[v] \in {"idle", "record"} THEN current'[v] = NoProposal
                 ELSE current'[v] \in todo'[v] \cap DOMAIN proposals'
        BY <4>6, <4>7
      <4> QED BY <2>10, <3>1, <4>2, <4>3, <4>4, <4>5, <4>8 DEF Index
    <3>3. CASE todo[w] # {current[w]}
      <4> DEFINE rest == todo[w] \ {current[w]}
      <4>1. /\ pc' = [pc EXCEPT ![w] = "record"]
            /\ todo' = [todo EXCEPT ![w] = rest]
            /\ current' = [current EXCEPT ![w] = NoProposal]
            /\ entry' = [entry EXCEPT ![w] = Absent]
            /\ seen' = seen /\ sure' = sure
        BY <2>10, <3>3 DEF Index
      <4>2. rest \subseteq ValidProposals /\ rest \subseteq todo[w]
        OBVIOUS
      <4>3. todo' \in [Workers -> SUBSET ValidProposals]
        BY <4>1, <4>2
      <4>4. ASSUME NEW v \in Workers
            PROVE /\ \A p \in todo'[v] : p.report \in Reports /\ status[p.report] # Absent
                  /\ IF pc'[v] \in {"idle", "record"} THEN current'[v] = NoProposal
                     ELSE current'[v] \in todo'[v] \cap DOMAIN proposals
        BY <4>1, <4>2
      <4>5. status' = status /\ proposals' = proposals
        BY <2>10 DEF Index
      <4>6. \A v \in Workers :
              /\ InHand(v)' \subseteq Registered'
              /\ IF pc'[v] \in {"idle", "record"} THEN current'[v] = NoProposal
                 ELSE current'[v] \in todo'[v] \cap DOMAIN proposals'
        BY <4>4, <4>5
      <4> QED BY <2>10, <3>1, <4>1, <4>3, <4>6 DEF Index
    <3> QED BY <3>2, <3>3
  <2>11. ASSUME NEW w \in Workers, Crash(w) PROVE TypeOK'
    <3>1. InHand(w) \subseteq Reports
      OBVIOUS
    <3> QED BY <2>11, <3>1 DEF Crash, Forget, rows
  <2> QED
    BY <2>1, <2>2, <2>3, <2>4, <2>5, <2>6, <2>7, <2>8, <2>9, <2>10, <2>11 DEF Next, Step
<1> QED BY <1>1, <1>2, PTL DEF Spec

-----------------------------------------------------------------------------
(* What a step can change, for the proofs below. *)

(* A proposal is what the monitor infers from evidence that is cited.      *)
WellFounded(p) == p.target = Infer(p.evidence) /\ p.evidence \subseteq cited[p.report]

ProposalsFounded ==
  /\ \A p \in DOMAIN proposals : WellFounded(p)
  /\ \A w \in Workers : \A p \in todo[w] : WellFounded(p)

(* Rows of the proposal table stay and evidence accumulates.               *)
LEMMA StoreGrows ==
  ASSUME TypeOK, [Next]_vars
  PROVE /\ DOMAIN proposals \subseteq DOMAIN proposals'
        /\ \A r \in Reports : cited[r] \subseteq cited'[r]
<1>1. CASE UNCHANGED vars
  BY <1>1 DEF vars, rows
<1>2. ASSUME NEW r \in Reports, RegisterReport(r)
      PROVE proposals' = proposals /\ cited' = cited
  BY <1>2 DEF RegisterReport
<1>3. ASSUME NEW c \in Candidates, RegisterStable(c)
      PROVE proposals' = proposals /\ cited' = cited
  BY <1>3 DEF RegisterStable
<1>4. ASSUME NEW r \in Reports, NEW e \in Evidence, Cite(r, e)
      PROVE proposals' = proposals /\ \A q \in Reports : cited[q] \subseteq cited'[q]
  BY <1>4 DEF Cite, rows, TypeOK
<1>5. ASSUME NEW w \in Workers, NEW confident \in BOOLEAN, Monitor(w, confident)
      PROVE proposals' = proposals /\ cited' = cited
  BY <1>5 DEF Monitor, rows
<1>6. ASSUME NEW w \in Workers, RecordProposal(w)
      PROVE DOMAIN proposals \subseteq DOMAIN proposals' /\ cited' = cited
  BY <1>6 DEF RecordProposal, Upsert
<1>7. ASSUME NEW w \in Workers, Decide(w)
      PROVE DOMAIN proposals \subseteq DOMAIN proposals' /\ cited' = cited
  BY <1>7 DEF Decide
<1>8. ASSUME NEW w \in Workers, QueueRerun(w) \/ ReadReport(w) \/ Index(w) \/ Crash(w)
      PROVE proposals' = proposals /\ cited' = cited
  BY <1>8 DEF QueueRerun, ReadReport, Index, Crash, rows
<1> QED
  BY <1>1, <1>2, <1>3, <1>4, <1>5, <1>6, <1>7, <1>8 DEF Next, Step

(* A cycle's proposals and snapshot come from the monitor; the proposals   *)
(* only shrink.                                                            *)
LEMMA WorkComesFromMonitor ==
  ASSUME TypeOK, [Next]_vars, NEW v \in Workers
  PROVE \/ todo'[v] \subseteq todo[v] /\ (todo'[v] = {} \/ seen'[v] = seen[v])
        \/ todo'[v] = MonitorProposals /\ seen'[v] = status
<1> USE DEF TypeOK
<1>1. CASE UNCHANGED vars
  BY <1>1 DEF vars, local
<1>2. ASSUME NEW r \in Reports, RegisterReport(r) PROVE todo' = todo /\ seen' = seen
  BY <1>2 DEF RegisterReport, local
<1>3. ASSUME NEW c \in Candidates, RegisterStable(c) PROVE todo' = todo /\ seen' = seen
  BY <1>3 DEF RegisterStable, local
<1>4. ASSUME NEW r \in Reports, NEW e \in Evidence, Cite(r, e) PROVE todo' = todo /\ seen' = seen
  BY <1>4 DEF Cite, local
<1>5. ASSUME NEW w \in Workers, NEW confident \in BOOLEAN, Monitor(w, confident)
      PROVE \/ todo'[v] = todo[v] /\ seen'[v] = seen[v]
            \/ todo'[v] = MonitorProposals /\ seen'[v] = status
  BY <1>5 DEF Monitor
<1>6. ASSUME NEW w \in Workers, RecordProposal(w) \/ Decide(w) \/ QueueRerun(w) \/ ReadReport(w)
      PROVE todo' = todo /\ seen' = seen
  BY <1>6 DEF RecordProposal, Decide, QueueRerun, ReadReport
<1>7. ASSUME NEW w \in Workers, Forget(w)
      PROVE \/ todo'[v] = {}
            \/ todo'[v] = todo[v] /\ seen'[v] = seen[v]
  BY <1>7 DEF Forget
<1>8. ASSUME NEW w \in Workers, Index(w)
      PROVE todo'[v] \subseteq todo[v] /\ (todo'[v] = {} \/ seen'[v] = seen[v])
  <2>1. \/ Forget(w)
        \/ todo' = [todo EXCEPT ![w] = @ \ {current[w]}] /\ seen' = seen
    BY <1>8 DEF Index
  <2> QED BY <1>7, <2>1
<1>9. ASSUME NEW w \in Workers, Crash(w) PROVE Forget(w)
  BY <1>9 DEF Crash
<1> QED
  BY <1>1, <1>2, <1>3, <1>4, <1>5, <1>6, <1>7, <1>8, <1>9 DEF Next, Step

(* A report's status is set by its registration and by a decision.         *)
LEMMA StatusChanges ==
  ASSUME TypeOK, [Next]_vars, NEW r \in Reports, status'[r] # status[r]
  PROVE \/ status[r] = Absent /\ status'[r] \in {"not_submitted", "unchecked"}
        \/ \E w \in Workers :
             /\ Decide(w)
             /\ current[w] \in todo[w] \cap DOMAIN proposals
             /\ current[w].report = r
             /\ status'[r] = current[w].target
<1> USE DEF TypeOK
<1>1. CASE UNCHANGED vars
  BY <1>1 DEF vars, rows
<1>2. ASSUME NEW q \in Reports, RegisterReport(q)
      PROVE status[r] = Absent /\ status'[r] \in {"not_submitted", "unchecked"}
  BY <1>2, ConstantsAssumption DEF RegisterReport
<1>3. ASSUME NEW w \in Workers, Decide(w)
      PROVE /\ current[w] \in todo[w] \cap DOMAIN proposals
            /\ current[w].report = r
            /\ status'[r] = current[w].target
  <2>1. current[w] \in todo[w] \cap DOMAIN proposals
    BY <1>3 DEF Decide
  <2>2. current[w].report \in Reports
    BY <2>1 DEF ValidProposals, ProposalIds
  <2> QED BY <1>3, <2>1, <2>2 DEF Decide
<1>4. ASSUME NEW w \in Workers, \/ \E confident \in BOOLEAN : Monitor(w, confident)
                                \/ RecordProposal(w) \/ QueueRerun(w) \/ ReadReport(w)
                                \/ Index(w) \/ Crash(w)
      PROVE FALSE
  BY <1>4 DEF Monitor, RecordProposal, QueueRerun, ReadReport, Index, Crash, rows
<1>5. ASSUME NEW c \in Candidates, RegisterStable(c) PROVE FALSE
  BY <1>5 DEF RegisterStable
<1>6. ASSUME NEW q \in Reports, NEW e \in Evidence, Cite(q, e) PROVE FALSE
  BY <1>6 DEF Cite, rows
<1> QED
  BY <1>1, <1>2, <1>3, <1>4, <1>5, <1>6 DEF Next, Step

(* A new row of the proposal table was in a worker's hands. *)
LEMMA RowsComeFromHands ==
  ASSUME TypeOK, [Next]_vars, NEW p \in DOMAIN proposals' \ DOMAIN proposals
  PROVE \E w \in Workers : p \in todo[w]
<1>1. CASE UNCHANGED vars
  BY <1>1 DEF vars, rows
<1>2. ASSUME NEW w \in Workers, RecordProposal(w) PROVE \E v \in Workers : p \in todo[v]
  BY <1>2 DEF RecordProposal, Upsert
<1>3. ASSUME NEW w \in Workers, Decide(w) PROVE FALSE
  BY <1>3 DEF Decide
<1>4. ASSUME NEW w \in Workers, \/ \E confident \in BOOLEAN : Monitor(w, confident)
                                \/ QueueRerun(w) \/ ReadReport(w) \/ Index(w) \/ Crash(w)
      PROVE FALSE
  BY <1>4 DEF Monitor, QueueRerun, ReadReport, Index, Crash, rows
<1>5. ASSUME NEW c \in Candidates, RegisterStable(c) PROVE FALSE
  BY <1>5 DEF RegisterStable
<1>6. ASSUME NEW r \in Reports, RegisterReport(r) PROVE FALSE
  BY <1>6 DEF RegisterReport
<1>7. ASSUME NEW r \in Reports, NEW e \in Evidence, Cite(r, e) PROVE FALSE
  BY <1>7 DEF Cite, rows
<1> QED
  BY <1>1, <1>2, <1>3, <1>4, <1>5, <1>6, <1>7 DEF Next, Step

LEMMA FoundedStep ==
  ASSUME TypeOK, ProposalsFounded, [Next]_vars
  PROVE ProposalsFounded'
<1>1. \A r \in Reports : cited[r] \subseteq cited'[r]
  BY StoreGrows
<1>2. ASSUME NEW p \in ProposalIds, WellFounded(p)
      PROVE p.target = Infer(p.evidence) /\ p.evidence \subseteq cited'[p.report]
  BY <1>1, <1>2 DEF WellFounded, ProposalIds
<1>3. ASSUME NEW w \in Workers, NEW p \in todo'[w]
      PROVE p.target = Infer(p.evidence) /\ p.evidence \subseteq cited'[p.report]
  <2>1. CASE p \in todo[w]
    BY <2>1, <1>2 DEF ProposalsFounded, TypeOK, ValidProposals
  <2>2. CASE p \in MonitorProposals
    BY <2>2, <1>2, MonitorProposalsValid DEF WellFounded, ValidProposals
  <2> QED BY <2>1, <2>2, WorkComesFromMonitor
<1>4. \A p \in DOMAIN proposals' \ DOMAIN proposals : \E w \in Workers : p \in todo[w]
  BY RowsComeFromHands
<1>5. ASSUME NEW p \in DOMAIN proposals'
      PROVE p.target = Infer(p.evidence) /\ p.evidence \subseteq cited'[p.report]
  <2>1. CASE p \in DOMAIN proposals
    BY <2>1, <1>2 DEF ProposalsFounded, TypeOK, ValidProposals
  <2>2. CASE p \notin DOMAIN proposals
    BY <2>2, <1>2, <1>4 DEF ProposalsFounded, TypeOK, ValidProposals
  <2> QED BY <2>1, <2>2
<1> QED BY <1>3, <1>5 DEF ProposalsFounded, WellFounded

(* A verdict a report shows rests on evidence cited for it, through a      *)
(* proposal in the store (external_status.py and                           *)
(* decide_external_transition).  The proposals in the workers' hands have  *)
(* to be founded already: they become rows and verdicts later.             *)
THEOREM StatusesAreCited == Spec => []StatusIsCited
<1>1. Init => ProposalsFounded /\ StatusIsCited
  BY DEF Init, ProposalsFounded, StatusIsCited, Registered
<1>2. ASSUME TypeOK, ProposalsFounded, StatusIsCited, [Next]_vars
      PROVE StatusIsCited'
  <2>1. SUFFICES ASSUME NEW r \in Reports, status'[r] # Absent,
                        status'[r] \notin {"not_submitted", "unchecked"}
                 PROVE \E p \in DOMAIN proposals' :
                         /\ p.report = r
                         /\ p.target = status'[r]
                         /\ p.evidence \subseteq cited'[r]
                         /\ Infer(p.evidence) = status'[r]
    BY DEF StatusIsCited, Registered
  <2>2. CASE status'[r] = status[r]
    BY <2>1, <2>2, <1>2, StoreGrows DEF StatusIsCited, Registered
  <2>3. CASE status'[r] # status[r]
    <3>1. PICK w \in Workers :
            /\ current[w] \in DOMAIN proposals
            /\ current[w].report = r
            /\ status'[r] = current[w].target
      BY <2>1, <2>3, <1>2, StatusChanges
    <3>2. WellFounded(current[w])
      BY <3>1, <1>2 DEF ProposalsFounded
    <3> QED BY <3>1, <3>2, <1>2, StoreGrows DEF WellFounded
  <2> QED BY <2>2, <2>3
<1>3. ASSUME TypeOK, ProposalsFounded, [Next]_vars PROVE ProposalsFounded'
  BY <1>3, FoundedStep
<1> QED BY <1>1, <1>2, <1>3, TypeCorrect, PTL DEF Spec

(* A decision changes report and registry together or not at all           *)
(* (decide_external_transition), so a registry entry shows the status of a *)
(* report of its candidate, or none of them has been decided since.        *)
THEOREM RegistryShowsAReport == Spec => []RegistryFollowsReports
<1> USE DEF RegistryFollowsReports, Registered
<1>1. Init => RegistryFollowsReports
  BY DEF Init
<1>2. ASSUME TypeOK, RegistryFollowsReports, [Next]_vars PROVE RegistryFollowsReports'
  <2> USE <1>2 DEF TypeOK
  <2>1. CASE status' = status /\ registry' = registry
    BY <2>1
  <2>2. ASSUME NEW r \in Reports, RegisterReport(r) PROVE RegistryFollowsReports'
    BY <2>2 DEF RegisterReport
  <2>3. ASSUME NEW c \in Candidates, RegisterStable(c) PROVE RegistryFollowsReports'
    BY <2>3 DEF RegisterStable
  <2>4. ASSUME NEW w \in Workers, Decide(w) PROVE RegistryFollowsReports'
    <3> DEFINE p == current[w]
               c == CandidateOf[p.report]
    <3>1. p.report \in Reports /\ status[p.report] # Absent /\ p.target \in Statuses
      BY <2>4 DEF Decide, InHand, ValidProposals, ProposalIds
    <3>2. CASE Verdict(w, p) # "accepted"
      BY <2>1, <2>4, <3>2 DEF Decide
    <3>3. CASE Verdict(w, p) = "accepted" /\ c \in Candidates /\ registry[c] # Absent
      <4>1. /\ status' = [status EXCEPT ![p.report] = p.target]
            /\ registry' = [registry EXCEPT ![c] = p.target]
        BY <2>4, <3>3 DEF Decide
      <4>2. p.target # Absent
        BY <3>1, AbsentAssumption
      <4>3. ASSUME NEW d \in Candidates, d # c
            PROVE registry'[d] \in {Absent, "not_submitted"} \cup
                    {status'[r] : r \in {q \in Reports : status'[q] # Absent /\ CandidateOf[q] = d}}
        BY <4>1, <4>2, <4>3
      <4>4. registry'[c] \in {status'[r] : r \in {q \in Reports : status'[q] # Absent /\ CandidateOf[q] = c}}
        BY <3>1, <3>3, <4>1, <4>2
      <4> QED BY <4>3, <4>4
    <3>4. CASE Verdict(w, p) = "accepted" /\ ~(c \in Candidates /\ registry[c] # Absent)
      <4>1. /\ status' = [status EXCEPT ![p.report] = p.target]
            /\ registry' = registry
        BY <2>4, <3>4 DEF Decide
      <4>2. p.target # Absent
        BY <3>1, AbsentAssumption
      <4>3. ASSUME NEW d \in Candidates, d # c
            PROVE registry'[d] \in {Absent, "not_submitted"} \cup
                    {status'[r] : r \in {q \in Reports : status'[q] # Absent /\ CandidateOf[q] = d}}
        BY <4>1, <4>2, <4>3
      <4> QED BY <3>4, <4>1, <4>3
    <3> QED BY <3>2, <3>3, <3>4
  <2>5. ASSUME NEW w \in Workers, \/ \E confident \in BOOLEAN : Monitor(w, confident)
                                  \/ RecordProposal(w) \/ QueueRerun(w) \/ ReadReport(w)
                                  \/ Index(w) \/ Crash(w)
        PROVE RegistryFollowsReports'
    BY <2>1, <2>5 DEF Monitor, RecordProposal, QueueRerun, ReadReport, Index, Crash, rows
  <2>6. ASSUME NEW r \in Reports, NEW e \in Evidence, Cite(r, e) PROVE RegistryFollowsReports'
    BY <2>1, <2>6 DEF Cite, rows
  <2>7. CASE UNCHANGED vars
    BY <2>1, <2>7 DEF vars, rows
  <2> QED
    BY <2>2, <2>3, <2>4, <2>5, <2>6, <2>7 DEF Next, Step
<1> QED BY <1>1, <1>2, TypeCorrect, PTL DEF Spec

-----------------------------------------------------------------------------
(* More evidence never makes a verdict lighter. *)
LEMMA VerdictsGetGraver ==
  ASSUME NEW A, NEW B, A \subseteq B
  PROVE Rank(Infer(A)) <= Rank(Infer(B))
<1> DEFINE RA == {RelationOf[e] : e \in A}
           RB == {RelationOf[e] : e \in B}
<1>1. RA \subseteq RB
  OBVIOUS
<1>2. /\ Rank("externally_refuted") = 3
      /\ Rank("superseded") = 2
      /\ Rank("externally_supported") = 1
      /\ Rank("unchecked") = 0
  BY DEF Rank
<1>3. Infer(A) = IF RA \cap Refuting # {} THEN "externally_refuted"
                 ELSE IF RA \cap Superseding # {} THEN "superseded"
                 ELSE IF RA \cap Supporting # {} THEN "externally_supported"
                 ELSE "unchecked"
  BY DEF Infer
<1>4. Infer(B) = IF RB \cap Refuting # {} THEN "externally_refuted"
                 ELSE IF RB \cap Superseding # {} THEN "superseded"
                 ELSE IF RB \cap Supporting # {} THEN "externally_supported"
                 ELSE "unchecked"
  BY DEF Infer
<1> HIDE DEF RA, RB
<1>5. CASE RA \cap Refuting # {}
  BY <1>1, <1>2, <1>3, <1>4, <1>5
<1>6. CASE RA \cap Refuting = {} /\ RA \cap Superseding # {}
  BY <1>1, <1>2, <1>3, <1>4, <1>6
<1>7. CASE RA \cap Refuting = {} /\ RA \cap Superseding = {} /\ RA \cap Supporting # {}
  BY <1>1, <1>2, <1>3, <1>4, <1>7
<1>8. CASE RA \cap Refuting = {} /\ RA \cap Superseding = {} /\ RA \cap Supporting = {}
  BY <1>2, <1>3, <1>4, <1>8
<1> QED BY <1>5, <1>6, <1>7, <1>8

(* The verdict a report shows is lighter than nothing that is cited, and a *)
(* proposal in hand is no lighter than the status its worker saw.          *)
Grounded ==
  \A r \in Registered : Rank(status[r]) <= Rank(Infer(cited[r]))
ProposalsAdvance ==
  \A w \in Workers : \A p \in todo[w] : Rank(seen[w][p.report]) <= Rank(p.target)

LEMMA RanksAreNaturals == \A s : Rank(s) \in Nat
BY DEF Rank

LEMMA GroundedStep ==
  ASSUME TypeOK, ProposalsFounded, Grounded, [Next]_vars
  PROVE Grounded'
<1>1. SUFFICES ASSUME NEW r \in Reports, status'[r] # Absent
               PROVE Rank(status'[r]) <= Rank(Infer(cited'[r]))
  BY DEF Grounded, Registered
<1>2. cited[r] \subseteq cited'[r]
  BY StoreGrows
<1>3. CASE status'[r] = status[r]
  <2>1. Rank(status[r]) <= Rank(Infer(cited[r]))
    BY <1>1, <1>3 DEF Grounded, Registered
  <2>2. Rank(Infer(cited[r])) <= Rank(Infer(cited'[r]))
    BY <1>2, VerdictsGetGraver
  <2> QED BY <1>3, <2>1, <2>2, RanksAreNaturals
<1>4. CASE status'[r] \in {"not_submitted", "unchecked"}
  BY <1>4, RanksAreNaturals DEF Rank
<1>5. CASE \E w \in Workers :
             /\ current[w] \in todo[w] \cap DOMAIN proposals
             /\ current[w].report = r
             /\ status'[r] = current[w].target
  <2>1. PICK w \in Workers :
             /\ current[w] \in DOMAIN proposals
             /\ current[w].report = r
             /\ status'[r] = current[w].target
    BY <1>5
  <2>2. PICK p \in DOMAIN proposals : p = current[w]
    BY <2>1
  <2>3. p.report = r /\ status'[r] = Infer(p.evidence) /\ p.evidence \subseteq cited[r]
    BY <2>1, <2>2 DEF ProposalsFounded, WellFounded
  <2>4. p.evidence \subseteq cited'[r]
    BY <2>3, <1>2
  <2> QED BY <2>3, <2>4, VerdictsGetGraver
<1> QED BY <1>3, <1>4, <1>5, StatusChanges

LEMMA AdvanceStep ==
  ASSUME TypeOK, Grounded, ProposalsAdvance, [Next]_vars
  PROVE ProposalsAdvance'
<1>1. SUFFICES ASSUME NEW w \in Workers, NEW p \in todo'[w]
               PROVE Rank(seen'[w][p.report]) <= Rank(p.target)
  BY DEF ProposalsAdvance
<1>2. CASE p \in todo[w] /\ seen'[w] = seen[w]
  BY <1>2 DEF ProposalsAdvance
<1>3. CASE p \in MonitorProposals /\ seen'[w] = status
  <2>1. p.report \in Registered /\ p.target = Infer(cited[p.report])
    BY <1>3, MonitorProposalsValid
  <2> QED BY <1>3, <2>1 DEF Grounded
<1> QED BY <1>1, <1>2, <1>3, WorkComesFromMonitor

(* decide_external_transition never compares the report with the status    *)
(* its proposal starts from; only this way a verdict can get lighter: by a *)
(* decision on a snapshot that is out of date.                             *)
THEOREM FallBackIsStale == Spec => FallBackNeedsStaleSnapshot
<1> DEFINE FallBack == \A r \in Reports : Rank(status'[r]) < Rank(status[r]) =>
             \E w \in Workers :
               /\ pc[w] = "decide"
               /\ current[w].report = r
               /\ seen[w][r] # status[r]
<1>1. Init => ProposalsFounded /\ Grounded /\ ProposalsAdvance
  BY DEF Init, ProposalsFounded, Grounded, ProposalsAdvance, Registered
<1>2. ASSUME TypeOK, ProposalsAdvance, [Next]_vars PROVE FallBack
  <2>1. SUFFICES ASSUME NEW r \in Reports, Rank(status'[r]) < Rank(status[r])
                 PROVE \E w \in Workers :
                         pc[w] = "decide" /\ current[w].report = r /\ seen[w][r] # status[r]
    OBVIOUS
  <2>2. status'[r] # status[r]
    BY <2>1, RanksAreNaturals
  <2>3. status[r] # Absent
    BY <2>1, RanksAreNaturals, AbsentAssumption DEF Rank
  <2>4. PICK w \in Workers :
          /\ Decide(w)
          /\ current[w] \in todo[w]
          /\ current[w].report = r
          /\ status'[r] = current[w].target
    BY <1>2, <2>2, <2>3, StatusChanges
  <2>5. Rank(seen[w][r]) <= Rank(status'[r])
    BY <1>2, <2>4 DEF ProposalsAdvance
  <2>6. seen[w][r] # status[r]
    BY <2>1, <2>5, RanksAreNaturals
  <2> QED BY <2>4, <2>6 DEF Decide
<1>3. ASSUME TypeOK, ProposalsFounded, Grounded, ProposalsAdvance, [Next]_vars
      PROVE ProposalsFounded' /\ Grounded' /\ ProposalsAdvance'
  BY <1>3, FoundedStep, GroundedStep, AdvanceStep
<1>4. TypeOK /\ ProposalsAdvance /\ [Next]_vars => [FallBack]_vars
  BY <1>2
<1> HIDE DEF FallBack
<1>5. Spec => [][FallBack]_vars
  BY <1>1, <1>3, <1>4, TypeCorrect, PTL DEF Spec
<1> QED BY <1>5 DEF FallBackNeedsStaleSnapshot, FallBack

-----------------------------------------------------------------------------
(* QuietReportIsSettled: what one worker alone does to a report. *)

ShowsVerdict(r) == status[r] \notin {"not_submitted", "unchecked", Absent}
NonePendingBut(r, some) ==
  \A q \in DOMAIN proposals : q.report = r /\ q \notin some => proposals[q] # "pending"
Backed(r) == ShowsVerdict(r) =>
  \E q \in reruns : q.report = r /\ q.target = status[r] /\ proposals[q] = "accepted"
Indexed(r) ==
  /\ index[r] \in {Absent, status[r]}
  /\ ShowsVerdict(r) => index[r] = status[r]
Settled(r) == NonePendingBut(r, {}) /\ Backed(r) /\ Indexed(r)

(* The worker carries the proposal through the store just now. *)
At(w, p) == p = current[w] /\ pc[w] \notin {"idle", "record"}

(* What holds of a proposal's report at each point of its way. *)
Carried(w, p) ==
  /\ ~At(w, p) => Settled(p.report) /\ p.target # status[p.report]
  /\ At(w, p) =>
       /\ pc[w] = "decide" =>
            /\ NonePendingBut(p.report, {p})
            /\ Backed(p.report) /\ Indexed(p.report)
            /\ p.target # status[p.report]
       /\ pc[w] # "decide" => NonePendingBut(p.report, {})
       /\ pc[w] = "rerun" =>
            /\ proposals[p] = Verdict(w, p)
            /\ IF Verdict(w, p) = "accepted" THEN status[p.report] = p.target
               ELSE Backed(p.report)
       /\ pc[w] \in {"read", "index"} => Backed(p.report)
       /\ pc[w] = "index" => entry[w] = status[p.report]

Has(w, r) == \E p \in todo[w] : p.report = r
QuietOf(r) ==
  /\ \A v, w \in Workers : Has(v, r) /\ Has(w, r) => v = w
  /\ (\A w \in Workers : ~Has(w, r)) => Settled(r)
  /\ \A w \in Workers : \A p \in todo[w] : p.report = r => Carried(w, p)
QuietInv == \A r \in Reports \ disturbed : QuietOf(r)

(* A cycle has one proposal per report; a proposal's report is registered. *)
CycleInv ==
  /\ \A p \in DOMAIN proposals : status[p.report] # Absent
  /\ \A w \in Workers :
       /\ pc[w] = "idle" => todo[w] = {}
       /\ \A p, q \in todo[w] : p.report = q.report => p = q

(* A step that changes neither the rows of a report nor the place of the   *)
(* worker that carries it. *)
Untouched(r) ==
  /\ status'[r] = status[r]
  /\ index'[r] = index[r]
  /\ \A q : q.report = r =>
       /\ q \in DOMAIN proposals' <=> q \in DOMAIN proposals
       /\ q \in DOMAIN proposals => proposals'[q] = proposals[q]
       /\ q \in reruns' <=> q \in reruns

LEMMA RowsUntouched ==
  ASSUME TypeOK, NEW r, Untouched(r), NEW some
  PROVE /\ NonePendingBut(r, some) => NonePendingBut(r, some)'
        /\ Backed(r) => Backed(r)'
        /\ Indexed(r) => Indexed(r)'
        /\ Settled(r) => Settled(r)'
BY DEF TypeOK, Untouched, NonePendingBut, Backed, Indexed, Settled, ShowsVerdict

LEMMA QuietUntouched ==
  ASSUME TypeOK, NEW r \in Reports, QuietOf(r), Untouched(r),
         \A w \in Workers : \A p : p.report = r => (p \in todo'[w] <=> p \in todo[w]),
         \A w \in Workers : \A p \in todo[w] : p.report = r =>
           \/ ~At(w, p) /\ ~At(w, p)'
           \/ /\ At(w, p) /\ At(w, p)'
              /\ pc'[w] = pc[w] /\ entry'[w] = entry[w] /\ sure'[w] = sure[w]
  PROVE QuietOf(r)'
<1>1. \A v \in Workers : Has(v, r)' <=> Has(v, r)
  BY DEF Has
<1>2. (\A w \in Workers : ~Has(w, r)') => Settled(r)'
  BY <1>1, RowsUntouched DEF QuietOf
<1>3. ASSUME NEW w \in Workers, NEW p \in todo'[w], p.report = r PROVE Carried(w, p)'
  <2>1. p \in todo[w] /\ Carried(w, p)
    BY <1>3 DEF QuietOf
  <2>2. /\ \A some : NonePendingBut(r, some) => NonePendingBut(r, some)'
        /\ Backed(r) => Backed(r)'
        /\ Indexed(r) => Indexed(r)'
        /\ Settled(r) => Settled(r)'
        /\ status'[r] = status[r]
    BY RowsUntouched DEF Untouched
  <2>3. CASE ~At(w, p) /\ ~At(w, p)'
    BY <1>3, <2>1, <2>2, <2>3 DEF Carried
  <2>4. CASE /\ At(w, p) /\ At(w, p)'
             /\ pc'[w] = pc[w] /\ entry'[w] = entry[w] /\ sure'[w] = sure[w]
    <3>1. p \in DOMAIN proposals /\ proposals'[p] = proposals[p]
      BY <1>3, <2>4 DEF TypeOK, At, Untouched
    <3>2. Verdict(w, p)' = Verdict(w, p)
      BY <2>4 DEF Verdict
    <3> QED BY <1>3, <2>1, <2>2, <2>4, <3>1, <3>2 DEF Carried
  <2> QED BY <1>3, <2>1, <2>3, <2>4
<1> QED BY <1>1, <1>2, <1>3 DEF QuietOf

LEMMA CycleStep ==
  ASSUME TypeOK, CycleInv, [Next]_vars
  PROVE CycleInv'
<1>1. ASSUME NEW p \in DOMAIN proposals' PROVE status'[p.report] # Absent
  <2>1. p.report \in Reports /\ status[p.report] # Absent
    <3>1. CASE p \in DOMAIN proposals
      BY <3>1 DEF CycleInv, TypeOK, ValidProposals, ProposalIds
    <3>2. CASE p \notin DOMAIN proposals
      <4>1. PICK w \in Workers : p \in todo[w]
        BY <1>1, <3>2, RowsComeFromHands
      <4> QED BY <4>1 DEF TypeOK, InHand, Registered
    <3> QED BY <3>1, <3>2
  <2>2. CASE status'[p.report] = status[p.report]
    BY <2>1, <2>2
  <2>3. CASE status'[p.report] # status[p.report]
    <3>1. PICK w \in Workers :
            current[w] \in DOMAIN proposals /\ status'[p.report] = current[w].target
      BY <2>1, <2>3, StatusChanges
    <3>2. current[w].target \in Statuses
      BY <3>1 DEF TypeOK, ValidProposals, ProposalIds
    <3> QED BY <3>1, <3>2, AbsentAssumption
  <2> QED BY <2>2, <2>3
<1>2. ASSUME NEW v \in Workers, NEW p \in todo'[v], NEW q \in todo'[v], p.report = q.report
      PROVE p = q
  <2>1. CASE p \in todo[v] /\ q \in todo[v]
    BY <1>2, <2>1 DEF CycleInv
  <2>2. CASE p \in MonitorProposals /\ q \in MonitorProposals
    BY <1>2, <2>2 DEF MonitorProposals
  <2> QED BY <2>1, <2>2, WorkComesFromMonitor
<1>3. ASSUME NEW v \in Workers, pc'[v] = "idle" PROVE todo'[v] = {}
  <2> USE DEF TypeOK, CycleInv
  <2>1. CASE UNCHANGED <<pc, todo>>
    BY <1>3, <2>1
  <2>2. CASE UNCHANGED vars
    BY <2>1, <2>2 DEF vars, local
  <2>3. ASSUME NEW w \in Workers, Forget(w) PROVE todo'[v] = {}
    BY <1>3, <2>3 DEF Forget, Goto
  <2>4. ASSUME NEW w \in Workers, NEW place \in Places \ {"idle"}, Goto(w, place),
               todo' = todo \/ \E work : todo' = [todo EXCEPT ![w] = work]
        PROVE todo'[v] = {}
    BY <1>3, <2>4 DEF Goto
  <2>5. ASSUME NEW w \in Workers, NEW confident \in BOOLEAN, Monitor(w, confident)
        PROVE todo'[v] = {}
    BY <2>4, <2>5 DEF Monitor
  <2>6. ASSUME NEW w \in Workers,
               RecordProposal(w) \/ Decide(w) \/ QueueRerun(w) \/ ReadReport(w)
        PROVE todo'[v] = {}
    BY <2>4, <2>6 DEF RecordProposal, Decide, QueueRerun, ReadReport
  <2>7. ASSUME NEW w \in Workers, Index(w) PROVE todo'[v] = {}
    BY <2>3, <2>4, <2>7 DEF Index
  <2>8. ASSUME NEW w \in Workers, Crash(w) PROVE todo'[v] = {}
    BY <2>3, <2>8 DEF Crash
  <2>9. ASSUME NEW r \in Reports, RegisterReport(r) PROVE todo'[v] = {}
    BY <2>1, <2>9 DEF RegisterReport, local
  <2>10. ASSUME NEW c \in Candidates, RegisterStable(c) PROVE todo'[v] = {}
    BY <2>1, <2>10 DEF RegisterStable, local
  <2>11. ASSUME NEW r \in Reports, NEW e \in Evidence, Cite(r, e) PROVE todo'[v] = {}
    BY <2>1, <2>11 DEF Cite, local
  <2> QED
    BY <2>2, <2>5, <2>6, <2>7, <2>8, <2>9, <2>10, <2>11 DEF Next, Step
<1> QED BY <1>1, <1>2, <1>3 DEF CycleInv

(* Registrations and citations: a report that is registered has no rows. *)
LEMMA QuietSurroundings ==
  ASSUME TypeOK, CycleInv, NEW r \in Reports, QuietOf(r),
         \/ \E q \in Reports : RegisterReport(q)
         \/ \E c \in Candidates : RegisterStable(c)
         \/ \E q \in Reports, e \in Evidence : Cite(q, e)
  PROVE QuietOf(r)'
<1>1. UNCHANGED <<proposals, reruns, index, local>>
  BY DEF RegisterReport, RegisterStable, Cite, rows
<1>2. CASE status'[r] = status[r]
  <2>1. Untouched(r)
    BY <1>1, <1>2 DEF Untouched
  <2> QED BY <1>1, <2>1, QuietUntouched DEF At, local
<1>3. CASE status'[r] # status[r]
  <2>1. status[r] = Absent /\ status'[r] \in {"not_submitted", "unchecked"}
    BY <1>3, ConstantsAssumption DEF RegisterReport, RegisterStable, Cite, rows, TypeOK
  <2>2. \A w \in Workers : ~Has(w, r)
    BY <2>1 DEF Has, TypeOK, InHand, Registered
  <2>3. Settled(r)
    BY <2>2 DEF QuietOf
  <2>4. \A q \in DOMAIN proposals : q.report # r
    BY <2>1 DEF CycleInv
  <2>5. Settled(r)'
    BY <1>1, <2>1, <2>3, <2>4 DEF Settled, NonePendingBut, Backed, Indexed, ShowsVerdict
  <2>6. \A w \in Workers : ~Has(w, r)'
    BY <1>1, <2>2 DEF Has, local
  <2> QED BY <2>5, <2>6 DEF QuietOf, Has
<1> QED BY <1>2, <1>3

LEMMA QuietMonitor ==
  ASSUME TypeOK, CycleInv, NEW r \in Reports, QuietOf(r), r \notin disturbed',
         NEW w \in Workers, NEW confident \in BOOLEAN, Monitor(w, confident)
  PROVE QuietOf(r)'
<1>1. /\ todo' = [todo EXCEPT ![w] = MonitorProposals]
      /\ pc' = [pc EXCEPT ![w] = "record"]
      /\ current' = current /\ entry' = entry
      /\ sure' = [sure EXCEPT ![w] = confident]
      /\ UNCHANGED rows
  BY DEF Monitor, Goto
<1>2. todo[w] = {} /\ pc[w] = "idle"
  BY DEF Monitor, CycleInv
<1>3. Untouched(r)
  BY <1>1 DEF Untouched, rows
<1>4. CASE \A p \in MonitorProposals : p.report # r
  <2>1. \A v \in Workers : \A p : p.report = r => (p \in todo'[v] <=> p \in todo[v])
    BY <1>1, <1>2, <1>4 DEF TypeOK
  <2>2. ASSUME NEW v \in Workers, NEW p \in todo[v], p.report = r
        PROVE /\ At(v, p)' <=> At(v, p)
              /\ pc'[v] = pc[v] /\ entry'[v] = entry[v] /\ sure'[v] = sure[v]
    BY <1>1, <1>2, <2>2 DEF At, TypeOK
  <2> QED BY <1>3, <2>1, <2>2, QuietUntouched
<1>5. ASSUME NEW p \in MonitorProposals, p.report = r PROVE QuietOf(r)'
  <2>1. \A v \in Workers : ~Has(v, r)
    <3>1. \A v \in Workers \ {w} : r \notin InHand(v)
      BY <1>5 DEF Monitor
    <3> QED BY <1>2, <3>1 DEF Has, InHand
  <2>2. Settled(r)'
    BY <1>3, <2>1, RowsUntouched DEF QuietOf
  <2>3. \A v \in Workers \ {w} : ~Has(v, r)'
    BY <1>1, <2>1 DEF Has, TypeOK
  <2>4. ASSUME NEW q \in todo'[w], q.report = r PROVE Carried(w, q)'
    <3>1. q \in MonitorProposals
      BY <1>1, <2>4 DEF TypeOK
    <3>2. q.target # status'[r]
      BY <1>1, <2>4, <3>1, MonitorProposalsValid DEF rows
    <3>3. ~At(w, q)'
      BY <1>1 DEF At, TypeOK
    <3> QED BY <2>2, <2>4, <3>2, <3>3 DEF Carried
  <2>5. Has(w, r)'
    BY <1>1, <1>5 DEF Has, TypeOK
  <2> QED BY <2>2, <2>3, <2>4, <2>5 DEF QuietOf, Has
<1> QED BY <1>4, <1>5

(* What one worker's step on its current proposal leaves of other reports. *)
LEMMA QuietElsewhere ==
  ASSUME TypeOK, NEW r \in Reports, QuietOf(r), Untouched(r), NEW w \in Workers,
         \A v \in Workers \ {w} :
           /\ todo'[v] = todo[v] /\ current'[v] = current[v] /\ pc'[v] = pc[v]
           /\ entry'[v] = entry[v] /\ sure'[v] = sure[v],
         \A p : p.report = r => (p \in todo'[w] <=> p \in todo[w]),
         \A p \in todo[w] : p.report = r => ~At(w, p) /\ ~At(w, p)'
  PROVE QuietOf(r)'
<1>1. \A v \in Workers : \A p : p.report = r => (p \in todo'[v] <=> p \in todo[v])
  OBVIOUS
<1>2. ASSUME NEW v \in Workers, NEW p \in todo[v], p.report = r
      PROVE \/ ~At(v, p) /\ ~At(v, p)'
            \/ /\ At(v, p) /\ At(v, p)'
               /\ pc'[v] = pc[v] /\ entry'[v] = entry[v] /\ sure'[v] = sure[v]
  BY <1>2 DEF At
<1> QED BY <1>1, <1>2, QuietUntouched

(* ... and of its own report. *)
LEMMA QuietHere ==
  ASSUME TypeOK, CycleInv, NEW r \in Reports, QuietOf(r), NEW w \in Workers,
         NEW p \in todo[w], p.report = r, p \in todo'[w],
         todo'[w] \subseteq todo[w],
         \A v \in Workers \ {w} : todo'[v] = todo[v],
         Carried(w, p)'
  PROVE QuietOf(r)'
<1>1. \A v \in Workers \ {w} : ~Has(v, r)
  BY DEF QuietOf, Has
<1>2. \A v \in Workers \ {w} : ~Has(v, r)'
  BY <1>1 DEF Has
<1>3. \A q \in todo'[w] : q.report = r => q = p
  BY DEF CycleInv
<1>4. Has(w, r)'
  BY DEF Has
<1> QED BY <1>2, <1>3, <1>4 DEF QuietOf, Has

LEMMA QuietRecord ==
  ASSUME TypeOK, CycleInv, NEW r \in Reports, QuietOf(r),
         NEW w \in Workers, RecordProposal(w)
  PROVE QuietOf(r)'
<1>1. PICK p \in todo[w] :
        /\ current' = [current EXCEPT ![w] = p]
        /\ proposals' = Upsert(p, "pending")
  BY DEF RecordProposal
<1>2. /\ pc[w] = "record" /\ pc' = [pc EXCEPT ![w] = "decide"]
      /\ todo' = todo /\ entry' = entry /\ sure' = sure
      /\ UNCHANGED <<status, reruns, index>>
  BY DEF RecordProposal, Goto
<1>3. /\ DOMAIN proposals' = DOMAIN proposals \cup {p}
      /\ \A q \in DOMAIN proposals : q # p => proposals'[q] = proposals[q]
  BY <1>1 DEF Upsert
<1>4. CASE p.report # r
  <2>1. Untouched(r)
    BY <1>2, <1>3, <1>4 DEF Untouched
  <2>2. \A q \in todo[w] : q.report = r => ~At(w, q) /\ ~At(w, q)'
    BY <1>1, <1>2, <1>4 DEF At, TypeOK
  <2>3. \A v \in Workers \ {w} :
          /\ todo'[v] = todo[v] /\ current'[v] = current[v] /\ pc'[v] = pc[v]
          /\ entry'[v] = entry[v] /\ sure'[v] = sure[v]
    BY <1>1, <1>2
  <2> QED BY <1>2, <2>1, <2>2, <2>3, QuietElsewhere
<1>5. CASE p.report = r
  <2>1. ~At(w, p)
    BY <1>2 DEF At
  <2>2. Settled(r) /\ p.target # status[r]
    BY <1>5, <2>1 DEF QuietOf, Carried
  <2>3. NonePendingBut(r, {p})'
    BY <1>3, <2>2 DEF Settled, NonePendingBut
  <2>4. Backed(r)'
    BY <1>2, <1>3, <2>2 DEF Settled, Backed, ShowsVerdict, TypeOK
  <2>5. Indexed(r)'
    BY <1>2, <2>2 DEF Settled, Indexed, ShowsVerdict
  <2>6. At(w, p)' /\ pc'[w] = "decide"
    BY <1>1, <1>2 DEF At, TypeOK
  <2>7. Carried(w, p)'
    BY <1>2, <1>5, <2>2, <2>3, <2>4, <2>5, <2>6 DEF Carried
  <2> QED BY <1>2, <1>5, <2>7, QuietHere
<1> QED BY <1>4, <1>5

LEMMA QuietDecide ==
  ASSUME TypeOK, CycleInv, NEW r \in Reports, QuietOf(r),
         NEW w \in Workers, Decide(w)
  PROVE QuietOf(r)'
<1>1. PICK p \in todo[w] : p = current[w] /\ p \in DOMAIN proposals
  BY DEF Decide, TypeOK
<1>2. p.report \in Reports
  BY <1>1 DEF TypeOK, ValidProposals, ProposalIds
<1>3. /\ pc[w] = "decide" /\ pc' = [pc EXCEPT ![w] = "rerun"]
      /\ proposals' = [proposals EXCEPT ![p] = Verdict(w, p)]
      /\ status' = IF Verdict(w, p) = "accepted"
                   THEN [status EXCEPT ![p.report] = p.target] ELSE status
      /\ todo' = todo /\ entry' = entry /\ sure' = sure /\ current' = current
      /\ UNCHANGED <<reruns, index>>
  BY <1>1 DEF Decide, Goto
<1>4. CASE p.report # r
  <2>1. Untouched(r)
    BY <1>1, <1>2, <1>3, <1>4 DEF Untouched, TypeOK
  <2>2. \A q \in todo[w] : q.report = r => ~At(w, q) /\ ~At(w, q)'
    BY <1>1, <1>3, <1>4 DEF At, TypeOK
  <2>3. \A v \in Workers \ {w} :
          /\ todo'[v] = todo[v] /\ current'[v] = current[v] /\ pc'[v] = pc[v]
          /\ entry'[v] = entry[v] /\ sure'[v] = sure[v]
    BY <1>3
  <2> QED BY <1>3, <2>1, <2>2, <2>3, QuietElsewhere
<1>5. CASE p.report = r
  <2>1. At(w, p)
    BY <1>1, <1>3 DEF At
  <2>2. NonePendingBut(r, {p}) /\ Backed(r) /\ p.target # status[r]
    BY <1>3, <1>5, <2>1 DEF QuietOf, Carried
  <2>3. proposals'[p] = Verdict(w, p) /\ Verdict(w, p)' = Verdict(w, p)
    BY <1>1, <1>3 DEF TypeOK, Verdict
  <2>4. NonePendingBut(r, {})'
    BY <1>1, <1>3, <2>2, <2>3 DEF NonePendingBut, TypeOK, Verdict
  <2>5. Verdict(w, p) = "accepted" => status'[r] = p.target
    BY <1>2, <1>3, <1>5 DEF TypeOK
  <2>6. Verdict(w, p) # "accepted" => Backed(r)'
    BY <1>1, <1>3, <2>2 DEF Backed, ShowsVerdict, TypeOK
  <2>7. At(w, p)' /\ pc'[w] = "rerun"
    BY <1>1, <1>3 DEF At, TypeOK
  <2>8. Carried(w, p)'
    BY <1>5, <2>3, <2>4, <2>5, <2>6, <2>7 DEF Carried
  <2> QED BY <1>3, <1>5, <2>8, QuietHere
<1> QED BY <1>4, <1>5

LEMMA QuietRerunAndRead ==
  ASSUME TypeOK, CycleInv, NEW r \in Reports, QuietOf(r),
         NEW w \in Workers, QueueRerun(w) \/ ReadReport(w)
  PROVE QuietOf(r)'
<1>1. PICK p \in todo[w] : p = current[w] /\ p \in DOMAIN proposals
  BY DEF QueueRerun, ReadReport, TypeOK
<1>2. /\ UNCHANGED <<status, proposals, index, todo, current, sure>>
      /\ reruns' \in {reruns, reruns \cup {p}}
      /\ pc[w] \in {"rerun", "read"}
      /\ pc' = [pc EXCEPT ![w] = IF pc[w] = "rerun" THEN "read" ELSE "index"]
      /\ \A v \in Workers \ {w} : entry'[v] = entry[v]
  BY <1>1 DEF QueueRerun, ReadReport, rows, Goto, TypeOK
<1>3. CASE p.report # r
  <2>1. Untouched(r)
    BY <1>1, <1>2, <1>3 DEF Untouched
  <2>2. \A q \in todo[w] : q.report = r => ~At(w, q) /\ ~At(w, q)'
    BY <1>1, <1>2, <1>3 DEF At
  <2>3. \A v \in Workers \ {w} :
          /\ todo'[v] = todo[v] /\ current'[v] = current[v] /\ pc'[v] = pc[v]
          /\ entry'[v] = entry[v] /\ sure'[v] = sure[v]
    BY <1>2
  <2> QED BY <1>2, <2>1, <2>2, <2>3, QuietElsewhere
<1>4. CASE p.report = r
  <2>1. At(w, p) /\ At(w, p)'
    BY <1>1, <1>2 DEF At, TypeOK
  <2>2. Carried(w, p)
    BY <1>4 DEF QuietOf
  <2>3. NonePendingBut(r, {})'
    BY <1>2, <1>4, <2>1, <2>2 DEF Carried, NonePendingBut
  <2>4. ASSUME QueueRerun(w) PROVE Carried(w, p)'
    <3>1. pc[w] = "rerun" /\ pc'[w] = "read"
      BY <1>2, <2>4 DEF QueueRerun, TypeOK
    <3>2. /\ proposals[p] = Verdict(w, p)
          /\ IF Verdict(w, p) = "accepted" THEN status[r] = p.target ELSE Backed(r)
      BY <1>4, <2>1, <2>2, <3>1 DEF Carried
    <3>3. CASE Verdict(w, p) # "accepted"
      <4>1. Backed(r)
        BY <3>2, <3>3
      <4>2. reruns \subseteq reruns'
        BY <1>2
      <4>3. Backed(r)'
        BY <1>2, <4>1, <4>2 DEF Backed, ShowsVerdict
      <4> QED BY <1>4, <2>1, <2>3, <3>1, <4>3 DEF Carried
    <3>4. CASE Verdict(w, p) = "accepted"
      <4>1. p.target # "unchecked" => p \in reruns'
        BY <1>1, <2>4, <3>4 DEF QueueRerun, NeedsRerun
      <4>2. Backed(r)'
        BY <1>2, <1>4, <3>2, <3>4, <4>1 DEF Backed, ShowsVerdict
      <4> QED BY <1>4, <2>1, <2>3, <3>1, <4>2 DEF Carried
    <3> QED BY <3>3, <3>4
  <2>5. ASSUME ReadReport(w) PROVE Carried(w, p)'
    <3>1. pc[w] = "read" /\ pc'[w] = "index" /\ reruns' = reruns
      BY <1>2, <2>5 DEF ReadReport, rows, TypeOK
    <3>2. entry'[w] = status'[r]
      BY <1>1, <1>2, <1>4, <2>5 DEF ReadReport, TypeOK
    <3>3. Backed(r)'
      BY <1>2, <1>4, <2>1, <2>2, <3>1 DEF Carried, Backed, ShowsVerdict
    <3> QED BY <1>4, <2>1, <2>3, <3>1, <3>2, <3>3 DEF Carried
  <2>6. Carried(w, p)'
    BY <2>4, <2>5
  <2> QED BY <1>2, <1>4, <2>6, QuietHere
<1> QED BY <1>3, <1>4

LEMMA QuietIndex ==
  ASSUME TypeOK, CycleInv, NEW r \in Reports, QuietOf(r),
         NEW w \in Workers, Index(w)
  PROVE QuietOf(r)'
<1>1. PICK p \in todo[w] : p = current[w] /\ p \in DOMAIN proposals
  BY DEF Index, TypeOK
<1>2. p.report \in Reports
  BY <1>1 DEF TypeOK, ValidProposals, ProposalIds
<1>3. /\ UNCHANGED <<status, proposals, reruns>>
      /\ index' = [index EXCEPT ![p.report] = entry[w]]
      /\ pc[w] = "index" /\ pc'[w] \in {"idle", "record"}
      /\ todo'[w] = todo[w] \ {p}
      /\ \A v \in Workers \ {w} :
           /\ todo'[v] = todo[v] /\ current'[v] = current[v] /\ pc'[v] = pc[v]
           /\ entry'[v] = entry[v] /\ sure'[v] = sure[v]
  <2>1. CASE todo[w] = {p}
    BY <1>1, <2>1 DEF Index, Forget, Goto, TypeOK
  <2>2. CASE todo[w] # {p}
    BY <1>1, <2>2 DEF Index, Goto, TypeOK
  <2> QED BY <2>1, <2>2
<1>4. CASE p.report # r
  <2>1. Untouched(r)
    BY <1>3, <1>4 DEF Untouched, TypeOK
  <2>2. \A q \in todo[w] : q.report = r => ~At(w, q) /\ ~At(w, q)'
    BY <1>1, <1>3, <1>4 DEF At
  <2>3. \A q : q.report = r => (q \in todo'[w] <=> q \in todo[w])
    BY <1>3, <1>4
  <2> QED BY <1>3, <2>1, <2>2, <2>3, QuietElsewhere
<1>5. CASE p.report = r
  <2>1. At(w, p)
    BY <1>1, <1>3 DEF At
  <2>2. NonePendingBut(r, {}) /\ Backed(r) /\ entry[w] = status[r]
    BY <1>3, <1>5, <2>1 DEF QuietOf, Carried
  <2>3. index'[r] = status'[r]
    BY <1>2, <1>3, <1>5, <2>2 DEF TypeOK
  <2>4. Settled(r)'
    BY <1>3, <2>2, <2>3 DEF Settled, NonePendingBut, Backed, Indexed, ShowsVerdict
  <2>5. \A v \in Workers : ~Has(v, r)'
    <3>1. \A v \in Workers \ {w} : ~Has(v, r)
      BY <1>5 DEF QuietOf, Has
    <3>2. \A v \in Workers \ {w} : ~Has(v, r)'
      BY <1>3, <3>1 DEF Has
    <3>3. ~Has(w, r)'
      BY <1>3, <1>5 DEF Has, CycleInv
    <3> QED BY <3>2, <3>3
  <2> QED BY <2>4, <2>5 DEF QuietOf, Has
<1> QED BY <1>4, <1>5

LEMMA QuietCrash ==
  ASSUME TypeOK, NEW r \in Reports, QuietOf(r), r \notin disturbed',
         NEW w \in Workers, Crash(w)
  PROVE QuietOf(r)'
<1>1. \A p \in todo[w] : p.report # r
  BY DEF Crash, InHand
<1>2. Untouched(r)
  BY DEF Crash, Untouched, rows
<1>3. /\ todo'[w] = {}
      /\ \A v \in Workers \ {w} :
           /\ todo'[v] = todo[v] /\ current'[v] = current[v] /\ pc'[v] = pc[v]
           /\ entry'[v] = entry[v] /\ sure'[v] = sure[v]
  BY DEF Crash, Forget, Goto, TypeOK
<1> QED BY <1>1, <1>2, <1>3, QuietElsewhere

(* A report that no two workers had in hand at once and that no worker     *)
(* crashed with is settled when its cycle is over: nothing pending, the    *)
(* verdict accepted, its rerun queued and the index up to date             *)
(* (external_status.py over the five transactions of the store).  The      *)
(* invariant says for each of the five places what is already true.        *)
THEOREM QuietIsSettled == Spec => []QuietReportIsSettled
<1>1. Init => QuietInv /\ CycleInv
  BY DEF Init, QuietInv, CycleInv, QuietOf, Has, Settled, NonePendingBut, Backed, Indexed, ShowsVerdict
<1>2. ASSUME TypeOK, CycleInv, QuietInv, [Next]_vars PROVE QuietInv'
  <2>1. SUFFICES ASSUME NEW r \in Reports, r \notin disturbed' PROVE QuietOf(r)'
    BY DEF QuietInv
  <2>2. disturbed \subseteq disturbed'
    <3>1. ASSUME NEW w \in Workers, NEW confident \in BOOLEAN, Monitor(w, confident)
          PROVE disturbed \subseteq disturbed'
      BY <3>1 DEF Monitor
    <3>2. ASSUME NEW w \in Workers, Step(w) \/ Crash(w) PROVE disturbed \subseteq disturbed'
      BY <3>2 DEF Step, RecordProposal, Decide, QueueRerun, ReadReport, Index, Crash
    <3> QED BY <1>2, <3>1, <3>2 DEF Next, vars, RegisterReport, RegisterStable, Cite
  <2>3. QuietOf(r)
    BY <1>2, <2>1, <2>2 DEF QuietInv
  <2>4. CASE UNCHANGED vars
    <3>1. Untouched(r)
      BY <2>4 DEF Untouched, vars, rows
    <3> QED BY <1>2, <2>3, <2>4, <3>1, QuietUntouched DEF At, vars, local
  <2>5. ASSUME NEW w \in Workers, NEW confident \in BOOLEAN, Monitor(w, confident)
        PROVE QuietOf(r)'
    BY <1>2, <2>1, <2>3, <2>5, QuietMonitor
  <2>6. ASSUME NEW w \in Workers, Step(w) PROVE QuietOf(r)'
    BY <1>2, <2>3, <2>6, QuietRecord, QuietDecide, QuietRerunAndRead, QuietIndex DEF Step
  <2>7. ASSUME NEW w \in Workers, Crash(w) PROVE QuietOf(r)'
    BY <1>2, <2>1, <2>3, <2>7, QuietCrash
  <2>8. CASE \/ \E q \in Reports : RegisterReport(q)
             \/ \E c \in Candidates : RegisterStable(c)
             \/ \E q \in Reports, e \in Evidence : Cite(q, e)
    BY <1>2, <2>3, <2>8, QuietSurroundings
  <2> QED BY <1>2, <2>4, <2>5, <2>6, <2>7, <2>8 DEF Next
<1>3. ASSUME TypeOK, CycleInv, [Next]_vars PROVE CycleInv'
  BY <1>3, CycleStep
<1>4. TypeOK /\ QuietInv => QuietReportIsSettled
  BY DEF TypeOK, QuietInv, QuietOf, QuietReportIsSettled, Has, InHand, Registered,
         Settled, NonePendingBut, Backed, Indexed, ShowsVerdict
<1> QED BY <1>1, <1>2, <1>3, <1>4, TypeCorrect, PTL DEF Spec

-----------------------------------------------------------------------------
(* The refinement of StatusRule. *)

(* No evidence, no proposal: what a worker carries cites something. *)
ProposalsCite == \A w \in Workers : \A p \in todo[w] : p.evidence # {}

LEMMA CiteStep ==
  ASSUME TypeOK, ProposalsCite, [Next]_vars
  PROVE ProposalsCite'
<1>1. \A p \in MonitorProposals : p.evidence # {}
  BY DEF MonitorProposals
<1>2. \A w \in Workers : todo'[w] \subseteq todo[w] \/ todo'[w] = MonitorProposals
  BY WorkComesFromMonitor
<1> QED BY <1>1, <1>2 DEF ProposalsCite

(* A decision is a step of the rule, by the evidence of its proposal, or   *)
(* changes nothing that is visible there.                                  *)
LEMMA DecideFollowsRule ==
  ASSUME TypeOK, ProposalsFounded, ProposalsCite, NEW w \in Workers, Decide(w)
  PROVE \/ \E r \in Reports : Rule!Decide(r)
        \/ UNCHANGED <<cited, status, registry>>
<1> DEFINE p == current[w]
           r == p.report
           c == CandidateOf[r]
           VerdictOf == [basis \in SUBSET Evidence |-> Infer(basis)]
<1>1. p \in todo[w]
  BY DEF Decide, TypeOK
<1>2. r \in Reports /\ status[r] # Absent
  BY <1>1 DEF TypeOK, InHand, Registered, ValidProposals, ProposalIds
<1>3. /\ p.evidence \in (SUBSET cited[r]) \ {{}}
      /\ p.evidence \in SUBSET Evidence
      /\ p.target = Infer(p.evidence)
  BY <1>1 DEF ProposalsFounded, ProposalsCite, WellFounded, TypeOK, ValidProposals, ProposalIds
<1>4. VerdictOf[p.evidence] = p.target
  BY <1>3
<1>5. CASE Verdict(w, p) # "accepted"
  BY <1>5 DEF Decide
<1>6. CASE Verdict(w, p) = "accepted"
  <2>1. /\ status' = [status EXCEPT ![r] = p.target]
        /\ registry' = IF c \in Candidates /\ registry[c] # Absent
                       THEN [registry EXCEPT ![c] = p.target] ELSE registry
        /\ cited' = cited
    BY <1>6 DEF Decide
  <2>2. registry \in [Candidates -> Statuses \cup {Absent}]
    BY DEF TypeOK
  <2>3. registry' = [d \in Candidates |->
                      IF d = c /\ registry[d] # Absent THEN p.target ELSE registry[d]]
    <3> HIDE DEF c, p
    <3>1. CASE c \in Candidates /\ registry[c] # Absent
      BY <2>1, <2>2, <3>1
    <3>2. CASE ~(c \in Candidates /\ registry[c] # Absent)
      BY <2>1, <2>2, <3>2
    <3> QED BY <3>1, <3>2
  <2>4. registry' = Rule!Shown(r, VerdictOf[p.evidence])
    BY <1>4, <2>3 DEF Rule!Shown
  <2>5. status' = [status EXCEPT ![r] = VerdictOf[p.evidence]]
    BY <1>4, <2>1
  <2>6. Rule!Decide(r)
    BY <1>2, <1>3, <2>1, <2>4, <2>5 DEF Rule!Decide
  <2> QED BY <1>2, <2>6
<1> QED BY <1>5, <1>6

(* The whole cycle with its snapshots, crashes and overtaking workers      *)
(* implements the rule a reader of the statuses relies on                  *)
(* (decide_external_transition under external_status.py): a status changes *)
(* only to the verdict of evidence cited for the report, together with the *)
(* registry.                                                               *)
THEOREM ImplementsStatusRule == Spec => StatusRuleSpec
<1>1. Init => ProposalsFounded /\ ProposalsCite /\ Rule!Init
  BY DEF Init, ProposalsFounded, ProposalsCite, Rule!Init
<1>2. ASSUME TypeOK, ProposalsFounded, ProposalsCite, [Next]_vars
      PROVE [Rule!Next]_<<cited, status, registry>>
  <2>1. ASSUME NEW r \in Reports, RegisterReport(r) PROVE Rule!Register(r)
    BY <2>1 DEF RegisterReport, Rule!Register
  <2>2. ASSUME NEW c \in Candidates, RegisterStable(c) PROVE Rule!Enroll(c)
    BY <2>2 DEF RegisterStable, Rule!Enroll
  <2>3. ASSUME NEW r \in Reports, NEW e \in Evidence, Cite(r, e) PROVE Rule!Cite(r)
    BY <2>3 DEF Cite, rows, Rule!Cite
  <2>4. ASSUME NEW w \in Workers, Decide(w)
        PROVE \/ \E r \in Reports : Rule!Decide(r)
              \/ UNCHANGED <<cited, status, registry>>
    BY <1>2, <2>4, DecideFollowsRule
  <2>5. ASSUME NEW w \in Workers, \/ \E confident \in BOOLEAN : Monitor(w, confident)
                                  \/ RecordProposal(w) \/ QueueRerun(w) \/ ReadReport(w)
                                  \/ Index(w) \/ Crash(w)
        PROVE UNCHANGED <<cited, status, registry>>
    BY <2>5 DEF Monitor, RecordProposal, QueueRerun, ReadReport, Index, Crash, rows
  <2>6. CASE UNCHANGED vars
    BY <2>6 DEF vars, rows
  <2> QED
    BY <1>2, <2>1, <2>2, <2>3, <2>4, <2>5, <2>6 DEF Next, Step, Rule!Next
<1>3. ASSUME TypeOK, ProposalsFounded, ProposalsCite, [Next]_vars
      PROVE ProposalsFounded' /\ ProposalsCite'
  BY <1>3, FoundedStep, CiteStep
<1> QED BY <1>1, <1>2, <1>3, TypeCorrect, PTL DEF Spec, StatusRuleSpec, Rule!Spec
=============================================================================
