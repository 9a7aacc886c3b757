----------------------------- MODULE StatusRule -----------------------------
(***************************************************************************)
(* What a reader of the store's external statuses relies on, whoever runs  *)
(* the monitor and however often it is overtaken or interrupted: the       *)
(* status of a report changes only to the verdict of evidence cited for    *)
(* it, though perhaps not of all of it, and the registry entry of its      *)
(* candidate changes with it in one step.  Proposals, confidence, reruns   *)
(* and the search index are not visible here.                              *)
(***************************************************************************)
CONSTANTS
  Reports, Candidates, CandidateOf,
  FirstStatus,   \* the status each report is registered with
  Citable,       \* the evidence that may be cited for each report
  VerdictOf,     \* what a set of evidence says
  Absent         \* no such row

VARIABLES
  cited,    \* evidence cited for each report so far
  status,   \* the status of each report
  registry  \* the status of each stable candidate

Init ==
  /\ cited = [r \in Reports |-> {}]
  /\ status = [r \in Reports |-> Absent]
  /\ registry = [c \in Candidates |-> Absent]

Register(r) ==
  /\ status[r] = Absent
  /\ status' = [status EXCEPT ![r] = FirstStatus[r]]
  /\ UNCHANGED <<cited, registry>>

Enroll(c) ==
  /\ registry' = [registry EXCEPT ![c] = "not_submitted"]
  /\ UNCHANGED <<cited, status>>

Cite(r) ==
  /\ \E e \in Citable[r] : cited' = [cited EXCEPT ![r] = @ \cup {e}]
  /\ UNCHANGED <<status, registry>>

(* The registry shows the verdict where it has an entry for the report. *)
Shown(r, verdict) ==
  [c \in Candidates |->
     IF c = CandidateOf[r] /\ registry[c] # Absent THEN verdict ELSE registry[c]]

Decide(r) ==
  /\ status[r] # Absent
  /\ \E basis \in (SUBSET cited[r]) \ {{}} :
       /\ status' = [status EXCEPT ![r] = VerdictOf[basis]]
       /\ registry' = Shown(r, VerdictOf[basis])
  /\ UNCHANGED cited

Next ==
  \/ \E r \in Reports : Register(r) \/ Cite(r) \/ Decide(r)
  \/ \E c \in Candidates : Enroll(c)

Spec == Init /\ [][Next]_<<cited, status, registry>>
=============================================================================
