--------------------------- MODULE SupervisorProofs ---------------------------
(***************************************************************************)
(* Proofs about Supervisor for any set of launchers and any number of      *)
(* launches, environments and missing dependencies.                        *)
(***************************************************************************)
EXTENDS Supervisor, TLAPS

(* The stub cycle writes twelve rows. *)
(* The rows of Writes are constants. *)
USE DEF Upsert, Insert, ConceptSeed, PriorArtCheck, AssumptionSet, Hypothesis, FormalModel,
  Implementation, MetricPacket, TuningEvent, AbandonedLesson, GeneratorHealth, LabNote, Decision

LEMMA TwelveRows == Len(Writes) = 12
BY DEF Writes

(* What _prepare_state and _refresh_integrations make of a stored state is a
   runtime state that names the same rows. *)
LEMMA PreparedState ==
  ASSUME NEW s \in RuntimeStates, NEW missing, NEW e
  PROVE  /\ BlockerOf(missing, e) \in Blockers \cup {"none"}
         /\ Prepared(s, BlockerOf(missing, e)) \in RuntimeStates
         /\ Prepared(s, BlockerOf(missing, e)).refs = s.refs
         /\ Prepared(s, BlockerOf(missing, e)).count = s.count
BY DEF Prepared, BlockerOf, Blockers, Statuses, RuntimeStates

LEMMA FreshState == Fresh \in RuntimeStates
BY DEF Fresh, RuntimeStates, Statuses, Blockers

LEMMA ResumedState ==
  ASSUME NEW s \in RuntimeStates PROVE [s EXCEPT !.resumes = @ + 1] \in RuntimeStates
BY DEF RuntimeStates

LEMMA LabHeadGoneState ==
  ASSUME NEW s \in RuntimeStates
  PROVE  [s EXCEPT !.status = "lab_head_unavailable", !.blocker = "lab_head_unavailable"]
           \in RuntimeStates
BY DEF RuntimeStates, Statuses, Blockers

(* BeginSave and Pass keep the types, whatever state is saved. *)
LEMMA BeginSaveTypes ==
  ASSUME TypeOK, NEW p \in Launchers, NEW s \in RuntimeStates, NEW next \in Returns,
         BeginSave(p, s, next)
  PROVE  TypeOK'
<1> [s EXCEPT !.count = @ + 1] \in RuntimeStates
  BY DEF RuntimeStates
<1> QED
  BY DEF TypeOK, BeginSave, Goto, Places, Locked, Saving, disk, world

LEMMA PassTypes ==
  ASSUME TypeOK, NEW p \in Launchers, NEW next \in Places, Pass(p, next)
  PROVE  TypeOK'
BY DEF TypeOK, Pass, Goto, disk, world

(* The gates keep the types, wherever a launcher goes on after them. *)
LEMMA GateTypes ==
  ASSUME TypeOK, NEW p \in Launchers, NEW next \in Places,
         StableGate(p, next) \/ BudgetGate(p, next) \/ StopGate(p, next)
  PROVE  TypeOK'
<1> DEFINE s(status) == [mem[p] EXCEPT !.status = status]
<1>1. "exit" \in Returns /\ \A status \in Statuses : s(status) \in RuntimeStates
  BY DEF TypeOK, RuntimeStates, Returns
<1>2. CASE StableGate(p, next)
  <2> "stable_candidate_recorded" \in Statuses
    BY DEF Statuses
  <2> QED
    BY <1>1, <1>2, BeginSaveTypes, PassTypes DEF StableGate
<1>3. CASE BudgetGate(p, next)
  <2> BudgetStatus(p) # "none" => BudgetStatus(p) \in Statuses
    BY DEF Statuses, BudgetStatus
  <2> QED
    BY <1>1, <1>3, BeginSaveTypes, PassTypes DEF BudgetGate
<1>4. CASE StopGate(p, next)
  <2> [mem[p] EXCEPT !.status = "stopped", !.stop = TRUE] \in RuntimeStates
    BY DEF TypeOK, RuntimeStates, Statuses
  <2> QED
    BY <1>1, <1>4, BeginSaveTypes, PassTypes DEF StopGate
<1> QED
  BY <1>2, <1>3, <1>4

-----------------------------------------------------------------------------
(* Every action keeps the variables' types. *)
LEMMA TypeStep == ASSUME TypeOK, [Next]_vars PROVE TypeOK'
<1> USE ConstantsAssumption
<1> USE DEF TypeOK, Goto, Gone, disk, world
<1>1. ASSUME NEW p \in Launchers, Load(p) PROVE TypeOK'
  BY <1>1, PreparedState DEF Load, Places
<1>2. ASSUME NEW p \in Launchers, Acquire(p) PROVE TypeOK'
  BY <1>2 DEF Acquire, Lock!Acquire, PauseReasons, Places, Locked
<1>3. ASSUME NEW p \in Launchers, Collide(p) \/ Exit(p) \/ Crash(p) PROVE TypeOK'
  <2>1. /\ holders' \subseteq Launchers
        /\ Gone(p) /\ UNCHANGED <<disk, rows, world, launches>>
    BY <1>3 DEF Collide, Exit, Crash, Lock!Refuse, Lock!Leave
  <2> "off" \in Places /\ "exit" \in Returns /\ NoEnv \in Environments
    BY DEF Places, Returns, NoEnv, Environments
  <2> 1 \in 1 .. Len(Writes) + 1
    BY TwelveRows
  <2> QED
    BY <2>1, FreshState
<1>4. ASSUME NEW p \in Launchers, Start(p) PROVE TypeOK'
  <2> DEFINE running == IF mem[p].blocker = "none"
                        THEN [mem[p] EXCEPT !.status = "running"] ELSE mem[p]
             s == IF mem[p].count > 0 THEN [running EXCEPT !.resumes = @ + 1] ELSE running
             next == IF mem[p].blocker = "none" THEN "stable" ELSE "blocked"
  <2>0. running \in RuntimeStates
    BY DEF RuntimeStates, Statuses
  <2>1. s \in RuntimeStates
    <3> HIDE DEF running
    <3> QED BY <2>0, ResumedState
  <2>2. next \in Returns
    BY DEF Returns
  <2>3. BeginSave(p, s, next)
    BY <1>4 DEF Start
  <2> HIDE DEF s, next
  <2> QED
    BY <2>1, <2>2, <2>3, BeginSaveTypes
<1>5. ASSUME NEW p \in Launchers, CheckpointBlocker(p) PROVE TypeOK'
  BY <1>5, BeginSaveTypes DEF CheckpointBlocker, Returns
<1>6. ASSUME NEW p \in Launchers,
             StartStable(p) \/ StartBudget(p) \/ StartStop(p) \/ MonitorBudget(p)
               \/ MonitorStable(p) \/ MonitorStop(p)
      PROVE  TypeOK'
  BY <1>6, GateTypes DEF StartStable, StartBudget, StartStop, MonitorBudget,
     MonitorStable, MonitorStop, Places, Locked, Gates, Working, Monitor
<1>7. ASSUME NEW p \in Launchers, SelectLabHead(p) PROVE TypeOK'
  <2> "loop" \in Places /\ "exit" \in Returns
    BY DEF Places, Locked, Working, Returns
  <2> [mem[p] EXCEPT !.status = "lab_head_unavailable", !.blocker = "lab_head_unavailable"]
        \in RuntimeStates
    BY LabHeadGoneState
  <2> HIDE DEF TypeOK, Goto, Gone, disk, world
  <2>1. CASE Pass(p, "loop")
    BY <2>1, PassTypes
  <2>2. CASE BeginSave(p, [mem[p] EXCEPT !.status = "lab_head_unavailable",
                                         !.blocker = "lab_head_unavailable"], "exit")
    BY <2>2, BeginSaveTypes
  <2> QED
    BY <1>7, <2>1, <2>2 DEF SelectLabHead
<1>8. ASSUME NEW p \in Launchers, LoopWrite(p) PROVE TypeOK'
  <2>1. Writes[turn[p]].row \in Rows
    BY <1>8, TwelveRows DEF LoopWrite, Rows
  <2>2. [mem[p] EXCEPT !.refs = @ \cup ({Writes[turn[p]].row} \cap Referenced)]
          \in RuntimeStates
    BY DEF RuntimeStates
  <2>3. turn[p] + 1 \in 1 .. Len(Writes) + 1
    BY <1>8, TwelveRows DEF LoopWrite
  <2> QED
    BY <1>8, <2>1, <2>2, <2>3 DEF LoopWrite
<1>9. ASSUME NEW p \in Launchers, LoopRaises(p) PROVE TypeOK'
  BY <1>9 DEF LoopRaises, Places, Locked
<1>10. ASSUME NEW p \in Launchers, LoopDone(p) \/ MarkReady(p) PROVE TypeOK'
  <2> [mem[p] EXCEPT !.status = "ready"] \in RuntimeStates
    BY DEF RuntimeStates, Statuses
  <2> QED
    BY <1>10, BeginSaveTypes DEF LoopDone, MarkReady, Returns
<1>11. ASSUME NEW p \in Launchers, Save(p) PROVE TypeOK'
  <2> Returns \subseteq Places /\ Saving \subseteq Places
    BY DEF Returns, Places, Locked, Saving, Gates, Working, Monitor
  <2> mem[p] \in RuntimeStates /\ mem[p].count \in Nat
    BY DEF RuntimeStates
  <2>1. CASE SaveState(p)
    BY <2>1 DEF Saved, SaveState, Saving
  <2>2. CASE WriteNumbered(p)
    BY <2>2 DEF Saved, WriteNumbered, Saving
  <2>3. CASE WriteLatest(p)
    BY <2>3 DEF Saved, WriteLatest, Saving
  <2>4. CASE AppendEvent(p)
    BY <2>4 DEF Saved, AppendEvent, Saving
  <2>5. CASE RecordTransition(p)
    BY <2>5 DEF Saved, RecordTransition, Saving
  <2> QED
    BY <1>11, <2>1, <2>2, <2>3, <2>4, <2>5 DEF Save
<1>12. ASSUME NEW p \in Launchers, Signal(p) PROVE TypeOK'
  BY <1>12 DEF Signal
<1>13. CASE WorldChanges
  BY <1>13 DEF WorldChanges
<1>14. CASE UNCHANGED vars
  BY <1>14 DEF vars, local
<1> QED
  BY <1>1, <1>2, <1>3, <1>4, <1>5, <1>6, <1>7, <1>8, <1>9, <1>10, <1>11, <1>12,
     <1>13, <1>14 DEF Next, Step

(* The variables keep their types in every behaviour of the supervisor. *)
THEOREM TypeCorrect == Spec => []TypeOK
<1>1. Init => TypeOK
  <2> "off" \in Places /\ "exit" \in Returns /\ NoEnv \in Environments
    BY DEF Places, Returns, NoEnv, Environments
  <2> 1 \in 1 .. Len(Writes) + 1
    BY TwelveRows
  <2> SUFFICES ASSUME Init PROVE TypeOK
    OBVIOUS
  <2>1. signalled \in [Launchers -> BOOLEAN]
    BY DEF Init
  <2>2. stopFile \in BOOLEAN /\ stable \in BOOLEAN /\ overLimit \in BOOLEAN
    BY DEF Init
  <2> QED
    BY <2>1, <2>2, FreshState DEF Init, TypeOK, Lock!Init
<1> QED
  BY <1>1, TypeStep, PTL DEF Spec

-----------------------------------------------------------------------------
(* What a step does to the lock, the disk and the saved fields: the invariants
   below only need this much of each action. *)

(* The launcher that holds the lock runs on; only LoopWrite adds a row and only
   BeginSave counts a checkpoint. *)
Works(p) ==
  /\ pc[p] \in Locked \ Saving
  /\ pc' = [pc EXCEPT ![p] = pc'[p]]
  /\ pc'[p] \in {"save_state", "raised"} \cup Gates \cup Working
  /\ mem' = [mem EXCEPT ![p] = mem'[p]]
  /\ mem'[p].count = IF pc'[p] = "save_state" THEN mem[p].count + 1 ELSE mem[p].count
  /\ rows \subseteq rows' /\ mem'[p].refs \subseteq mem[p].refs \cup rows'
  /\ UNCHANGED <<holders, disk>>

(* A process ends: it reports a collision, returns, raises or is killed. *)
Leaves(p) ==
  /\ pc[p] # "off"
  /\ Gone(p)
  /\ \/ holders' = holders \ {p}
     \/ pc[p] = "lock" /\ UNCHANGED holders
  /\ UNCHANGED <<disk, rows>>

LEMMA BeginSaveWorks ==
  ASSUME TypeOK, NEW p \in Launchers, NEW s \in RuntimeStates, NEW next,
         pc[p] \in Locked \ Saving, BeginSave(p, s, next),
         s.count = mem[p].count, s.refs = mem[p].refs
  PROVE  Works(p)
<1>1. [s EXCEPT !.count = @ + 1].refs = mem[p].refs
      /\ [s EXCEPT !.count = @ + 1].count = mem[p].count + 1
  BY DEF RuntimeStates
<1> QED
  BY <1>1 DEF TypeOK, BeginSave, Works, Goto, disk, world

LEMMA PassWorks ==
  ASSUME TypeOK, NEW p \in Launchers, NEW next \in Gates \cup Working,
         pc[p] \in Locked \ Saving, Pass(p, next)
  PROVE  Works(p)
<1> next # "save_state"
  BY DEF Gates, Working, Monitor
<1> QED
  BY DEF TypeOK, Pass, Works, Goto, disk, world

LEMMA GateWorks ==
  ASSUME TypeOK, NEW p \in Launchers, NEW next \in Gates \cup Working,
         pc[p] \in Locked \ Saving,
         StableGate(p, next) \/ BudgetGate(p, next) \/ StopGate(p, next)
  PROVE  Works(p)
<1>1. ASSUME NEW status \in Statuses, BeginSave(p, [mem[p] EXCEPT !.status = status], "exit")
      PROVE  Works(p)
  <2> DEFINE s == [mem[p] EXCEPT !.status = status]
  <2>1. s \in RuntimeStates /\ s.count = mem[p].count /\ s.refs = mem[p].refs
    BY DEF TypeOK, RuntimeStates
  <2>2. BeginSave(p, s, "exit")
    BY <1>1
  <2> HIDE DEF s
  <2> QED
    BY <2>1, <2>2, BeginSaveWorks
<1>2. ASSUME BeginSave(p, [mem[p] EXCEPT !.status = "stopped", !.stop = TRUE], "exit")
      PROVE  Works(p)
  <2> DEFINE s == [mem[p] EXCEPT !.status = "stopped", !.stop = TRUE]
  <2>1. s \in RuntimeStates /\ s.count = mem[p].count /\ s.refs = mem[p].refs
    BY DEF TypeOK, RuntimeStates, Statuses
  <2>2. BeginSave(p, s, "exit")
    BY <1>2
  <2> HIDE DEF s
  <2> QED
    BY <2>1, <2>2, BeginSaveWorks
<1>3. "stable_candidate_recorded" \in Statuses
      /\ (BudgetStatus(p) # "none" => BudgetStatus(p) \in Statuses)
  BY DEF Statuses, BudgetStatus
<1> QED
  BY <1>1, <1>2, <1>3, PassWorks DEF StableGate, BudgetGate, StopGate

(* Every step of the supervisor has one of these shapes. *)
LEMMA StepShape ==
  ASSUME TypeOK, [Next]_vars
  PROVE  \/ \E p \in Launchers :
              Load(p) \/ Acquire(p) \/ Leaves(p) \/ Works(p) \/ Save(p)
         \/ UNCHANGED <<pc, mem, holders, disk, rows>>
<1>1. ASSUME NEW p \in Launchers, Collide(p) \/ Exit(p) \/ Crash(p) PROVE Leaves(p)
  BY <1>1 DEF Collide, Exit, Crash, Leaves, Lock!Refuse, Lock!Leave
<1>2. ASSUME NEW p \in Launchers, Start(p) PROVE Works(p)
  <2> DEFINE running == IF mem[p].blocker = "none"
                        THEN [mem[p] EXCEPT !.status = "running"] ELSE mem[p]
             s == IF mem[p].count > 0 THEN [running EXCEPT !.resumes = @ + 1] ELSE running
             next == IF mem[p].blocker = "none" THEN "stable" ELSE "blocked"
  <2>0. running \in RuntimeStates /\ running.count = mem[p].count /\ running.refs = mem[p].refs
    BY DEF TypeOK, RuntimeStates, Statuses
  <2>1. s \in RuntimeStates /\ s.count = mem[p].count /\ s.refs = mem[p].refs
    <3> HIDE DEF running
    <3> QED BY <2>0, ResumedState DEF RuntimeStates
  <2>2. pc[p] \in Locked \ Saving /\ BeginSave(p, s, next)
    BY <1>2 DEF Start, Locked, Saving
  <2> HIDE DEF s, next
  <2> QED
    BY <2>1, <2>2, BeginSaveWorks
<1>3. ASSUME NEW p \in Launchers, CheckpointBlocker(p) PROVE Works(p)
  <2> mem[p] \in RuntimeStates
    BY DEF TypeOK
  <2> QED
    BY <1>3, BeginSaveWorks DEF CheckpointBlocker, Locked, Gates, Saving
<1>4. ASSUME NEW p \in Launchers,
             StartStable(p) \/ StartBudget(p) \/ StartStop(p) \/ MonitorBudget(p)
               \/ MonitorStable(p) \/ MonitorStop(p)
      PROVE  Works(p)
  <2> {"stable", "budget", "stop"} \cup Monitor \subseteq Locked \ Saving
    BY DEF Locked, Saving, Gates, Working, Monitor
  <2> {"budget", "stop", "select", "ready"} \cup Monitor \subseteq Gates \cup Working
    BY DEF Gates, Working
  <2> QED
    BY <1>4, GateWorks DEF StartStable, StartBudget, StartStop, MonitorBudget,
       MonitorStable, MonitorStop, Monitor
<1>5. ASSUME NEW p \in Launchers, SelectLabHead(p) PROVE Works(p)
  <2> DEFINE s == [mem[p] EXCEPT !.status = "lab_head_unavailable",
                                 !.blocker = "lab_head_unavailable"]
  <2>1. s \in RuntimeStates /\ s.count = mem[p].count /\ s.refs = mem[p].refs
    BY DEF TypeOK, RuntimeStates, Statuses, Blockers
  <2>2. pc[p] \in Locked \ Saving /\ (Pass(p, "loop") \/ BeginSave(p, s, "exit"))
    BY <1>5 DEF SelectLabHead, Locked, Saving, Working
  <2>3. "loop" \in Gates \cup Working
    BY DEF Working
  <2> HIDE DEF s
  <2> QED
    BY <2>1, <2>2, <2>3, BeginSaveWorks, PassWorks
<1>6. ASSUME NEW p \in Launchers, LoopWrite(p) PROVE Works(p)
  <2>1. pc[p] \in Locked \ Saving /\ pc[p] \in Working /\ pc[p] # "save_state"
    BY <1>6 DEF LoopWrite, Locked, Saving, Working
  <2>2. /\ mem'[p].count = mem[p].count
        /\ mem'[p].refs = mem[p].refs \cup ({Writes[turn[p]].row} \cap Referenced)
    BY <1>6 DEF LoopWrite, TypeOK, RuntimeStates
  <2>3. rows' = rows \cup {Writes[turn[p]].row}
    BY <1>6 DEF LoopWrite
  <2>4. pc' = pc /\ mem' = [mem EXCEPT ![p] = mem'[p]] /\ UNCHANGED <<holders, disk>>
    BY <1>6 DEF LoopWrite, TypeOK
  <2> QED
    BY <2>1, <2>2, <2>3, <2>4 DEF Works, TypeOK
<1>7. ASSUME NEW p \in Launchers, LoopRaises(p) PROVE Works(p)
  BY <1>7 DEF LoopRaises, Works, Goto, TypeOK, Locked, Saving, Working, disk
<1>8. ASSUME NEW p \in Launchers, LoopDone(p) \/ MarkReady(p) PROVE Works(p)
  <2> DEFINE s == [mem[p] EXCEPT !.status = "ready"]
  <2>1. s \in RuntimeStates /\ s.count = mem[p].count /\ s.refs = mem[p].refs
    BY DEF TypeOK, RuntimeStates, Statuses
  <2>2. pc[p] \in Locked \ Saving /\ \E next : BeginSave(p, s, next)
    BY <1>8 DEF LoopDone, MarkReady, Locked, Saving, Working
  <2> HIDE DEF s
  <2> QED
    BY <2>1, <2>2, BeginSaveWorks
<1>9. ASSUME (\E p \in Launchers : Signal(p)) \/ WorldChanges \/ UNCHANGED vars
      PROVE  UNCHANGED <<pc, mem, holders, disk, rows>>
  BY <1>9 DEF Signal, WorldChanges, vars, local
<1> QED
  BY <1>1, <1>2, <1>3, <1>4, <1>5, <1>6, <1>7, <1>8, <1>9 DEF Next, Step

-----------------------------------------------------------------------------
(* The lock: a launcher is past FileLock.__enter__ exactly while it holds the
   lock, and one at a time is. *)
LockInv ==
  /\ \A p \in Launchers : p \in holders <=> pc[p] \in Locked
  /\ \A p, q \in holders : p = q

(* How far the checkpoint under way has got: each place after a write of
   _save_checkpoint finds the launcher's state where that write puts it. *)
SaveInv ==
  \A p \in Launchers :
    /\ pc[p] \in {"save_numbered", "save_latest", "save_event", "save_sql", "exit"}
         => stateFile = mem[p]
    /\ pc[p] \in {"save_latest", "save_event", "save_sql", "exit"} => mem[p] \in files
    /\ pc[p] \in {"save_event", "save_sql", "exit"} => latest = mem[p]
    /\ pc[p] \in {"save_sql", "exit"} => mem[p].count \in events
    /\ pc[p] = "exit" => sqlState = mem[p] /\ mem[p].count \in sqlLog

LEMMA LockStep == ASSUME TypeOK, LockInv, [Next]_vars PROVE LockInv'
<1> USE DEF TypeOK, LockInv
<1> "off" \notin Locked /\ "lock" \notin Locked /\ "start" \in Locked
  BY DEF Locked, Saving, Gates, Working, Monitor
<1>1. ASSUME NEW p \in Launchers, Load(p) PROVE LockInv'
  BY <1>1 DEF Load, Goto
<1>2. ASSUME NEW p \in Launchers, Acquire(p) PROVE LockInv'
  BY <1>2 DEF Acquire, Goto, Lock!Acquire
<1>3. ASSUME NEW p \in Launchers, Leaves(p) PROVE LockInv'
  BY <1>3 DEF Leaves, Gone, Goto
<1>4. ASSUME NEW p \in Launchers, Works(p) PROVE LockInv'
  <2> pc'[p] \in Locked
    BY <1>4 DEF Works, Locked, Saving
  <2> QED
    BY <1>4 DEF Works
<1>5. ASSUME NEW p \in Launchers, Save(p) PROVE LockInv'
  <2> Returns \cup Saving \subseteq Locked
    BY DEF Returns, Locked, Gates, Working, Monitor
  <2> QED
    BY <1>5 DEF Save, Saved, SaveState, WriteNumbered, WriteLatest, AppendEvent,
       RecordTransition, Goto, Saving
<1> QED
  BY <1>1, <1>2, <1>3, <1>4, <1>5, StepShape

LEMMA SaveStep == ASSUME TypeOK, LockInv, SaveInv, [Next]_vars PROVE SaveInv'
<1> USE DEF TypeOK, SaveInv
<1> DEFINE AfterWrite == {"save_numbered", "save_latest", "save_event", "save_sql", "exit"}
<1>0. AfterWrite \subseteq Locked
  BY DEF Locked, Saving
<1>1. ASSUME NEW p \in Launchers, Load(p) \/ Acquire(p) \/ Leaves(p) PROVE SaveInv'
  <2> UNCHANGED disk /\ pc'[p] \notin AfterWrite
      /\ \A q \in Launchers \ {p} : pc'[q] = pc[q] /\ mem'[q] = mem[q]
    BY <1>1 DEF Load, Acquire, Leaves, Gone, Goto, disk
  <2> QED
    BY DEF disk
<1>2. ASSUME NEW p \in Launchers, Works(p) PROVE SaveInv'
  <2> UNCHANGED disk /\ pc'[p] \notin AfterWrite
      /\ \A q \in Launchers \ {p} : pc'[q] = pc[q] /\ mem'[q] = mem[q]
    BY <1>2 DEF Works, Gates, Working, Monitor, disk
  <2> QED
    BY DEF disk
<1>3. ASSUME NEW p \in Launchers, Save(p) PROVE SaveInv'
  <2>1. \A q \in Launchers \ {p} : pc'[q] = pc[q] /\ pc[q] \notin AfterWrite
    <3> pc[p] \in Locked
      BY <1>3 DEF Save, SaveState, WriteNumbered, WriteLatest, AppendEvent,
         RecordTransition, Saved, Locked, Saving
    <3> QED
      BY <1>0, <1>3 DEF LockInv, Save, SaveState, WriteNumbered, WriteLatest, AppendEvent,
         RecordTransition, Saved, Goto
  <2>2. CASE SaveState(p)
    BY <2>1, <2>2 DEF SaveState, Saved, Goto
  <2>3. CASE WriteNumbered(p)
    BY <2>1, <2>3 DEF WriteNumbered, Saved, Goto
  <2>4. CASE WriteLatest(p)
    BY <2>1, <2>4 DEF WriteLatest, Saved, Goto
  <2>5. CASE AppendEvent(p)
    BY <2>1, <2>5 DEF AppendEvent, Saved, Goto
  <2>6. CASE RecordTransition(p)
    <3> ret[p] \notin AfterWrite \ {"exit"}
      BY DEF Returns
    <3> QED
      BY <2>1, <2>6 DEF RecordTransition, Saved, Goto
  <2> QED
    BY <1>3, <2>2, <2>3, <2>4, <2>5, <2>6 DEF Save
<1>4. CASE UNCHANGED <<pc, mem, holders, disk, rows>>
  BY <1>4 DEF disk
<1> QED
  BY <1>1, <1>2, <1>3, <1>4, StepShape

(* A launch that returns normally has left its last runtime state in all five
   places _save_checkpoint writes, for any number of concurrent launchers. *)
THEOREM ExitDurable == Spec => []ExitIsDurable
<1>1. Init => LockInv /\ SaveInv
  BY DEF Init, LockInv, SaveInv, Lock!Init, Locked, Saving, Gates, Working, Monitor
<1>2. SaveInv => ExitIsDurable
  BY DEF SaveInv, ExitIsDurable
<1> QED
  BY <1>1, <1>2, TypeCorrect, LockStep, SaveStep, PTL DEF Spec

-----------------------------------------------------------------------------
(* No runtime state, stored or in a launcher's memory, names a missing row. *)
RefInv ==
  /\ \A p \in Launchers : mem[p].refs \subseteq rows
  /\ NoDanglingReference

LEMMA RefStep == ASSUME TypeOK, RefInv, [Next]_vars PROVE RefInv'
<1> USE DEF TypeOK, RefInv, NoDanglingReference
<1>1. ASSUME NEW p \in Launchers, Load(p) PROVE RefInv'
  <2>1. PICK e \in Envs, missing \in Missing :
            mem' = [mem EXCEPT ![p] = Prepared(stateFile, BlockerOf(missing, e))]
    BY <1>1 DEF Load
  <2>2. Prepared(stateFile, BlockerOf(missing, e)).refs = stateFile.refs
    BY PreparedState
  <2> QED
    BY <1>1, <2>1, <2>2 DEF Load, disk
<1>2. ASSUME NEW p \in Launchers, Acquire(p) PROVE RefInv'
  BY <1>2 DEF Acquire, disk
<1>3. ASSUME NEW p \in Launchers, Leaves(p) PROVE RefInv'
  <2> Fresh.refs = {}
    BY DEF Fresh
  <2> QED
    BY <1>3 DEF Leaves, Gone, disk
<1>4. ASSUME NEW p \in Launchers, Works(p) PROVE RefInv'
  BY <1>4 DEF Works, disk
<1>5. ASSUME NEW p \in Launchers, Save(p) PROVE RefInv'
  BY <1>5 DEF Save, Saved, SaveState, WriteNumbered, WriteLatest, AppendEvent,
     RecordTransition
<1>6. CASE UNCHANGED <<pc, mem, holders, disk, rows>>
  BY <1>6 DEF disk
<1> QED
  BY <1>1, <1>2, <1>3, <1>4, <1>5, <1>6, StepShape

(* No stored runtime state names a hypothesis, packet or decision whose row is
   not in the database, whatever crashes and stale loads came before. *)
THEOREM NoDangling == Spec => []NoDanglingReference
<1>1. Init => RefInv
  BY DEF Init, RefInv, NoDanglingReference, Fresh
<1>2. RefInv => NoDanglingReference
  BY DEF RefInv
<1> QED
  BY <1>1, <1>2, TypeCorrect, RefStep, PTL DEF Spec

-----------------------------------------------------------------------------
(* The rows written so far are the first k of the cycle, and no cycle under way
   has got beyond row k. *)
FirstRows(k) == {Writes[i].row : i \in 1 .. k}

RowsInv ==
  \E k \in 0 .. Len(Writes) :
    rows = FirstRows(k) /\ \A p \in Launchers : turn[p] <= k + 1

LEMMA RowsStep == ASSUME TypeOK, RowsInv, [Next]_vars PROVE RowsInv'
<1> PICK k \in 0 .. Len(Writes) : rows = FirstRows(k) /\ \A p \in Launchers : turn[p] <= k + 1
  BY DEF RowsInv
<1> USE DEF TypeOK
<1>1. ASSUME NEW p \in Launchers, LoopWrite(p) PROVE RowsInv'
  <2> DEFINE t == turn[p]
  <2>1. t \in 1 .. Len(Writes) /\ t <= k + 1 /\ rows' = rows \cup {Writes[t].row}
        /\ turn' = [turn EXCEPT ![p] = t + 1]
    BY <1>1, TwelveRows DEF LoopWrite
  <2>2. CASE t <= k
    <3>1. rows' = FirstRows(k)
      BY <2>1, <2>2, TwelveRows DEF FirstRows
    <3> QED
      BY <3>1, <2>1, <2>2, TwelveRows DEF RowsInv, FirstRows
  <2>3. CASE t = k + 1
    <3>1. k + 1 \in 0 .. Len(Writes) /\ rows' = FirstRows(k + 1)
      BY <2>1, <2>3, TwelveRows DEF FirstRows
    <3>2. \A q \in Launchers : turn'[q] <= (k + 1) + 1
      BY <2>1, <2>3, TwelveRows
    <3> QED
      BY <3>1, <3>2 DEF RowsInv, FirstRows
  <2> QED
    BY <2>1, <2>2, <2>3, TwelveRows
<1>2. ASSUME UNCHANGED rows, \A p \in Launchers : turn'[p] = turn[p] \/ turn'[p] = 1
      PROVE  RowsInv'
  <2> \A p \in Launchers : turn'[p] <= k + 1
    BY <1>2, TwelveRows
  <2> QED
    BY <1>2 DEF RowsInv, FirstRows
<1>3. ASSUME NEW p \in Launchers, Step(p) \/ Load(p) \/ Signal(p) \/ Crash(p), ~LoopWrite(p)
      PROVE  UNCHANGED rows /\ \A q \in Launchers : turn'[q] = turn[q] \/ turn'[q] = 1
  <2>1. CASE Collide(p) \/ Exit(p) \/ Crash(p)
    BY <2>1 DEF Collide, Exit, Crash, Gone
  <2>2. CASE Load(p) \/ Acquire(p) \/ Signal(p) \/ LoopRaises(p)
    BY <2>2 DEF Load, Acquire, Signal, LoopRaises
  <2>3. ASSUME Start(p) \/ CheckpointBlocker(p) \/ SelectLabHead(p) \/ LoopDone(p)
               \/ MarkReady(p)
        PROVE  UNCHANGED <<rows, turn>>
    BY <2>3 DEF Start, CheckpointBlocker, SelectLabHead, LoopDone, MarkReady, BeginSave, Pass
  <2>4. ASSUME StartStable(p) \/ StartBudget(p) \/ StartStop(p) \/ MonitorBudget(p)
               \/ MonitorStable(p) \/ MonitorStop(p)
        PROVE  UNCHANGED <<rows, turn>>
    BY <2>4 DEF StartStable, StartBudget, StartStop, MonitorBudget, MonitorStable,
       MonitorStop, StableGate, BudgetGate, StopGate, BeginSave, Pass
  <2>5. ASSUME Save(p) PROVE UNCHANGED <<rows, turn>>
    BY <2>5 DEF Save, Saved, SaveState, WriteNumbered, WriteLatest, AppendEvent,
       RecordTransition
  <2> QED
    BY <1>3, <2>1, <2>2, <2>3, <2>4, <2>5 DEF Step
<1>4. ASSUME WorldChanges \/ UNCHANGED vars PROVE UNCHANGED <<rows, turn>>
  BY <1>4 DEF WorldChanges, vars, local
<1> QED
  BY <1>1, <1>2, <1>3, <1>4 DEF Next

(* Where the rows with evidence stand in the cycle. *)
LEMMA RowPlaces ==
  ASSUME NEW i \in 1 .. 12
  PROVE  /\ Writes[i].row = "hypothesis" => i = 4
         /\ Writes[i].row = "implementation" => i = 6
         /\ Writes[i].row = "metric_packet" => i = 7
         /\ Writes[i].row = "abandoned_lesson" => i = 9
         /\ Writes[i].row = "decision" => i = 12
BY DEF Writes

LEMMA EvidencePlaces ==
  /\ Writes[1].row = "concept_seed" /\ Writes[3].row = "assumption_set"
  /\ Writes[4].row = "hypothesis" /\ Writes[5].row = "formal_model"
  /\ Writes[6].row = "implementation" /\ Writes[7].row = "metric_packet"
  /\ Writes[8].row = "tuning_event" /\ Writes[9].row = "abandoned_lesson"
  /\ Writes[11].row = "lab_note"
BY DEF Writes

LEMMA EvidenceOf ==
  /\ Evidence["hypothesis"] = {"concept_seed", "assumption_set"}
  /\ Evidence["implementation"] = {"hypothesis", "formal_model"}
  /\ Evidence["metric_packet"] = {"hypothesis", "implementation"}
  /\ Evidence["abandoned_lesson"] = {"metric_packet", "tuning_event"}
  /\ Evidence["decision"] = {"metric_packet", "abandoned_lesson", "lab_note"}
BY DEF Evidence

(* However often the stub cycle is cut off and begun again, by any number of
   launchers, no row is in the database without the evidence it rests on. *)
THEOREM EvidenceBeforeDecision == Spec => []DecisionHasEvidence
<1>1. Init => RowsInv
  <2> SUFFICES ASSUME Init PROVE RowsInv
    OBVIOUS
  <2> rows = FirstRows(0) /\ 0 \in 0 .. Len(Writes)
    BY TwelveRows DEF Init, FirstRows
  <2>1. \A p \in Launchers : turn[p] = 1
    BY DEF Init
  <2>2. \A p \in Launchers : turn[p] <= 0 + 1
    <3> TAKE p \in Launchers
    <3> turn[p] \in Nat /\ turn[p] = 1
      BY <2>1
    <3> QED
      OBVIOUS
  <2> QED
    BY <2>2 DEF RowsInv
<1>2. RowsInv => DecisionHasEvidence
  <2> SUFFICES ASSUME RowsInv, NEW r \in DOMAIN Evidence, r \in rows
               PROVE  Evidence[r] \subseteq rows
    BY DEF DecisionHasEvidence
  <2> PICK k \in 0 .. Len(Writes) : rows = FirstRows(k)
    BY DEF RowsInv
  <2>1. PICK i \in 1 .. k : Writes[i].row = r
    BY DEF FirstRows
  <2>2. \A j \in 1 .. i : Writes[j].row \in rows
    BY DEF FirstRows
  <2>3. i \in 1 .. 12
    BY TwelveRows
  <2>4. r \in {"hypothesis", "implementation", "metric_packet", "abandoned_lesson", "decision"}
    BY DEF Evidence
  <2>5. CASE r = "hypothesis"
    <3>1. i = 4
      BY <2>1, <2>3, <2>5, RowPlaces
    <3>2. Writes[1].row \in rows /\ Writes[3].row \in rows
      BY <2>2, <3>1
    <3> QED
      BY <3>2, <2>5, EvidencePlaces, EvidenceOf
  <2>6. CASE r = "implementation"
    <3>1. i = 6
      BY <2>1, <2>3, <2>6, RowPlaces
    <3>2. Writes[4].row \in rows /\ Writes[5].row \in rows
      BY <2>2, <3>1
    <3> QED
      BY <3>2, <2>6, EvidencePlaces, EvidenceOf
  <2>7. CASE r = "metric_packet"
    <3>1. i = 7
      BY <2>1, <2>3, <2>7, RowPlaces
    <3>2. Writes[4].row \in rows /\ Writes[6].row \in rows
      BY <2>2, <3>1
    <3> QED
      BY <3>2, <2>7, EvidencePlaces, EvidenceOf
  <2>8. CASE r = "abandoned_lesson"
    <3>1. i = 9
      BY <2>1, <2>3, <2>8, RowPlaces
    <3>2. Writes[7].row \in rows /\ Writes[8].row \in rows
      BY <2>2, <3>1
    <3> QED
      BY <3>2, <2>8, EvidencePlaces, EvidenceOf
  <2>9. CASE r = "decision"
    <3>1. i = 12
      BY <2>1, <2>3, <2>9, RowPlaces
    <3>2. Writes[7].row \in rows /\ Writes[9].row \in rows /\ Writes[11].row \in rows
      BY <2>2, <3>1
    <3> QED
      BY <3>2, <2>9, EvidencePlaces, EvidenceOf
  <2> QED
    BY <2>4, <2>5, <2>6, <2>7, <2>8, <2>9
<1> QED
  BY <1>1, <1>2, TypeCorrect, RowsStep, PTL DEF Spec

-----------------------------------------------------------------------------
(* Where a launcher is, or goes on after the checkpoint under way. *)
Heading(p) == IF pc[p] \in Saving THEN ret[p] ELSE pc[p]

(* The gates: a reason that has been in force since the lock was taken is still
   in force, and each gate a launch has passed has ruled one out. *)
GateInv ==
  \A p \in Launchers :
    /\ standing[p] \subseteq PauseReasons(p)
    /\ pc[p] \in {"off", "lock"} => standing[p] = {}
    /\ Heading(p) \in {"budget", "stop"} \cup Working => "stable" \notin standing[p]
    /\ Heading(p) \in {"stop"} \cup Working => "budget" \notin standing[p]
    /\ Heading(p) \in Working => "stop" \notin standing[p]
    /\ Heading(p) \in {"stable", "budget", "stop"} \cup Working => mem[p].blocker = "none"

(* A launcher whose step BeginSave is heads for "next". *)
LEMMA BeginSaveGates ==
  ASSUME TypeOK, GateInv, NEW p \in Launchers, NEW s \in RuntimeStates, NEW next,
         pc[p] \in Locked \ Saving, BeginSave(p, s, next),
         \/ next = "exit"
         \/ next = "blocked"
         \/ next = "stable" /\ s.blocker = "none"
         \/ next \in Working /\ pc[p] \in Working /\ s.blocker = "none"
  PROVE  GateInv'
<1>1. [s EXCEPT !.count = @ + 1].blocker = s.blocker
  BY DEF RuntimeStates
<1>2. /\ Heading(p)' = next
      /\ mem'[p].blocker = s.blocker
      /\ pc'[p] = "save_state"
  BY <1>1 DEF Heading, BeginSave, Goto, TypeOK, Saving
<1>3. \A q \in Launchers \ {p} : Heading(q)' = Heading(q) /\ mem'[q] = mem[q] /\ pc'[q] = pc[q]
  BY DEF Heading, BeginSave, Goto, TypeOK
<1>4. \A q \in Launchers : PauseReasons(q)' = PauseReasons(q)
  BY DEF PauseReasons, BudgetStatus, BeginSave, world
<1>5. UNCHANGED standing
  BY DEF BeginSave
<1>6. pc[p] \in Working => Heading(p) \in Working
  BY DEF Heading, Saving, Working, Monitor
<1>7. "exit" \notin Working /\ "blocked" \notin Working /\ "stable" \notin Working
      /\ "budget" \notin Working /\ "stop" \notin Working
  BY DEF Working, Monitor
<1>8. pc[p] \notin {"off", "lock"}
  BY DEF Locked, Saving, Gates, Working, Monitor
<1> QED
  BY <1>2, <1>3, <1>4, <1>5, <1>6, <1>7, <1>8 DEF GateInv

(* A launcher that passes a gate heads for the next one, and the gate has ruled
   its reason out. *)
LEMMA PassGates ==
  ASSUME TypeOK, GateInv, NEW p \in Launchers, NEW next, Pass(p, next),
         pc[p] \in Gates \cup Working,
         \/ next = "budget" /\ pc[p] = "stable" /\ ~stable
         \/ next = "stop" /\ pc[p] = "budget" /\ BudgetStatus(p) = "none"
         \/ next \in Working /\ pc[p] = "stop" /\ ~stopFile
         \/ next \in Working /\ pc[p] \in Working
  PROVE  GateInv'
<1>1. \A q \in Launchers \ {p} : Heading(q)' = Heading(q) /\ pc'[q] = pc[q]
  BY DEF Heading, Pass, Goto, TypeOK
<1>2. \A q \in Launchers : PauseReasons(q)' = PauseReasons(q)
  BY DEF PauseReasons, BudgetStatus, Pass, world
<1>3. UNCHANGED <<standing, mem>>
  BY DEF Pass
<1>4. Heading(p) = pc[p] /\ Heading(p)' = next /\ pc'[p] = next
  BY DEF Heading, Pass, Goto, TypeOK, Saving, Gates, Working, Monitor
<1>5. (~stable => "stable" \notin PauseReasons(p))
      /\ (BudgetStatus(p) = "none" => "budget" \notin PauseReasons(p))
      /\ (~stopFile => "stop" \notin PauseReasons(p))
  BY DEF PauseReasons
<1>6. Working \cap {"off", "lock", "stable", "budget", "stop"} = {}
  BY DEF Working, Monitor
<1> QED
  BY <1>1, <1>2, <1>3, <1>4, <1>5, <1>6 DEF GateInv

LEMMA GateSaves ==
  ASSUME TypeOK, GateInv, NEW p \in Launchers, pc[p] \in Locked \ Saving,
         \/ \E status \in Statuses : BeginSave(p, [mem[p] EXCEPT !.status = status], "exit")
         \/ BeginSave(p, [mem[p] EXCEPT !.status = "stopped", !.stop = TRUE], "exit")
         \/ BeginSave(p, [mem[p] EXCEPT !.status = "lab_head_unavailable",
                                        !.blocker = "lab_head_unavailable"], "exit")
  PROVE  GateInv'
<1>1. \A status \in Statuses : [mem[p] EXCEPT !.status = status] \in RuntimeStates
  BY DEF TypeOK, RuntimeStates
<1>2. /\ [mem[p] EXCEPT !.status = "stopped", !.stop = TRUE] \in RuntimeStates
      /\ [mem[p] EXCEPT !.status = "lab_head_unavailable",
                        !.blocker = "lab_head_unavailable"] \in RuntimeStates
  BY DEF TypeOK, RuntimeStates, Statuses, Blockers
<1> QED
  BY <1>1, <1>2, BeginSaveGates

LEMMA GateStep == ASSUME TypeOK, GateInv, [Next]_vars PROVE GateInv'
<1>1. ASSUME NEW p \in Launchers, Load(p) PROVE GateInv'
  <2>1. /\ pc[p] = "off" /\ pc'[p] = "lock" /\ UNCHANGED <<standing, ret, world>>
        /\ \A q \in Launchers \ {p} : pc'[q] = pc[q] /\ mem'[q] = mem[q] /\ env'[q] = env[q]
    BY <1>1 DEF Load, Goto, TypeOK
  <2>2. Heading(p)' = "lock" /\ \A q \in Launchers \ {p} : Heading(q)' = Heading(q)
    BY <2>1 DEF Heading, Saving
  <2>3. \A q \in Launchers \ {p} : PauseReasons(q)' = PauseReasons(q)
    BY <2>1 DEF PauseReasons, BudgetStatus, world
  <2>4. "lock" \notin Working
    BY DEF Working, Monitor
  <2> QED
    BY <2>1, <2>2, <2>3, <2>4 DEF GateInv
<1>2. ASSUME NEW p \in Launchers, Acquire(p) PROVE GateInv'
  <2>1. /\ pc'[p] = "start" /\ standing'[p] = PauseReasons(p)
        /\ UNCHANGED <<ret, mem, env, world>>
        /\ \A q \in Launchers \ {p} : pc'[q] = pc[q] /\ standing'[q] = standing[q]
    BY <1>2 DEF Acquire, Goto, TypeOK
  <2>2. Heading(p)' = "start" /\ \A q \in Launchers \ {p} : Heading(q)' = Heading(q)
    BY <2>1 DEF Heading, Saving
  <2>3. \A q \in Launchers : PauseReasons(q)' = PauseReasons(q)
    BY <2>1 DEF PauseReasons, BudgetStatus, world
  <2>4. "start" \notin Working
    BY DEF Working, Monitor
  <2> QED
    BY <2>1, <2>2, <2>3, <2>4 DEF GateInv
<1>3. ASSUME NEW p \in Launchers, Collide(p) \/ Exit(p) \/ Crash(p) PROVE GateInv'
  <2>1. /\ pc'[p] = "off" /\ standing'[p] = {} /\ UNCHANGED world
        /\ \A q \in Launchers \ {p} : pc'[q] = pc[q] /\ mem'[q] = mem[q] /\ env'[q] = env[q]
                                      /\ ret'[q] = ret[q] /\ standing'[q] = standing[q]
    BY <1>3 DEF Collide, Exit, Crash, Gone, Goto, TypeOK
  <2>2. Heading(p)' = "off" /\ \A q \in Launchers \ {p} : Heading(q)' = Heading(q)
    BY <2>1 DEF Heading, Saving
  <2>3. \A q \in Launchers \ {p} : PauseReasons(q)' = PauseReasons(q)
    BY <2>1 DEF PauseReasons, BudgetStatus, world
  <2>4. "off" \notin Working
    BY DEF Working, Monitor
  <2> QED
    BY <2>1, <2>2, <2>3, <2>4 DEF GateInv
<1>4. ASSUME NEW p \in Launchers, Start(p) PROVE GateInv'
  <2> DEFINE running == IF mem[p].blocker = "none"
                        THEN [mem[p] EXCEPT !.status = "running"] ELSE mem[p]
             s == IF mem[p].count > 0 THEN [running EXCEPT !.resumes = @ + 1] ELSE running
             next == IF mem[p].blocker = "none" THEN "stable" ELSE "blocked"
  <2>1. running \in RuntimeStates /\ running.blocker = mem[p].blocker
    BY DEF TypeOK, RuntimeStates, Statuses
  <2>2. s \in RuntimeStates /\ s.blocker = mem[p].blocker
    <3> HIDE DEF running
    <3> QED BY <2>1, ResumedState DEF RuntimeStates
  <2>3. pc[p] \in Locked \ Saving /\ BeginSave(p, s, next)
    BY <1>4 DEF Start, Locked, Saving
  <2>4. next = "blocked" \/ (next = "stable" /\ s.blocker = "none")
    <3> HIDE DEF s
    <3> QED BY <2>2
  <2> HIDE DEF s, next
  <2> QED
    BY <2>2, <2>3, <2>4, BeginSaveGates
<1>5. ASSUME NEW p \in Launchers, CheckpointBlocker(p) PROVE GateInv'
  <2> mem[p] \in RuntimeStates
    BY DEF TypeOK
  <2> QED
    BY <1>5, BeginSaveGates DEF CheckpointBlocker, Locked, Gates, Saving
<1>6. ASSUME NEW p \in Launchers,
             StartStable(p) \/ StartBudget(p) \/ StartStop(p) \/ MonitorBudget(p)
               \/ MonitorStable(p) \/ MonitorStop(p)
      PROVE  GateInv'
  <2>1. Gates \cup Working \subseteq Locked \ Saving
    BY DEF Locked, Saving, Gates, Working, Monitor
  <2>2. "stable_candidate_recorded" \in Statuses
        /\ (BudgetStatus(p) # "none" => BudgetStatus(p) \in Statuses)
    BY DEF Statuses, BudgetStatus
  <2>3. {"select", "ready"} \cup Monitor \subseteq Working
    BY DEF Working
  <2>4. CASE StartStable(p)
    BY <2>1, <2>2, <2>4, GateSaves, PassGates DEF StartStable, StableGate, Gates
  <2>5. CASE StartBudget(p)
    BY <2>1, <2>2, <2>5, GateSaves, PassGates DEF StartBudget, BudgetGate, Gates
  <2>6. CASE StartStop(p)
    BY <2>1, <2>2, <2>3, <2>6, GateSaves, PassGates DEF StartStop, StopGate, Gates
  <2>7. CASE MonitorBudget(p)
    BY <2>1, <2>2, <2>3, <2>7, GateSaves, PassGates DEF MonitorBudget, BudgetGate, Monitor
  <2>8. CASE MonitorStable(p)
    BY <2>1, <2>2, <2>3, <2>8, GateSaves, PassGates DEF MonitorStable, StableGate, Monitor
  <2>9. CASE MonitorStop(p)
    BY <2>1, <2>2, <2>3, <2>9, GateSaves, PassGates DEF MonitorStop, StopGate, Monitor
  <2> QED
    BY <1>6, <2>4, <2>5, <2>6, <2>7, <2>8, <2>9
<1>7. ASSUME NEW p \in Launchers, SelectLabHead(p) PROVE GateInv'
  <2> pc[p] = "select" /\ "select" \in Working /\ "loop" \in Working
      /\ "select" \in Locked \ Saving
    BY <1>7 DEF SelectLabHead, Working, Locked, Saving
  <2> QED
    BY <1>7, GateSaves, PassGates DEF SelectLabHead
<1>8. ASSUME NEW p \in Launchers, LoopWrite(p) PROVE GateInv'
  <2>1. UNCHANGED <<pc, ret, env, standing, world>>
        /\ \A q \in Launchers : mem'[q].blocker = mem[q].blocker
    BY <1>8 DEF LoopWrite, TypeOK, RuntimeStates
  <2>2. \A q \in Launchers : Heading(q)' = Heading(q) /\ PauseReasons(q)' = PauseReasons(q)
    BY <2>1 DEF Heading, PauseReasons, BudgetStatus, world
  <2> QED
    BY <2>1, <2>2 DEF GateInv
<1>9. ASSUME NEW p \in Launchers, LoopRaises(p) PROVE GateInv'
  <2>1. /\ pc[p] = "loop" /\ pc'[p] = "raised"
        /\ UNCHANGED <<ret, mem, env, standing, world>>
        /\ \A q \in Launchers \ {p} : pc'[q] = pc[q]
    BY <1>9 DEF LoopRaises, Goto, TypeOK
  <2>2. Heading(p)' = "raised" /\ \A q \in Launchers \ {p} : Heading(q)' = Heading(q)
    BY <2>1 DEF Heading, Saving
  <2>3. \A q \in Launchers : PauseReasons(q)' = PauseReasons(q)
    BY <2>1 DEF PauseReasons, BudgetStatus, world
  <2>4. "raised" \notin Working
    BY DEF Working, Monitor
  <2> QED
    BY <2>1, <2>2, <2>3, <2>4 DEF GateInv
<1>10. ASSUME NEW p \in Launchers, LoopDone(p) \/ MarkReady(p) PROVE GateInv'
  <2> DEFINE s == [mem[p] EXCEPT !.status = "ready"]
  <2>1. s \in RuntimeStates /\ s.blocker = mem[p].blocker
    BY DEF TypeOK, RuntimeStates, Statuses
  <2>2. pc[p] \in Working /\ pc[p] \in Locked \ Saving
    BY <1>10 DEF LoopDone, MarkReady, Locked, Saving, Working
  <2>3. mem[p].blocker = "none"
    BY <2>2 DEF GateInv, Heading
  <2>4. BeginSave(p, s, "exit") \/ \E next \in Working : BeginSave(p, s, next)
    BY <1>10 DEF LoopDone, MarkReady, Working, Monitor
  <2> HIDE DEF s
  <2> QED
    BY <2>1, <2>2, <2>3, <2>4, BeginSaveGates
<1>11. ASSUME NEW p \in Launchers, Save(p) PROVE GateInv'
  <2>1. UNCHANGED <<ret, mem, env, standing, world>> /\ pc[p] \in Saving
        /\ pc'[p] \in Saving \cup {ret[p]}
        /\ \A q \in Launchers \ {p} : pc'[q] = pc[q]
    BY <1>11 DEF Save, SaveState, WriteNumbered, WriteLatest, AppendEvent, RecordTransition,
       Saved, Goto, TypeOK, Saving
  <2>2. ret[p] \notin Saving /\ ret[p] \notin {"off", "lock"}
        /\ Saving \cap {"off", "lock"} = {}
    BY DEF TypeOK, Returns, Saving
  <2>3. \A q \in Launchers : Heading(q)' = Heading(q)
    BY <2>1, <2>2 DEF Heading
  <2>4. \A q \in Launchers : PauseReasons(q)' = PauseReasons(q)
    BY <2>1 DEF PauseReasons, BudgetStatus, world
  <2> QED
    BY <2>1, <2>2, <2>3, <2>4 DEF GateInv
<1>12. ASSUME WorldChanges PROVE GateInv'
  <2>1. /\ UNCHANGED <<pc, ret, mem>>
        /\ \A q \in Launchers : standing'[q] = standing[q] \cap PauseReasons(q)'
    BY <1>12 DEF WorldChanges
  <2>2. \A q \in Launchers : Heading(q)' = Heading(q)
    BY <2>1 DEF Heading
  <2> QED
    BY <2>1, <2>2 DEF GateInv
<1>13. ASSUME (\E p \in Launchers : Signal(p)) \/ UNCHANGED vars PROVE GateInv'
  <2>1. UNCHANGED <<pc, ret, mem, env, standing, world>>
    BY <1>13 DEF Signal, vars, local
  <2>2. \A q \in Launchers : Heading(q)' = Heading(q) /\ PauseReasons(q)' = PauseReasons(q)
    BY <2>1 DEF Heading, PauseReasons, BudgetStatus, world
  <2> QED
    BY <2>1, <2>2 DEF GateInv
<1> QED
  BY <1>1, <1>2, <1>3, <1>4, <1>5, <1>6, <1>7, <1>8, <1>9, <1>10, <1>11, <1>12, <1>13
  DEF Next, Step

(* A launch that takes the lock under a STOP file, a stable candidate or an
   exhausted budget does no lab work while that lasts, and none at all with a
   dependency missing. *)
THEOREM PausedDoesNoWork == Spec => []PausedLaunchDoesNoWork
<1>1. Init => GateInv
  <2> SUFFICES ASSUME Init PROVE GateInv
    OBVIOUS
  <2> \A p \in Launchers : pc[p] = "off" /\ standing[p] = {} /\ Heading(p) = "off"
    BY DEF Init, Heading, Saving
  <2> "off" \notin Working
    BY DEF Working, Monitor
  <2> QED
    BY DEF GateInv
<1>2. TypeOK /\ GateInv => PausedLaunchDoesNoWork
  <2> SUFFICES ASSUME TypeOK, GateInv,
                      NEW p \in Launchers,
                      \/ pc[p] \in Working
                      \/ pc[p] \in Saving /\ ret[p] \in {"ready", "mon_budget"}
               PROVE  standing[p] = {} /\ mem[p].blocker = "none"
    BY Zenon DEF PausedLaunchDoesNoWork
  <2>1. Heading(p) \in Working
    BY DEF Heading, Saving, Working, Monitor
  <2>2. standing[p] \subseteq {"stop", "stable", "budget"}
    BY DEF TypeOK
  <2> QED
    BY <2>1, <2>2 DEF GateInv
<1> QED
  BY <1>1, <1>2, TypeCorrect, GateStep, PTL DEF Spec

-----------------------------------------------------------------------------
(* One launcher at a time: what the numbering of checkpoints rests on.  Two
   launchers break it, because one may load the state before the other's last
   checkpoint and take the lock after it. *)
OneLauncher == \A p, q \in Launchers : p = q

(* The launcher's count is that of runtime_state.json, or one ahead while a
   checkpoint is about to be saved, and no file is numbered beyond it. *)
CountInv ==
  /\ \A f \in files : f.count <= stateFile.count
  /\ \A p \in Launchers :
       /\ pc[p] = "save_state" => mem[p].count = stateFile.count + 1
       /\ pc[p] \notin {"off", "save_state"} => mem[p].count = stateFile.count
       /\ pc[p] = "save_numbered" => \A f \in files : f.count < stateFile.count
       /\ pc[p] \in Saving => mem[p].count # 0

LEMMA CountStep ==
  ASSUME OneLauncher, TypeOK, CountInv, [Next]_vars
  PROVE  CountInv'
<1> USE DEF TypeOK, CountInv, OneLauncher
<1>0. /\ stateFile.count \in Nat /\ \A f \in files : f.count \in Nat
      /\ \A p \in Launchers : mem[p].count \in Nat
  BY DEF RuntimeStates
<1>1. ASSUME NEW p \in Launchers, Load(p) PROVE CountInv'
  <2>1. PICK e \in Envs, missing \in Missing :
            mem' = [mem EXCEPT ![p] = Prepared(stateFile, BlockerOf(missing, e))]
    BY <1>1 DEF Load
  <2>2. mem'[p].count = stateFile.count /\ pc'[p] = "lock" /\ UNCHANGED disk
    BY <1>1, <2>1, PreparedState DEF Load, Goto
  <2> QED
    BY <2>2 DEF disk, Saving
<1>2. ASSUME NEW p \in Launchers, Acquire(p) PROVE CountInv'
  BY <1>2 DEF Acquire, Goto, disk, Saving
<1>3. ASSUME NEW p \in Launchers, Leaves(p) PROVE CountInv'
  <2> pc'[p] = "off" /\ UNCHANGED disk
    BY <1>3 DEF Leaves, Gone, Goto
  <2> QED
    BY DEF disk, Saving
<1>4. ASSUME NEW p \in Launchers, Works(p) PROVE CountInv'
  <2>1. pc[p] \notin {"off", "save_state"} /\ UNCHANGED disk
    BY <1>4 DEF Works, Locked, Saving, Gates, Working, Monitor
  <2>2. pc'[p] = "save_state" \/ pc'[p] \notin Saving \cup {"off"}
    BY <1>4 DEF Works, Saving, Gates, Working, Monitor
  <2>3. mem'[p].count = IF pc'[p] = "save_state" THEN mem[p].count + 1 ELSE mem[p].count
    BY <1>4 DEF Works
  <2>4. "save_state" \in Saving /\ "save_numbered" \in Saving
    BY DEF Saving
  <2>5. CASE pc'[p] = "save_state"
    BY <1>0, <2>1, <2>3, <2>5 DEF disk
  <2>6. CASE pc'[p] \notin Saving \cup {"off"}
    BY <1>0, <2>1, <2>3, <2>4, <2>6 DEF disk
  <2> QED
    BY <2>2, <2>5, <2>6
<1>5. ASSUME NEW p \in Launchers, Save(p) PROVE CountInv'
  <2>1. CASE SaveState(p)
    BY <1>0, <2>1 DEF SaveState, Saved, Goto, Saving
  <2>2. CASE WriteNumbered(p)
    BY <1>0, <2>2 DEF WriteNumbered, Saved, Goto, Saving
  <2>3. CASE WriteLatest(p)
    BY <2>3 DEF WriteLatest, Saved, Goto, Saving
  <2>4. CASE AppendEvent(p)
    BY <2>4 DEF AppendEvent, Saved, Goto, Saving
  <2>5. CASE RecordTransition(p)
    <3> ret[p] \notin Saving /\ ret[p] # "off"
      BY DEF Returns, Saving
    <3> QED
      BY <2>5 DEF RecordTransition, Saved, Goto, Saving
  <2> QED
    BY <1>5, <2>1, <2>2, <2>3, <2>4, <2>5 DEF Save
<1>6. CASE UNCHANGED <<pc, mem, holders, disk, rows>>
  BY <1>6 DEF disk
<1> QED
  BY <1>1, <1>2, <1>3, <1>4, <1>5, <1>6, StepShape

LEMMA CountInit == Init => CountInv
BY DEF Init, CountInv, Saving

(* WriteOrder, as facts about members instead of the set of numbers. *)
LEMMA WriteOrderStep ==
  ASSUME TypeOK, SaveInv, CountInv, WriteOrder, [Next]_vars
  PROVE  WriteOrder'
<1> USE DEF WriteOrder
<1>0. /\ stateFile.count \in Nat /\ latest.count \in Nat /\ sqlState.count \in Nat
      /\ \A f \in files : f.count \in Nat
      /\ \A p \in Launchers : mem[p].count \in Nat
  BY DEF TypeOK, RuntimeStates
<1>1. ASSUME NEW p \in Launchers, Save(p) PROVE WriteOrder'
  <2>1. CASE SaveState(p)
    <3>1. stateFile' = mem[p] /\ mem[p].count = stateFile.count + 1
          /\ UNCHANGED <<files, latest, events, sqlState, sqlLog>>
      BY <2>1 DEF SaveState, Saved, CountInv
    <3> QED
      BY <1>0, <3>1
  <2>2. CASE WriteNumbered(p)
    <3>1. /\ files' = {f \in files : f.count # mem[p].count} \cup {mem[p]}
          /\ mem[p].count = stateFile.count /\ mem[p].count # 0
          /\ UNCHANGED <<stateFile, latest, events, sqlState, sqlLog>>
      BY <2>2 DEF WriteNumbered, Saved, CountInv, Saving
    <3>2. {f.count : f \in files'} = {f.count : f \in files} \cup {mem[p].count}
      BY <3>1
    <3> QED
      BY <1>0, <3>1, <3>2
  <2>3. CASE WriteLatest(p)
    <3>1. latest' = mem[p] /\ mem[p].count = stateFile.count
          /\ UNCHANGED <<stateFile, files, events, sqlState, sqlLog>>
      BY <2>3 DEF WriteLatest, Saved, CountInv
    <3> QED
      BY <1>0, <3>1
  <2>4. CASE AppendEvent(p)
    <3>1. events' = events \cup {mem[p].count} /\ mem[p] \in files
          /\ UNCHANGED <<stateFile, files, latest, sqlState, sqlLog>>
      BY <2>4 DEF AppendEvent, Saved, SaveInv
    <3> QED
      BY <1>0, <3>1
  <2>5. CASE RecordTransition(p)
    <3>1. sqlState' = mem[p] /\ sqlLog' = sqlLog \cup {mem[p].count}
          /\ latest = mem[p] /\ mem[p].count \in events
          /\ UNCHANGED <<stateFile, files, latest, events>>
      BY <2>5 DEF RecordTransition, Saved, SaveInv
    <3> QED
      BY <1>0, <3>1
  <2> QED
    BY <1>1, <2>1, <2>2, <2>3, <2>4, <2>5 DEF Save
<1>2. ASSUME UNCHANGED disk PROVE WriteOrder'
  BY <1>2 DEF disk
<1>3. ASSUME NEW p \in Launchers, Load(p) \/ Acquire(p) \/ Leaves(p) \/ Works(p)
      PROVE  UNCHANGED disk
  BY <1>3 DEF Load, Acquire, Leaves, Works
<1> QED
  BY <1>1, <1>2, <1>3, StepShape

(* With one launcher, the five writes keep their order across any number of
   crashes and resumes. *)
THEOREM WritesInOrder == ASSUME OneLauncher PROVE Spec => []WriteOrder
<1>1. Init => LockInv /\ SaveInv /\ CountInv /\ WriteOrder
  <2> Init => LockInv /\ SaveInv
    BY DEF Init, LockInv, SaveInv, Lock!Init, Locked, Saving, Gates, Working, Monitor
  <2> Init => WriteOrder
    BY DEF Init, WriteOrder, Fresh
  <2> QED
    BY CountInit
<1> QED
  BY <1>1, OneLauncher, TypeCorrect, LockStep, SaveStep, CountStep, WriteOrderStep, PTL
  DEF Spec

(* With one launcher, no numbered checkpoint is ever lost or overwritten. *)
THEOREM CheckpointsAreKept == ASSUME OneLauncher PROVE Spec => CheckpointNeverRewritten
<1>1. ASSUME TypeOK, CountInv, [Next]_vars PROVE [files \subseteq files']_files
  <2>1. ASSUME NEW p \in Launchers, WriteNumbered(p) PROVE files \subseteq files'
    <3>1. /\ \A f \in files : f.count < stateFile.count
          /\ mem[p].count = stateFile.count
          /\ files' = {f \in files : f.count # mem[p].count} \cup {mem[p]}
      BY <1>1, <2>1 DEF WriteNumbered, Saved, CountInv
    <3>2. stateFile.count \in Nat /\ \A f \in files : f.count \in Nat
      BY <1>1 DEF TypeOK, RuntimeStates
    <3> QED
      BY <3>1, <3>2
  <2>2. ASSUME NEW p \in Launchers, Save(p), ~WriteNumbered(p) PROVE UNCHANGED files
    BY <2>2 DEF Save, SaveState, WriteLatest, AppendEvent, RecordTransition
  <2>3. ASSUME NEW p \in Launchers, Load(p) \/ Acquire(p) \/ Leaves(p) \/ Works(p)
        PROVE  UNCHANGED files
    BY <2>3 DEF Load, Acquire, Leaves, Works, disk
  <2>4. ASSUME UNCHANGED disk PROVE UNCHANGED files
    BY <2>4 DEF disk
  <2> QED
    BY <1>1, <2>1, <2>2, <2>3, <2>4, StepShape
<1> QED
  BY <1>1, OneLauncher, CountInit, TypeCorrect, CountStep, PTL
  DEF Spec, CheckpointNeverRewritten

-----------------------------------------------------------------------------
(* A launch advances: each of its steps takes it nearer to its end. *)

LEMMA Distances ==
  /\ \A place \in Places \ Saving : Ahead(place) \in 0 .. 14
  /\ \A place \in Saving : WritesLeft(place) \in 1 .. 5
  /\ Ahead("off") = 0 /\ Ahead("exit") = 1 /\ Ahead("raised") = 1
  /\ Ahead("mon_stop") = 2 /\ Ahead("mon_stable") = 3 /\ Ahead("mon_budget") = 4
  /\ Ahead("ready") = 5 /\ Ahead("loop") = 6 /\ Ahead("select") = 9
  /\ Ahead("stop") = 10 /\ Ahead("budget") = 11
  /\ Ahead("stable") = 12 /\ Ahead("blocked") = 12
  /\ Ahead("start") = 13 /\ Ahead("lock") = 14
BY DEF Ahead, WritesLeft, Places, Locked, Saving, Gates, Working, Monitor

(* At a place outside a checkpoint only the rows of the cycle are added. *)
LEMMA RemainingAt ==
  ASSUME TypeOK, NEW p \in Launchers, pc[p] \notin Saving
  PROVE  /\ pc[p] # "loop" => Remaining(p) = 6 * Ahead(pc[p])
         /\ pc[p] = "loop" => Remaining(p) = 36 + (13 - turn[p]) /\ turn[p] \in 1 .. 13
         /\ Remaining(p) >= 6 * Ahead(pc[p])
         /\ Ahead(pc[p]) \in 0 .. 14
<1>1. Ahead(pc[p]) \in 0 .. 14 /\ Ahead("loop") = 6
  BY Distances DEF TypeOK
<1>2. turn[p] \in 1 .. 13 /\ Len(Writes) + 1 = 13
  BY TwelveRows DEF TypeOK
<1> QED BY <1>1, <1>2 DEF Remaining

OthersStay(p) ==
  \A q \in Launchers \ {p} : pc'[q] = pc[q] /\ turn'[q] = turn[q]

(* A checkpoint leads to a place nearer to the end, with its writes. *)
LEMMA BeginSaveAdvances ==
  ASSUME TypeOK, TypeOK', NEW p \in Launchers, NEW s, NEW next \in Returns,
         pc[p] \notin Saving, BeginSave(p, s, next), Ahead(next) < Ahead(pc[p])
  PROVE  OthersStay(p) /\ Remaining(p)' < Remaining(p)
<1>1. /\ pc'[p] = "save_state" /\ ret'[p] = next
      /\ OthersStay(p)
  BY DEF BeginSave, Goto, TypeOK, OthersStay
<1>2. Remaining(p)' = 6 * Ahead(next) + 5
  BY <1>1 DEF Remaining, Saving, WritesLeft
<1>3. next \in Places \ Saving
  BY DEF Returns, Places, Locked, Saving, Gates, Working, Monitor
<1>4. Ahead(next) \in 0 .. 14
  BY <1>3, Distances
<1>5. Remaining(p) >= 6 * Ahead(pc[p]) /\ Ahead(pc[p]) \in 0 .. 14
  BY RemainingAt
<1>6. Remaining(p) \in Nat
  BY RemainingAt
<1> QED BY <1>1, <1>2, <1>4, <1>5, <1>6

(* Passing a gate leads to a place nearer to the end; before the loop there *)
(* is room for its rows.                                                    *)
LEMMA PassAdvances ==
  ASSUME TypeOK, TypeOK', NEW p \in Launchers, NEW next \in Places \ Saving,
         pc[p] \notin Saving, Pass(p, next),
         Ahead(next) < Ahead(pc[p]), next = "loop" => pc[p] = "select"
  PROVE  OthersStay(p) /\ Remaining(p)' < Remaining(p)
<1>1. pc'[p] = next /\ turn' = turn /\ OthersStay(p)
  BY DEF Pass, Goto, TypeOK, OthersStay
<1>2. /\ next # "loop" => Remaining(p)' = 6 * Ahead(next)
      /\ next = "loop" => Remaining(p)' = 36 + (13 - turn[p]) /\ turn[p] \in 1 .. 13
      /\ Ahead(next) \in 0 .. 14
  BY <1>1, Distances, TwelveRows DEF Remaining, TypeOK
<1>3. /\ Remaining(p) >= 6 * Ahead(pc[p]) /\ Ahead(pc[p]) \in 0 .. 14
      /\ pc[p] = "select" => Remaining(p) = 54
  BY RemainingAt, Distances
<1>4. Remaining(p) \in Nat
  BY RemainingAt
<1>5. CASE next = "loop"
  BY <1>1, <1>2, <1>3, <1>5
<1>6. CASE next # "loop"
  BY <1>1, <1>2, <1>3, <1>4, <1>6
<1> QED BY <1>5, <1>6

LEMMA GateAdvances ==
  ASSUME TypeOK, TypeOK', NEW p \in Launchers, NEW next \in Places \ Saving,
         pc[p] \notin Saving, Ahead(next) < Ahead(pc[p]), next # "loop",
         1 < Ahead(pc[p]),
         StableGate(p, next) \/ BudgetGate(p, next) \/ StopGate(p, next)
  PROVE  OthersStay(p) /\ Remaining(p)' < Remaining(p)
<1>1. "exit" \in Returns /\ Ahead("exit") = 1
  BY Distances DEF Returns
<1> QED
  BY <1>1, BeginSaveAdvances, PassAdvances DEF StableGate, BudgetGate, StopGate

(* The one step back. *)
TurnsBack(p) ==
  pc[p] = "mon_stop" /\ pc'[p] = "mon_budget" /\ ~signalled[p] /\ ~stopFile

LEMMA StepAdvances ==
  ASSUME TypeOK, TypeOK', NEW p \in Launchers, Step(p)
  PROVE  OthersStay(p) /\ (TurnsBack(p) \/ Remaining(p)' < Remaining(p))
<1> USE Distances
<1>0. {"off", "lock", "start", "exit", "raised", "blocked", "stable", "budget", "stop",
       "select", "loop", "ready", "mon_budget", "mon_stable", "mon_stop"} \subseteq Places \ Saving
  BY DEF Places, Locked, Saving, Gates, Working, Monitor
<1>1. CASE Acquire(p)
  <2>1. pc[p] = "lock" /\ pc'[p] = "start" /\ OthersStay(p)
    BY <1>1 DEF Acquire, Goto, TypeOK, OthersStay
  <2> QED BY <1>0, <2>1 DEF Remaining
<1>2. CASE Collide(p) \/ Exit(p)
  <2>1. pc[p] \in {"lock", "exit", "raised"} /\ pc'[p] = "off" /\ OthersStay(p)
    BY <1>2 DEF Collide, Exit, Gone, Goto, TypeOK, OthersStay
  <2> QED BY <1>0, <2>1 DEF Remaining
<1>3. CASE Start(p)
  <2>1. PICK next \in {"stable", "blocked"} : \E s : BeginSave(p, s, next)
    BY <1>3 DEF Start
  <2>2. pc[p] = "start" /\ next \in Returns
    BY <1>3 DEF Start, Returns
  <2> QED BY <1>0, <2>1, <2>2, BeginSaveAdvances
<1>4. CASE CheckpointBlocker(p)
  <2>1. pc[p] = "blocked" /\ BeginSave(p, mem[p], "exit") /\ "exit" \in Returns
    BY <1>4 DEF CheckpointBlocker, Returns
  <2> QED BY <1>0, <2>1, BeginSaveAdvances
<1>5. CASE StartStable(p) \/ StartBudget(p) \/ StartStop(p)
  <2>1. \/ pc[p] = "stable" /\ StableGate(p, "budget")
        \/ pc[p] = "budget" /\ BudgetGate(p, "stop")
        \/ pc[p] = "stop" /\ StopGate(p, "select")
        \/ pc[p] = "stop" /\ StopGate(p, "ready")
    BY <1>5 DEF StartStable, StartBudget, StartStop
  <2> QED BY <1>0, <2>1, GateAdvances
<1>6. CASE SelectLabHead(p)
  <2>1. pc[p] = "select" /\ "exit" \in Returns
    BY <1>6 DEF SelectLabHead, Returns
  <2>2. Pass(p, "loop") \/ \E s : BeginSave(p, s, "exit")
    BY <1>6 DEF SelectLabHead
  <2> QED BY <1>0, <2>1, <2>2, PassAdvances, BeginSaveAdvances
<1>7. CASE LoopWrite(p)
  <2>1. pc[p] = "loop" /\ pc' = pc /\ turn'[p] = turn[p] + 1 /\ OthersStay(p)
    BY <1>7 DEF LoopWrite, TypeOK, OthersStay
  <2>2. turn[p] \in 1 .. 13 /\ turn'[p] \in 1 .. 13
    BY TwelveRows DEF TypeOK
  <2>3. Remaining(p) = 36 + (13 - turn[p]) /\ Remaining(p)' = 36 + (13 - turn'[p])
    BY <1>0, <2>1, <2>2, TwelveRows DEF Remaining
  <2> QED BY <2>1, <2>2, <2>3
<1>8. CASE LoopRaises(p)
  <2>1. pc[p] = "loop" /\ pc'[p] = "raised" /\ OthersStay(p)
    BY <1>8 DEF LoopRaises, Goto, TypeOK, OthersStay
  <2>2. Remaining(p)' = 6
    BY <1>0, <2>1 DEF Remaining
  <2>3. Remaining(p) = 36 + (13 - turn[p]) /\ turn[p] \in 1 .. 13
    BY <1>0, <2>1, RemainingAt
  <2> QED BY <2>1, <2>2, <2>3
<1>9. CASE LoopDone(p) \/ MarkReady(p)
  <2>1. \E next \in {"exit", "ready", "mon_budget"} :
          /\ \E s : BeginSave(p, s, next)
          /\ \/ pc[p] = "loop" /\ next \in {"exit", "ready"}
             \/ pc[p] = "ready" /\ next \in {"exit", "mon_budget"}
    BY <1>9 DEF LoopDone, MarkReady
  <2>2. {"exit", "ready", "mon_budget"} \subseteq Returns
    BY DEF Returns
  <2> QED BY <1>0, <2>1, <2>2, BeginSaveAdvances
<1>10. CASE MonitorBudget(p) \/ MonitorStable(p)
  <2>1. \/ pc[p] = "mon_budget" /\ BudgetGate(p, "mon_stable")
        \/ pc[p] = "mon_stable" /\ StableGate(p, "mon_stop")
    BY <1>10 DEF MonitorBudget, MonitorStable
  <2> QED BY <1>0, <2>1, GateAdvances
<1>11. CASE MonitorStop(p)
  <2>1. pc[p] = "mon_stop" /\ "exit" \in Returns
    BY <1>11 DEF MonitorStop, Returns
  <2>2. CASE signalled[p] \/ stopFile
    <3>1. \E s : BeginSave(p, s, "exit")
      BY <1>11, <2>2 DEF MonitorStop, StopGate
    <3> QED BY <1>0, <2>1, <3>1, BeginSaveAdvances
  <2>3. CASE ~(signalled[p] \/ stopFile)
    BY <1>11, <2>1, <2>3 DEF MonitorStop, StopGate, Pass, Goto, TypeOK, TurnsBack, OthersStay
  <2> QED BY <2>2, <2>3
<1>12. CASE Save(p)
  <2>1. /\ \/ pc[p] = "save_state" /\ pc'[p] = "save_numbered"
           \/ pc[p] = "save_numbered" /\ pc'[p] = "save_latest"
           \/ pc[p] = "save_latest" /\ pc'[p] = "save_event"
           \/ pc[p] = "save_event" /\ pc'[p] = "save_sql"
           \/ pc[p] = "save_sql" /\ pc'[p] = ret[p]
        /\ ret' = ret /\ turn' = turn /\ OthersStay(p)
    BY <1>12 DEF Save, Saved, SaveState, WriteNumbered, WriteLatest, AppendEvent,
       RecordTransition, Goto, TypeOK, OthersStay
  <2>2. ret[p] \in (Places \ Saving) \ {"loop"}
    BY DEF TypeOK, Returns, Places, Locked, Saving, Gates, Working, Monitor
  <2>3. Ahead(ret[p]) \in 0 .. 14
    BY <2>2
  <2>4. Remaining(p) = 6 * Ahead(ret[p]) + WritesLeft(pc[p])
    BY <2>1 DEF Remaining, Saving
  <2>5. CASE pc[p] = "save_sql"
    <3>1. Remaining(p)' = 6 * Ahead(ret[p])
      BY <2>1, <2>2, <2>5 DEF Remaining
    <3> QED BY <2>1, <2>3, <2>4, <2>5, <3>1 DEF WritesLeft
  <2>6. CASE pc[p] # "save_sql"
    <3>1. Remaining(p)' = 6 * Ahead(ret[p]) + WritesLeft(pc'[p])
      BY <2>1, <2>6 DEF Remaining, Saving
    <3>2. WritesLeft(pc'[p]) < WritesLeft(pc[p])
          /\ WritesLeft(pc'[p]) \in Nat /\ WritesLeft(pc[p]) \in Nat
      BY <2>1, <2>6 DEF WritesLeft
    <3> QED BY <2>1, <2>3, <2>4, <3>1, <3>2
  <2> QED BY <2>5, <2>6
<1> QED
  BY <1>1, <1>2, <1>3, <1>4, <1>5, <1>6, <1>7, <1>8, <1>9, <1>10, <1>11, <1>12 DEF Step

(* No launch ever steps back, short of the monitor loop turning once more
   while nobody asks for a stop (supervisor.py: run_locked and monitor): with
   any number of launchers it makes at most 84 steps before it ends, monitors
   or is killed, and at most 24 from the monitor once a stop is asked for. *)
THEOREM LaunchesAdvance == Spec => LaunchAdvances
<1> DEFINE Advances(p) ==
      \/ pc[p] = "off"
      \/ pc[p] = "mon_stop" /\ pc'[p] = "mon_budget" /\ ~signalled[p] /\ ~stopFile
      \/ Remaining(p)' < Remaining(p)
           Advance == \A p \in Launchers : <<pc[p], turn[p]>>' # <<pc[p], turn[p]>> => Advances(p)
<1>1. ASSUME TypeOK, TypeOK', [Next]_vars PROVE Advance
  <2>1. SUFFICES ASSUME NEW p \in Launchers, pc'[p] # pc[p] \/ turn'[p] # turn[p]
                 PROVE Advances(p)
    OBVIOUS
  <2>2. ASSUME NEW q \in Launchers, Step(q) PROVE Advances(p)
    <3>1. OthersStay(q) /\ (TurnsBack(q) \/ Remaining(q)' < Remaining(q))
      BY <1>1, <2>2, StepAdvances
    <3>2. p = q
      BY <2>1, <3>1 DEF OthersStay
    <3> QED BY <3>1, <3>2 DEF TurnsBack
  <2>3. ASSUME NEW q \in Launchers, Load(q) PROVE Advances(p)
    BY <1>1, <2>1, <2>3 DEF Load, Goto, TypeOK
  <2>4. ASSUME NEW q \in Launchers, Crash(q) PROVE Advances(p)
    <3>1. p = q /\ pc[p] # "off" /\ pc'[p] = "off"
      BY <1>1, <2>1, <2>4 DEF Crash, Gone, Goto, TypeOK
    <3>2. Remaining(p)' = 0
      BY <3>1, Distances DEF Remaining, Saving
    <3>3. CASE pc[p] \notin Saving
      <4>1. Ahead(pc[p]) > 0
        BY <1>1, <3>1, <3>3 DEF Ahead, TypeOK, Places, Locked, Gates, Working, Monitor
      <4>2. Remaining(p) >= 6 * Ahead(pc[p]) /\ Ahead(pc[p]) \in 0 .. 14 /\ Remaining(p) \in Nat
        BY <1>1, <3>3, RemainingAt
      <4> QED BY <3>2, <4>1, <4>2
    <3>4. CASE pc[p] \in Saving
      <4>1. Remaining(p) = 6 * Ahead(ret[p]) + WritesLeft(pc[p])
        BY <3>4 DEF Remaining
      <4>2. WritesLeft(pc[p]) \in 1 .. 5
        BY <3>4, Distances
      <4>3. Ahead(ret[p]) \in 0 .. 14
        BY <1>1, Distances DEF TypeOK, Returns, Places, Locked, Saving, Gates, Working, Monitor
      <4> QED BY <3>2, <4>1, <4>2, <4>3
    <3> QED BY <3>3, <3>4
  <2>5. CASE (\E q \in Launchers : Signal(q)) \/ WorldChanges \/ UNCHANGED vars
    BY <2>1, <2>5 DEF Signal, WorldChanges, vars, local
  <2> QED BY <1>1, <2>2, <2>3, <2>4, <2>5 DEF Next
<1>2. TypeOK /\ TypeOK' /\ [Next]_vars => [Advance]_vars
  BY <1>1
<1> HIDE DEF Advance
<1>3. Spec => [][Advance]_vars
  BY <1>2, TypeCorrect, PTL DEF Spec
<1> QED BY <1>3 DEF LaunchAdvances, Advance, Advances
=============================================================================
