------------------------------ MODULE Supervisor ------------------------------
(***************************************************************************)
(* RuntimeSupervisor (runtime/supervisor.py) with the stores it writes:    *)
(* RuntimeStore (runtime/state.py) and the runtime tables and stub-loop    *)
(* rows of StateStore (state/store.py, lab/stub_loop.py).                  *)
(*                                                                         *)
(* A launcher loads runtime_state.json and only then takes the launcher    *)
(* lock; under the lock it runs its start-up gates, one stub lab cycle,    *)
(* and the monitor loop, and leaves a checkpoint at every turn.  A         *)
(* checkpoint is five separate writes; the process can be killed between   *)
(* any two of them and launched again over what they left.                 *)
(***************************************************************************)
EXTENDS Naturals, Sequences

CONSTANTS
  Launchers,      \* process slots that run the launcher
  MaxLaunches,    \* bound on the launches of a behaviour
  Envs,           \* the environments a launch may be given
  Missing,        \* the sets of dependencies a launch may find missing
  Changing        \* what may change while launchers run: see WorldChanges

(* The dependencies a launch misses: Python packages, and the sandbox, the
   solvers and the lab head where they are required and not available. *)
Dependencies == {"python", "sandbox", "solvers", "lab_head"}

(* HT_LAB_* variables: is the stub loop requested, is this a dry run, do the
   token counters exceed the hard cap. *)
Environments == [loop : BOOLEAN, dry : BOOLEAN, overTokens : BOOLEAN]
NoEnv == [loop |-> FALSE, dry |-> FALSE, overTokens |-> FALSE]

ASSUME ConstantsAssumption ==
  /\ MaxLaunches \in Nat
  /\ Envs \subseteq Environments
  /\ Missing \subseteq SUBSET Dependencies
  /\ Changing \subseteq {"stop", "stable", "limit"}

VARIABLES
  pc,           \* where each launcher is in RuntimeSupervisor.run
  ret,          \* where it goes on after the _save_checkpoint under way
  mem,          \* its in-memory runtime state
  env,          \* its environment variables (fixed for the life of the process)
  turn,         \* the next row its stub cycle writes
  signalled,    \* its SIGINT/SIGTERM handler has set stop_requested
  standing,     \* history: reasons to pause in force ever since it took the lock
  holders,      \* the launchers inside the FileLock block (ExclusiveLock)
  stateFile,    \* runtime_state.json
  files,        \* checkpoints/checkpoint-NNNNNN.json, by checkpoint_count
  latest,       \* checkpoints/latest.json
  events,       \* events.jsonl: the checkpoints that have a line
  sqlState,     \* row 'default' of runtime_state, and the newest checkpoints row
  sqlLog,       \* event_log and checkpoints: the checkpoints that have rows
  rows,         \* rows the stub cycle has written
  stopFile,     \* runs/<run>/STOP exists
  stable,       \* stable_candidate.json holds a candidate that passed its gates
  overLimit,    \* wall time, storage, CPU or jobs exceed their caps
  launches      \* launches so far

local == <<pc, ret, mem, env, turn, signalled, standing>>
disk == <<stateFile, files, latest, events, sqlState, sqlLog>>
world == <<stopFile, stable, overLimit>>
vars == <<local, holders, disk, rows, world, launches>>

Lock == INSTANCE ExclusiveLock

-----------------------------------------------------------------------------
(* The rows StubLabLoop.run_once writes, in order.  Every one has a fixed id;
   an "insert" row is a plain INSERT that fails when the id is there already,
   an "upsert" row is INSERT ... ON CONFLICT DO UPDATE.  A row in Referenced
   is named by a field of the runtime state once it is written. *)
Upsert(row) == [row |-> row, mode |-> "upsert"]
Insert(row) == [row |-> row, mode |-> "insert"]

ConceptSeed == Upsert("concept_seed")
PriorArtCheck == Upsert("prior_art_check")
AssumptionSet == Upsert("assumption_set")
Hypothesis == Insert("hypothesis")
FormalModel == Upsert("formal_model")
Implementation == Upsert("implementation")
MetricPacket == Upsert("metric_packet")
TuningEvent == Insert("tuning_event")
AbandonedLesson == Insert("abandoned_lesson")
GeneratorHealth == Upsert("generator_health")
LabNote == Insert("lab_note")
Decision == Upsert("decision")

Writes ==
  <<ConceptSeed, PriorArtCheck, AssumptionSet, Hypothesis, FormalModel, Implementation,
    MetricPacket, TuningEvent, AbandonedLesson, GeneratorHealth, LabNote, Decision>>

Rows == {Writes[i].row : i \in 1 .. Len(Writes)}
Referenced == {"hypothesis", "metric_packet", "decision"}

Blockers == {"bootstrap_needed", "sandbox_unavailable",
             "bootstrap_solver_unavailable", "lab_head_unavailable"}
Statuses == Blockers \cup
  {"running", "ready", "stopped", "budget_paused", "generation_budget_failed",
   "stable_candidate_recorded"}

(* The runtime state, reduced to the fields that steer the supervisor.  A
   file or row whose count is 0 does not exist: no checkpoint is numbered 0. *)
RuntimeStates ==
  [status  : Statuses,
   count   : Nat,                         \* checkpoint_count
   resumes : Nat,                         \* resume_count
   stop    : BOOLEAN,                     \* stop_requested
   blocker : Blockers \cup {"none"},      \* bootstrap_blocker
   refs    : SUBSET Referenced]           \* ids of rows the state names

Fresh == [status |-> "bootstrap_needed", count |-> 0, resumes |-> 0,
          stop |-> FALSE, blocker |-> "none", refs |-> {}]

(* _refresh_integrations: the first missing dependency blocks the start; the
   lab head only matters to a launch that runs the loop. *)
BlockerOf(missing, e) ==
  IF "python" \in missing THEN "bootstrap_needed"
  ELSE IF "sandbox" \in missing THEN "sandbox_unavailable"
  ELSE IF "solvers" \in missing THEN "bootstrap_solver_unavailable"
  ELSE IF "lab_head" \in missing /\ e.loop THEN "lab_head_unavailable"
  ELSE "none"

MutPreparedStatus(raw, b) == [raw EXCEPT !.blocker = b, !.status = b]

MutPreparedAfresh(raw, b) ==
  [Fresh EXCEPT !.blocker = b, !.status = IF b = "none" THEN @ ELSE b]

(* _prepare_state: an existing state is taken over as it is, whatever stop
   request or pause reason it holds; then the blocker is computed anew. *)
Prepared(raw, b) ==
  [raw EXCEPT !.blocker = b, !.status = IF b = "none" THEN @ ELSE b]

(* The budget verdict of _budget_check: token caps before resource caps. *)
BudgetStatus(p) ==
  IF env[p].overTokens THEN "generation_budget_failed"
  ELSE IF overLimit THEN "budget_paused" ELSE "none"

(* Why a launch that takes the lock now may not do lab work. *)
PauseReasons(p) ==
  {r \in {"stop", "stable", "budget"} :
     \/ r = "stop" /\ stopFile
     \/ r = "stable" /\ stable
     \/ r = "budget" /\ BudgetStatus(p) # "none"}

-----------------------------------------------------------------------------
Saving == {"save_state", "save_numbered", "save_latest", "save_event", "save_sql"}
Gates == {"blocked", "stable", "budget", "stop"}
Monitor == {"mon_budget", "mon_stable", "mon_stop"}
Working == {"select", "loop", "ready"} \cup Monitor
Returns == {"exit", "blocked", "stable", "ready", "mon_budget"}
Locked == {"start", "exit", "raised"} \cup Saving \cup Gates \cup Working
Places == {"off", "lock"} \cup Locked

Init ==
  /\ pc = [p \in Launchers |-> "off"]
  /\ ret = [p \in Launchers |-> "exit"]
  /\ mem = [p \in Launchers |-> Fresh]
  /\ env = [p \in Launchers |-> NoEnv]
  /\ turn = [p \in Launchers |-> 1]
  /\ signalled = [p \in Launchers |-> FALSE]
  /\ standing = [p \in Launchers |-> {}]
  /\ Lock!Init
  /\ stateFile = Fresh /\ latest = Fresh /\ sqlState = Fresh
  /\ files = {} /\ events = {} /\ sqlLog = {}
  /\ rows = {}
  /\ stopFile = FALSE /\ stable = FALSE /\ overLimit = FALSE
  /\ launches = 0

Goto(p, place) == pc' = [pc EXCEPT ![p] = place]

(* _save_checkpoint begins: the count goes up in memory; the five writes
   follow one by one and the launcher goes on at "next". *)
BeginSave(p, state, next) ==
  /\ mem' = [mem EXCEPT ![p] = [state EXCEPT !.count = @ + 1]]
  /\ ret' = [ret EXCEPT ![p] = next]
  /\ Goto(p, "save_state")
  /\ UNCHANGED <<env, turn, signalled, standing, holders, disk, rows, world, launches>>

(* A process that is gone: nothing of its memory is left. *)
Gone(p) ==
  /\ Goto(p, "off")
  /\ mem' = [mem EXCEPT ![p] = Fresh]
  /\ ret' = [ret EXCEPT ![p] = "exit"]
  /\ turn' = [turn EXCEPT ![p] = 1]
  /\ signalled' = [signalled EXCEPT ![p] = FALSE]
  /\ standing' = [standing EXCEPT ![p] = {}]
  /\ env' = [env EXCEPT ![p] = NoEnv]

-----------------------------------------------------------------------------
(* run(), before the lock: load_state, _prepare_state, _refresh_integrations. *)
Load(p) ==
  /\ pc[p] = "off"
  /\ launches < MaxLaunches
  /\ launches' = launches + 1
  /\ \E e \in Envs, missing \in Missing :
       /\ env' = [env EXCEPT ![p] = e]
       /\ mem' = [mem EXCEPT ![p] = Prepared(stateFile, BlockerOf(missing, e))]
  /\ Goto(p, "lock")
  /\ UNCHANGED <<ret, turn, signalled, standing, holders, disk, rows, world>>

(* FileLock.__enter__, then sql_store.initialize. *)
Acquire(p) ==
  /\ pc[p] = "lock"
  /\ Lock!Acquire(p)
  /\ Goto(p, "start")
  /\ standing' = [standing EXCEPT ![p] = PauseReasons(p)]
  /\ UNCHANGED <<ret, mem, env, turn, signalled, disk, rows, world, launches>>

(* LockCollisionError: exit code 2, nothing written. *)
Collide(p) ==
  /\ pc[p] = "lock"
  /\ Lock!Refuse(p)
  /\ Gone(p)
  /\ UNCHANGED <<disk, rows, world, launches>>

(* The resume or fresh_start checkpoint of _run_locked. *)
Start(p) ==
  /\ pc[p] = "start"
  /\ LET m == mem[p]
         running == IF m.blocker = "none" THEN [m EXCEPT !.status = "running"] ELSE m
     IN BeginSave(p,
          IF m.count > 0 THEN [running EXCEPT !.resumes = @ + 1] ELSE running,
          IF m.blocker = "none" THEN "stable" ELSE "blocked")

(* The second checkpoint of a blocked start. *)
CheckpointBlocker(p) ==
  /\ pc[p] = "blocked"
  /\ BeginSave(p, mem[p], "exit")

Pass(p, next) ==
  /\ Goto(p, next)
  /\ UNCHANGED <<ret, mem, env, turn, signalled, standing, holders, disk, rows, world,
                 launches>>

MutStableGateRecordsOnly(p, next) ==
  IF stable
  THEN BeginSave(p, [mem[p] EXCEPT !.status = "stable_candidate_recorded"], next)
  ELSE Pass(p, next)

(* load_stable_candidate and candidate_passed_configured_gates: a candidate
   that passed pauses the search; otherwise go on at "next". *)
StableGate(p, next) ==
  IF stable
  THEN BeginSave(p, [mem[p] EXCEPT !.status = "stable_candidate_recorded"], "exit")
  ELSE Pass(p, next)

(* _budget_check and _checkpoint_budget_exhaustion. *)
BudgetGate(p, next) ==
  IF BudgetStatus(p) # "none"
  THEN BeginSave(p, [mem[p] EXCEPT !.status = BudgetStatus(p)], "exit")
  ELSE Pass(p, next)

MutStopGateFileOnly(p, next) ==
  IF stopFile
  THEN BeginSave(p, [mem[p] EXCEPT !.status = "stopped", !.stop = TRUE], "exit")
  ELSE Pass(p, next)

(* _stop_reason: the signal flag or the STOP file. *)
StopGate(p, next) ==
  IF signalled[p] \/ stopFile
  THEN BeginSave(p, [mem[p] EXCEPT !.status = "stopped", !.stop = TRUE], "exit")
  ELSE Pass(p, next)

(* _run_locked asks for a stable candidate, then the budget, then a stop. *)
StartStable(p) == pc[p] = "stable" /\ StableGate(p, "budget")
StartBudget(p) == pc[p] = "budget" /\ BudgetGate(p, "stop")
StartStop(p) ==
  pc[p] = "stop" /\ StopGate(p, IF env[p].loop THEN "select" ELSE "ready")

(* The lab head is selected again right before the cycle: it may be gone. *)
SelectLabHead(p) ==
  /\ pc[p] = "select"
  /\ \/ Pass(p, "loop")
     \/ BeginSave(p, [mem[p] EXCEPT !.status = "lab_head_unavailable",
                                    !.blocker = "lab_head_unavailable"], "exit")

MutLoopWriteLosesUpserts(p) ==
  /\ pc[p] = "loop"
  /\ turn[p] <= Len(Writes)
  /\ Writes[turn[p]].mode = "insert" => Writes[turn[p]].row \notin rows
  /\ rows' = IF Writes[turn[p]].mode = "insert" THEN rows \cup {Writes[turn[p]].row} ELSE rows
  /\ mem' = [mem EXCEPT ![p].refs = @ \cup ({Writes[turn[p]].row} \cap Referenced)]
  /\ turn' = [turn EXCEPT ![p] = @ + 1]
  /\ UNCHANGED <<pc, ret, env, signalled, standing, holders, disk, world, launches>>

(* One row of the stub cycle is written, in a transaction of its own. *)
LoopWrite(p) ==
  /\ pc[p] = "loop"
  /\ turn[p] <= Len(Writes)
  /\ Writes[turn[p]].mode = "insert" => Writes[turn[p]].row \notin rows
  /\ rows' = rows \cup {Writes[turn[p]].row}
  /\ mem' = [mem EXCEPT ![p].refs = @ \cup ({Writes[turn[p]].row} \cap Referenced)]
  /\ turn' = [turn EXCEPT ![p] = @ + 1]
  /\ UNCHANGED <<pc, ret, env, signalled, standing, holders, disk, world, launches>>

MutLoopRaisesNever(p) ==
  /\ pc[p] = "loop"
  /\ turn[p] <= Len(Writes)
  /\ Writes[turn[p]].mode = "insert" /\ Writes[turn[p]].row \in rows
  /\ UNCHANGED vars

(* A plain INSERT of an id that exists: sqlite3.IntegrityError leaves
   _run_locked without a checkpoint. *)
LoopRaises(p) ==
  /\ pc[p] = "loop"
  /\ turn[p] <= Len(Writes)
  /\ Writes[turn[p]].mode = "insert" /\ Writes[turn[p]].row \in rows
  /\ Goto(p, "raised")
  /\ UNCHANGED <<ret, mem, env, turn, signalled, standing, holders, disk, rows, world,
                 launches>>

MutLoopDoneUnsaved(p) ==
  /\ pc[p] = "loop"
  /\ turn[p] > Len(Writes)
  /\ mem' = [mem EXCEPT ![p].status = "ready"]
  /\ Goto(p, IF env[p].dry THEN "exit" ELSE "ready")
  /\ UNCHANGED <<ret, env, turn, signalled, standing, holders, disk, rows, world, launches>>

(* The phase5_stub_cycle_complete checkpoint. *)
LoopDone(p) ==
  /\ pc[p] = "loop"
  /\ turn[p] > Len(Writes)
  /\ BeginSave(p, [mem[p] EXCEPT !.status = "ready"],
               IF env[p].dry THEN "exit" ELSE "ready")

(* The ready checkpoint, then the monitor loop unless this is a dry run. *)
MarkReady(p) ==
  /\ pc[p] = "ready"
  /\ BeginSave(p, [mem[p] EXCEPT !.status = "ready"],
               IF env[p].dry THEN "exit" ELSE "mon_budget")

(* _monitor_until_exit polls the budget, then a stable candidate, then a stop. *)
MonitorBudget(p) == pc[p] = "mon_budget" /\ BudgetGate(p, "mon_stable")
MonitorStable(p) == pc[p] = "mon_stable" /\ StableGate(p, "mon_stop")
MonitorStop(p) == pc[p] = "mon_stop" /\ StopGate(p, "mon_budget")

-----------------------------------------------------------------------------
(* The five writes of _save_checkpoint.  Each file is replaced atomically
   (temporary file and rename), the SQL rows are one transaction. *)
Saved(p, from, to) ==
  /\ pc[p] = from
  /\ Goto(p, to)
  /\ UNCHANGED <<ret, mem, env, turn, signalled, standing, holders, rows, world, launches>>

MutSaveStateDeferred(p) ==
  /\ Saved(p, "save_state", "save_sql")
  /\ stateFile' = mem[p]
  /\ UNCHANGED <<files, latest, events, sqlState, sqlLog>>

SaveState(p) ==
  /\ Saved(p, "save_state", "save_numbered")
  /\ stateFile' = mem[p]
  /\ UNCHANGED <<files, latest, events, sqlState, sqlLog>>

WriteNumbered(p) ==
  /\ Saved(p, "save_numbered", "save_latest")
  /\ files' = {f \in files : f.count # mem[p].count} \cup {mem[p]}
  /\ UNCHANGED <<stateFile, latest, events, sqlState, sqlLog>>

WriteLatest(p) ==
  /\ Saved(p, "save_latest", "save_event")
  /\ latest' = mem[p]
  /\ UNCHANGED <<stateFile, files, events, sqlState, sqlLog>>

AppendEvent(p) ==
  /\ Saved(p, "save_event", "save_sql")
  /\ events' = events \cup {mem[p].count}
  /\ UNCHANGED <<stateFile, files, latest, sqlState, sqlLog>>

RecordTransition(p) ==
  /\ Saved(p, "save_sql", ret[p])
  /\ sqlState' = mem[p]
  /\ sqlLog' = sqlLog \cup {mem[p].count}
  /\ UNCHANGED <<stateFile, files, latest, events>>

(* run() returns, or an exception leaves the "with FileLock" block: either way
   FileLock.__exit__ releases the lock. *)
Exit(p) ==
  /\ pc[p] \in {"exit", "raised"}
  /\ Lock!Leave(p)
  /\ Gone(p)
  /\ UNCHANGED <<disk, rows, world, launches>>

-----------------------------------------------------------------------------
(* SIGINT or SIGTERM while the handlers are installed. *)
Signal(p) ==
  /\ pc[p] \in Locked \ {"raised"}
  /\ signalled' = [signalled EXCEPT ![p] = TRUE]
  /\ UNCHANGED <<pc, ret, mem, env, turn, standing, holders, disk, rows, world, launches>>

(* SIGKILL or power loss: the lock file is left behind, and the next launcher
   finds its pid dead. *)
Crash(p) ==
  /\ pc[p] # "off"
  /\ holders' = holders \ {p}
  /\ Gone(p)
  /\ UNCHANGED <<disk, rows, world, launches>>

(* The world around: the operator touches or removes STOP, a stable candidate
   is recorded or withdrawn, resource usage crosses its caps.  What is no
   longer in force is struck from every launcher's standing reasons. *)
WorldChanges ==
  /\ \/ "stop" \in Changing /\ stopFile' = ~stopFile /\ UNCHANGED <<stable, overLimit>>
     \/ "stable" \in Changing /\ stable' = ~stable /\ UNCHANGED <<stopFile, overLimit>>
     \/ "limit" \in Changing /\ overLimit' = ~overLimit /\ UNCHANGED <<stopFile, stable>>
  /\ UNCHANGED <<pc, ret, mem, env, turn, signalled, holders, disk, rows, launches>>
  /\ standing' = [p \in Launchers |-> standing[p] \cap PauseReasons(p)']

-----------------------------------------------------------------------------
Save(p) ==
  \/ SaveState(p)
  \/ WriteNumbered(p)
  \/ WriteLatest(p)
  \/ AppendEvent(p)
  \/ RecordTransition(p)

(* One step of the launcher's own code. *)
Step(p) ==
  \/ Acquire(p)
  \/ Collide(p)
  \/ Start(p)
  \/ CheckpointBlocker(p)
  \/ StartStable(p)
  \/ StartBudget(p)
  \/ StartStop(p)
  \/ SelectLabHead(p)
  \/ LoopWrite(p)
  \/ LoopRaises(p)
  \/ LoopDone(p)
  \/ MarkReady(p)
  \/ MonitorBudget(p)
  \/ MonitorStable(p)
  \/ MonitorStop(p)
  \/ Save(p)
  \/ Exit(p)

Next ==
  \/ \E p \in Launchers : Load(p) \/ Step(p) \/ Signal(p) \/ Crash(p)
  \/ WorldChanges

Spec == Init /\ [][Next]_vars

(* A launched process keeps running: it never waits for another one (a held
   lock refuses it) and the monitor only sleeps.  Launching, signals, crashes
   and the world are not assumed to happen. *)
FairSpec == Spec /\ \A p \in Launchers : WF_vars(Step(p))

-----------------------------------------------------------------------------
(* The variables' types. *)
TypeOK ==
  /\ pc \in [Launchers -> Places]
  /\ ret \in [Launchers -> Returns]
  /\ mem \in [Launchers -> RuntimeStates]
  /\ env \in [Launchers -> Environments]
  /\ turn \in [Launchers -> 1 .. Len(Writes) + 1]
  /\ signalled \in [Launchers -> BOOLEAN]
  /\ standing \in [Launchers -> SUBSET {"stop", "stable", "budget"}]
  /\ holders \subseteq Launchers
  /\ stateFile \in RuntimeStates /\ latest \in RuntimeStates /\ sqlState \in RuntimeStates
  /\ files \subseteq RuntimeStates
  /\ events \subseteq Nat /\ sqlLog \subseteq Nat
  /\ rows \subseteq Rows
  /\ stopFile \in BOOLEAN /\ stable \in BOOLEAN /\ overLimit \in BOOLEAN
  /\ launches \in Nat

(* A launch that returns normally leaves its last runtime state in all five
   places _save_checkpoint writes, whatever other launchers, crashes and
   half-written checkpoints came before. *)
ExitIsDurable ==
  \A p \in Launchers : pc[p] = "exit" =>
    /\ stateFile = mem[p] /\ latest = mem[p] /\ sqlState = mem[p]
    /\ mem[p] \in files
    /\ mem[p].count \in events \cap sqlLog

(* No stored runtime state, the newest or an old checkpoint, names a
   hypothesis, metric packet or decision whose row is not in the database:
   each id enters the state after its row is committed (stub_loop.py), and a
   resumed state never gets ahead of the rows. *)
NoDanglingReference ==
  \A s \in {stateFile, latest, sqlState} \cup files : s.refs \subseteq rows

(* What a row of the stub cycle rests on, by the ids it carries. *)
Evidence ==
  [hypothesis       |-> {"concept_seed", "assumption_set"},
   implementation   |-> {"hypothesis", "formal_model"},
   metric_packet    |-> {"hypothesis", "implementation"},
   abandoned_lesson |-> {"metric_packet", "tuning_event"},
   decision         |-> {"metric_packet", "abandoned_lesson", "lab_note"}]

(* However often the cycle is cut off by a crash and begun again by a later
   launch, a row is never there without the evidence it rests on: a lab-head
   decision is only found beside its packet, lesson and note. *)
DecisionHasEvidence ==
  \A r \in DOMAIN Evidence : r \in rows => Evidence[r] \subseteq rows

(* A launch that takes the lock under a STOP file, a recorded stable candidate
   or an exhausted budget does no lab work while that lasts, and a launch with
   a missing dependency does none at all: every path to the loop and the
   monitor goes through the gates that see the reason. *)
PausedLaunchDoesNoWork ==
  \A p \in Launchers :
    \/ pc[p] \in Working
    \/ pc[p] \in Saving /\ ret[p] \in {"ready", "mon_budget"}
    => standing[p] = {} /\ mem[p].blocker = "none"

(* The five writes keep their order across crashes and resumes: what the SQL
   log holds is in events.jsonl, what events.jsonl holds is in a numbered file,
   and no copy is ahead of runtime_state.json, from which the next launch
   counts on.  (One launcher slot.) *)
WriteOrder ==
  LET numbered == {f.count : f \in files}
  IN  /\ sqlLog \subseteq events /\ events \subseteq numbered
      /\ numbered \subseteq 1 .. stateFile.count
      /\ latest.count <= stateFile.count /\ sqlState.count <= latest.count

(* A numbered checkpoint is never lost or overwritten by a later launch.  It
   holds for one launcher slot; two launchers break it, because load_state
   runs before the lock is taken. *)
CheckpointNeverRewritten == [][files \subseteq files']_files

(* A launch never dies of an exception: "the launcher starts or resumes the
   lab" (README.md:22).  The stub loop's plain INSERTs of fixed ids break it
   on the first resume that runs the loop. *)
LaunchNeverRaises == \A p \in Launchers : pc[p] # "raised"

(* policy.CORE_STATE_TRANSITIONS, for the statuses the supervisor saves. *)
CoreTransitions ==
  [bootstrap_needed |-> {"ready", "lab_head_unavailable", "sandbox_unavailable"},
   ready            |-> {"running", "budget_paused"},
   running          |-> {"stopped", "budget_paused", "generation_budget_failed",
                         "stable_candidate_recorded"},
   stopped          |-> {"ready"},
   budget_paused    |-> {"ready"},
   stable_candidate_recorded |-> {}]

(* The saved status only changes along that table (policy.py:94).  A launch
   that finds nothing to stop for saves running, then ready over it, which the
   table's entry of running (policy.py:103) does not list. *)
StatusFollowsPolicy ==
  [][stateFile.count > 0 /\ stateFile.status \in DOMAIN CoreTransitions
     => stateFile'.status \in CoreTransitions[stateFile.status] \cup {stateFile.status}]_stateFile

(* How far a place lies ahead of the end of the launch, in places where the
   supervisor goes on after a checkpoint or a gate. *)
Ahead(place) ==
  CASE place = "off" -> 0
    [] place \in {"exit", "raised"} -> 1
    [] place = "mon_stop" -> 2
    [] place = "mon_stable" -> 3
    [] place = "mon_budget" -> 4
    [] place = "ready" -> 5
    [] place = "loop" -> 6
    [] place = "select" -> 9
    [] place = "stop" -> 10
    [] place = "budget" -> 11
    [] place \in {"stable", "blocked"} -> 12
    [] place = "start" -> 13
    [] place = "lock" -> 14

WritesLeft(place) ==
  CASE place = "save_state" -> 5
    [] place = "save_numbered" -> 4
    [] place = "save_latest" -> 3
    [] place = "save_event" -> 2
    [] place = "save_sql" -> 1

(* The steps a launch has still before it at most, the monitor turned once:
   room for the five writes of a checkpoint between two places and for the
   rows of the stub cycle. *)
Remaining(p) ==
  IF pc[p] \in Saving THEN 6 * Ahead(ret[p]) + WritesLeft(pc[p])
  ELSE 6 * Ahead(pc[p]) + IF pc[p] = "loop" THEN Len(Writes) + 1 - turn[p] ELSE 0

(* Every step a launch takes brings it nearer to its end, whatever other
   launchers, the rows of earlier cycles and the world do; the one step back is
   the turn of the monitor loop, and only while nobody asks for a stop. *)
LaunchAdvances ==
  [][\A p \in Launchers : <<pc[p], turn[p]>>' # <<pc[p], turn[p]>> =>
       \/ pc[p] = "off"
       \/ pc[p] = "mon_stop" /\ pc'[p] = "mon_budget" /\ ~signalled[p] /\ ~stopFile
       \/ Remaining(p)' < Remaining(p)]_vars

(* A launch that receives SIGINT or SIGTERM ends, and so does every launch
   when a STOP file stands for good: the monitor polls both. *)
StopRequestHonoured ==
  \A p \in Launchers :
    /\ signalled[p] ~> pc[p] = "off"
    /\ []stopFile ~> pc[p] = "off"

(* Every launch comes to an end or to the monitor loop: no gate, no refused
   lock and no half-done cycle of an earlier launch keeps it anywhere else. *)
LaunchSettles ==
  \A p \in Launchers : pc[p] = "lock" ~> pc[p] \in {"off"} \cup Monitor
=============================================================================
