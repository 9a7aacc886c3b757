# Formal model of the Hubble Tension Autonomous Lab

TLA+ specifications of the lab in this repository (`src/hubble_tension`), the
TLC configurations that model-check them on small instances, and proofs of
their main theorems for every instance. Paths and line numbers below are
relative to the repository's root; `supervisor.py:95` is short for
`src/hubble_tension/runtime/supervisor.py:95`.

To check a run: `tlc -workers 2 -config Supervisor_one.cfg MCSupervisor`. To
check the proofs: `tlapm SupervisorProofs.tla`; every module named `...Proofs`
is checked the same way. `PROJECT.json` lists the components, runs, mutants (one plausible bug per property, which TLC must
catch), source lines of every definition, findings, hazards and theorems.

## 1. The system and its parts

A launcher script starts one Python process. It takes a lock file, resumes the
state the last launch left in its state directory (`HT_LAB_STATE_DIR`), runs one cycle of an autonomous
"lab" over a SQLite database, and then monitors until it is told to stop. Lab
work is a chain of gates that a hypothesis must pass, from a formal model to a
registered stable candidate; around it stands a library of operations on
reports. There is no server and there are no threads: what makes the system hard
is that processes are started twice, killed between two writes and resumed over
what they left, and that the database is written in many small transactions.

### 1.1 Core: launching, checkpointing, resuming

| Component | State | Operations | Interacts by | Correct when | Modelled in |
| --- | --- | --- | --- | --- | --- |
| Launcher lock, `runtime/locks.py` | `lock.json`: exists, whose, names which pid | `acquire`: create with `O_EXCL`, then write the pid; on an existing file read the pid, probe it, refuse or unlink and retry. `release`: unlink | several OS processes on one path; pids are recycled | one holder at a time; a holder keeps the lock; `acquire` ends; a dead holder does not block for good | `FileLock`, abstractly `ExclusiveLock` |
| Runtime supervisor, `runtime/supervisor.py` | in-memory `RuntimeState`, signal flag | `run`: load, lock, start-up gates, stub cycle, monitor loop, a checkpoint at every turn; signal handlers | the lock; the file store and the SQL store, written one after the other; STOP file, candidate file and resource limits, changed by others | what an exit saved is everywhere; nothing is overwritten; a pause reason keeps it from work; a stop is honoured; a launch comes to an end or to the monitor | `Supervisor` |
| Runtime file store, `runtime/state.py` | `runtime_state.json`, `checkpoints/*.json`, `events.jsonl`, `STOP`, `stable_candidate.json` | load, atomic save, checkpoint, append | called by the supervisor | copies are consistent after a crash at any point | `Supervisor` (disk variables) |
| Stub lab loop, `lab/stub_loop.py` | rows with fixed ids in twelve tables; three ids in the runtime state | `run_once`: twelve row writes, each a transaction, some plain INSERTs, some upserts | called by the supervisor after the gates | no row without its evidence; no id without its row; it can be run again | `Supervisor` (`Writes`, `LoopWrite`, `LoopRaises`, `LoopDone`) |
| State store, runtime tables, `state/store.py` | `runtime_state`, `checkpoints`, `event_log`, and the stub's tables | `record_state_transition` and the writers the stub calls | called by the two above | follows the files, never ahead of them | `Supervisor` |
| Policy, `policy.py` | constants | transition table, promotion requirements, non-claim banner | read by schemas and candidates; not consulted by the supervisor | the table describes what the supervisor saves; a candidate is promoted by the rule only | `Supervisor` (`CoreTransitions`); `PromotionRule`, `PromotionGates` |
| Lab agents and configuration, `lab/agents.py`, `runtime/config.py` | environment | probe, select a lab head | called at start-up and again before the cycle | an absent lab head blocks the start | `Supervisor` (`BlockerOf`, `SelectLabHead`) |

### 1.2 Gates and operations

Library code over the database. `src/` has the operations and their tests but
no process that calls them in a loop; what they promise must therefore hold for
any number of callers in any interleaving, each method of the store being one
SQLite transaction.

| Component | State | Operations | Interacts by | Correct when | Modelled in |
| --- | --- | --- | --- | --- | --- |
| Migrations, `state/store.py:340` | tables, `schema_migrations` | `initialize`: read the applied versions; per script `executescript` (which commits) and a version row | processes that open one file at once; SQLite's write lock | whoever returns has the whole schema; a lone restart goes through | `StateStoreMigrations`, abstractly `SchemaRule` |
| External status and report index, `operations/external_status.py`, `operations/report_index.py` | `reports`, `pending_external_transitions`, `external_rerun_queue`, `report_search_index`, `stable_candidate_registry` | infer, propose, decide, queue a rerun, index: five transactions per proposal | workers with snapshots of different age; registrations in between | a verdict is backed by cited evidence; registry and report agree; it converges | `ExternalStatus`, abstractly `StatusRule` |
| Replication, adversarial gate, stable registry, `replication/independent.py`, `adversarial/checks.py`, `policy.py` | two queues, two report tables, `reports`, registry, `candidates` | review, gate, two-transaction registration, promotion, banner | drivers that take up one candidate with records of different age | the registry is reached by the policy's rule only | `PromotionGates`, abstractly `PromotionRule` |
| Corpus import and paper study, `corpus/importer.py`, `corpus/study.py` | four hand-edited tables; `papers`, `datasets`, `paper_extractions` | read and reconcile, write papers, leads, extractions | edits between imports; two workers | a clean import means consistent tables; no row without its paper; a finished import is up to date, and repeating it spoils nothing; it converges | `CorpusImport` |
| Branches, `runners/tuning.py` | `hypotheses`, `hypothesis_edges` | create a branch (row, then edge) | processes over one store; the schema above | no circle of parents; edges match parents | `LabBranches` |
| Generator health, `runners/tuning.py:366` | none: the list of outcomes is its caller's | evaluate | its one caller in `src/` passes `[False]` and stores the result | the verdict moves only the way of the newest outcome; a long enough streak decides it | `GeneratorHealth` |

### 1.3 What is hard here

Each point is a hazard in `PROJECT.json`, at its line: a checked value that is
stale when used (a lock's pid, the loaded runtime state, a snapshot of reports,
a candidate record, tables in memory); two transactions that belong together
and a crash between them (checkpoint, decision and rerun, two adversarial
reports, branch and edge, script and version row); upserts that overwrite what
was decided and plain INSERTs that raise on a retry; ids that are derived from
less than they stand for (a row number, a category's slug, a proposal without
its confidence).

## 2. The models

### 2.1 `ExclusiveLock`: what a lock promises

One variable, the set of holders, and three steps: `Acquire` when nobody holds,
`Refuse` when somebody else does, `Leave`. `Supervisor` is built on it and
`FileLock` is shown to implement it.

### 2.2 `FileLock`: the protocol on `lock.json`

Every file-system call and the `os.kill(pid, 0)` probe is one action:

| Action | Code |
| --- | --- |
| `Create`, `FindExisting` | `os.open(path, O_CREAT \| O_EXCL \| O_WRONLY)`, `locks.py:31` |
| `LoadLock` | `_load_lock`, `_pid`: an empty file yields no pid; a vanished file raises and ends the launch |
| `CheckPid` | `_pid_is_running`: a living pid refuses the launch, whoever has it now |
| `UnlinkStale` | `path.unlink(missing_ok=True)`: by name, whatever stands there by now |
| `WritePayload` | `json.dump` into the descriptor: it reaches `lock.json` only if the file is still linked there |
| `Release`, `Die` | `release` unlinks by name; a killed process leaves the file |
| `ForeignStart`, `ForeignExit` | other programs take and free pids |

`linked` is whose file stands at the path and `written` the pid in it, so an
unlinked file another process still has open is told apart from the one at the
path. The constant `Overlap` says whether a launch may begin while another is
inside `acquire`; the code makes no such promise, and the runs show both sides.

### 2.3 `Supervisor`: one launch after another over one state directory

`pc` is the place in `RuntimeSupervisor.run`; `ret` is where a launch goes on
after the checkpoint under way.

| Action | Code |
| --- | --- |
| `Load` | `run` up to the lock: `load_state`, `_prepare_state`, `_refresh_integrations`. One action: all three only read |
| `Acquire`, `Collide`, `Exit` | the `with FileLock(...)` block; a collision exits with code 2 |
| `Start`, `CheckpointBlocker` | the resume or fresh-start checkpoint, and the blocked start's second one |
| `StartStable`, `StartBudget`, `StartStop` | the start-up gates in their order |
| `SelectLabHead` | the lab head is selected again before the cycle and may be gone |
| `LoopWrite`, `LoopRaises`, `LoopDone` | `StubLabLoop.run_once`: row by row; an `IntegrityError` on a plain INSERT of an id that exists; the completion checkpoint |
| `MarkReady`, `MonitorBudget`, `MonitorStable`, `MonitorStop` | the ready checkpoint and `_monitor_until_exit` |
| `SaveState`, `WriteNumbered`, `WriteLatest`, `AppendEvent`, `RecordTransition` | the five writes of `_save_checkpoint`, in order |
| `Signal`, `Crash`, `WorldChanges` | SIGINT or SIGTERM, SIGKILL or power loss, and STOP file, candidate and limits coming and going |

`standing` is a history variable: the pause reasons that have been in force ever
since the launch took the lock. It is read by properties only.

What is abstracted:

- A runtime state is six fields; reasons, timestamps, paths and the integration
  summary steer nothing. A file or row whose count is 0 does not exist.
- Each file is replaced atomically (temporary file, then rename, `runtime/state.py:89`), each SQL writer is
  one transaction. Two writers of one temporary file need two lock holders,
  which `Supervisor` excludes by building on `ExclusiveLock`; section 4 says
  when that is justified.
- `overLimit` stands for wall time, CPU, storage, jobs and runs together: they
  lead to the same checkpoint. Time itself is not modelled.
- "Missing" is "required and not available". The blocker
  `python_dependencies_missing` goes by the name of its status,
  `bootstrap_needed`.
- Of the exceptions a cycle can raise only `IntegrityError` is modelled, because
  it follows from what earlier launches left. A signal before the handlers are
  installed is a crash. The validation of a hand-edited state file, the
  generated module file and the stage history are left out.

`Remaining` counts the steps a launch still has before it at most: room for the
five writes of a checkpoint between two places, and for the rows of the cycle.
`LaunchAdvances` says that every step lowers it except the turn of the monitor
loop, which is not taken while a stop is asked for.

### 2.4 `StatusRule` and `ExternalStatus`: proposals carried through the store

`StatusRule` is what a reader of the store relies on: a report's status changes
only to the verdict of some evidence cited for it, and the registry entry of its
candidate changes with it. Which of the cited evidence, it leaves open, for a
worker may carry an older snapshot. `ExternalStatus` implements it with its own
`cited`, `status` and `registry`; proposals, workers and crashes are not visible.

A worker's cycle is `Monitor` (a snapshot of reports and cited evidence, and
one proposal per report that says something else), then for each proposal
`RecordProposal`, `Decide`, `QueueRerun`, `ReadReport` and `Index`, one action
per transaction. `RegisterReport` and `RegisterStable` happen at any time;
`Cite` is the outside world. `ProposalIds` is what the id hashes: report, target
and evidence, but neither the confidence nor the status the proposal starts
from. So a retry finds the decided row and puts it back to pending, and a
decision never notices that the report has moved on.

What a crash between `Decide` and `QueueRerun` costs is visible here: the
decision stands, the monitor then sees no difference and proposes nothing, and
the rerun is never queued. `disturbed` remembers the reports this can have
happened to, and those that two workers had in hand at once;
`QuietReportIsSettled` speaks of all others and `FallBackNeedsStaleSnapshot` of
the way a verdict is taken back.

### 2.5 `PromotionRule` and `PromotionGates`

`PromotionRule` is `PROMOTION_REQUIREMENTS` (`policy.py:75`): three credits a
candidate earns, the third only after the first, and promotion with all three.

`PromotionGates` has the calls as actions of drivers: `Begin` (from the stored
candidate row, if there is one), `EnqueueReplication`, `Replicate`,
`EnqueueAdversarial`, `RecordAdversarial`, `RegisterReport`, `Promote`,
`InsertCandidate` and `Stop` (an exception or a crash). `Review` and
`GateStatus` are the two pure decisions: which family needs which reference
table and what a missing observable means; how many distinct, typed and
preregistered attempts the gate wants. `Suites` are sequences of attempts on
either side of each limit.

Points a reader of the code may not expect, all of them in the model: reports
of replication and of the adversarial gate are upserts, the candidate's report
row is a plain INSERT, so a registered failure blocks a later pass for good and
its detailed report may be overwritten all the same; candidate rows are never
updated; the queues' rows stay "queued" whatever happens; `can_promote_to`
asks that a candidate already be stable before it may become stable, so
promotion goes by the registry entry's validator. The id of a candidate's report
is its caller's argument (`checks.py:125-130`): the model takes callers that use
one id per candidate, and "the first verdict" means the first under that id.

### 2.6 `CorpusImport`: four tables, three phases

A table is a sequence of lines; `Rows` ends it silently at the first line that
is no row, as `_parse_markdown_table` does. `Errors` collects every error
`load_corpus` records, `Papers` what it returns in spite of them, and a worker
writes that (`WritePaper`, `WriteLead`, `WriteExtraction`) without asking
whether there were any. A paper's id is its row number, so an `Edit` can make a
stored id stand for another paper; `moved` remembers which. The foreign key of
an extraction asks only for a paper of that id; nothing checks the leads.

Two ways in which an import leaves something out are in the model. A lead is
stored under the slug of its category (`importer.py:715`), and `_slug` gives
several spellings of a category one slug (`SlugOf`): their leads are written in
alphabetical order, each over the one before. And a paper without a title, which
no loader checks, makes `build_paper_studies` catch a `ValueError` and go on
(`study.py:252`): `Studies` leaves it out. `UpToDate` says what remains true: every
listed paper is stored, every paper with a title has its extraction, and every
slug has the lead of one of its categories.

A second history variable, `whole`, holds the workers whose import, under way or
last done, has met no other edition in anyone's hands; an edit empties it.
`FinishedImportIsUpToDate` speaks of those that have finished, and
`ReimportKeepsUpToDate` of importing again what is there already.

### 2.7 `SchemaRule`, `StateStoreMigrations` and `LabBranches`

`SchemaRule` is the schema as its user sees it: scripts take effect in their
order, a version is on record only with all its tables, and work begins when the
last one is. `StateStoreMigrations` is shown to implement it.

It has `initialize` statement by statement: `Open` reads the applied versions,
`CommitOpen` is the commit `executescript` begins with, `Statement` one CREATE
of a script, `RecordVersion` begins a transaction the next `CommitOpen` or
`Close` commits, `Raise` is the
`IntegrityError` of a version row that is there already or SQLite's "database
is locked". `LabBranches` extends it: only a process whose place is "ready"
works on the store, and a crash may hit either.

There, `CreateBranch` and `LinkBranch` are the two transactions of a branch (a
retry after a crash raises on the child's id, so its edge is lost for good; a
hypothesis named as its own parent passes the foreign key).

### 2.8 `GeneratorHealth`: the verdict over a window

`evaluate` computes the status of a generator from the list of L2 outcomes its
caller passes. Nothing in `src/` keeps outcomes between two calls: the one caller
(`stub_loop.py:262-268`) passes `[False]`, and the row it upserts is read back by
no code that decides. So the module says nothing of stored rows. Its one variable
is the argument of a call: `Recent` is the slice of the last `Window` outcomes,
`Status` the comparison with one half. A step is another call, with one outcome
more (`Outcome`) or, when the bound is reached, with a list begun anew
(`Another`), so that the properties compare the verdicts on neighbouring lists.
The module is checked in the run of the other operation of `runners/tuning.py`,
`branches`. The two share no state, and `MCLabBranches` does not multiply them:
calls of `evaluate` go on only before any process has opened the store.

## 3. The runs

| Run | Instance | Shows | States |
| --- | --- | --- | --- |
| `filelock_serial` | 3 launchers, 4 pids, any number of launches, no overlap, symmetry | `TypeOK`; `HolderIsSettled`: whoever holds the lock owns `lock.json` and is alone; `ExclusiveLockSpec`: refinement | 198 |
| `filelock_overlap` | 3 launchers, 3 pids, any number of launches, free overlap | `SettledHolderKeepsLock`; `AcquireTerminates` | 154 000 |
| `filelock_exclusion` | 2 launchers, free overlap | violates `MutualExclusion` | |
| `supervisor_one` | 1 launcher slot, 2 launches, all 8 environments, nothing or one dependency missing, STOP, candidate and limits changing | `TypeOK`, `ExitIsDurable`, `DecisionHasEvidence`, `PausedLaunchDoesNoWork`, `WriteOrder`, `CheckpointNeverRewritten` | 2.7 million |
| `supervisor_two` | 2 launcher slots, 2 launches, a launch that monitors and a dry run, STOP and candidate changing | `NoDanglingReference`, `LaunchAdvances`, `StopRequestHonoured`, `LaunchSettles` | 207 700 |
| `external_status` | 2 workers, 2 reports of one candidate, a remark, a support and a refutation, one crash or doubt | `TypeOK`, `StatusIsCited`, `QuietReportIsSettled`, `FallBackNeedsStaleSnapshot`, `StatusConverges`; `StatusRuleSpec`: refinement | 933 000 |
| `promotion` | 2 drivers, a covered and a background-only candidate, 7 suites of attempts, 3 begins, symmetry | `TypeOK`, `RegistryRestsOnFirstVerdict`, `BannerIsBacked`, `RowsStandUnlessRedone`; `PromotionRuleSpec`: refinement | 1.25 million |
| `corpus` | 2 workers, 2 papers, 3 categories with 2 slugs, a row without a title, every edition one edit away from a consistent one, one more edit, one crash | `TypeOK`, `CleanImportIsConsistent`, `NoOrphanRows`, `RowsAgreeUnlessMoved`, `FinishedImportIsUpToDate`, `ReimportKeepsUpToDate`, `StoreConverges` | 374 900 |
| `branches` | 3 processes, 2 scripts of 2 and 1 tables, 3 hypotheses, 2 crashes, symmetry; all lists of up to 9 outcomes, a window of 4 | `TypeOK`, `BranchesNeverCircle`, `EdgesMatchParents`, `LoneInitializeNeverRaises`; `SchemaRuleSpec`: refinement; of `GeneratorHealth`, `OutcomeMovesHealthItsWay` and `StreakDecidesHealth` | 155 000 |
| `supervisor_resume` | 1 slot, 2 launches | violates `LaunchNeverRaises` | |
| `supervisor_stale_load` | 2 slots, 2 launches | violates `CheckpointNeverRewritten` | |
| `supervisor_policy` | 1 slot, 1 launch with the stub cycle disabled | violates `StatusFollowsPolicy` | |

Why the bounds are enough. The lock's races need one launcher that holds or
creates, one that has read a stale pid and one that comes in between, hence
three; four pids let a dead launcher's pid come back in another launcher or
another program while the others run. Launches are not bounded: slots crash and
come back for ever, and the state space is complete all the same. The
supervisor's hazards are between one launch and the next: two launches give a
crash at every point of the first and a resume over what it left, and with two
slots a load before the other's last checkpoint and an acquire after it.
Checkpoint numbers and launches are bounded by `MaxLaunches` only: a launch
saves at most four checkpoints, so nothing else has to be capped. Deadlock is
not checked for the supervisor because when the launches are used up the
system is at rest.

The other runs take two actors each (`branches` three), the least that race, and
one more of what they fight over. `external_status`: the verdict of one report gets graver while
a worker carries the lighter proposal, and the second report shares the
registry entry; `MaxMishaps` counts crashes and doubts together, and one
suffices to lose a rerun or to reject a proposal that has to be retried.
`promotion`: three begins let one driver come back with a stale record after
the other has finished; the suites differ from the passing one in one attempt
each or repeat a registered attempt, which counts as a check but not as an
attempt of its own. `corpus`: "one edit away" covers a line added, removed, changed, blanked
or damaged in each of the four tables, a missing table and a missing PDF, 89
editions of which five are consistent; the later edit puts the tables right, or
renumbers the papers, takes a title away and gives two categories one slug.
`branches`: a script with two tables can be cut in half, and three hypotheses can
make a circle longer than two; lists of nine outcomes fill a window of four and
slide it until nothing old is left. Deadlock is not checked in the first three because
their bounded actors stop; in `branches` a process can always open the store again.

Two properties are theorems and no run's: `RegistryFollowsReports` and
`ReadyStoreIsComplete` say to a user of the registry and of the store what
`StatusRuleSpec` and `SchemaRuleSpec` already imply, the latter but for the
waiting version row, and those are checked.

Only safety is checked under symmetry. The runs that check liveness declare
none.

Fairness. `FairSpec` assumes weak fairness of each launcher's own steps and
nothing else. That is what an operating system that keeps scheduling a process
gives, and it suffices because no step waits for another process: `acquire`
refuses instead of blocking, the monitor loop only sleeps, and every checkpoint
write either ends or raises. Launching, signals, crashes, and changes of the
STOP file, the candidate and the limits are not assumed to happen.
`StopRequestHonoured` therefore speaks of a signal already received, or of a
STOP file that stays.

`ExternalStatus` and `CorpusImport` assume weak fairness of a worker that has
begun, for the same reason: no step waits for another worker. They also assume
that the operation is called again and again: `Monitor` with its default
confidence of 0.75, and whole imports. This is no promise of the code, which has
no scheduler, but the premise under which convergence is a fair question; it
is strong fairness because the monitor has nothing to do, or the worker is busy
or down, in between. A worker that dies, doubts, or holds an old snapshot is
not excluded. Evidence, edits and registrations are not assumed to happen.

## 4. What is proved

The theorems hold for every value of the constants that the assumptions named
in the modules admit: any launchers, workers, drivers, reports, papers, scripts
and any number of crashes. Where one more condition is needed it is stated.

The lock.

- `TypeCorrect`, and `SettledHolderIsSafe`: a settled holder keeps the lock
  however others race. `Settled` is preserved step by step because a running
  launcher's pid is alive, so a rival that read it from the file gives up.
- Under `~Overlap`: `SerialHolderIsSettled`, `SerialMutualExclusion` and
  `SerialImplementsLock`. `HolderIsSettled` alone is not inductive: a launcher
  about to write could meet a holder. `SoleAcquirer` excludes that, since it says
  that nobody holds the lock while a launcher is about to write or to unlink.

The supervisor. A lemma, `StepShape`, sorts all actions into a handful of shapes
(load, acquire, leave, do lab work, save), so that most proofs have five cases.

| Theorem | Condition | Inductive invariant, and why it is needed |
| --- | --- | --- |
| `TypeCorrect` | | `TypeOK` |
| `ExitDurable` | | `LockInv` (past the lock exactly when holding it, one at a time) and `SaveInv` (each place after a write finds that write done). Without the first, another launcher could write between two writes of a checkpoint |
| `NoDangling` | | `RefInv`: the states in memory name no missing row either, for they are what is stored next |
| `EvidenceBeforeDecision` | | `RowsInv`: the rows are a prefix of the cycle, and no cycle under way is beyond it; with several launchers and repeated cycles, being ordered pairwise is not inductive |
| `PausedDoesNoWork` | | `GateInv`: each gate a launch has passed has ruled out one reason, also while it heads there through a checkpoint |
| `WritesInOrder` | `OneLauncher` | `CountInv`: the launch's count is that of `runtime_state.json`, or one ahead just before it is saved, and no file is numbered beyond it |
| `CheckpointsAreKept` | `OneLauncher` | the same: a number about to be written is new |
| `LaunchesAdvance` | | `TypeOK` alone: lemma `Distances` orders the places, and lemmas `BeginSaveAdvances`, `PassAdvances` and `GateAdvances` show that a place gained outweighs the five writes of the checkpoint it may take |

`OneLauncher` cannot be dropped from `CheckpointsAreKept`:
`supervisor_stale_load` is the counterexample. `LaunchesAdvance` is the safety
half of `LaunchSettles` and `StopRequestHonoured`: `Remaining` is a natural
number that falls, so a launch that keeps taking steps ends or reaches the
monitor. That an enabled step is taken in the end is the other half, left to
TLC.

The refinement theorem of the lock says when building `Supervisor` on
`ExclusiveLock` is justified: launches that do not overlap inside `acquire`.

External status (`ExternalStatusProofs`). `StepShape`'s part is played by
lemmas that say where a changed status, a new row and a worker's work can come
from.

| Theorem | Inductive invariant, and why it is needed |
| --- | --- |
| `TypeCorrect` | `TypeOK`; `MonitorProposalsValid` shows that the store's validator accepts what the monitor makes |
| `StatusesAreCited` | `ProposalsFounded`: proposals in the store and in the workers' hands follow from evidence that is cited; today's proposal is tomorrow's verdict |
| `RegistryShowsAReport` | itself: a decision changes both rows or neither |
| `FallBackIsStale` | `Grounded` (no verdict is graver than all the cited evidence) and `ProposalsAdvance` (no proposal is lighter than the status its worker saw), over `VerdictsGetGraver`: more evidence never makes the inference lighter |
| `QuietIsSettled` | `QuietInv`: for each report one worker at most has it, and what is already true of it at each of the five places (`Carried`); `CycleInv`: a cycle has one proposal per report. Lemmas `QuietElsewhere` and `QuietHere` split each step into the reports it leaves alone and the one it is about |
| `ImplementsStatusRule` | `ProposalsFounded`, and `ProposalsCite`: no proposal in a worker's hands has an empty list of evidence; so a decision is one step of the rule however late it comes |

Promotion (`PromotionGatesProofs`). `TypeCorrect`; `RegistryRests`,
`BannerBacked` and `RowsStand` from `GatesInv`, about the record a driver
carries: what it claims has been earned, whoever changed the rows since.
`ImplementsRule` is the refinement: each step of `PromotionGates` is a step of
`PromotionRule` or leaves it alone, because an entry the validator accepts
comes from a record and a finding whose three credits are earned.

Corpus (`CorpusImportProofs`). `TypeCorrect` includes that the papers of any
tables, however damaged, are records with different ids (`PapersAreRecords`).
`NoOrphans` needs `PapersFirst`: what a worker has already written, for the
leads to come. `RowsAgree` needs `LoadedAgrees`: the tables in memory agree too.

- `CleanImport` is about every edition at once, damaged ones included. The code
  compares sets of file names and counts lines; that this amounts to agreement
  line by line is a counting argument: as many files as lines leave no room for
  a repeated one, so each file has one line in each table.
- `FinishedImports` needs `WholeInv`: while a worker of `whole` imports, no hands
  hold other tables, and what it has behind it (`Written`) is in the store as the
  present tables have it. `Written` survives the writes of the others because
  they write the same rows, or another lead of the same slug (`WrittenStays`).
- `ReimportIsIdempotent` from the same lemma about one upsert, `PresentRowsStay`:
  a worker with the present tables puts back what is there.

Branches and migrations (`LabBranchesProofs`). `ReadyIsComplete` and
`LoneNeverRaises` from `MigrationInv`, about the statements a process has behind
it; `NoCircles`, which is no statement about steps but about every subset of
the tree, from the order in which rows are inserted; `EdgesMatch` from what the
processes hold.

- `ImplementsSchemaRule` needs `MigrationInv` and `OneRowAtATime`: a process
  has at most one version row waiting for its commit, and the tables of that
  version are in the file; so a commit puts one complete version on record.

Generator health (`GeneratorHealthProofs`), for windows and lists of any length.
The window is a set of positions, so no induction over sequences is needed.

- `OutcomeMovesHealth`: sliding by one outcome changes the number of passes by
  one at most, and only the way of the new outcome unless the one that drops out
  was of the other kind (`WindowSlides`, `WindowCounts`).
- `StreakDecides`: the newest outcomes lie in the window (`NewestCount`,
  `WindowSize`), or the window in them.

Only model-checked are the five liveness properties, since fairness and ENABLED
are out of the proof system's reach: `AcquireTerminates`, `StopRequestHonoured`,
`LaunchSettles`, `StatusConverges` and `StoreConverges`. What they rest on is
proved as far as it is a matter of single steps: `LaunchesAdvance` for the two of
the supervisor, `FinishedImports` and `ReimportIsIdempotent` for the corpus (one
undisturbed import brings the store up to date, and no later one spoils it),
`QuietIsSettled` and `FallBackIsStale` for the external status. For `acquire` there is
no such half: its loop of creating and unlinking has no count that falls, since
other launchers can send it back each time. `AcquireTerminates` therefore has the
premise that from some time on no other launch begins; without it TLC finds the
loop that `locks.py:29-44` allows, in which two other slots launch and die for
ever, and the hazard stays.
Every invariant, action property and refinement a passing run checks is a theorem.

## 5. Where code and documents disagree

1. `filelock_exclusion`: `lock.json` is created empty (`locks.py:31`) and named
   afterwards; a second launcher in between takes it for stale and removes it
   (`locks.py:44`), and both hold the "small exclusive file lock".
2. `supervisor_resume`: the stub cycle inserts fixed ids by plain INSERT
   (`stub_loop.py:149`); the next launch that runs the cycle over the same state
   directory dies of an `IntegrityError`, which no checkpoint records.
   `DecisionHasEvidence` and `LaunchSettles` show the damage is contained: no
   row is left without its evidence and the lock is released.
3. `supervisor_stale_load`: the state is loaded (`supervisor.py:95`) before the
   lock is taken (`supervisor.py:113`) and not read again. A launcher that takes
   the lock after another's exit goes on from the older state and overwrites
   numbered checkpoints. `ExitIsDurable` and `NoDanglingReference` still hold
   (section 4, for any number of launchers).
4. `supervisor_policy`: a launch that nothing stops saves `running`
   (`supervisor.py:148`) and then `ready` over it (`supervisor.py:254`) on its
   way to the monitor. The entry `"running"` of `CORE_STATE_TRANSITIONS`
   (`policy.py:103-110`) does not list `ready`; the supervisor never consults the
   table.

## 6. Not modelled

| Part | Why |
| --- | --- |
| Composition of `Supervisor` with `FileLock` | Findings 1 and 3 join there, but the product of both state spaces is beyond a run; the refinement theorem under `~Overlap` is what connects them |
| Posterior sampling, likelihoods, calibration, solver adapters, reality screens (`validation/`, `solvers/`) | Floating-point arithmetic without state between calls |
| Equations, rendering of generated modules, the sandbox's `ast` walk | Text in, text out |
| Text side of the corpus: cell syntax, PDF extraction, labels, failure memories, benchmark replays | Computed from one paper, read by nobody who decides |
| Concept forge | Candidates are a deterministic product of fixtures; motif closure has no caller in `src/` |
| Digests, dataset backlog, maintenance, scale-out | Records built from their arguments and upserted; none reads state another writes |
| Release readiness, lab-head preference, branch priority, backtracking scores | Pure functions whose property would repeat their definition |
| Parameter sweeps, evolutionary search, tuning events | One appended row per call |
| Field types of the records, command line, logging | Types and output only |

Time, disk-full errors and torn writes inside one SQLite transaction are outside
every model: the first steers nothing but limits, the others are SQLite's.
