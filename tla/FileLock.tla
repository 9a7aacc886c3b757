------------------------------- MODULE FileLock -------------------------------
(***************************************************************************)
(* runtime/locks.py: the launcher lock.  lock.json is created with O_EXCL, *)
(* its payload (which names the pid) is written afterwards, a launcher     *)
(* that finds the file reads the pid and either gives up (the pid is       *)
(* alive) or removes the file and tries again.  Each file-system call and  *)
(* the os.kill probe is one action, because launchers are separate         *)
(* operating-system processes.                                             *)
(*                                                                         *)
(* A launcher is a process slot that can be launched several times; every  *)
(* launch gets a pid no living process has, so the pid of a dead launcher  *)
(* can come back, in a launcher or in a process of another program.        *)
(***************************************************************************)
CONSTANTS
  Launchers,      \* process slots that run the launcher
  Nobody,         \* "no lock.json stands in the state directory"
  Pids,           \* the operating system's pids
  NoPid,          \* an empty lock file: _pid() returns None
  Overlap         \* may a launch begin while another is inside acquire()?

ASSUME ConstantsAssumption ==
  /\ Nobody \notin Launchers
  /\ NoPid \notin Pids
  /\ Overlap \in BOOLEAN

VARIABLES
  pc,         \* where each launcher is in FileLock.acquire / release
  pid,        \* its pid, NoPid when it is not running
  seen,       \* the pid it read from lock.json
  linked,     \* which launcher created the file that now stands at lock.json
  written,    \* the pid in that file, NoPid until the payload is flushed
  foreign     \* pids of living processes of other programs

vars == <<pc, pid, seen, linked, written, foreign>>
file == <<linked, written>>

Acquiring == {"open", "load", "check", "unlink", "write"}
Places == Acquiring \cup {"off", "held"}

Alive == foreign \cup {pid[p] : p \in {q \in Launchers : pc[q] # "off"}}

Init ==
  /\ pc = [p \in Launchers |-> "off"]
  /\ pid = [p \in Launchers |-> NoPid]
  /\ seen = [p \in Launchers |-> NoPid]
  /\ linked = Nobody
  /\ written = NoPid
  /\ foreign = {}

Goto(p, place) == pc' = [pc EXCEPT ![p] = place]

(* The process ends: its pid is free again, the file system is not touched. *)
Ends(p) ==
  /\ Goto(p, "off")
  /\ pid' = [pid EXCEPT ![p] = NoPid]
  /\ seen' = [seen EXCEPT ![p] = NoPid]

Launch(p) ==
  /\ pc[p] = "off"
  /\ Overlap \/ \A q \in Launchers : pc[q] \notin Acquiring
  /\ \E k \in Pids \ Alive : pid' = [pid EXCEPT ![p] = k]
  /\ Goto(p, "open")
  /\ UNCHANGED <<seen, file, foreign>>

(* os.open(path, O_CREAT | O_EXCL) succeeds: the file exists and is empty. *)
Create(p) ==
  /\ pc[p] = "open"
  /\ linked = Nobody
  /\ linked' = p
  /\ written' = NoPid
  /\ Goto(p, "write")
  /\ UNCHANGED <<pid, seen, foreign>>

(* os.open raises FileExistsError. *)
FindExisting(p) ==
  /\ pc[p] = "open"
  /\ linked # Nobody
  /\ Goto(p, "load")
  /\ UNCHANGED <<pid, seen, file, foreign>>

MutLoadLockIgnoresContent(p) ==
  /\ pc[p] = "load"
  /\ IF linked = Nobody THEN Ends(p) ELSE Goto(p, "check") /\ UNCHANGED <<pid, seen>>
  /\ UNCHANGED <<file, foreign>>

(* _load_lock and _pid: an empty file parses as {} and yields None.  A file
   that vanished since os.open raises FileNotFoundError, which nothing
   catches: the launcher dies. *)
LoadLock(p) ==
  /\ pc[p] = "load"
  /\ IF linked = Nobody
     THEN Ends(p)
     ELSE /\ seen' = [seen EXCEPT ![p] = written]
          /\ Goto(p, "check")
          /\ UNCHANGED pid
  /\ UNCHANGED <<file, foreign>>

MutCheckPidTrustsNothing(p) ==
  /\ pc[p] = "check"
  /\ Goto(p, "unlink")
  /\ UNCHANGED <<pid, seen, file, foreign>>

MutCheckPidWaits(p) ==
  /\ pc[p] = "check"
  /\ Goto(p, IF seen[p] \in Alive THEN "open" ELSE "unlink")
  /\ UNCHANGED <<pid, seen, file, foreign>>

(* os.kill(pid, 0): a living pid ends the launch with LockCollisionError
   (the supervisor prints it and exits with code 2), whoever owns it now. *)
CheckPid(p) ==
  /\ pc[p] = "check"
  /\ IF seen[p] \in Alive
     THEN Ends(p)
     ELSE Goto(p, "unlink") /\ UNCHANGED <<pid, seen>>
  /\ UNCHANGED <<file, foreign>>

(* path.unlink(missing_ok=True): removes whatever stands there by now. *)
UnlinkStale(p) ==
  /\ pc[p] = "unlink"
  /\ linked' = Nobody
  /\ written' = NoPid
  /\ Goto(p, "open")
  /\ UNCHANGED <<pid, seen, foreign>>

(* json.dump to the descriptor: it reaches lock.json only if the file this
   launcher created is still the one linked there. *)
WritePayload(p) ==
  /\ pc[p] = "write"
  /\ written' = IF linked = p THEN pid[p] ELSE written
  /\ Goto(p, "held")
  /\ UNCHANGED <<pid, seen, linked, foreign>>

MutReleaseKeepsPid(p) ==
  /\ pc[p] = "held"
  /\ linked' = Nobody
  /\ written' = NoPid
  /\ Goto(p, "off")
  /\ UNCHANGED <<pid, seen, foreign>>

(* release(): unlinks the path without looking whose file it is; then the
   process exits. *)
Release(p) ==
  /\ pc[p] = "held"
  /\ linked' = Nobody
  /\ written' = NoPid
  /\ Ends(p)
  /\ UNCHANGED foreign

(* SIGKILL or power loss anywhere: the file stays as it is. *)
Die(p) ==
  /\ pc[p] # "off"
  /\ Ends(p)
  /\ UNCHANGED <<file, foreign>>

(* Another program takes, or gives back, a free pid. *)
ForeignStart(k) ==
  /\ k \notin Alive
  /\ foreign' = foreign \cup {k}
  /\ UNCHANGED <<pc, pid, seen, file>>

ForeignExit(k) ==
  /\ k \in foreign
  /\ foreign' = foreign \ {k}
  /\ UNCHANGED <<pc, pid, seen, file>>

(* One turn of acquire()'s loop body. *)
AcquireStep(p) ==
  \/ Create(p)
  \/ FindExisting(p)
  \/ LoadLock(p)
  \/ CheckPid(p)
  \/ UnlinkStale(p)
  \/ WritePayload(p)

Next ==
  \/ \E p \in Launchers : Launch(p) \/ AcquireStep(p) \/ Release(p) \/ Die(p)
  \/ \E k \in Pids : ForeignStart(k) \/ ForeignExit(k)

Spec == Init /\ [][Next]_vars

(* acquire() never blocks: a launcher the scheduler runs keeps stepping.
   Nothing is assumed of launches, releases, crashes or other programs, and
   nothing bounds them. *)
FairSpec == Spec /\ \A p \in Launchers : WF_vars(AcquireStep(p))

-----------------------------------------------------------------------------
(* The variables' types; a launcher has a pid exactly while it runs. *)
TypeOK ==
  /\ pc \in [Launchers -> Places]
  /\ pid \in [Launchers -> Pids \cup {NoPid}]
  /\ \A p \in Launchers : pid[p] = NoPid <=> pc[p] = "off"
  /\ seen \in [Launchers -> Pids \cup {NoPid}]
  /\ linked \in Launchers \cup {Nobody}
  /\ written \in Pids \cup {NoPid}
  /\ foreign \subseteq Pids

Holds(p) == pc[p] = "held"

(* FileLock is a "small exclusive file lock" (locks.py:20): two launchers are
   never both past acquire(). *)
MutualExclusion == \A p, q \in Launchers : Holds(p) /\ Holds(q) => p = q

(* p holds the lock, lock.json is its own and names its pid, and no other
   launcher holds it, is creating it, or has decided to remove it. *)
Settled(p) ==
  /\ Holds(p)
  /\ linked = p
  /\ written = pid[p]
  /\ \A q \in Launchers \ {p} :
       /\ pc[q] \notin {"held", "unlink", "write"}
       /\ pc[q] = "check" => seen[q] = pid[p]

(* When launches do not overlap inside acquire(), whoever holds the lock is
   settled: crashes, stale files and recycled pids cannot cost it the lock. *)
HolderIsSettled == \A p \in Launchers : Holds(p) => Settled(p)

(* However launches overlap, a settled holder stays the only one until it
   leaves: the stale-lock cleanup never removes the file of a launcher that
   was alone when it got the lock. *)
SettledHolderKeepsLock ==
  [][\A p \in Launchers : Settled(p) => Settled(p)' \/ ~Holds(p)']_vars

(* acquire() ends (locks.py:29-44): a launcher inside it gets the lock, reports
   a collision or dies, unless the other slots launch for ever.  Crashes, stale
   files, recycled pids and the launches already under way cannot keep its
   loop going; only a file that yet another launch has created can. *)
OthersLaunch(p) == \E q \in Launchers \ {p} : pc[q] = "off" /\ pc'[q] = "open"

AcquireTerminates ==
  \A p \in Launchers :
    <>[][~OthersLaunch(p)]_vars
      => (pc[p] \in Acquiring ~> pc[p] \notin Acquiring)

(* With launches that do not overlap, the file protocol implements the
   abstract lock the supervisor relies on. *)
Lock == INSTANCE ExclusiveLock WITH holders <- {p \in Launchers : Holds(p)}

ExclusiveLockSpec == Lock!Spec
=============================================================================
