---------------------------- MODULE FileLockProofs ----------------------------
(***************************************************************************)
(* Proofs about FileLock for any set of launchers and pids and any number  *)
(* of launches: type correctness, the protection of a settled holder, and, *)
(* when launches do not overlap inside acquire(), mutual exclusion and the *)
(* refinement of ExclusiveLock.                                            *)
(***************************************************************************)
EXTENDS FileLock, TLAPS

(* The variables keep their types, and a launcher has a pid exactly while it
   runs (FileLock.acquire and release, and the end of the process). *)
THEOREM TypeCorrect == Spec => []TypeOK
<1> USE ConstantsAssumption
<1>1. Init => TypeOK
  BY DEF Init, TypeOK, Places, Acquiring
<1>2. TypeOK /\ [Next]_vars => TypeOK'
  <2> SUFFICES ASSUME TypeOK, [Next]_vars PROVE TypeOK'
    OBVIOUS
  <2> USE DEF TypeOK, Places, Acquiring, Goto, Ends, file
  <2>1. ASSUME NEW p \in Launchers, Launch(p) PROVE TypeOK'
    BY <2>1 DEF Launch
  <2>2. ASSUME NEW p \in Launchers, Create(p) PROVE TypeOK'
    BY <2>2 DEF Create
  <2>3. ASSUME NEW p \in Launchers, FindExisting(p) PROVE TypeOK'
    BY <2>3 DEF FindExisting
  <2>4. ASSUME NEW p \in Launchers, LoadLock(p) PROVE TypeOK'
    BY <2>4 DEF LoadLock
  <2>5. ASSUME NEW p \in Launchers, CheckPid(p) PROVE TypeOK'
    BY <2>5 DEF CheckPid
  <2>6. ASSUME NEW p \in Launchers, UnlinkStale(p) PROVE TypeOK'
    BY <2>6 DEF UnlinkStale
  <2>7. ASSUME NEW p \in Launchers, WritePayload(p) PROVE TypeOK'
    BY <2>7 DEF WritePayload
  <2>8. ASSUME NEW p \in Launchers, Release(p) PROVE TypeOK'
    BY <2>8 DEF Release
  <2>9. ASSUME NEW p \in Launchers, Die(p) PROVE TypeOK'
    BY <2>9 DEF Die
  <2>10. ASSUME NEW k \in Pids, ForeignStart(k) \/ ForeignExit(k) PROVE TypeOK'
    BY <2>10 DEF ForeignStart, ForeignExit
  <2>11. CASE UNCHANGED vars
    BY <2>11 DEF vars
  <2> QED
    BY <2>1, <2>2, <2>3, <2>4, <2>5, <2>6, <2>7, <2>8, <2>9, <2>10, <2>11
    DEF Next, AcquireStep
<1> QED
  BY <1>1, <1>2, PTL DEF Spec

-----------------------------------------------------------------------------
(* A running launcher's pid is alive for os.kill, so a rival that read it from
   lock.json reports a collision and does not go on to unlink. *)
LEMMA RunningIsAlive ==
  ASSUME NEW p \in Launchers, pc[p] # "off" PROVE pid[p] \in Alive
BY DEF Alive

(* No step of any launcher or other program unsettles a settled holder, short
   of the holder's own Release or death. *)
LEMMA SettledStep ==
  ASSUME TypeOK, [Next]_vars, NEW p \in Launchers, Settled(p)
  PROVE  Settled(p)' \/ ~Holds(p)'
<1> USE ConstantsAssumption
<1> USE DEF TypeOK, Settled, Holds, Goto, Ends, file
<1>0. pid[p] \in Alive /\ pid[p] # NoPid
  BY RunningIsAlive DEF Alive
<1>1. ASSUME NEW q \in Launchers, Launch(q) PROVE Settled(p)'
  BY <1>1 DEF Launch
<1>2. ASSUME NEW q \in Launchers, Create(q) PROVE Settled(p)'
  BY <1>2 DEF Create
<1>3. ASSUME NEW q \in Launchers, FindExisting(q) PROVE Settled(p)'
  BY <1>3 DEF FindExisting
<1>4. ASSUME NEW q \in Launchers, LoadLock(q) PROVE Settled(p)'
  BY <1>4 DEF LoadLock
<1>5. ASSUME NEW q \in Launchers, CheckPid(q) PROVE Settled(p)'
  BY <1>0, <1>5 DEF CheckPid
<1>6. ASSUME NEW q \in Launchers, UnlinkStale(q) PROVE Settled(p)'
  BY <1>6 DEF UnlinkStale
<1>7. ASSUME NEW q \in Launchers, WritePayload(q) PROVE Settled(p)'
  BY <1>7 DEF WritePayload
<1>8. ASSUME NEW q \in Launchers, Release(q) PROVE Settled(p)' \/ ~Holds(p)'
  BY <1>8 DEF Release
<1>9. ASSUME NEW q \in Launchers, Die(q) PROVE Settled(p)' \/ ~Holds(p)'
  BY <1>9 DEF Die
<1>10. ASSUME NEW k \in Pids, ForeignStart(k) \/ ForeignExit(k) PROVE Settled(p)'
  BY <1>10 DEF ForeignStart, ForeignExit
<1>11. CASE UNCHANGED vars
  BY <1>11 DEF vars
<1> QED
  BY <1>1, <1>2, <1>3, <1>4, <1>5, <1>6, <1>7, <1>8, <1>9, <1>10, <1>11
  DEF Next, AcquireStep

(* However launches overlap, the stale-lock cleanup of locks.py never takes
   the lock from a launcher that was settled. *)
THEOREM SettledHolderIsSafe == Spec => SettledHolderKeepsLock
<1>1. TypeOK /\ [Next]_vars
        => [\A p \in Launchers : Settled(p) => Settled(p)' \/ ~Holds(p)']_vars
  BY SettledStep
<1> QED
  BY <1>1, TypeCorrect, PTL DEF Spec, SettledHolderKeepsLock

-----------------------------------------------------------------------------
(* The launcher inside acquire() is the only one there; when it has created
   lock.json that file is still its own and nobody holds the lock, and when it
   has decided to unlink, nobody holds the lock either. *)
SoleAcquirer ==
  \A p \in Launchers :
    /\ pc[p] \in Acquiring => \A q \in Launchers \ {p} : pc[q] \notin Acquiring
    /\ pc[p] = "write" => linked = p /\ \A q \in Launchers : ~Holds(q)
    /\ pc[p] = "unlink" => \A q \in Launchers : ~Holds(q)

SerialInv == SoleAcquirer /\ HolderIsSettled

LEMMA SerialStep ==
  ASSUME ~Overlap, TypeOK, SerialInv, [Next]_vars PROVE SerialInv'
<1> USE ConstantsAssumption
<1> USE DEF TypeOK, SerialInv, SoleAcquirer, HolderIsSettled, Settled, Holds,
            Goto, Ends, file, Acquiring
<1>1. ASSUME NEW p \in Launchers, Launch(p) PROVE SerialInv'
  BY <1>1 DEF Launch
<1>2. ASSUME NEW p \in Launchers, Create(p) PROVE SerialInv'
  BY <1>2 DEF Create
<1>3. ASSUME NEW p \in Launchers, FindExisting(p) PROVE SerialInv'
  BY <1>3 DEF FindExisting
<1>4. ASSUME NEW p \in Launchers, LoadLock(p) PROVE SerialInv'
  BY <1>4 DEF LoadLock
<1>5. ASSUME NEW p \in Launchers, CheckPid(p) PROVE SerialInv'
  BY <1>5, RunningIsAlive DEF CheckPid
<1>6. ASSUME NEW p \in Launchers, UnlinkStale(p) PROVE SerialInv'
  BY <1>6 DEF UnlinkStale
<1>7. ASSUME NEW p \in Launchers, WritePayload(p) PROVE SerialInv'
  BY <1>7 DEF WritePayload
<1>8. ASSUME NEW p \in Launchers, Release(p) PROVE SerialInv'
  BY <1>8 DEF Release
<1>9. ASSUME NEW p \in Launchers, Die(p) PROVE SerialInv'
  BY <1>9 DEF Die
<1>10. ASSUME NEW k \in Pids, ForeignStart(k) \/ ForeignExit(k) PROVE SerialInv'
  BY <1>10 DEF ForeignStart, ForeignExit
<1>11. CASE UNCHANGED vars
  BY <1>11 DEF vars
<1> QED
  BY <1>1, <1>2, <1>3, <1>4, <1>5, <1>6, <1>7, <1>8, <1>9, <1>10, <1>11
  DEF Next, AcquireStep

LEMMA SerialInvariant == ASSUME ~Overlap PROVE Spec => []SerialInv
<1>1. Init => SerialInv
  BY DEF Init, SerialInv, SoleAcquirer, HolderIsSettled, Holds, Acquiring
<1>2. TypeOK /\ SerialInv /\ [Next]_vars => SerialInv'
  BY SerialStep
<1> QED
  BY <1>1, <1>2, TypeCorrect, PTL DEF Spec

(* While launches do not overlap inside acquire(), every holder of the lock is
   settled, through crashes, stale files and recycled pids. *)
THEOREM SerialHolderIsSettled == ASSUME ~Overlap PROVE Spec => []HolderIsSettled
BY SerialInvariant, PTL DEF SerialInv

(* ... and so two launchers never hold the lock together (locks.py:20). *)
THEOREM SerialMutualExclusion == ASSUME ~Overlap PROVE Spec => []MutualExclusion
<1>1. HolderIsSettled => MutualExclusion
  BY DEF HolderIsSettled, MutualExclusion, Settled, Holds
<1> QED
  BY <1>1, SerialHolderIsSettled, PTL

-----------------------------------------------------------------------------
(* Every step of the file protocol is a step of the abstract lock: the last
   step of acquire() acquires it, release() and death leave it. *)
LEMMA SerialStepMaps ==
  ASSUME ~Overlap, TypeOK, SerialInv, [Next]_vars
  PROVE  [Lock!Next]_{p \in Launchers : Holds(p)}
<1> USE ConstantsAssumption
<1> USE DEF TypeOK, Holds, Goto, Ends, file
<1> DEFINE H == {p \in Launchers : Holds(p)}
<1>1. ASSUME NEW p \in Launchers, Launch(p) PROVE UNCHANGED H
  BY <1>1 DEF Launch
<1>2. ASSUME NEW p \in Launchers, Create(p) PROVE UNCHANGED H
  BY <1>2 DEF Create
<1>3. ASSUME NEW p \in Launchers, FindExisting(p) PROVE UNCHANGED H
  BY <1>3 DEF FindExisting
<1>4. ASSUME NEW p \in Launchers, LoadLock(p) PROVE UNCHANGED H
  BY <1>4 DEF LoadLock
<1>5. ASSUME NEW p \in Launchers, CheckPid(p) PROVE UNCHANGED H
  BY <1>5 DEF CheckPid
<1>6. ASSUME NEW p \in Launchers, UnlinkStale(p) PROVE UNCHANGED H
  BY <1>6 DEF UnlinkStale
<1>7. ASSUME NEW p \in Launchers, WritePayload(p) PROVE Lock!Acquire(p)
  <2>1. \A q \in Launchers : ~Holds(q)
    BY <1>7 DEF WritePayload, SerialInv, SoleAcquirer
  <2>2. H = {} /\ H' = {p}
    BY <1>7, <2>1 DEF WritePayload
  <2> QED
    BY <2>2 DEF Lock!Acquire
<1>8. ASSUME NEW p \in Launchers, Release(p) PROVE Lock!Leave(p)
  BY <1>8 DEF Release, Lock!Leave
<1>9. ASSUME NEW p \in Launchers, Die(p) PROVE Lock!Leave(p) \/ UNCHANGED H
  BY <1>9 DEF Die, Lock!Leave
<1>10. ASSUME NEW k \in Pids, ForeignStart(k) \/ ForeignExit(k) PROVE UNCHANGED H
  BY <1>10 DEF ForeignStart, ForeignExit
<1>11. CASE UNCHANGED vars
  BY <1>11 DEF vars
<1> QED
  BY <1>1, <1>2, <1>3, <1>4, <1>5, <1>6, <1>7, <1>8, <1>9, <1>10, <1>11
  DEF Next, AcquireStep, Lock!Next

(* While launches do not overlap inside acquire(), the protocol of locks.py
   implements the exclusive lock the supervisor is written against. *)
THEOREM SerialImplementsLock == ASSUME ~Overlap PROVE Spec => ExclusiveLockSpec
<1>1. Init => Lock!Init
  BY DEF Init, Lock!Init, Holds
<1>2. TypeOK /\ SerialInv /\ [Next]_vars
        => [Lock!Next]_{p \in Launchers : Holds(p)}
  BY SerialStepMaps
<1> QED
  BY <1>1, <1>2, TypeCorrect, SerialInvariant, PTL
  DEF Spec, ExclusiveLockSpec, Lock!Spec
=============================================================================
