---------------------------- MODULE ExclusiveLock ----------------------------
(***************************************************************************)
(* What the supervisor expects of the launcher lock (runtime/locks.py):    *)
(* at any time at most one launcher is between FileLock.__enter__ and      *)
(* FileLock.__exit__.  A launcher that finds the lock held is refused; a   *)
(* launcher that returns, raises or is killed no longer holds it.          *)
(*                                                                         *)
(* Supervisor uses this lock; FileLock is the code's own protocol and is   *)
(* compared with it.                                                       *)
(***************************************************************************)

CONSTANT Launchers

VARIABLE holders    \* the launchers inside the "with FileLock(...)" block

Init == holders = {}

Acquire(p) == holders = {} /\ holders' = {p}

Refuse(p) == holders # {} /\ UNCHANGED holders

Leave(p) == p \in holders /\ holders' = holders \ {p}

Next == \E p \in Launchers : Acquire(p) \/ Refuse(p) \/ Leave(p)

Spec == Init /\ [][Next]_holders
=============================================================================
