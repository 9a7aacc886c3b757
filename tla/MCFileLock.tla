------------------------------ MODULE MCFileLock ------------------------------
(* Three launcher slots or fewer, enough pids that a dead launcher's pid can
   be recycled; see the .cfg files for the values. *)
EXTENDS FileLock, TLC

(* Launchers are interchangeable, and so are pids (safety runs only). *)
Symmetric == Permutations(Launchers) \cup Permutations(Pids)
=============================================================================
