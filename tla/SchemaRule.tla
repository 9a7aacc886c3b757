----------------------------- MODULE SchemaRule -----------------------------
(***************************************************************************)
(* What a user of StateStore relies on: the migration scripts take effect  *)
(* in their order, a version is on record only with all its tables, and    *)
(* nobody works on the store before the last version is on record.  It     *)
(* says nothing of who runs the scripts, how often they are begun, and     *)
(* what is lost on the way.                                                *)
(***************************************************************************)
EXTENDS Naturals, Sequences

CONSTANTS
  Users,     \* processes that may work on the store
  TablesOf   \* the tables of each version

VARIABLES
  tables,    \* the tables of the file
  versions,  \* the versions on record
  users      \* the processes at work on the store

Versions == DOMAIN TablesOf
Before(k) == {j \in Versions : j < k}

Init == tables = {} /\ versions = {} /\ users = {}

(* At most one version comes on record in a step: the next one, complete. *)
Record ==
  \/ UNCHANGED versions
  \/ \E k \in Versions :
       /\ Before(k) \subseteq versions
       /\ TablesOf[k] \subseteq tables
       /\ versions' = versions \cup {k}

(* A table of a version is created once all earlier versions are on record. *)
Create ==
  /\ \E k \in Versions : \E table \in TablesOf[k] :
       Before(k) \subseteq versions' /\ tables' = tables \cup {table}
  /\ UNCHANGED users

Begin(u) ==
  /\ versions' = Versions
  /\ users' = users \cup {u}
  /\ UNCHANGED tables

End(u) == users' = users \ {u} /\ UNCHANGED <<tables, versions>>

Next ==
  /\ Record
  /\ \/ Create
     \/ \E u \in Users : Begin(u) \/ End(u)
     \/ UNCHANGED <<tables, users>>

Spec == Init /\ [][Next]_<<tables, versions, users>>
=============================================================================
