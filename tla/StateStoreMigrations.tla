------------------------- MODULE StateStoreMigrations -------------------------
(***************************************************************************)
(* StateStore.initialize: how a process brings the SQLite file to the      *)
(* present schema.  It reads the applied versions once, then runs the      *)
(* missing scripts in order.  executescript commits what is open and then  *)
(* every CREATE TABLE IF NOT EXISTS commits by itself; the row with the    *)
(* script's version opens a transaction that only the next script, or the  *)
(* end of the with block, commits.                                         *)
(*                                                                         *)
(* The supervisor calls it under the launcher lock, which two overlapping  *)
(* launches can both hold (see FileLock): processes may be here together.  *)
(***************************************************************************)
EXTENDS Naturals, Sequences

CONSTANTS
  Workers,     \* processes that open the store
  Scripts,     \* the migration scripts in order, each the tables it creates
  MaxCrashes   \* bound on the processes that die at work

ASSUME MigrationAssumption ==
  /\ Len(Scripts) \in Nat
  /\ \A k \in 1..Len(Scripts) : Len(Scripts[k]) \in Nat \ {0}
  /\ MaxCrashes \in Nat

Versions == 1..Len(Scripts)
Creates(k) == {Scripts[k][i] : i \in 1..Len(Scripts[k])}

VARIABLES
  tables,      \* the tables of the file
  versions,    \* the committed rows of schema_migrations
  place,       \* where each process is: "out", "init", or at work
  applied,     \* the versions it read
  at,          \* the script it is at
  stmt,        \* the statement of that script it is at
  pending,     \* the versions whose row it has inserted and not committed
  crashes,
  overlapped   \* history: processes that were not alone in initialize

schema == <<tables, versions>>
progress == <<applied, at, stmt, pending>>
migrationVars == <<schema, place, progress, crashes, overlapped>>

InitMigrations ==
  /\ tables = {}
  /\ versions = {}
  /\ place = [w \in Workers |-> "out"]
  /\ applied = [w \in Workers |-> {}]
  /\ at = [w \in Workers |-> 1]
  /\ stmt = [w \in Workers |-> 1]
  /\ pending = [w \in Workers |-> {}]
  /\ crashes = 0
  /\ overlapped = {}

(* Another connection has a write transaction open: a writer waits for it, *)
(* and gets "database is locked" when it waits too long.                   *)
Locked(w) == \E v \in Workers \ {w} : pending[v] # {}

(* The process is gone: its local variables, and what it has not committed. *)
Leave(w) ==
  /\ place' = [place EXCEPT ![w] = "out"]
  /\ applied' = [applied EXCEPT ![w] = {}]
  /\ at' = [at EXCEPT ![w] = 1]
  /\ stmt' = [stmt EXCEPT ![w] = 1]
  /\ pending' = [pending EXCEPT ![w] = {}]

AtScript(w) ==
  /\ place[w] = "init"
  /\ at[w] \in Versions
  /\ at[w] \notin applied[w]

Open(w) ==
  LET others == {v \in Workers \ {w} : place[v] = "init"} IN
  /\ place[w] = "out"
  /\ place' = [place EXCEPT ![w] = "init"]
  /\ applied' = [applied EXCEPT ![w] = versions]
  /\ overlapped' = IF others = {} THEN overlapped \ {w}
                   ELSE overlapped \cup others \cup {w}
  /\ UNCHANGED <<schema, at, stmt, pending, crashes>>

Skip(w) ==
  /\ place[w] = "init"
  /\ at[w] \in applied[w]
  /\ at' = [at EXCEPT ![w] = @ + 1]
  /\ UNCHANGED <<schema, place, applied, stmt, pending, crashes, overlapped>>

(* executescript begins by committing what is open: the row of the script  *)
(* before.                                                                 *)
CommitOpen(w) ==
  /\ AtScript(w)
  /\ pending[w] # {}
  /\ versions' = versions \cup pending[w]
  /\ pending' = [pending EXCEPT ![w] = {}]
  /\ UNCHANGED <<tables, place, applied, at, stmt, crashes, overlapped>>

(* Then its next CREATE. *)
MutStatementNotIdempotent(w) ==
  /\ AtScript(w)
  /\ stmt[w] \in 1..Len(Scripts[at[w]])
  /\ pending[w] = {}
  /\ ~Locked(w)
  /\ LET table == Scripts[at[w]][stmt[w]] IN
     \/ /\ table \in tables
        /\ Leave(w)
        /\ UNCHANGED tables
     \/ /\ table \notin tables
        /\ tables' = tables \cup {table}
        /\ stmt' = [stmt EXCEPT ![w] = @ + 1]
        /\ UNCHANGED <<place, applied, at, pending>>
  /\ UNCHANGED <<versions, crashes, overlapped>>
MutStatementVersionFirst(w) ==
  /\ AtScript(w)
  /\ stmt[w] \in 1..Len(Scripts[at[w]])
  /\ pending[w] = {}
  /\ Scripts[at[w]][stmt[w]] \in tables \/ ~Locked(w)
  /\ tables' = tables \cup {Scripts[at[w]][stmt[w]]}
  /\ versions' = versions \cup {at[w]}
  /\ stmt' = [stmt EXCEPT ![w] = @ + 1]
  /\ UNCHANGED <<place, applied, at, pending, crashes, overlapped>>
Statement(w) ==
  /\ AtScript(w)
  /\ stmt[w] \in 1..Len(Scripts[at[w]])
  /\ pending[w] = {}
  /\ Scripts[at[w]][stmt[w]] \in tables \/ ~Locked(w)
  /\ tables' = tables \cup {Scripts[at[w]][stmt[w]]}
  /\ stmt' = [stmt EXCEPT ![w] = @ + 1]
  /\ UNCHANGED <<versions, place, applied, at, pending, crashes, overlapped>>

RecordVersion(w) ==
  /\ AtScript(w)
  /\ stmt[w] = Len(Scripts[at[w]]) + 1
  /\ ~Locked(w)
  /\ at[w] \notin versions
  /\ pending' = [pending EXCEPT ![w] = {at[w]}]
  /\ at' = [at EXCEPT ![w] = @ + 1]
  /\ stmt' = [stmt EXCEPT ![w] = 1]
  /\ UNCHANGED <<schema, place, applied, crashes, overlapped>>

(* The with block ends: commit. *)
Close(w) ==
  /\ place[w] = "init"
  /\ at[w] = Len(Scripts) + 1
  /\ place' = [place EXCEPT ![w] = "ready"]
  /\ versions' = versions \cup pending[w]
  /\ pending' = [pending EXCEPT ![w] = {}]
  /\ UNCHANGED <<tables, applied, at, stmt, crashes, overlapped>>

(* A version row that is there already (IntegrityError), or a writer that  *)
(* waited too long (OperationalError): the with block rolls back and the   *)
(* exception ends the launch.                                              *)
Raise(w) ==
  /\ AtScript(w)
  /\ \/ /\ stmt[w] \in 1..Len(Scripts[at[w]])
        /\ pending[w] = {}
        /\ Scripts[at[w]][stmt[w]] \notin tables
        /\ Locked(w)
     \/ /\ stmt[w] = Len(Scripts[at[w]]) + 1
        /\ Locked(w) \/ at[w] \in versions
  /\ Leave(w)
  /\ UNCHANGED <<schema, crashes, overlapped>>

(* A process dies anywhere. *)
Die(w) ==
  /\ place[w] # "out"
  /\ crashes < MaxCrashes
  /\ crashes' = crashes + 1
  /\ Leave(w)
  /\ UNCHANGED <<schema, overlapped>>

(* A process that has nothing in hand ends. *)
Exit(w) ==
  /\ place[w] = "ready"
  /\ Leave(w)
  /\ UNCHANGED <<schema, crashes, overlapped>>

Initialize(w) ==
  \/ Open(w)
  \/ Skip(w)
  \/ CommitOpen(w)
  \/ Statement(w)
  \/ RecordVersion(w)
  \/ Close(w)
  \/ Raise(w)

NextMigrations == \E w \in Workers : Initialize(w) \/ Exit(w) \/ Die(w)

Migrations == InitMigrations /\ [][NextMigrations]_migrationVars

-----------------------------------------------------------------------------
(* Properties *)

(* A process that has returned from initialize finds every table, whoever  *)
(* created it and however many launches died on the way; every version is  *)
(* recorded and nobody holds the file locked (store.py: initialize).       *)
ReadyStoreIsComplete ==
  \A w \in Workers : place[w] \notin {"out", "init"} =>
    /\ \A k \in Versions : Creates(k) \subseteq tables
    /\ Versions \subseteq versions
    /\ \A v \in Workers : pending[v] = {}

(* initialize raises only for a process that shares the file with another  *)
(* one in initialize: after a crash anywhere, half a script or a script    *)
(* without its version row, the next launch alone goes through.            *)
LoneInitializeNeverRaises ==
  [][\A w \in Workers : place[w] = "init" /\ place'[w] = "out" /\ crashes' = crashes =>
       w \in overlapped]_migrationVars
=============================================================================
