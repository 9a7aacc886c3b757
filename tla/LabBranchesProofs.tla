--------------------------- MODULE LabBranchesProofs ---------------------------
(***************************************************************************)
(* Proofs about LabBranches for every value of its constants: the type     *)
(* invariant, the migrations of StateStoreMigrations under everything the  *)
(* open store is used for, and the tree of hypotheses.                     *)
(***************************************************************************)
EXTENDS LabBranches, FiniteSetTheorems, TLAPS

(* The types of LabBranches's variables hold in every state; in particular *)
(* no process ever writes an edge it has not prepared.                     *)
THEOREM TypeCorrect == Spec => []TypeOK
<1>1. Init => TypeOK
  BY MigrationAssumption DEF Init, InitMigrations, TypeOK, Places, Versions, Present
<1>2. ASSUME TypeOK, [Next]_vars PROVE TypeOK'
  <2> USE <1>2
  <2>1. CASE UNCHANGED vars
    BY <2>1 DEF TypeOK, vars, migrationVars, schema, progress, treeVars, Present
  <2>2. ASSUME NEW w \in Workers, Migrate(w) PROVE TypeOK'
    <3> USE <2>2, MigrationAssumption
    <3>1. CASE Open(w)
      BY <3>1 DEF Migrate, Open, TypeOK, Places, Versions, Present, schema, treeVars
    <3>2. CASE Skip(w)
      BY <3>2 DEF Migrate, Skip, TypeOK, Places, Versions, Present, schema, treeVars
    <3>3. CASE CommitOpen(w)
      BY <3>3 DEF Migrate, CommitOpen, AtScript, TypeOK, Places, Versions, Present, schema, treeVars
    <3>4. CASE Statement(w)
      BY <3>4 DEF Migrate, Statement, AtScript, TypeOK, Places, Versions, Present, schema, treeVars
    <3>5. CASE RecordVersion(w)
      BY <3>5 DEF Migrate, RecordVersion, AtScript, TypeOK, Places, Versions, Present, schema, treeVars
    <3>6. CASE Close(w)
      BY <3>6 DEF Migrate, Close, TypeOK, Places, Versions, Present, schema, treeVars
    <3>7. CASE Raise(w) \/ Exit(w)
      <4>1. Leave(w) /\ UNCHANGED <<schema, crashes, overlapped, treeVars, hand>>
        BY <3>7 DEF Migrate, Raise, Exit
      <4>2. place[w] \in {"init", "ready"}
        BY <3>7 DEF Raise, Exit, AtScript
      <4> QED
        BY <4>1, <4>2 DEF Leave, TypeOK, Places, Versions, Present, schema, treeVars
    <3> QED BY <3>1, <3>2, <3>3, <3>4, <3>5, <3>6, <3>7 DEF Migrate, Initialize
  <2>3. ASSUME NEW w \in Workers, Work(w) PROVE TypeOK'
    <3> USE <2>3
    <3>1. ASSUME NEW h \in Hypotheses, SeedRoot(w, h) PROVE TypeOK'
      BY <3>1 DEF SeedRoot, CanInsert, WithRow, TypeOK, Present, migrationVars, schema, progress
    <3>2. ASSUME NEW p \in Hypotheses, NEW c \in Hypotheses, CreateBranch(w, p, c) PROVE TypeOK'
      BY <3>2 DEF CreateBranch, CanInsert, WithRow, Goto, Hold, Branches, TypeOK, Places, Present, schema, progress
    <3>3. CASE LinkBranch(w)
      BY <3>3 DEF LinkBranch, Goto, Hold, Branches, TypeOK, Places, Present, schema, progress
    <3> QED BY <3>1, <3>2, <3>3 DEF Work
  <2>4. ASSUME NEW w \in Workers, Crash(w) PROVE TypeOK'
    <3>1. CASE place[w] = "link"
      BY <2>4, <3>1, MigrationAssumption
      DEF Crash, Die, Leave, Hold, TypeOK, Places, Branches, Versions, Present, schema
    <3>2. CASE place[w] # "link"
      BY <2>4, <3>2, MigrationAssumption, LabAssumption
      DEF Crash, Die, Leave, Hold, TypeOK, Places, Branches, Versions, Present, schema
    <3> QED BY <3>1, <3>2
  <2> QED BY <2>1, <2>2, <2>3, <2>4, <1>2 DEF Next
<1> QED BY <1>1, <1>2, PTL DEF Spec

-----------------------------------------------------------------------------
(* Migrations.  What makes a crash harmless: the tables of a version come  *)
(* before its row, rows are committed in order, and whoever is alone in    *)
(* initialize has seen, or written, every row there is.                    *)
Progress(w) ==
  /\ applied[w] \subseteq versions
  /\ \A k \in pending[w] : k < at[w]
  /\ \A k \in Versions : k < at[w] => k \in versions \cup pending[w]
  /\ stmt[w] # 1 =>
       /\ AtScript(w)
       /\ pending[w] = {}
       /\ \A i \in 1..Len(Scripts[at[w]]) : i < stmt[w] => Scripts[at[w]][i] \in tables

RowsFollowTables ==
  /\ \A k \in versions : Creates(k) \subseteq tables
  /\ \A w \in Workers : \A k \in pending[w] : Creates(k) \subseteq tables /\ k \notin versions

WhereaboutsOf(w) ==
  /\ place[w] = "out" => at[w] = 1 /\ stmt[w] = 1
  /\ place[w] = "init" => Progress(w)
  /\ place[w] # "init" => pending[w] = {}
  /\ place[w] \notin {"out", "init"} => Versions \subseteq versions

OneWriter ==
  \A v, w \in Workers : pending[v] # {} /\ pending[w] # {} => v = w

LoneSeesAll ==
  \A w \in Workers : place[w] = "init" /\ w \notin overlapped =>
    /\ \A k \in versions : k \in applied[w] \/ k < at[w]
    /\ \A v \in Workers \ {w} : place[v] # "init"

MigrationInv ==
  /\ RowsFollowTables
  /\ \A w \in Workers : WhereaboutsOf(w)
  /\ OneWriter
  /\ LoneSeesAll

LEMMA OpenStep ==
  ASSUME TypeOK, MigrationInv, NEW w \in Workers, Open(w)
  PROVE MigrationInv'
<1> USE MigrationAssumption
<1>1. pending[w] = {} /\ at[w] = 1 /\ stmt[w] = 1
  BY DEF MigrationInv, WhereaboutsOf, Open
<1>2. RowsFollowTables' /\ OneWriter'
  BY DEF MigrationInv, RowsFollowTables, OneWriter, Open, schema
<1>3. ASSUME NEW v \in Workers PROVE WhereaboutsOf(v)'
  BY <1>1 DEF MigrationInv, WhereaboutsOf, Progress, Open, schema, TypeOK, AtScript, Versions
<1>4. LoneSeesAll'
  BY DEF MigrationInv, LoneSeesAll, Open, schema, TypeOK
<1> QED BY <1>2, <1>3, <1>4 DEF MigrationInv

LEMMA SkipStep ==
  ASSUME TypeOK, MigrationInv, NEW w \in Workers, Skip(w)
  PROVE MigrationInv'
<1> USE MigrationAssumption
<1>1. Progress(w) /\ stmt[w] = 1 /\ at[w] \in versions
  BY DEF MigrationInv, WhereaboutsOf, Progress, Skip, AtScript
<1>2. RowsFollowTables' /\ OneWriter'
  BY DEF MigrationInv, RowsFollowTables, OneWriter, Skip, schema
<1>3. ASSUME NEW v \in Workers PROVE WhereaboutsOf(v)'
  <2>1. CASE v = w
    BY <1>1, <2>1 DEF WhereaboutsOf, Progress, Skip, schema, TypeOK, Versions
  <2>2. CASE v # w
    BY <2>2 DEF MigrationInv, WhereaboutsOf, Progress, Skip, schema, TypeOK, AtScript
  <2> QED BY <2>1, <2>2
<1>4. LoneSeesAll'
  BY DEF MigrationInv, LoneSeesAll, Skip, schema, TypeOK, Versions
<1> QED BY <1>2, <1>3, <1>4 DEF MigrationInv

LEMMA CommitOpenStep ==
  ASSUME TypeOK, MigrationInv, NEW w \in Workers, CommitOpen(w)
  PROVE MigrationInv'
<1> USE MigrationAssumption
<1>1. Progress(w) /\ place[w] = "init" /\ stmt[w] = 1
  BY DEF MigrationInv, WhereaboutsOf, Progress, CommitOpen, AtScript
<1>2. /\ UNCHANGED <<tables, place, applied, at, stmt, overlapped>>
      /\ versions' = versions \cup pending[w]
      /\ pending' = [pending EXCEPT ![w] = {}]
      /\ \A v \in Workers \ {w} : pending[v] = {}
  BY DEF MigrationInv, OneWriter, CommitOpen
<1>3. RowsFollowTables' /\ OneWriter'
  BY <1>2 DEF MigrationInv, RowsFollowTables, OneWriter, Creates, TypeOK
<1>4. ASSUME NEW v \in Workers PROVE WhereaboutsOf(v)'
  <2>1. CASE v = w
    BY <1>1, <1>2, <2>1 DEF WhereaboutsOf, Progress, TypeOK
  <2>2. CASE v # w
    BY <1>2, <2>2 DEF MigrationInv, WhereaboutsOf, Progress, AtScript, TypeOK
  <2> QED BY <2>1, <2>2
<1>5. LoneSeesAll'
  BY <1>1, <1>2 DEF MigrationInv, LoneSeesAll, Progress
<1> QED BY <1>3, <1>4, <1>5 DEF MigrationInv

LEMMA StatementStep ==
  ASSUME TypeOK, MigrationInv, NEW w \in Workers, Statement(w)
  PROVE MigrationInv'
<1> USE MigrationAssumption
<1>1. Progress(w) /\ place[w] = "init" /\ at[w] \in Versions /\ at[w] \notin applied[w]
  BY DEF MigrationInv, WhereaboutsOf, Statement, AtScript
<1>2. RowsFollowTables'
  BY DEF MigrationInv, RowsFollowTables, OneWriter, Statement, TypeOK
<1>3. OneWriter'
  BY DEF MigrationInv, OneWriter, Statement, TypeOK
<1>4. ASSUME NEW v \in Workers PROVE WhereaboutsOf(v)'
  <2>1. CASE v = w
    <3>1. \A i \in 1..Len(Scripts[at[w]]) : i < stmt[w] + 1 => Scripts[at[w]][i] \in tables'
      BY <1>1 DEF Progress, Statement, TypeOK
    <3> QED
      BY <1>1, <2>1, <3>1 DEF WhereaboutsOf, Progress, Statement, TypeOK, AtScript, Versions
  <2>2. CASE v # w
    BY <2>2 DEF MigrationInv, WhereaboutsOf, Progress, Statement, TypeOK, AtScript
  <2> QED BY <2>1, <2>2
<1>5. LoneSeesAll'
  BY <1>1 DEF MigrationInv, LoneSeesAll, Progress, Statement, TypeOK
<1> QED BY <1>2, <1>3, <1>4, <1>5 DEF MigrationInv

LEMMA RecordVersionStep ==
  ASSUME TypeOK, MigrationInv, NEW w \in Workers, RecordVersion(w)
  PROVE MigrationInv'
<1> USE MigrationAssumption
<1>1. Progress(w) /\ place[w] = "init" /\ at[w] \in Versions /\ pending[w] = {}
  BY DEF MigrationInv, WhereaboutsOf, Progress, RecordVersion, AtScript, Versions
<1>2. Creates(at[w]) \subseteq tables
  BY <1>1 DEF Creates, Progress, RecordVersion, Versions
<1>3. RowsFollowTables'
  BY <1>2 DEF MigrationInv, RowsFollowTables, RecordVersion, TypeOK, schema
<1>4. OneWriter'
  BY DEF MigrationInv, OneWriter, RecordVersion, Locked, TypeOK
<1>5. ASSUME NEW v \in Workers PROVE WhereaboutsOf(v)'
  <2>1. CASE v = w
    <3>1. /\ place'[w] = "init" /\ stmt'[w] = 1 /\ at'[w] = at[w] + 1
          /\ applied'[w] = applied[w] /\ versions' = versions /\ pending'[w] = {at[w]}
      BY <1>1 DEF RecordVersion, TypeOK, schema
    <3>2. \A k \in Versions : k < at[w] + 1 => k \in versions \/ k = at[w]
      BY <1>1 DEF Progress, Versions
    <3> QED
      BY <1>1, <2>1, <3>1, <3>2 DEF WhereaboutsOf, Progress, Versions
  <2>2. CASE v # w
    BY <2>2 DEF MigrationInv, WhereaboutsOf, Progress, RecordVersion, TypeOK, AtScript, schema
  <2> QED BY <2>1, <2>2
<1>6. LoneSeesAll'
  BY <1>1 DEF MigrationInv, LoneSeesAll, RecordVersion, TypeOK, Versions, schema
<1> QED BY <1>3, <1>4, <1>5, <1>6 DEF MigrationInv

LEMMA CloseStep ==
  ASSUME TypeOK, MigrationInv, NEW w \in Workers, Close(w)
  PROVE MigrationInv'
<1> USE MigrationAssumption
<1>1. Progress(w)
  BY DEF MigrationInv, WhereaboutsOf, Close
<1>2. Versions \subseteq versions'
  BY <1>1 DEF Progress, Close, Versions
<1>3. RowsFollowTables' /\ OneWriter'
  BY DEF MigrationInv, RowsFollowTables, OneWriter, Close, TypeOK
<1>4. ASSUME NEW v \in Workers PROVE WhereaboutsOf(v)'
  BY <1>2 DEF MigrationInv, WhereaboutsOf, Progress, Close, TypeOK, AtScript, Versions
<1>5. LoneSeesAll'
  BY DEF MigrationInv, LoneSeesAll, Close, TypeOK
<1> QED BY <1>3, <1>4, <1>5 DEF MigrationInv

LEMMA LeaveStep ==
  ASSUME TypeOK, MigrationInv, NEW w \in Workers, Leave(w), UNCHANGED <<schema, overlapped>>
  PROVE MigrationInv'
<1> USE MigrationAssumption
<1>1. RowsFollowTables' /\ OneWriter'
  BY DEF MigrationInv, RowsFollowTables, OneWriter, Leave, schema, TypeOK
<1>2. ASSUME NEW v \in Workers PROVE WhereaboutsOf(v)'
  BY DEF MigrationInv, WhereaboutsOf, Progress, Leave, schema, TypeOK, AtScript
<1>3. LoneSeesAll'
  BY DEF MigrationInv, LoneSeesAll, Leave, schema, TypeOK
<1> QED BY <1>1, <1>2, <1>3 DEF MigrationInv

(* The work on the open store moves its process and nothing of the schema. *)
LEMMA WorkStep ==
  ASSUME TypeOK, MigrationInv, NEW w \in Workers, Work(w)
  PROVE MigrationInv'
<1>1. /\ UNCHANGED <<schema, progress, crashes, overlapped>>
      /\ place[w] \in {"ready", "link"}
      /\ place' = [place EXCEPT ![w] = place'[w]]
      /\ place'[w] \in {"ready", "link"}
  BY DEF TypeOK, Work, SeedRoot, CreateBranch, LinkBranch, Goto,
         migrationVars
<1>2. RowsFollowTables' /\ OneWriter'
  BY <1>1 DEF MigrationInv, RowsFollowTables, OneWriter, schema, progress
<1>3. ASSUME NEW v \in Workers PROVE WhereaboutsOf(v)'
  BY <1>1 DEF MigrationInv, WhereaboutsOf, Progress, AtScript, schema, progress, TypeOK
<1>4. LoneSeesAll'
  BY <1>1 DEF MigrationInv, LoneSeesAll, schema, progress, TypeOK
<1> QED BY <1>2, <1>3, <1>4 DEF MigrationInv

LEMMA MigrationInvariant == Spec => []MigrationInv
<1>1. Init => MigrationInv
  BY DEF Init, InitMigrations, MigrationInv, RowsFollowTables, WhereaboutsOf, OneWriter, LoneSeesAll
<1>2. ASSUME TypeOK, MigrationInv, [Next]_vars PROVE MigrationInv'
  <2>1. CASE UNCHANGED vars
    BY <1>2, <2>1 DEF vars, migrationVars, schema, progress, MigrationInv, RowsFollowTables,
                      WhereaboutsOf, Progress, AtScript, OneWriter, LoneSeesAll
  <2>2. ASSUME NEW w \in Workers, Migrate(w) PROVE MigrationInv'
    <3>1. CASE Raise(w) \/ Exit(w)
      BY <1>2, <3>1, LeaveStep DEF Raise, Exit
    <3> QED
      BY <1>2, <2>2, <3>1, OpenStep, SkipStep, CommitOpenStep, StatementStep, RecordVersionStep, CloseStep
      DEF Migrate, Initialize
  <2>3. ASSUME NEW w \in Workers, Crash(w) PROVE MigrationInv'
    BY <1>2, <2>3, LeaveStep DEF Crash, Die
  <2> QED BY <1>2, <2>1, <2>2, <2>3, WorkStep DEF Next
<1> QED BY <1>1, <1>2, TypeCorrect, PTL DEF Spec

(* Whoever has returned from initialize finds every table and every        *)
(* version row and nobody holding the file, for any number of processes,   *)
(* scripts and crashes (store.py: initialize).                             *)
THEOREM ReadyIsComplete == Spec => []ReadyStoreIsComplete
<1>1. TypeOK /\ MigrationInv => ReadyStoreIsComplete
  BY DEF TypeOK, MigrationInv, RowsFollowTables, WhereaboutsOf, ReadyStoreIsComplete
<1> QED BY <1>1, TypeCorrect, MigrationInvariant, PTL

(* A process alone in initialize never gets an exception from it, however  *)
(* far earlier launches came before they died (store.py: initialize).      *)
THEOREM LoneNeverRaises == Spec => LoneInitializeNeverRaises
<1> DEFINE Lone == \A w \in Workers :
      place[w] = "init" /\ place'[w] = "out" /\ crashes' = crashes => w \in overlapped
<1>1. ASSUME TypeOK, MigrationInv, [Next]_vars PROVE [Lone]_migrationVars
  <2> SUFFICES ASSUME NEW w \in Workers,
                      place[w] = "init", place'[w] = "out", crashes' = crashes
               PROVE w \in overlapped
    OBVIOUS
  <2>1. Raise(w)
    <3>1. ASSUME NEW v \in Workers, Crash(v) PROVE FALSE
      BY <1>1, <3>1 DEF Crash, Die, TypeOK
    <3>2. ASSUME NEW v \in Workers, Work(v) PROVE FALSE
      BY <1>1, <3>2
      DEF Work, SeedRoot, CreateBranch, LinkBranch, Goto,
          migrationVars, TypeOK
    <3>3. PICK v \in Workers : Migrate(v)
      BY <1>1, <3>1, <3>2 DEF Next, vars, migrationVars
    <3> QED
      BY <1>1, <3>3 DEF Migrate, Initialize, Open, Skip, CommitOpen, Statement, RecordVersion, Close, Raise,
                        Exit, Leave, AtScript, TypeOK
  <2>2. at[w] \notin versions \/ w \in overlapped
    BY <1>1, <2>1, MigrationAssumption
    DEF Raise, AtScript, MigrationInv, LoneSeesAll, TypeOK, Versions
  <2>3. ~Locked(w) \/ w \in overlapped
    BY <1>1, <2>1 DEF Locked, MigrationInv, WhereaboutsOf, LoneSeesAll
  <2> QED BY <2>1, <2>2, <2>3 DEF Raise
<1> QED
  BY <1>1, TypeCorrect, MigrationInvariant, PTL DEF Spec, LoneInitializeNeverRaises

-----------------------------------------------------------------------------
(* The tree of hypotheses. *)

(* A parent is a row of the table, and a process about to write an edge    *)
(* holds a child and its parent.                                           *)
ParentsPresent == \A h \in Present : parent[h] \in Present \cup {NoParent}
HandsMatch ==
  \A w \in Workers : place[w] = "link" =>
    hand[w][2] \in Present /\ parent[hand[w][2]] = hand[w][1]

TreeInv == ParentsPresent /\ BranchesNeverCircle /\ HandsMatch /\ EdgesMatchParents

(* Initialize and exit leave the tree alone and touch no process that has  *)
(* something in hand.                                                      *)
LEMMA QuietMigration ==
  ASSUME TypeOK, NEW w \in Workers, Migrate(w)
  PROVE /\ UNCHANGED <<treeVars, hand>>
        /\ \A v \in Workers : place'[v] = "link" <=> place[v] = "link"
BY DEF TypeOK, Places, Migrate, Initialize, Open, Skip, CommitOpen, Statement, RecordVersion, Close, Raise, Exit,
       Leave, AtScript

LEMMA InsertFacts ==
  ASSUME NEW h, NEW p, CanInsert(h, p), parent' = WithRow(h, p)
  PROVE /\ Present' = Present \cup {h}
        /\ h \notin Present
        /\ \A q \in Present : parent'[q] = parent[q]
        /\ parent'[h] = p
        /\ p \in Present \cup {h, NoParent}
BY DEF CanInsert, WithRow, Present

(* A new row has nobody below it: it closes no circle.                     *)
LEMMA InsertClosesNoCircle ==
  ASSUME NEW h \in Hypotheses, NEW p, CanInsert(h, p), parent' = WithRow(h, p),
         ParentsPresent, BranchesNeverCircle
  PROVE ParentsPresent' /\ BranchesNeverCircle'
<1>0. /\ Present' = Present \cup {h}
      /\ h \notin Present
      /\ \A q \in Present : parent'[q] = parent[q]
      /\ parent'[h] = p
      /\ p \in Present \cup {h, NoParent}
  BY InsertFacts
<1>1. ParentsPresent'
  BY <1>0 DEF ParentsPresent
<1> SUFFICES ASSUME NEW S \in SUBSET Present', S # {}
             PROVE \E q \in S : parent'[q] \notin S \ {q}
  BY <1>1 DEF BranchesNeverCircle
<1>2. CASE S \subseteq Present
  BY <1>0, <1>2 DEF BranchesNeverCircle
<1>3. CASE S = {h}
  BY <1>3
<1>4. CASE h \in S /\ S # {h}
  <2>1. S \ {h} \in (SUBSET Present) \ {{}}
    BY <1>0, <1>4
  <2>2. PICK q \in S \ {h} : parent[q] \notin (S \ {h}) \ {q}
    BY <2>1 DEF BranchesNeverCircle
  <2>3. parent[q] # h
    BY <1>0, <2>1, <2>2, LabAssumption DEF ParentsPresent
  <2> QED BY <1>0, <2>1, <2>2, <2>3
<1> QED BY <1>0, <1>2, <1>3, <1>4

LEMMA TreeInvariant == Spec => []TreeInv
<1>1. Init => TreeInv
  <2> SUFFICES ASSUME Init PROVE TreeInv
    OBVIOUS
  <2>1. Present = {} /\ edges = {} /\ \A w \in Workers : place[w] = "out"
    BY DEF Init, InitMigrations, Present
  <2>2. BranchesNeverCircle
    BY <2>1 DEF BranchesNeverCircle
  <2> QED
    BY <2>1, <2>2 DEF TreeInv, ParentsPresent, HandsMatch, EdgesMatchParents
<1>2. ASSUME TypeOK, TreeInv, [Next]_vars PROVE TreeInv'
  <2> USE <1>2
  <2>1. CASE UNCHANGED vars
    BY <2>1 DEF vars, migrationVars, treeVars, TreeInv, ParentsPresent, BranchesNeverCircle,
                HandsMatch, EdgesMatchParents, Present
  <2>2. ASSUME NEW w \in Workers, Migrate(w) PROVE TreeInv'
    <3>1. UNCHANGED <<parent, edges, torn, hand, Present>>
      BY <2>2, QuietMigration DEF treeVars, Present
    <3>2. \A v \in Workers : place'[v] = "link" <=> place[v] = "link"
      BY <2>2, QuietMigration
    <3> QED
      BY <3>1, <3>2 DEF TreeInv, ParentsPresent, BranchesNeverCircle, HandsMatch, EdgesMatchParents
  <2>3. ASSUME NEW w \in Workers, NEW h \in Hypotheses, SeedRoot(w, h) PROVE TreeInv'
    <3>1. CanInsert(h, NoParent) /\ parent' = WithRow(h, NoParent)
      BY <2>3 DEF SeedRoot
    <3>2. ParentsPresent' /\ BranchesNeverCircle'
      BY <3>1, InsertClosesNoCircle DEF TreeInv
    <3>3. HandsMatch'
      BY <2>3, <3>1, InsertFacts DEF SeedRoot, migrationVars, TreeInv, HandsMatch
    <3>4. EdgesMatchParents'
      BY <2>3, <3>1, InsertFacts DEF SeedRoot, migrationVars, TreeInv, EdgesMatchParents
    <3> QED BY <3>2, <3>3, <3>4 DEF TreeInv
  <2>4. ASSUME NEW w \in Workers, NEW p \in Hypotheses, NEW c \in Hypotheses, CreateBranch(w, p, c)
        PROVE TreeInv'
    <3>1. CanInsert(c, p) /\ parent' = WithRow(c, p)
      BY <2>4 DEF CreateBranch
    <3>2. ParentsPresent' /\ BranchesNeverCircle'
      BY <3>1, InsertClosesNoCircle DEF TreeInv
    <3>3. /\ hand' = [hand EXCEPT ![w] = <<p, c>>]
          /\ place' = [place EXCEPT ![w] = "link"]
          /\ place[w] = "ready"
          /\ UNCHANGED <<edges, torn>>
      BY <2>4 DEF CreateBranch, Goto, Hold
    <3>4. HandsMatch'
      BY <3>1, <3>3, InsertFacts DEF TypeOK, TreeInv, HandsMatch
    <3>5. \A e \in edges' : e[2] \in Present' /\ parent'[e[2]] = e[1]
      BY <3>1, <3>3, InsertFacts DEF TreeInv, EdgesMatchParents
    <3>6. ASSUME NEW q \in Present' \ torn', parent'[q] # NoParent
          PROVE \/ <<parent'[q], q>> \in edges'
                \/ \E v \in Workers : place'[v] = "link" /\ hand'[v] = <<parent'[q], q>>
      <4>1. CASE q = c
        <5>1. parent'[c] = p
          BY <3>1, InsertFacts
        <5>2. place'[w] = "link" /\ hand'[w] = <<p, c>>
          BY <3>3 DEF TypeOK
        <5> QED BY <4>1, <5>1, <5>2
      <4>2. CASE q # c
        <5>1. q \in Present \ torn /\ parent'[q] = parent[q] /\ edges' = edges
          BY <3>1, <3>3, <4>2, InsertFacts
        <5>2. \A v \in Workers : place[v] = "link" => place'[v] = "link" /\ hand'[v] = hand[v]
          BY <3>3 DEF TypeOK
        <5> QED BY <3>6, <5>1, <5>2 DEF TreeInv, EdgesMatchParents
      <4> QED BY <4>1, <4>2
    <3> QED BY <3>2, <3>4, <3>5, <3>6 DEF TreeInv, EdgesMatchParents
  <2>5. ASSUME NEW w \in Workers, LinkBranch(w) PROVE TreeInv'
    <3>1. /\ UNCHANGED <<parent, torn, Present>>
          /\ edges' = edges \cup {hand[w]}
          /\ place[w] = "link"
          /\ place' = [place EXCEPT ![w] = "ready"]
          /\ hand' = [hand EXCEPT ![w] = Nothing]
          /\ hand[w] \in Branches
      BY <2>5 DEF LinkBranch, Goto, Hold, TypeOK, Present
    <3>2. ParentsPresent' /\ BranchesNeverCircle' /\ HandsMatch'
      BY <3>1 DEF TreeInv, ParentsPresent, BranchesNeverCircle, HandsMatch, TypeOK
    <3>3. \A e \in edges' : e[2] \in Present' /\ parent'[e[2]] = e[1]
      BY <3>1 DEF TreeInv, EdgesMatchParents, HandsMatch
    <3>4. ASSUME NEW q \in Present' \ torn', parent'[q] # NoParent
          PROVE \/ <<parent'[q], q>> \in edges'
                \/ \E v \in Workers : place'[v] = "link" /\ hand'[v] = <<parent'[q], q>>
      BY <3>1, <3>4 DEF TreeInv, EdgesMatchParents, TypeOK
    <3> QED BY <3>2, <3>3, <3>4 DEF TreeInv, EdgesMatchParents
  <2>6. ASSUME NEW w \in Workers, Crash(w) PROVE TreeInv'
    <3>1. /\ UNCHANGED <<parent, edges, Present>>
          /\ place'[w] = "out"
          /\ \A v \in Workers \ {w} : place'[v] = place[v] /\ hand'[v] = hand[v]
          /\ torn' = IF place[w] = "link" THEN torn \cup {hand[w][2]} ELSE torn
      BY <2>6 DEF Crash, Die, Leave, Hold, TypeOK, Present
    <3>2. ParentsPresent' /\ BranchesNeverCircle' /\ HandsMatch'
      BY <3>1 DEF TreeInv, ParentsPresent, BranchesNeverCircle, HandsMatch
    <3>3. ASSUME NEW q \in Present' \ torn', parent'[q] # NoParent
          PROVE \/ <<parent'[q], q>> \in edges'
                \/ \E v \in Workers : place'[v] = "link" /\ hand'[v] = <<parent'[q], q>>
      BY <3>1, <3>3 DEF TreeInv, EdgesMatchParents
    <3> QED BY <3>1, <3>2, <3>3 DEF TreeInv, EdgesMatchParents
  <2> QED BY <2>1, <2>2, <2>3, <2>4, <2>5, <2>6 DEF Next, Work
<1> QED BY <1>1, <1>2, TypeCorrect, PTL DEF Spec

(* No chain of parents runs in a circle, for any number of hypotheses and  *)
(* processes (tuning.py: create_branch; store.py: insert_hypothesis).      *)
THEOREM NoCircles == Spec => []BranchesNeverCircle
BY TreeInvariant, PTL DEF TreeInv

(* Edges are recorded parents, and a branch without its edge is one whose  *)
(* creator is at it or died (tuning.py: create_branch).                    *)
THEOREM EdgesMatch == Spec => []EdgesMatchParents
BY TreeInvariant, PTL DEF TreeInv

-----------------------------------------------------------------------------
(* The refinement of SchemaRule. *)

(* A process inserts one version row at a time: the next script's first    *)
(* statement commits it.                                                   *)
OneRowAtATime == \A w \in Workers : \A j, k \in pending[w] : j = k

LEMMA RowsInvariant == Spec => []OneRowAtATime
<1>1. Init => OneRowAtATime
  BY DEF Init, InitMigrations, OneRowAtATime
<1>2. ASSUME TypeOK, OneRowAtATime, [Next]_vars PROVE OneRowAtATime'
  <2> SUFFICES ASSUME NEW v \in Workers
               PROVE \E k : pending'[v] \subseteq {k} \/ pending'[v] \subseteq pending[v]
    BY <1>2 DEF OneRowAtATime
  <2>1. CASE UNCHANGED vars
    BY <2>1 DEF vars, migrationVars, progress
  <2>2. ASSUME NEW w \in Workers, Migrate(w) \/ Crash(w)
        PROVE \E k : pending'[v] \subseteq {k} \/ pending'[v] \subseteq pending[v]
    <3>1. pending' = [pending EXCEPT ![w] = pending'[w]] /\ v \in DOMAIN pending
      BY <1>2, <2>2 DEF Migrate, Crash, Die, Initialize, Open, Skip, CommitOpen, Statement, RecordVersion, Close,
                        Raise, Exit, Leave, TypeOK
    <3>2. pending'[w] \in {{}, {at[w]}, pending[w]}
      BY <1>2, <2>2 DEF Migrate, Crash, Die, Initialize, Open, Skip, CommitOpen, Statement, RecordVersion, Close,
                        Raise, Exit, Leave, TypeOK
    <3>3. CASE v = w
      BY <3>2, <3>3
    <3>4. CASE v # w
      BY <3>1, <3>4
    <3> QED BY <3>3, <3>4
  <2>3. ASSUME NEW w \in Workers, Work(w) PROVE pending' = pending
    BY <2>3 DEF Work, SeedRoot, CreateBranch, LinkBranch,
                migrationVars, progress
  <2> QED BY <1>2, <2>1, <2>2, <2>3 DEF Next
<1> QED BY <1>1, <1>2, TypeCorrect, PTL DEF Spec

AtWork == {w \in Workers : place[w] \notin {"out", "init"}}
SchemaVars == <<tables, versions, AtWork>>

(* What a process commits is the next version, and all its tables exist.   *)
LEMMA CommitRecords ==
  ASSUME TypeOK, MigrationInv, OneRowAtATime, NEW w \in Workers, Progress(w),
         versions' = versions \cup pending[w]
  PROVE  Schema!Record
<1>1. CASE pending[w] = {}
  BY <1>1 DEF Schema!Record
<1>2. CASE pending[w] # {}
  <2>1. PICK k \in Versions : pending[w] = {k}
    BY <1>2 DEF OneRowAtATime, TypeOK
  <2>2. Creates(k) \subseteq tables /\ k < at[w]
    BY <2>1 DEF MigrationInv, RowsFollowTables, Progress
  <2>3. \A j \in Versions : j < k => j \in versions
    <3>1. \A j \in Versions : j < at[w] => j \in versions \cup {k}
      BY <2>1 DEF Progress
    <3>2. k \in Nat /\ at[w] \in Nat /\ Versions \subseteq Nat
      BY MigrationAssumption DEF Versions, TypeOK
    <3> QED BY <2>2, <3>1, <3>2
  <2>4. versions' = versions \cup {k}
    BY <2>1
  <2> QED
    BY <2>2, <2>3, <2>4 DEF Schema!Record, Schema!Before, Schema!Versions
<1> QED BY <1>1, <1>2

LEMMA MigrateRefines ==
  ASSUME TypeOK, MigrationInv, OneRowAtATime, NEW w \in Workers, Migrate(w)
  PROVE  Schema!Next \/ UNCHANGED SchemaVars
<1> USE MigrationAssumption
<1>1. CASE Open(w) \/ Skip(w) \/ RecordVersion(w)
  <2>1. UNCHANGED <<tables, versions>>
    BY <1>1 DEF Open, Skip, RecordVersion, schema
  <2>2. AtWork' = AtWork
    BY <1>1 DEF Open, Skip, RecordVersion, AtWork, TypeOK
  <2> QED BY <2>1, <2>2 DEF SchemaVars
<1>2. CASE Statement(w)
  <2>1. /\ Progress(w) /\ at[w] \in Versions /\ versions' = versions /\ pending[w] = {}
        /\ AtWork' = AtWork
    BY <1>2 DEF Statement, AtScript, MigrationInv, WhereaboutsOf, AtWork
  <2>2. Schema!Record
    BY <2>1 DEF Schema!Record
  <2>3. PICK table \in Creates(at[w]) : tables' = tables \cup {table}
    BY <1>2 DEF Statement, Creates
  <2>4. \A j \in Versions : j < at[w] => j \in versions'
    BY <2>1 DEF Progress
  <2>5. Schema!Create
    BY <2>1, <2>3, <2>4 DEF Schema!Create, Schema!Before, Schema!Versions, AtWork
  <2> QED BY <2>2, <2>5 DEF Schema!Next
<1>3. CASE Close(w)
  <2>1. /\ Progress(w) /\ versions' = versions \cup pending[w] /\ at[w] = Len(Scripts) + 1
        /\ UNCHANGED tables /\ AtWork' = AtWork \cup {w}
    BY <1>3 DEF Close, MigrationInv, WhereaboutsOf, AtWork, TypeOK
  <2>2. Schema!Record
    BY <2>1, CommitRecords
  <2>3. versions' = Versions
    <3>1. \A k \in Versions : k < Len(Scripts) + 1 => k \in versions \cup pending[w]
      BY <2>1 DEF Progress
    <3>2. versions \subseteq Versions /\ pending[w] \subseteq Versions
      BY DEF TypeOK
    <3>3. \A k \in Versions : k < Len(Scripts) + 1
      BY DEF Versions
    <3> QED BY <2>1, <3>1, <3>2, <3>3
  <2>4. Schema!Begin(w)
    BY <2>1, <2>3 DEF Schema!Begin, Schema!Versions, AtWork
  <2> QED BY <2>2, <2>4 DEF Schema!Next
<1>4. CASE Raise(w) \/ Exit(w)
  <2>1. UNCHANGED <<tables, versions>> /\ AtWork' = AtWork \ {w}
    BY <1>4 DEF Raise, Exit, Leave, schema, AtWork, TypeOK
  <2> QED BY <2>1 DEF Schema!Next, Schema!Record, Schema!End, AtWork
<1>5. CASE CommitOpen(w)
  <2>1. /\ Progress(w) /\ versions' = versions \cup pending[w]
        /\ UNCHANGED tables /\ AtWork' = AtWork
    BY <1>5 DEF CommitOpen, AtScript, MigrationInv, WhereaboutsOf, AtWork
  <2>2. Schema!Record
    BY <2>1, CommitRecords
  <2> QED BY <2>1, <2>2 DEF Schema!Next, AtWork
<1> QED BY <1>1, <1>2, <1>3, <1>4, <1>5 DEF Migrate, Initialize

(* However processes race through initialize, die in it and begin again,   *)
(* scripts take effect in order, versions are recorded with their tables,  *)
(* and the store is only used when it is complete (store.py: initialize).  *)
THEOREM ImplementsSchemaRule == Spec => SchemaRuleSpec
<1>1. Init => Schema!Init
  BY DEF Init, InitMigrations, Schema!Init
<1>2. ASSUME TypeOK, MigrationInv, OneRowAtATime, [Next]_vars
      PROVE [Schema!Next]_SchemaVars
  <2>1. CASE UNCHANGED vars
    BY <2>1 DEF vars, migrationVars, schema, SchemaVars, AtWork
  <2>2. ASSUME NEW w \in Workers, Work(w) PROVE UNCHANGED SchemaVars
    BY <1>2, <2>2
    DEF TypeOK, Work, SeedRoot, CreateBranch, LinkBranch, Goto,
        migrationVars, schema, SchemaVars, AtWork
  <2>3. ASSUME NEW w \in Workers, Crash(w) PROVE [Schema!Next]_SchemaVars
    <3>1. UNCHANGED <<tables, versions>> /\ AtWork' = AtWork \ {w}
      BY <1>2, <2>3 DEF Crash, Die, Leave, schema, AtWork, TypeOK
    <3> QED BY <3>1 DEF Schema!Next, Schema!Record, Schema!End, AtWork
  <2> QED BY <1>2, <2>1, <2>2, <2>3, MigrateRefines DEF Next
<1> QED
  BY <1>1, <1>2, TypeCorrect, MigrationInvariant, RowsInvariant, PTL
  DEF Spec, SchemaRuleSpec, Schema!Spec, SchemaVars, AtWork
=============================================================================
