------------------------------ MODULE LabBranches ------------------------------
(***************************************************************************)
(* runners/tuning.py over state/store.py: the processes that have opened   *)
(* the store grow the tree of hypotheses on it.  A branch is two           *)
(* transactions, the child's row and the edge to its parent.               *)
(***************************************************************************)
EXTENDS StateStoreMigrations

CONSTANTS
  Hypotheses,   \* hypothesis ids
  NoParent,     \* NULL
  Nothing       \* a process with nothing in hand

ASSUME LabAssumption ==
  /\ NoParent \notin Hypotheses
  /\ Nothing \notin Hypotheses \X Hypotheses

VARIABLES
  parent,     \* hypotheses.parent_hypothesis_id by hypothesis id
  edges,      \* hypothesis_edges: <<source, target>>
  hand,       \* the edge a process has to write next
  torn        \* history: hypotheses whose creator died before the edge

treeVars == <<parent, edges, torn>>
vars == <<migrationVars, treeVars, hand>>

Present == DOMAIN parent

Init ==
  /\ InitMigrations
  /\ parent = [h \in {} |-> NoParent]
  /\ edges = {}
  /\ hand = [w \in Workers |-> Nothing]
  /\ torn = {}

Goto(w, where) == place' = [place EXCEPT ![w] = where]
Hold(w, what) == hand' = [hand EXCEPT ![w] = what]

(* insert_hypothesis is a plain INSERT: the id must be new, and a parent   *)
(* must be a row of the table once the statement is done.  A hypothesis    *)
(* that names itself as its parent passes that foreign key.                *)
MutCanInsertAgain(h, p) == p \in Present \cup {h, NoParent}
CanInsert(h, p) ==
  /\ h \notin Present
  /\ p \in Present \cup {h, NoParent}

WithRow(h, p) == [q \in Present \cup {h} |-> IF q = h THEN p ELSE parent[q]]

SeedRoot(w, h) ==
  /\ place[w] = "ready"
  /\ CanInsert(h, NoParent)
  /\ parent' = WithRow(h, NoParent)
  /\ UNCHANGED <<migrationVars, edges, torn, hand>>

(* create_branch_for_assumption_change: the child's row, then the edge. A  *)
(* call that finds the child's id taken raises and changes nothing.        *)
CreateBranch(w, p, c) ==
  /\ place[w] = "ready"
  /\ p # NoParent
  /\ CanInsert(c, p)
  /\ parent' = WithRow(c, p)
  /\ Goto(w, "link")
  /\ Hold(w, <<p, c>>)
  /\ UNCHANGED <<schema, progress, crashes, overlapped, edges, torn>>

MutLinkBackwards(w) ==
  /\ place[w] = "link"
  /\ edges' = edges \cup {<<hand[w][2], hand[w][1]>>}
  /\ Goto(w, "ready")
  /\ Hold(w, Nothing)
  /\ UNCHANGED <<schema, progress, crashes, overlapped, parent, torn>>
MutLinkKeepsHand(w) ==
  /\ place[w] = "link"
  /\ edges' = edges \cup {hand[w]}
  /\ Goto(w, "ready")
  /\ UNCHANGED <<hand, schema, progress, crashes, overlapped, parent, torn>>
LinkBranch(w) ==
  /\ place[w] = "link"
  /\ edges' = edges \cup {hand[w]}
  /\ Goto(w, "ready")
  /\ Hold(w, Nothing)
  /\ UNCHANGED <<schema, progress, crashes, overlapped, parent, torn>>

-----------------------------------------------------------------------------
Migrate(w) == (Initialize(w) \/ Exit(w)) /\ UNCHANGED <<treeVars, hand>>

Crash(w) ==
  /\ Die(w)
  /\ Hold(w, Nothing)
  /\ torn' = IF place[w] = "link" THEN torn \cup {hand[w][2]} ELSE torn
  /\ UNCHANGED <<parent, edges>>

Work(w) ==
  \/ \E h \in Hypotheses : SeedRoot(w, h)
  \/ \E p, c \in Hypotheses : CreateBranch(w, p, c)
  \/ LinkBranch(w)

Next == \E w \in Workers : Migrate(w) \/ Work(w) \/ Crash(w)

Spec == Init /\ [][Next]_vars

-----------------------------------------------------------------------------
(* Properties *)

Places == {"out", "init", "ready", "link"}
Branches == Hypotheses \X Hypotheses

(* The types of the variables; a process holds a branch exactly between    *)
(* its row and its edge.                                                   *)
TypeOK ==
  /\ versions \subseteq Versions
  /\ place \in [Workers -> Places]
  /\ applied \in [Workers -> SUBSET Versions]
  /\ at \in [Workers -> 1..(Len(Scripts) + 1)]
  /\ stmt \in [Workers -> Nat]
  /\ pending \in [Workers -> SUBSET Versions]
  /\ crashes \in Nat
  /\ overlapped \subseteq Workers
  /\ Present \subseteq Hypotheses
  /\ parent \in [Present -> Hypotheses \cup {NoParent}]
  /\ edges \subseteq Branches
  /\ torn \subseteq Hypotheses
  /\ hand \in [Workers -> Branches \cup {Nothing}]
  /\ \A w \in Workers : IF place[w] = "link" THEN hand[w] \in Branches ELSE hand[w] = Nothing

(* However branches are created, by several processes and after crashes,   *)
(* no chain of parents runs in a circle: every set of hypotheses has one   *)
(* whose parent is no other member (tuning.py: create_branch; a hypothesis *)
(* made its own parent is a chain that ends).                              *)
BranchesNeverCircle ==
  \A S \in (SUBSET Present) \ {{}} : \E h \in S : parent[h] \notin S \ {h}

(* An edge joins a hypothesis to its recorded parent, and every branch has *)
(* its edge unless its creator is about to write it or died before         *)
(* (tuning.py: create_branch; a retry fails on the child's id).            *)
EdgesMatchParents ==
  /\ \A e \in edges : e[2] \in Present /\ parent[e[2]] = e[1]
  /\ \A c \in Present \ torn : parent[c] # NoParent =>
       \/ <<parent[c], c>> \in edges
       \/ \E w \in Workers : place[w] = "link" /\ hand[w] = <<parent[c], c>>

(* Processes that race through initialize, die in it and begin again keep  *)
(* to SchemaRule, whatever those that are through do meanwhile (store.py:  *)
(* initialize).                                                            *)
Schema == INSTANCE SchemaRule WITH
  Users <- Workers,
  TablesOf <- [k \in Versions |-> Creates(k)],
  users <- {w \in Workers : place[w] \notin {"out", "init"}}
SchemaRuleSpec == Schema!Spec
=============================================================================
