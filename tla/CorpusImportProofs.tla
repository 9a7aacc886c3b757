-------------------------- MODULE CorpusImportProofs --------------------------
(***************************************************************************)
(* Proofs about CorpusImport for every value of its constants: the type    *)
(* invariant, that no row of the store lacks its paper, and that the rows  *)
(* agree about every id that has kept its meaning.                         *)
(***************************************************************************)
EXTENDS CorpusImport, FiniteSetTheorems, WellFoundedInduction, TLAPS

(* What the loaders make of a table are its rows, each with its line. *)
LEMMA RowsAreLines ==
  ASSUME NEW S, NEW table \in Lines(S), NEW r \in Rows(table)
  PROVE r[1] \in Nat /\ r[2] \in S
<1>1. table \in Seq(S \cup {Blank}) /\ table # NoTable
  BY DEF Lines, Rows
<1>2. PICK i \in DOMAIN table : r = <<i, table[i]>> /\ \A j \in 1..i : table[j] # Blank
  BY <1>1 DEF Rows
<1>3. i \in Nat /\ i \in 1..i /\ table[i] \in S \cup {Blank}
  BY <1>1
<1> QED BY <1>2, <1>3

LEMMA RowOfIsARow ==
  ASSUME NEW rows, \A r \in rows : r[1] \in Nat, NEW file \in FilesOf(rows)
  PROVE \E r \in rows : RowOf(rows, file) = r[2]
<1> DEFINE its == {r \in rows : r[2].file = file}
           lines == {r[1] : r \in its}
<1>1. lines # {} /\ lines \subseteq Nat
  BY DEF FilesOf
<1>2. PICK n \in lines : \A m \in lines : ~(<<m, n>> \in OpToRel(<, Nat))
  BY <1>1, WFMin, NatLessThanWellFounded
<1>3. \A m \in lines : n <= m
  <2>1. ASSUME NEW m \in lines PROVE <<m, n>> \in OpToRel(<, Nat) <=> m < n
    BY <1>1 DEF OpToRel
  <2>2. ASSUME NEW m \in lines PROVE ~(m < n)
    BY <1>2, <2>1
  <2>3. lines \subseteq Nat /\ n \in lines
    BY <1>1
  <2> HIDE DEF lines
  <2> QED BY <2>2, <2>3
<1>4. PICK r \in rows : r[2].file = file /\ \A s \in rows : s[2].file = file => r[1] <= s[1]
  BY <1>3
<1> QED BY <1>4 DEF RowOf

(* A paper of the result has the fields of a record, and no other paper of *)
(* the result has its id.                                                  *)
LEMMA PapersAreRecords ==
  ASSUME NEW edition \in EditionsType
  PROVE /\ Papers(edition) \subseteq PaperRecords
        /\ \A p, q \in Papers(edition) : p.id = q.id => p = q
<1> DEFINE scanned == Readable(edition.scanned)
           coverage == Readable(edition.coverage)
           listed == {r \in Numbered(scanned) :
                        r.file \in FilesOf(Readable(edition.readme)) \cap FilesOf(coverage)}
           PaperOf(row) == [id |-> row.number, file |-> row.file, url |-> row.url,
                            category |-> RowOf(coverage, row.file).category]
<1>1. Papers(edition) = {PaperOf(row) : row \in listed}
  BY DEF Papers
<1>2. \A r \in scanned :
        r[1] \in Nat /\ r[2].number \in Numbers /\ r[2].file \in Files /\ r[2].url \in Urls
  <2>1. edition.scanned \in Lines([number : Numbers, file : Files \cup {Unreadable}, url : Urls])
    BY DEF EditionsType
  <2>2. ASSUME NEW r \in scanned
        PROVE r[1] \in Nat /\ r[2] \in [number : Numbers, file : Files \cup {Unreadable}, url : Urls]
    BY <2>1, RowsAreLines DEF Readable
  <2> QED BY <2>2 DEF Readable
<1>3. \A r \in coverage : r[1] \in Nat /\ r[2].category \in Categories
  <2>1. edition.coverage \in Lines([file : Files \cup {Unreadable}, category : Categories])
    BY DEF EditionsType
  <2>2. ASSUME NEW r \in coverage
        PROVE r[1] \in Nat /\ r[2] \in [file : Files \cup {Unreadable}, category : Categories]
    BY <2>1, RowsAreLines DEF Readable
  <2> QED BY <2>2
<1>4. ASSUME NEW row \in listed PROVE PaperOf(row) \in PaperRecords
  <2>1. row.number \in Numbers /\ row.file \in Files /\ row.url \in Urls
    BY <1>2 DEF Numbered
  <2>2. RowOf(coverage, row.file).category \in Categories
    BY <1>3, RowOfIsARow
  <2> QED BY <2>1, <2>2 DEF PaperRecords
<1>5. ASSUME NEW row \in listed, NEW other \in listed, row.number = other.number
      PROVE row = other
  <2>1. PICK r \in scanned : r[2] = row /\ \A s \in scanned : s[2].number = row.number => r[1] <= s[1]
    BY DEF Numbered
  <2>2. PICK o \in scanned : o[2] = other /\ \A s \in scanned : s[2].number = other.number => o[1] <= s[1]
    BY DEF Numbered
  <2>3. r[1] = o[1]
    BY <1>2, <1>5, <2>1, <2>2
  <2>4. r = <<r[1], edition.scanned[r[1]]>> /\ o = <<o[1], edition.scanned[o[1]]>>
    BY DEF Readable, Rows
  <2> QED BY <2>1, <2>2, <2>3, <2>4
<1> HIDE DEF scanned, coverage, listed
<1>6. Papers(edition) \subseteq PaperRecords
  BY <1>1, <1>4
<1>7. ASSUME NEW p \in Papers(edition), NEW q \in Papers(edition), p.id = q.id PROVE p = q
  <2>1. PICK row \in listed : p = PaperOf(row)
    BY <1>1
  <2>2. PICK other \in listed : q = PaperOf(other)
    BY <1>1
  <2>3. p.id = row.number /\ q.id = other.number
    BY <2>1, <2>2
  <2> QED BY <1>5, <1>7, <2>1, <2>2, <2>3
<1> QED BY <1>6, <1>7

LEMMA LeadsAreGroups ==
  ASSUME NEW listed \in SUBSET PaperRecords
  PROVE /\ DOMAIN Leads(listed) = {p.category : p \in listed}
        /\ DOMAIN Leads(listed) \subseteq Categories
        /\ \A c \in DOMAIN Leads(listed) :
             Leads(listed)[c] \in LeadRecords /\ Leads(listed)[c].category = c
BY DEF Leads, PaperRecords, LeadRecords

LEMMA LeadsNameTheirs ==
  ASSUME NEW listed, NEW c \in DOMAIN Leads(listed), NEW n \in Leads(listed)[c].papers
  PROVE \E p \in listed : p.id = n /\ p.category = c
BY DEF Leads

(* The types of CorpusImport's variables hold in every state, and what a   *)
(* worker has still to write comes from what it has loaded.                *)
THEOREM TypeCorrect == Spec => []TypeOK
<1>1. Init => TypeOK
  BY EditionsAssumption DEF Init, TypeOK
<1>2. ASSUME TypeOK, [Next]_vars PROVE TypeOK'
  <2> USE <1>2 DEF TypeOK, Goto
  <2>1. CASE UNCHANGED vars
    BY <2>1 DEF vars, store, worker, bounds, history
  <2>2. ASSUME NEW edition \in LaterEditions, Edit(edition) PROVE TypeOK'
    BY <2>2, EditionsAssumption DEF Edit, store, worker, history
  <2>3. ASSUME NEW w \in Workers, Load(w) PROVE TypeOK'
    <3> DEFINE found == Papers(files)
    <3>1. found \subseteq PaperRecords
      BY PapersAreRecords
    <3> HIDE DEF found
    <3>2. found # {} /\ loaded' = [loaded EXCEPT ![w] = found]
      BY <2>3 DEF Load, found
    <3>3. PICK place \in {"papers", "studies"} :
            /\ place = "papers" \/ Studies(found) # {}
            /\ pc' = [pc EXCEPT ![w] = place]
            /\ todo' = [todo EXCEPT ![w] = IF place = "papers" THEN found ELSE Studies(found)]
      BY <2>3 DEF Load, found
    <3>4. loaded' \in [Workers -> SUBSET PaperRecords]
      BY <3>1, <3>2
    <3>5. todo' \in [Workers -> SUBSET (PaperRecords \cup Categories)]
      BY <3>1, <3>3 DEF Studies
    <3>6. first' \in [Numbers -> PaperRecords \cup {Absent}]
      <4>1. first' = [n \in Numbers |->
               IF first[n] # Absent \/ n \notin {p.id : p \in found} THEN first[n]
               ELSE CHOOSE p \in found : p.id = n]
        BY <2>3 DEF Load, found
      <4>2. ASSUME NEW n \in Numbers, n \in {p.id : p \in found}
            PROVE (CHOOSE p \in found : p.id = n) \in PaperRecords
        <5>1. \E p \in found : p.id = n
          BY <4>2
        <5> QED BY <3>1, <5>1
      <4> QED BY <4>1, <4>2
    <3>7. moved' \subseteq Numbers
      BY <2>3, <3>1 DEF Load, found, PaperRecords
    <3>8. \A v \in Workers :
            /\ (pc'[v] = "idle") <=> (loaded'[v] = {})
            /\ (pc'[v] = "idle") <=> (todo'[v] = {})
            /\ todo'[v] \subseteq IF pc'[v] = "leads" THEN DOMAIN Leads(loaded'[v])
                                 ELSE IF pc'[v] = "studies" THEN Studies(loaded'[v])
                                 ELSE loaded'[v]
      BY <3>2, <3>3
    <3>9. pc' \in [Workers -> {"idle", "papers", "leads", "studies"}]
      BY <3>3
    <3> QED BY <2>3, <3>4, <3>5, <3>6, <3>7, <3>8, <3>9 DEF Load, store, bounds
  <2>4. ASSUME NEW w \in Workers, WritePaper(w) PROVE TypeOK'
    <3>1. PICK p \in todo[w] :
            /\ papers' = [papers EXCEPT ![p.id] = p]
            /\ IF todo[w] = {p} THEN Goto(w, "leads", DOMAIN Leads(loaded[w]))
               ELSE Goto(w, "papers", todo[w] \ {p})
      BY <2>4 DEF WritePaper
    <3>2. p \in PaperRecords /\ p.id \in Numbers /\ loaded[w] # {}
      BY <2>4 DEF WritePaper, PaperRecords
    <3>3. DOMAIN Leads(loaded[w]) # {} /\ DOMAIN Leads(loaded[w]) \subseteq Categories
      <4>1. loaded[w] \in SUBSET PaperRecords
        OBVIOUS
      <4>2. /\ DOMAIN Leads(loaded[w]) = {q.category : q \in loaded[w]}
            /\ DOMAIN Leads(loaded[w]) \subseteq Categories
        BY <4>1, LeadsAreGroups
      <4> QED BY <3>2, <4>2
    <3>4. papers' \in [Numbers -> PaperRecords \cup {Absent}]
      BY <3>1, <3>2
    <3>5. CASE todo[w] = {p}
      BY <2>4, <3>1, <3>3, <3>4, <3>5 DEF WritePaper, bounds, history
    <3>6. CASE todo[w] # {p}
      <4>1. todo[w] \ {p} # {} /\ todo[w] \ {p} \subseteq loaded[w]
        BY <2>4, <3>6 DEF WritePaper
      <4> QED BY <2>4, <3>1, <3>4, <3>6, <4>1 DEF WritePaper, bounds, history
    <3> QED BY <3>5, <3>6
  <2>5. ASSUME NEW w \in Workers, WriteLead(w) PROVE TypeOK'
    <3>1. PICK c \in todo[w] :
            /\ leads' = [leads EXCEPT ![SlugOf[c]] = Leads(loaded[w])[c]]
            /\ IF todo[w] = {c} THEN Study(w)
               ELSE Goto(w, "leads", todo[w] \ {c}) /\ UNCHANGED loaded
      BY <2>5 DEF WriteLead
    <3>2. c \in DOMAIN Leads(loaded[w]) /\ loaded[w] # {}
      BY <2>5 DEF WriteLead
    <3>3. leads' \in [Slugs -> LeadRecords \cup {Absent}]
      <4>1. c \in Categories /\ Leads(loaded[w])[c] \in LeadRecords
        BY <3>2, LeadsAreGroups
      <4> QED BY <3>1, <4>1, SlugAssumption
    <3>4. CASE todo[w] = {c}
      <4>1. CASE Studies(loaded[w]) = {}
        BY <2>5, <3>1, <3>3, <3>4, <4>1 DEF WriteLead, Study, Forget, bounds, history
      <4>2. CASE Studies(loaded[w]) # {}
        <5>1. Goto(w, "studies", Studies(loaded[w])) /\ loaded' = loaded
          BY <3>1, <3>4, <4>2 DEF Study
        <5>2. Studies(loaded[w]) \in SUBSET PaperRecords
          BY DEF Studies
        <5> QED BY <2>5, <3>2, <3>3, <4>2, <5>1, <5>2 DEF WriteLead, bounds, history
      <4> QED BY <4>1, <4>2
    <3>5. CASE todo[w] # {c}
      <4>1. todo[w] \ {c} # {} /\ todo[w] \ {c} \subseteq DOMAIN Leads(loaded[w])
        BY <2>5, <3>5 DEF WriteLead
      <4> QED BY <2>5, <3>1, <3>3, <3>5, <4>1 DEF WriteLead, bounds, history
    <3> QED BY <3>4, <3>5
  <2>6. ASSUME NEW w \in Workers, WriteExtraction(w) PROVE TypeOK'
    <3>1. PICK p \in todo[w] :
            /\ extractions' = [extractions EXCEPT ![p.id] = p]
            /\ IF todo[w] = {p} THEN Forget(w)
               ELSE Goto(w, "studies", todo[w] \ {p}) /\ UNCHANGED loaded
      BY <2>6 DEF WriteExtraction
    <3>2. p \in PaperRecords /\ p.id \in Numbers
      BY <2>6 DEF WriteExtraction, Studies, PaperRecords
    <3>3. extractions' \in [Numbers -> PaperRecords \cup {Absent}]
      BY <3>1, <3>2
    <3>4. CASE todo[w] = {p}
      BY <2>6, <3>1, <3>3, <3>4 DEF WriteExtraction, Forget, bounds, history
    <3>5. CASE todo[w] # {p}
      <4>1. todo[w] \ {p} # {} /\ todo[w] \ {p} \subseteq Studies(loaded[w])
        BY <2>6, <3>5 DEF WriteExtraction
      <4> QED BY <2>6, <3>1, <3>3, <3>5, <4>1 DEF WriteExtraction, bounds, history
    <3> QED BY <3>4, <3>5
  <2>7. ASSUME NEW w \in Workers, ExtractionRaises(w) PROVE TypeOK'
    BY <2>7 DEF ExtractionRaises, Forget, store, bounds, history
  <2>8. ASSUME NEW w \in Workers, Crash(w) PROVE TypeOK'
    BY <2>8, BoundsAssumption DEF Crash, Forget, store, history
  <2> QED
    BY <2>1, <2>2, <2>3, <2>4, <2>5, <2>6, <2>7, <2>8 DEF Next, Step
<1> QED BY <1>1, <1>2, PTL DEF Spec

-----------------------------------------------------------------------------
(* What a step can change, for the proofs below. *)

(* What a worker has loaded stays until it forgets it. *)
LEMMA LoadedChanges ==
  ASSUME TypeOK, [Next]_vars, NEW w \in Workers
  PROVE \/ loaded'[w] = loaded[w]
        \/ loaded'[w] = {}
        \/ Load(w) /\ loaded'[w] = Papers(files)
<1> USE DEF TypeOK
<1>1. CASE UNCHANGED vars
  BY <1>1 DEF vars, worker
<1>2. ASSUME NEW edition \in LaterEditions, Edit(edition) PROVE loaded' = loaded
  BY <1>2 DEF Edit, worker
<1>3. ASSUME NEW v \in Workers, Load(v)
      PROVE \/ loaded'[w] = loaded[w]
            \/ Load(w) /\ loaded'[w] = Papers(files)
  <2>1. loaded' = [loaded EXCEPT ![v] = Papers(files)]
    BY <1>3 DEF Load
  <2> QED BY <1>3, <2>1
<1>4. ASSUME NEW v \in Workers, Forget(v) PROVE loaded'[w] \in {loaded[w], {}}
  BY <1>4 DEF Forget
<1>5. ASSUME NEW v \in Workers, Step(v) \/ Crash(v)
      PROVE loaded'[w] \in {loaded[w], {}}
  <2>1. Forget(v) \/ loaded' = loaded
    BY <1>5 DEF Step, WritePaper, WriteLead, Study, WriteExtraction, ExtractionRaises, Crash
  <2> QED BY <1>4, <2>1
<1> QED BY <1>1, <1>2, <1>3, <1>5 DEF Next

(* A row of the store is written by the step of a worker that has loaded   *)
(* its paper, and papers are never taken away.                             *)
LEMMA PapersChange ==
  ASSUME TypeOK, [Next]_vars, NEW n \in Numbers, papers'[n] # papers[n]
  PROVE \E w \in Workers : \E p \in loaded[w] : p.id = n /\ papers'[n] = p
<1> USE DEF TypeOK
<1>1. ASSUME NEW w \in Workers, WritePaper(w)
      PROVE \E p \in loaded[w] : p.id = n /\ papers'[n] = p
  <2>1. PICK p \in todo[w] : papers' = [papers EXCEPT ![p.id] = p]
    BY <1>1 DEF WritePaper
  <2>2. p \in loaded[w]
    BY <1>1 DEF WritePaper
  <2> QED BY <2>1, <2>2
<1>2. CASE UNCHANGED vars
  BY <1>2 DEF vars, store
<1>3. ASSUME NEW edition \in LaterEditions, Edit(edition) PROVE FALSE
  BY <1>3 DEF Edit, store
<1>4. ASSUME NEW w \in Workers,
             Load(w) \/ WriteLead(w) \/ WriteExtraction(w) \/ ExtractionRaises(w) \/ Crash(w)
      PROVE FALSE
  BY <1>4 DEF Load, WriteLead, WriteExtraction, ExtractionRaises, Crash, store
<1> QED BY <1>1, <1>2, <1>3, <1>4 DEF Next, Step

LEMMA LeadsChange ==
  ASSUME TypeOK, [Next]_vars, NEW s \in Slugs, leads'[s] # leads[s]
  PROVE \E w \in Workers : \E c \in DOMAIN Leads(loaded[w]) :
          /\ WriteLead(w)
          /\ s = SlugOf[c]
          /\ leads'[s] = Leads(loaded[w])[c]
<1> USE DEF TypeOK
<1>1. ASSUME NEW w \in Workers, WriteLead(w)
      PROVE \E c \in DOMAIN Leads(loaded[w]) : s = SlugOf[c] /\ leads'[s] = Leads(loaded[w])[c]
  <2>1. PICK c \in todo[w] : leads' = [leads EXCEPT ![SlugOf[c]] = Leads(loaded[w])[c]]
    BY <1>1 DEF WriteLead
  <2>2. c \in DOMAIN Leads(loaded[w])
    BY <1>1 DEF WriteLead
  <2> QED BY <2>1, <2>2
<1>2. CASE UNCHANGED vars
  BY <1>2 DEF vars, store
<1>3. ASSUME NEW edition \in LaterEditions, Edit(edition) PROVE FALSE
  BY <1>3 DEF Edit, store
<1>4. ASSUME NEW w \in Workers,
             Load(w) \/ WritePaper(w) \/ WriteExtraction(w) \/ ExtractionRaises(w) \/ Crash(w)
      PROVE FALSE
  BY <1>4 DEF Load, WritePaper, WriteExtraction, ExtractionRaises, Crash, store
<1> QED BY <1>1, <1>2, <1>3, <1>4 DEF Next, Step

LEMMA ExtractionsChange ==
  ASSUME TypeOK, [Next]_vars, NEW n \in Numbers, extractions'[n] # extractions[n]
  PROVE /\ papers[n] # Absent
        /\ \E w \in Workers : \E p \in loaded[w] : p.id = n /\ extractions'[n] = p
<1> USE DEF TypeOK
<1>1. ASSUME NEW w \in Workers, WriteExtraction(w)
      PROVE /\ papers[n] # Absent
            /\ \E p \in loaded[w] : p.id = n /\ extractions'[n] = p
  <2>1. PICK p \in todo[w] : papers[p.id] # Absent /\ extractions' = [extractions EXCEPT ![p.id] = p]
    BY <1>1 DEF WriteExtraction
  <2>2. p \in loaded[w]
    BY <1>1 DEF WriteExtraction, Studies
  <2> QED BY <2>1, <2>2
<1>2. CASE UNCHANGED vars
  BY <1>2 DEF vars, store
<1>3. ASSUME NEW edition \in LaterEditions, Edit(edition) PROVE FALSE
  BY <1>3 DEF Edit, store
<1>4. ASSUME NEW w \in Workers,
             Load(w) \/ WritePaper(w) \/ WriteLead(w) \/ ExtractionRaises(w) \/ Crash(w)
      PROVE FALSE
  BY <1>4 DEF Load, WritePaper, WriteLead, ExtractionRaises, Crash, store
<1> QED BY <1>1, <1>2, <1>3, <1>4 DEF Next, Step

LEMMA PapersStay ==
  ASSUME TypeOK, [Next]_vars, NEW n \in Numbers, papers[n] # Absent
  PROVE papers'[n] # Absent
BY PapersChange, AbsentAssumption DEF TypeOK, PaperRecords

(* What a worker has loaded it has written, once it gets to the leads. *)
PapersFirst ==
  \A w \in Workers : \A p \in loaded[w] :
    pc[w] = "leads" \/ (pc[w] = "papers" /\ p \notin todo[w]) => papers[p.id] # Absent

LEMMA PapersFirstStep ==
  ASSUME TypeOK, PapersFirst, [Next]_vars
  PROVE PapersFirst'
<1> USE DEF TypeOK
<1>1. SUFFICES ASSUME NEW w \in Workers, NEW p \in loaded'[w],
                      pc'[w] = "leads" \/ (pc'[w] = "papers" /\ p \notin todo'[w])
               PROVE papers'[p.id] # Absent
  BY DEF PapersFirst
<1>2. ASSUME p \in PaperRecords, papers[p.id] # Absent PROVE papers'[p.id] # Absent
  BY <1>2, PapersStay DEF PaperRecords
<1>3. CASE UNCHANGED <<pc, todo, loaded>>
  BY <1>1, <1>2, <1>3 DEF PapersFirst
<1>4. ASSUME NEW v \in Workers, Load(v) PROVE papers'[p.id] # Absent
  <2>1. /\ loaded' = [loaded EXCEPT ![v] = Papers(files)]
        /\ \E place \in {"papers", "studies"} :
             /\ pc' = [pc EXCEPT ![v] = place]
             /\ place = "papers" => todo' = [todo EXCEPT ![v] = Papers(files)]
             /\ \A x \in Workers \ {v} : todo'[x] = todo[x]
    BY <1>4 DEF Load, Goto
  <2> QED BY <1>1, <1>2, <2>1 DEF PapersFirst
<1>5. ASSUME NEW v \in Workers, WritePaper(v) PROVE papers'[p.id] # Absent
  <2>1. PICK q \in todo[v] :
          /\ papers' = [papers EXCEPT ![q.id] = q]
          /\ IF todo[v] = {q} THEN Goto(v, "leads", DOMAIN Leads(loaded[v]))
             ELSE Goto(v, "papers", todo[v] \ {q})
    BY <1>5 DEF WritePaper
  <2>2. pc[v] = "papers" /\ loaded' = loaded
    BY <1>5 DEF WritePaper
  <2>3. q \in PaperRecords /\ q.id \in Numbers /\ q # Absent
    BY <2>1, <2>2, AbsentAssumption DEF PaperRecords
  <2>4. CASE p = q
    BY <2>1, <2>3, <2>4
  <2>5. CASE w = v /\ p # q
    <3>1. p \notin todo[v]
      <4>1. CASE todo[v] = {q}
        BY <2>5, <4>1
      <4>2. CASE todo[v] # {q}
        BY <1>1, <2>1, <2>2, <2>5, <4>2 DEF Goto
      <4> QED BY <4>1, <4>2
    <3> QED BY <1>2, <2>2, <2>5, <3>1 DEF PapersFirst
  <2>6. CASE w # v
    BY <1>1, <1>2, <2>1, <2>2, <2>6 DEF PapersFirst, Goto
  <2> QED BY <2>4, <2>5, <2>6
<1>6. ASSUME NEW v \in Workers, Forget(v) PROVE papers'[p.id] # Absent
  BY <1>1, <1>2, <1>6 DEF Forget, Goto, PapersFirst
<1>7. ASSUME NEW v \in Workers, WriteLead(v) PROVE papers'[p.id] # Absent
  <2>1. \/ Forget(v)
        \/ loaded' = loaded /\ \E work : Goto(v, "studies", work) \/ Goto(v, "leads", work)
    BY <1>7 DEF WriteLead, Study
  <2>2. CASE Forget(v)
    BY <1>6, <2>2
  <2>3. CASE loaded' = loaded /\ \E work : Goto(v, "studies", work) \/ Goto(v, "leads", work)
    <3>1. pc[v] = "leads"
      BY <1>7 DEF WriteLead
    <3> QED BY <1>1, <1>2, <2>3, <3>1 DEF PapersFirst, Goto
  <2> QED BY <2>1, <2>2, <2>3
<1>8. ASSUME NEW v \in Workers, WriteExtraction(v) PROVE papers'[p.id] # Absent
  <2>1. \/ Forget(v)
        \/ loaded' = loaded /\ \E work : Goto(v, "studies", work)
    BY <1>8 DEF WriteExtraction
  <2>2. CASE Forget(v)
    BY <1>6, <2>2
  <2>3. CASE loaded' = loaded /\ \E work : Goto(v, "studies", work)
    BY <1>1, <1>2, <2>3 DEF PapersFirst, Goto
  <2> QED BY <2>1, <2>2, <2>3
<1>9. ASSUME NEW v \in Workers, ExtractionRaises(v) \/ Crash(v) PROVE papers'[p.id] # Absent
  BY <1>6, <1>9 DEF ExtractionRaises, Crash
<1>10. ASSUME NEW edition \in LaterEditions, Edit(edition) PROVE UNCHANGED <<pc, todo, loaded>>
  BY <1>10 DEF Edit, worker
<1>11. CASE UNCHANGED vars
  BY <1>3, <1>11 DEF vars, worker
<1> QED
  BY <1>3, <1>4, <1>5, <1>7, <1>8, <1>9, <1>10, <1>11 DEF Next, Step

(* write_corpus_to_store writes the papers before the leads that name      *)
(* them, which no foreign key guards; so, whatever is edited, crashes or   *)
(* overlaps, no lead and no extraction names a paper that is not there.    *)
(* What a worker has written has to be kept in the invariant: it vouches   *)
(* for the leads to come.                                                  *)
THEOREM NoOrphans == Spec => []NoOrphanRows
<1>1. Init => PapersFirst /\ NoOrphanRows
  BY DEF Init, PapersFirst, NoOrphanRows
<1>2. ASSUME TypeOK, PapersFirst, NoOrphanRows, [Next]_vars PROVE NoOrphanRows'
  <2>1. SUFFICES ASSUME NEW n \in Numbers,
                        \/ extractions'[n] # Absent
                        \/ \E s \in Slugs : leads'[s] # Absent /\ n \in leads'[s].papers
                 PROVE papers[n] # Absent
    BY <1>2, PapersStay DEF NoOrphanRows
  <2>2. CASE extractions'[n] # Absent
    BY <1>2, <2>2, ExtractionsChange DEF NoOrphanRows
  <2>3. ASSUME NEW s \in Slugs, leads'[s] # Absent, n \in leads'[s].papers
        PROVE papers[n] # Absent
    <3>1. CASE leads'[s] = leads[s]
      BY <1>2, <2>3, <3>1 DEF NoOrphanRows
    <3>2. CASE leads'[s] # leads[s]
      <4> PICK w \in Workers : \E c \in DOMAIN Leads(loaded[w]) :
              WriteLead(w) /\ leads'[s] = Leads(loaded[w])[c]
        BY <1>2, <3>2, LeadsChange
      <4>1. PICK c \in DOMAIN Leads(loaded[w]) :
              WriteLead(w) /\ leads'[s] = Leads(loaded[w])[c]
        OBVIOUS
      <4>2. loaded[w] \in SUBSET PaperRecords
        BY <1>2 DEF TypeOK
      <4>3. PICK p \in loaded[w] : p.id = n
        BY <2>3, <4>1, LeadsNameTheirs
      <4>4. pc[w] = "leads"
        BY <4>1 DEF WriteLead
      <4> QED BY <1>2, <4>3, <4>4 DEF PapersFirst
    <3> QED BY <3>1, <3>2
  <2> QED BY <2>1, <2>2, <2>3
<1>3. ASSUME TypeOK, PapersFirst, [Next]_vars PROVE PapersFirst'
  BY <1>3, PapersFirstStep
<1> QED BY <1>1, <1>2, <1>3, TypeCorrect, PTL DEF Spec

-----------------------------------------------------------------------------
(* The first load decides what an id stands for; a load only adds to the   *)
(* ids that were moved.                                                    *)
LEMMA HistoryGrows ==
  ASSUME TypeOK, [Next]_vars
  PROVE /\ \A n \in Numbers : first[n] # Absent => first'[n] = first[n]
        /\ moved \subseteq moved'
<1>1. ASSUME NEW w \in Workers, Load(w)
      PROVE /\ \A n \in Numbers : first[n] # Absent => first'[n] = first[n]
            /\ moved \subseteq moved'
  BY <1>1 DEF Load
<1>2. CASE UNCHANGED history
  BY <1>2 DEF history
<1>3. CASE UNCHANGED vars
  BY <1>2, <1>3 DEF vars
<1>4. ASSUME NEW edition \in LaterEditions, Edit(edition) PROVE UNCHANGED history
  BY <1>4 DEF Edit
<1>5. ASSUME NEW w \in Workers, Step(w) \/ Crash(w) PROVE UNCHANGED history
  BY <1>5 DEF Step, WritePaper, WriteLead, WriteExtraction, ExtractionRaises, Crash
<1> QED BY <1>1, <1>2, <1>3, <1>4, <1>5 DEF Next

(* What a load finds is what its ids stand for, or the ids are moved. *)
LEMMA LoadAgrees ==
  ASSUME TypeOK, NEW w \in Workers, Load(w), NEW p \in Papers(files)
  PROVE /\ p.id \in Numbers
        /\ first'[p.id] # Absent
        /\ p.id \notin moved' => first'[p.id] = p
<1> DEFINE found == Papers(files)
<1>1. /\ found \subseteq PaperRecords
      /\ \A q, r \in found : q.id = r.id => q = r
  BY PapersAreRecords DEF TypeOK
<1>2. /\ first' = [n \in Numbers |->
            IF first[n] # Absent \/ n \notin {q.id : q \in found} THEN first[n]
            ELSE CHOOSE q \in found : q.id = n]
      /\ moved' = moved \cup
            {q.id : q \in {r \in found : first[r.id] \notin {Absent, r}}}
  BY DEF Load
<1> HIDE DEF found
<1>3. p \in found
  BY DEF found
<1>4. p \in PaperRecords /\ p.id \in Numbers /\ p # Absent
  BY <1>1, <1>3, AbsentAssumption DEF PaperRecords
<1>5. CASE first[p.id] = Absent
  <2>1. (CHOOSE q \in found : q.id = p.id) = p
    <3>1. \E q \in found : q.id = p.id
      BY <1>3
    <3> QED BY <1>1, <1>3, <3>1
  <2> QED BY <1>2, <1>3, <1>4, <1>5, <2>1
<1>6. CASE first[p.id] # Absent
  <2>1. first'[p.id] = first[p.id]
    BY <1>2, <1>4, <1>6
  <2>2. first[p.id] # p => p.id \in moved'
    BY <1>2, <1>3, <1>6
  <2> QED BY <1>4, <1>6, <2>1, <2>2
<1> QED BY <1>5, <1>6

(* What a worker has loaded is what its ids stand for, and so is what it   *)
(* has written.                                                            *)
LoadedAgrees ==
  \A w \in Workers : \A p \in loaded[w] :
    first[p.id] # Absent /\ (p.id \notin moved => first[p.id] = p)
LeadsAreLoaded ==
  \A s \in Slugs : leads[s] # Absent =>
    \A n \in leads[s].papers \cap Numbers : first[n] # Absent

LEMMA LoadedAgreesStep ==
  ASSUME TypeOK, LoadedAgrees, [Next]_vars
  PROVE LoadedAgrees'
<1>1. SUFFICES ASSUME NEW w \in Workers, NEW p \in loaded'[w]
               PROVE first'[p.id] # Absent /\ (p.id \notin moved' => first'[p.id] = p)
  BY DEF LoadedAgrees
<1>2. CASE p \in loaded[w]
  <2>1. p.id \in Numbers
    BY <1>2 DEF TypeOK, PaperRecords
  <2> QED BY <1>2, <2>1, HistoryGrows DEF LoadedAgrees
<1>3. CASE Load(w) /\ p \in Papers(files)
  BY <1>3, LoadAgrees
<1> QED BY <1>1, <1>2, <1>3, LoadedChanges

(* Ids are row numbers (importer.py: load_corpus); as long as an edit has  *)
(* not made an id stand for another paper, the paper, its extraction and   *)
(* the one lead that names it agree, whichever workers wrote them.  The    *)
(* tables that workers hold in memory have to agree as well: they are what *)
(* is written next.                                                        *)
THEOREM RowsAgree == Spec => []RowsAgreeUnlessMoved
<1>1. Init => LoadedAgrees /\ LeadsAreLoaded /\ RowsAgreeUnlessMoved
  BY DEF Init, LoadedAgrees, LeadsAreLoaded, RowsAgreeUnlessMoved
<1>2. ASSUME TypeOK, LoadedAgrees, LeadsAreLoaded, [Next]_vars PROVE LeadsAreLoaded'
  <2>1. SUFFICES ASSUME NEW s \in Slugs, leads'[s] # Absent,
                        NEW n \in Numbers, n \in leads'[s].papers
                 PROVE first[n] # Absent
    BY <1>2, HistoryGrows DEF LeadsAreLoaded
  <2>2. CASE leads'[s] = leads[s]
    BY <1>2, <2>1, <2>2 DEF LeadsAreLoaded
  <2>3. CASE leads'[s] # leads[s]
    <3> PICK w \in Workers : \E c \in DOMAIN Leads(loaded[w]) : leads'[s] = Leads(loaded[w])[c]
      BY <1>2, <2>3, LeadsChange
    <3>1. PICK c \in DOMAIN Leads(loaded[w]) : leads'[s] = Leads(loaded[w])[c]
      OBVIOUS
    <3>2. PICK p \in loaded[w] : p.id = n
      BY <2>1, <3>1, LeadsNameTheirs
    <3> QED BY <1>2, <3>2 DEF LoadedAgrees
  <2> QED BY <2>2, <2>3
<1>3. ASSUME TypeOK, LoadedAgrees, LeadsAreLoaded, RowsAgreeUnlessMoved, [Next]_vars
      PROVE RowsAgreeUnlessMoved'
  <2>1. SUFFICES ASSUME NEW n \in Numbers, n \notin moved'
                 PROVE /\ papers'[n] \in {Absent, first'[n]}
                       /\ extractions'[n] \in {Absent, first'[n]}
                       /\ \A s \in Slugs : leads'[s] # Absent /\ n \in leads'[s].papers =>
                            /\ leads'[s].category = first'[n].category
                            /\ s = SlugOf[first'[n].category]
    BY DEF RowsAgreeUnlessMoved
  <2>2. n \notin moved /\ (first[n] # Absent => first'[n] = first[n])
    BY <1>3, <2>1, HistoryGrows
  <2>3. ASSUME NEW w \in Workers, NEW p \in loaded[w], p.id = n
        PROVE first'[n] = p
    BY <1>3, <2>2, <2>3 DEF LoadedAgrees
  <2>4. papers'[n] \in {Absent, first'[n]}
    <3>1. CASE papers'[n] = papers[n]
      BY <1>3, <2>2, <3>1 DEF RowsAgreeUnlessMoved
    <3>2. CASE papers'[n] # papers[n]
      BY <1>3, <2>3, <3>2, PapersChange
    <3> QED BY <3>1, <3>2
  <2>5. extractions'[n] \in {Absent, first'[n]}
    <3>1. CASE extractions'[n] = extractions[n]
      BY <1>3, <2>2, <3>1 DEF RowsAgreeUnlessMoved
    <3>2. CASE extractions'[n] # extractions[n]
      BY <1>3, <2>3, <3>2, ExtractionsChange
    <3> QED BY <3>1, <3>2
  <2>6. ASSUME NEW s \in Slugs, leads'[s] # Absent, n \in leads'[s].papers
        PROVE leads'[s].category = first'[n].category /\ s = SlugOf[first'[n].category]
    <3>1. CASE leads'[s] = leads[s]
      BY <1>3, <2>2, <2>6, <3>1 DEF RowsAgreeUnlessMoved, LeadsAreLoaded
    <3>2. CASE leads'[s] # leads[s]
      <4> PICK w \in Workers : \E c \in DOMAIN Leads(loaded[w]) :
              s = SlugOf[c] /\ leads'[s] = Leads(loaded[w])[c]
        BY <1>3, <3>2, LeadsChange
      <4>1. PICK c \in DOMAIN Leads(loaded[w]) :
              s = SlugOf[c] /\ leads'[s] = Leads(loaded[w])[c]
        OBVIOUS
      <4>2. PICK p \in loaded[w] : p.id = n /\ p.category = c
        BY <2>6, <4>1, LeadsNameTheirs
      <4>3. leads'[s].category = c
        <5>1. loaded[w] \in SUBSET PaperRecords
          BY <1>3 DEF TypeOK
        <5>2. Leads(loaded[w])[c].category = c
          BY <5>1, LeadsAreGroups
        <5> QED BY <4>1, <5>2
      <4> QED BY <2>3, <4>1, <4>2, <4>3
    <3> QED BY <3>1, <3>2
  <2> QED BY <2>4, <2>5, <2>6
<1>4. ASSUME TypeOK, LoadedAgrees, [Next]_vars PROVE LoadedAgrees'
  BY <1>4, LoadedAgreesStep
<1> QED BY <1>1, <1>2, <1>3, <1>4, TypeCorrect, PTL DEF Spec

-----------------------------------------------------------------------------
(* A finished import has brought the store up to date. *)

(* What of the present tables is in the store. *)
PapersIn(rows) == \A p \in rows : papers[p.id] = p
ExtractionsIn(rows) == \A p \in rows : extractions[p.id] = p
LeadsIn(categories) ==
  \A c \in categories : \E d \in DOMAIN Leads(Papers(files)) :
    SlugOf[d] = SlugOf[c] /\ leads[SlugOf[c]] = Leads(Papers(files))[d]

Listed == Papers(files)
Studied == Studies(Papers(files))
Named == DOMAIN Leads(Papers(files))

OnlyPresent == \A w \in Workers : loaded[w] \in {{}, Listed}

LEMMA UpToDateParts ==
  UpToDate <=> PapersIn(Listed) /\ ExtractionsIn(Studied) /\ LeadsIn(Named)
BY DEF UpToDate, PapersIn, ExtractionsIn, LeadsIn, Listed, Studied, Named

(* While only the present tables are in the workers' hands, what is once   *)
(* written stays: each upsert writes the same again.                       *)
LEMMA PresentRowsStay ==
  ASSUME TypeOK, [Next]_vars, OnlyPresent, files' = files,
         NEW rows \in SUBSET Listed, NEW categories \in SUBSET Named
  PROVE /\ PapersIn(rows) => PapersIn(rows)'
        /\ ExtractionsIn(rows) => ExtractionsIn(rows)'
        /\ LeadsIn(categories) => LeadsIn(categories)'
<1>1. /\ Listed \subseteq PaperRecords
      /\ \A p, q \in Listed : p.id = q.id => p = q
  BY PapersAreRecords DEF TypeOK, Listed
<1>2. \A p \in Listed : p.id \in Numbers
  BY <1>1 DEF PaperRecords
<1>3. Named \subseteq Categories
  BY <1>1, LeadsAreGroups DEF Named, Listed
<1>4. ASSUME NEW w \in Workers, NEW q \in loaded[w] PROVE q \in Listed
  BY <1>4 DEF OnlyPresent
<1>5. ASSUME NEW p \in Listed, papers[p.id] = p PROVE papers'[p.id] = p
  BY <1>1, <1>2, <1>4, <1>5, PapersChange
<1>6. ASSUME NEW p \in Listed, extractions[p.id] = p PROVE extractions'[p.id] = p
  BY <1>1, <1>2, <1>4, <1>6, ExtractionsChange
<1>7. ASSUME NEW c \in Named,
             \E d \in Named : SlugOf[d] = SlugOf[c] /\ leads[SlugOf[c]] = Leads(Listed)[d]
      PROVE  \E d \in Named : SlugOf[d] = SlugOf[c] /\ leads'[SlugOf[c]] = Leads(Listed)[d]
  <2>1. CASE leads'[SlugOf[c]] # leads[SlugOf[c]]
    <3>1. SlugOf[c] \in Slugs
      BY <1>3, SlugAssumption
    <3> PICK w \in Workers : \E d \in DOMAIN Leads(loaded[w]) :
            /\ WriteLead(w)
            /\ SlugOf[c] = SlugOf[d]
            /\ leads'[SlugOf[c]] = Leads(loaded[w])[d]
      BY <2>1, <3>1, LeadsChange
    <3>2. PICK d \in DOMAIN Leads(loaded[w]) :
            /\ WriteLead(w)
            /\ SlugOf[c] = SlugOf[d]
            /\ leads'[SlugOf[c]] = Leads(loaded[w])[d]
      OBVIOUS
    <3>3. loaded[w] # {}
      BY <3>2 DEF WriteLead, TypeOK
    <3>4. loaded[w] = Listed /\ DOMAIN Leads(loaded[w]) = Named
      BY <3>3 DEF OnlyPresent, Listed, Named
    <3> QED BY <3>2, <3>4
  <2> QED BY <1>7, <2>1
<1>8. Listed' = Listed /\ Studied' = Studied /\ Named' = Named
  BY DEF Listed, Studied, Named
<1>9. Studied \subseteq Listed
  BY DEF Studied, Studies, Listed
<1>10. PapersIn(rows) => PapersIn(rows)'
  BY <1>5 DEF PapersIn
<1>11. ExtractionsIn(rows) => ExtractionsIn(rows)'
  BY <1>6 DEF ExtractionsIn
<1>12. LeadsIn(categories) => LeadsIn(categories)'
  BY <1>7, <1>8 DEF LeadsIn, Listed, Named
<1> QED BY <1>10, <1>11, <1>12

LEMMA OnlyPresentStays ==
  ASSUME TypeOK, [Next]_vars, OnlyPresent, files' = files
  PROVE OnlyPresent'
BY LoadedChanges DEF OnlyPresent, Listed

(* Importing the present tables again, one upsert after the other, leaves  *)
(* a store that is up to date as it is (importer.py: write_corpus_to_      *)
(* store).                                                                 *)
THEOREM ReimportIsIdempotent == Spec => ReimportKeepsUpToDate
<1>1. ASSUME TypeOK, [Next]_vars, Settled, files' = files PROVE Settled'
  <2>1. OnlyPresent /\ PapersIn(Listed) /\ ExtractionsIn(Studied) /\ LeadsIn(Named)
    BY <1>1, UpToDateParts DEF Settled, OnlyPresent, Listed
  <2>2. Listed' = Listed /\ Studied' = Studied /\ Named' = Named /\ Studied \subseteq Listed
    BY <1>1 DEF Listed, Studied, Studies, Named
  <2>3. PapersIn(Listed)' /\ ExtractionsIn(Studied)' /\ LeadsIn(Named)'
    BY <1>1, <2>1, <2>2, PresentRowsStay DEF PapersIn, ExtractionsIn, LeadsIn
  <2>4. UpToDate'
    BY <2>3, UpToDateParts, PTL
  <2>5. OnlyPresent'
    BY <1>1, <2>1, OnlyPresentStays
  <2> QED BY <2>4, <2>5 DEF Settled, OnlyPresent, Listed
<1> QED BY <1>1, TypeCorrect, PTL DEF Spec, ReimportKeepsUpToDate

(* What a whole import has written when it has come this far: the papers   *)
(* before the leads, the leads before the extractions.                     *)
Written(w) ==
  /\ PapersIn(IF pc[w] = "papers" THEN Listed \ todo[w] ELSE Listed)
  /\ pc[w] # "papers" => LeadsIn(IF pc[w] = "leads" THEN Named \ todo[w] ELSE Named)
  /\ pc[w] \in {"studies", "idle"} =>
       ExtractionsIn(IF pc[w] = "studies" THEN Studied \ todo[w] ELSE Studied)

WholeInv ==
  /\ whole # {} => OnlyPresent
  /\ \A w \in whole : Written(w)

(* What others do meanwhile takes nothing of it away ... *)
LEMMA WrittenStays ==
  ASSUME TypeOK, [Next]_vars, OnlyPresent, files' = files,
         NEW w \in Workers, Written(w), pc'[w] = pc[w], todo'[w] = todo[w]
  PROVE Written(w)'
<1>1. Listed' = Listed /\ Studied' = Studied /\ Named' = Named /\ Studied \subseteq Listed
  BY DEF Listed, Studied, Studies, Named
<1>2. PapersIn(IF pc[w] = "papers" THEN Listed \ todo[w] ELSE Listed)'
  BY <1>1, PresentRowsStay DEF Written
<1>3. pc[w] # "papers" => LeadsIn(IF pc[w] = "leads" THEN Named \ todo[w] ELSE Named)'
  BY <1>1, PresentRowsStay DEF Written
<1>4. pc[w] \in {"studies", "idle"} =>
        ExtractionsIn(IF pc[w] = "studies" THEN Studied \ todo[w] ELSE Studied)'
  BY <1>1, PresentRowsStay DEF Written
<1> QED BY <1>2, <1>3, <1>4 DEF Written

(* ... and each upsert of the import adds its row. *)
LEMMA WrittenGrows ==
  ASSUME TypeOK, [Next]_vars, OnlyPresent, files' = files,
         NEW w \in Workers, Written(w),
         WritePaper(w) \/ WriteLead(w) \/ WriteExtraction(w)
  PROVE Written(w)'
<1>1. Listed' = Listed /\ Studied' = Studied /\ Named' = Named /\ Studied \subseteq Listed
  BY DEF Listed, Studied, Studies, Named
<1>2. /\ loaded[w] = Listed
      /\ DOMAIN Leads(loaded[w]) = Named
      /\ Studies(loaded[w]) = Studied
  BY DEF TypeOK, OnlyPresent, WritePaper, WriteLead, WriteExtraction, Named, Listed, Studied
<1>3. Listed \subseteq PaperRecords
  BY PapersAreRecords DEF TypeOK, Listed
<1>4. ASSUME WritePaper(w) PROVE Written(w)'
  <2>1. PICK p \in todo[w] :
          /\ papers' = [papers EXCEPT ![p.id] = p]
          /\ IF todo[w] = {p} THEN Goto(w, "leads", Named)
             ELSE Goto(w, "papers", todo[w] \ {p})
    BY <1>2, <1>4 DEF WritePaper
  <2>2. pc[w] = "papers" /\ p \in Listed /\ p.id \in Numbers
    BY <1>2, <1>3, <1>4 DEF WritePaper, TypeOK, PaperRecords
  <2>3. papers'[p.id] = p
    BY <2>1, <2>2 DEF TypeOK
  <2>4. PICK done : done = Listed \ todo[w]
    OBVIOUS
  <2>5. PapersIn(done \cup {p})'
    <3>1. PapersIn(done)'
      BY <2>2, <2>4, PresentRowsStay DEF Written
    <3> QED BY <2>3, <3>1 DEF PapersIn
  <2>6. CASE todo[w] = {p}
    <3>1. PapersIn(Listed)'
      BY <1>1, <2>4, <2>5, <2>6 DEF PapersIn
    <3>2. pc'[w] = "leads" /\ todo'[w] = Named
      BY <2>1, <2>6 DEF Goto, TypeOK
    <3>3. LeadsIn(Named \ todo[w])'
      BY <1>1, <3>2 DEF LeadsIn
    <3> QED BY <3>1, <3>2, <3>3 DEF Written
  <2>7. CASE todo[w] # {p}
    <3>1. pc'[w] = "papers" /\ todo'[w] = todo[w] \ {p}
      BY <2>1, <2>7 DEF Goto, TypeOK
    <3>2. PapersIn(Listed \ todo[w])'
      BY <1>1, <2>4, <2>5, <3>1 DEF PapersIn
    <3> QED BY <3>1, <3>2 DEF Written
  <2> QED BY <2>6, <2>7
<1>5. ASSUME WriteLead(w) PROVE Written(w)'
  <2>1. PICK c \in todo[w] :
          /\ leads' = [leads EXCEPT ![SlugOf[c]] = Leads(Listed)[c]]
          /\ IF todo[w] = {c} THEN Study(w)
             ELSE Goto(w, "leads", todo[w] \ {c}) /\ UNCHANGED loaded
    BY <1>2, <1>5 DEF WriteLead
  <2>2. pc[w] = "leads" /\ c \in Named /\ c \in Categories
    BY <1>2, <1>3, <1>5, LeadsAreGroups DEF WriteLead, TypeOK
  <2>3. leads'[SlugOf[c]] = Leads(Listed)[c]
    BY <2>1, <2>2, SlugAssumption DEF TypeOK
  <2>4. PICK done : done = Named \ todo[w]
    OBVIOUS
  <2>5. PapersIn(Listed)' /\ LeadsIn(done \cup {c})'
    <3>1. PapersIn(Listed)' /\ LeadsIn(done)'
      BY <1>1, <2>2, <2>4, PresentRowsStay DEF Written, PapersIn
    <3> QED BY <1>1, <2>2, <2>3, <3>1 DEF LeadsIn, Listed, Named
  <2>6. CASE todo[w] = {c}
    <3>1. LeadsIn(Named)'
      BY <1>1, <2>4, <2>5, <2>6 DEF LeadsIn
    <3>2. CASE Studied = {}
      <4>1. pc'[w] = "idle"
        BY <1>2, <2>1, <2>6, <3>2 DEF Study, Forget, Goto, TypeOK
      <4>2. ExtractionsIn(Studied)'
        BY <1>1, <3>2 DEF ExtractionsIn
      <4> QED BY <2>5, <3>1, <4>1, <4>2 DEF Written
    <3>3. CASE Studied # {}
      <4>1. pc'[w] = "studies" /\ todo'[w] = Studied
        BY <1>2, <2>1, <2>6, <3>3 DEF Study, Goto, TypeOK
      <4>2. ExtractionsIn(Studied \ todo[w])'
        BY <1>1, <4>1 DEF ExtractionsIn
      <4> QED BY <2>5, <3>1, <4>1, <4>2 DEF Written
    <3> QED BY <3>2, <3>3
  <2>7. CASE todo[w] # {c}
    <3>1. pc'[w] = "leads" /\ todo'[w] = todo[w] \ {c}
      BY <2>1, <2>7 DEF Goto, TypeOK
    <3>2. LeadsIn(Named \ todo[w])'
      BY <1>1, <2>4, <2>5, <3>1 DEF LeadsIn
    <3> QED BY <2>5, <3>1, <3>2 DEF Written
  <2> QED BY <2>6, <2>7
<1>6. ASSUME WriteExtraction(w) PROVE Written(w)'
  <2>1. PICK p \in todo[w] :
          /\ extractions' = [extractions EXCEPT ![p.id] = p]
          /\ IF todo[w] = {p} THEN Forget(w)
             ELSE Goto(w, "studies", todo[w] \ {p}) /\ UNCHANGED loaded
    BY <1>6 DEF WriteExtraction
  <2>2. pc[w] = "studies" /\ p \in Studied /\ p.id \in Numbers
    BY <1>2, <1>3, <1>6 DEF WriteExtraction, Studies, TypeOK, PaperRecords
  <2>3. extractions'[p.id] = p
    BY <2>1, <2>2 DEF TypeOK
  <2>4. PICK done : done = Studied \ todo[w]
    OBVIOUS
  <2>5. PapersIn(Listed)' /\ LeadsIn(Named)' /\ ExtractionsIn(done \cup {p})'
    <3>1. PapersIn(Listed)' /\ LeadsIn(Named)' /\ ExtractionsIn(done)'
      BY <1>1, <2>2, <2>4, PresentRowsStay DEF Written, PapersIn, LeadsIn
    <3> QED BY <2>3, <3>1 DEF ExtractionsIn
  <2>6. CASE todo[w] = {p}
    <3>1. ExtractionsIn(Studied)'
      BY <1>1, <2>4, <2>5, <2>6 DEF ExtractionsIn
    <3>2. pc'[w] = "idle"
      BY <2>1, <2>6 DEF Forget, Goto, TypeOK
    <3> QED BY <2>5, <3>1, <3>2 DEF Written
  <2>7. CASE todo[w] # {p}
    <3>1. pc'[w] = "studies" /\ todo'[w] = todo[w] \ {p}
      BY <2>1, <2>7 DEF Goto, TypeOK
    <3>2. ExtractionsIn(Studied \ todo[w])'
      BY <1>1, <2>4, <2>5, <3>1 DEF ExtractionsIn
    <3> QED BY <2>5, <3>1, <3>2 DEF Written
  <2> QED BY <2>6, <2>7
<1> QED BY <1>4, <1>5, <1>6

LEMMA WholeStep ==
  ASSUME TypeOK, WholeInv, [Next]_vars
  PROVE WholeInv'
<1> USE DEF TypeOK
<1>1. CASE UNCHANGED vars
  <2>1. whole' = whole /\ files' = files /\ pc' = pc /\ todo' = todo
    BY <1>1 DEF vars, worker
  <2> QED BY <2>1, WrittenStays, OnlyPresentStays DEF WholeInv
<1>2. ASSUME NEW edition \in LaterEditions, Edit(edition) PROVE WholeInv'
  BY <1>2 DEF Edit, WholeInv
<1>3. ASSUME NEW w \in Workers, Load(w) PROVE WholeInv'
  <2>1. loaded' = [loaded EXCEPT ![w] = Listed] /\ files' = files
    BY <1>3 DEF Load, Goto, Listed
  <2>2. PICK place \in {"papers", "studies"} :
          /\ pc' = [pc EXCEPT ![w] = place]
          /\ todo' = [todo EXCEPT ![w] = IF place = "papers" THEN Listed ELSE Studied]
          /\ whole' = IF place = "papers" /\ \A v \in Workers \ {w} : loaded[v] \in {{}, Listed}
                      THEN whole \cup {w} ELSE whole \ {w}
    BY <1>3 DEF Load, Goto, Listed, Studied
  <2>3. Listed' = Listed
    BY <2>1 DEF Listed
  <2>4. whole' # {} => OnlyPresent'
    <3>1. CASE whole # {}
      BY <2>1, <3>1, OnlyPresentStays DEF WholeInv
    <3>2. CASE whole = {}
      BY <2>1, <2>2, <2>3, <3>2 DEF OnlyPresent
    <3> QED BY <3>1, <3>2
  <2>5. ASSUME NEW v \in whole', v # w PROVE Written(v)'
    <3>1. v \in whole /\ pc'[v] = pc[v] /\ todo'[v] = todo[v]
      BY <2>1, <2>2, <2>5
    <3> QED BY <2>1, <3>1, WrittenStays DEF WholeInv
  <2>6. ASSUME w \in whole' PROVE Written(w)'
    <3>1. pc'[w] = "papers" /\ todo'[w] = Listed
      BY <2>1, <2>2, <2>6
    <3>2. PapersIn(Listed \ todo[w])'
      BY <2>3, <3>1 DEF PapersIn
    <3> QED BY <3>1, <3>2 DEF Written
  <2> QED BY <2>4, <2>5, <2>6 DEF WholeInv
<1>4. ASSUME NEW w \in Workers, WritePaper(w) \/ WriteLead(w) \/ WriteExtraction(w)
      PROVE WholeInv'
  <2>1. /\ whole' = whole /\ files' = files
        /\ \A v \in Workers \ {w} : pc'[v] = pc[v] /\ todo'[v] = todo[v]
    BY <1>4 DEF WritePaper, WriteLead, Study, WriteExtraction, Forget, Goto
  <2> QED BY <1>4, <2>1, WrittenStays, WrittenGrows, OnlyPresentStays DEF WholeInv
<1>5. ASSUME NEW w \in Workers, ExtractionRaises(w) \/ Crash(w) PROVE WholeInv'
  <2>1. /\ whole' = whole \ {w} /\ files' = files
        /\ \A v \in Workers \ {w} : pc'[v] = pc[v] /\ todo'[v] = todo[v]
    BY <1>5 DEF ExtractionRaises, Crash, Forget, Goto
  <2> QED BY <2>1, WrittenStays, OnlyPresentStays DEF WholeInv
<1> QED BY <1>1, <1>2, <1>3, <1>4, <1>5 DEF Next, Step

(* An import that ran to its end while nobody held other tables has        *)
(* brought papers, leads and extractions up to date, also over the rows of *)
(* older editions and among workers that die (importer.py and study.py).   *)
(* The invariant says what is written at each place of the import.         *)
THEOREM FinishedImports == Spec => []FinishedImportIsUpToDate
<1>1. Init => WholeInv
  BY DEF Init, WholeInv
<1>2. TypeOK /\ WholeInv => FinishedImportIsUpToDate
  BY UpToDateParts DEF TypeOK, WholeInv, Written, FinishedImportIsUpToDate
<1> QED BY <1>1, <1>2, WholeStep, TypeCorrect, PTL DEF Spec

-----------------------------------------------------------------------------
(* What a clean import says about the tables. *)

(* An image is as large as its domain exactly when nothing is mapped       *)
(* together.                                                               *)
LEMMA ImageCount ==
  ASSUME NEW S, NEW T, IsFiniteSet(S), NEW f \in [S -> T], T = {f[x] : x \in S}
  PROVE  /\ IsFiniteSet(T)
         /\ Cardinality(T) = Cardinality(S) <=> \A x, y \in S : f[x] = f[y] => x = y
<1>1. f \in Surjection(S, T)
  BY DEF Surjection
<1>2. f \in Injection(S, T) <=> \A x, y \in S : f[x] = f[y] => x = y
  BY DEF Injection, IsInjective
<1> QED BY <1>1, <1>2, FS_Surjection

LEMMA FieldCount ==
  ASSUME NEW rows, IsFiniteSet(rows), NEW field
  PROVE  Cardinality({r[2][field] : r \in rows}) = Cardinality(rows) <=> ~Repeats(rows, field)
<1> DEFINE values == {r[2][field] : r \in rows}
           f == [r \in rows |-> r[2][field]]
<1>1. f \in [rows -> values] /\ values = {f[r] : r \in rows}
  OBVIOUS
<1>2. Cardinality(values) = Cardinality(rows) <=> \A r, s \in rows : f[r] = f[s] => r = s
  <2> HIDE DEF f, values
  <2> QED BY <1>1, ImageCount
<1> QED BY <1>2 DEF Repeats

(* The rows of a table are finitely many, numbered by their lines. *)
LEMMA RowsFinite ==
  ASSUME NEW S, NEW table \in Lines(S)
  PROVE  /\ IsFiniteSet(Rows(table))
         /\ \A r \in Rows(table) : r[1] \in Nat
<1>1. CASE table = NoTable
  BY <1>1, FS_EmptySet DEF Rows
<1>2. CASE table # NoTable
  <2> DEFINE read == {k \in DOMAIN table : \A j \in 1..k : table[j] # Blank}
             f == [i \in read |-> <<i, table[i]>>]
  <2>1. table \in Seq(S \cup {Blank})
    BY <1>2 DEF Lines
  <2>2. read \subseteq 1..Len(table) /\ Len(table) \in Nat
    BY <2>1
  <2>3. IsFiniteSet(read)
    BY <2>2, FS_Interval, FS_Subset
  <2>4. Rows(table) = {f[i] : i \in read} /\ f \in [read -> Rows(table)]
    BY <1>2 DEF Rows
  <2> HIDE DEF read, f
  <2>5. IsFiniteSet(Rows(table))
    BY <2>3, <2>4, ImageCount
  <2> QED BY <2>5, RowsAreLines
<1> QED BY <1>1, <1>2

LEMMA TablesFinite ==
  ASSUME NEW edition \in EditionsType, NEW t \in Tables
  PROVE  /\ IsFiniteSet(Rows(edition[t]))
         /\ \A r \in Rows(edition[t]) : r[1] \in Nat
<1>1. \/ edition[t] \in Lines([number : Numbers, file : Files \cup {Unreadable}, url : Urls])
      \/ edition[t] \in Lines([file : Files \cup {Unreadable}, url : Urls])
      \/ edition[t] \in Lines([file : Files \cup {Unreadable}, category : Categories])
  BY DEF EditionsType, Tables
<1> QED BY <1>1, RowsFinite

LEMMA RowOfOnly ==
  ASSUME NEW rows, \A r \in rows : r[1] \in Nat, ~Repeats(rows, "file"), NEW r \in rows
  PROVE  RowOf(rows, r[2].file) = r[2]
<1> DEFINE Best(q) == q[2].file = r[2].file /\ \A s \in rows : s[2].file = r[2].file => q[1] <= s[1]
<1>1. \A q \in rows : q[2].file = r[2].file => q = r
  BY DEF Repeats
<1>2. Best(r)
  BY <1>1
<1>3. (CHOOSE q \in rows : Best(q)) = r
  <2>1. (CHOOSE q \in rows : Best(q)) \in rows /\ Best(CHOOSE q \in rows : Best(q))
    BY <1>2
  <2> QED BY <1>1, <2>1
<1> QED BY <1>3 DEF RowOf

(* The four tables agree: what load_corpus can find out without counting.  *)
Agreeing(edition) ==
  LET scanned == Rows(edition.scanned)
      coverage == Rows(edition.coverage)
      named == FilesOf(scanned) IN
  /\ \A t \in Tables :
       /\ edition[t] # NoTable
       /\ ~Damaged(edition[t])
       /\ ~Repeats(Rows(edition[t]), "file")
       /\ FilesOf(Rows(edition[t])) = named
  /\ ~Repeats(scanned, "url") /\ ~Repeats(scanned, "number")
  /\ named \subseteq edition.pdfs
  /\ \A f \in named :
       /\ RowOf(Rows(edition.readme), f).url = RowOf(scanned, f).url
       /\ RowOf(coverage, f).category = RowOf(Rows(edition.category), f).category

Placed(edition) ==
  {RowOf(Rows(edition.coverage), f).category : f \in FilesOf(Rows(edition.scanned))}

(* Tables that agree are consistent when there are enough of everything:   *)
(* a table with as many rows as files names none twice.                    *)
LEMMA ConsistentCounts ==
  ASSUME NEW edition \in EditionsType
  PROVE  Consistent(edition) <=>
           /\ Agreeing(edition)
           /\ Cardinality(FilesOf(Rows(edition.scanned))) = ExpectedPapers
           /\ Cardinality(Placed(edition)) = ExpectedCategories
<1> DEFINE scanned == Rows(edition.scanned)
           named == FilesOf(scanned)
           All(field) == {r[2][field] : r \in scanned}
<1>1. \A t \in Tables : IsFiniteSet(Rows(edition[t]))
  BY TablesFinite
<1>2. IsFiniteSet(scanned)
  BY <1>1 DEF Tables
<1>3. \A t \in Tables :
        Cardinality(FilesOf(Rows(edition[t]))) = Cardinality(Rows(edition[t]))
          <=> ~Repeats(Rows(edition[t]), "file")
  BY <1>1, FieldCount DEF FilesOf
<1>4. \A field : Cardinality(All(field)) = Cardinality(scanned) <=> ~Repeats(scanned, field)
  BY <1>2, FieldCount
<1>5. All("file") = named
  BY DEF FilesOf
<1>6. "scanned" \in Tables /\ edition["scanned"] = edition.scanned
  BY DEF Tables
<1>7. ASSUME Consistent(edition)
      PROVE /\ Agreeing(edition)
            /\ Cardinality(named) = ExpectedPapers
            /\ Cardinality(Placed(edition)) = ExpectedCategories
  <2>1. /\ \A t \in Tables : edition[t] # NoTable /\ ~Damaged(edition[t])
        /\ \A t \in Tables :
             /\ Cardinality(Rows(edition[t])) = ExpectedPapers
             /\ FilesOf(Rows(edition[t])) = named
        /\ \A field \in {"file", "number", "url"} : Cardinality(All(field)) = ExpectedPapers
        /\ named \subseteq edition.pdfs
        /\ \A f \in named :
             /\ RowOf(Rows(edition.readme), f).url = RowOf(scanned, f).url
             /\ RowOf(Rows(edition.coverage), f).category = RowOf(Rows(edition.category), f).category
        /\ Cardinality({RowOf(Rows(edition.coverage), f).category : f \in named})
              = ExpectedCategories
    BY <1>7 DEF Consistent
  <2>2. Cardinality(named) = ExpectedPapers
    BY <1>5, <2>1
  <2>3. \A t \in Tables : ~Repeats(Rows(edition[t]), "file")
    BY <1>3, <2>1, <2>2
  <2>4. ~Repeats(scanned, "url") /\ ~Repeats(scanned, "number")
    BY <1>4, <1>6, <2>1
  <2> HIDE DEF All
  <2> QED BY <2>1, <2>2, <2>3, <2>4 DEF Agreeing, Placed
<1>8. ASSUME /\ Agreeing(edition)
             /\ Cardinality(named) = ExpectedPapers
             /\ Cardinality(Placed(edition)) = ExpectedCategories
      PROVE Consistent(edition)
  <2>1. \A t \in Tables :
          /\ FilesOf(Rows(edition[t])) = named
          /\ Cardinality(Rows(edition[t])) = ExpectedPapers
    BY <1>3, <1>8 DEF Agreeing
  <2>2. ~Repeats(scanned, "file") /\ ~Repeats(scanned, "number") /\ ~Repeats(scanned, "url")
    BY <1>6, <1>8 DEF Agreeing
  <2>3. \A field \in {"file", "number", "url"} : Cardinality(All(field)) = ExpectedPapers
    BY <1>4, <1>6, <2>1, <2>2
  <2> QED BY <1>8, <2>1, <2>3 DEF Consistent, Agreeing, Placed
<1> QED BY <1>7, <1>8

(* No error means that none of the conditions holds, however they overlap. *)
LEMMA NoErrors ==
  ASSUME NEW edition
  PROVE  LET scanned == Readable(edition.scanned)
             readme == Readable(edition.readme)
             coverage == Readable(edition.coverage)
             category == Readable(edition.category)
             listed == Papers(edition)
             matched == {r \in Numbered(scanned) : r.file \in FilesOf(readme)}
             covered == {r \in matched : r.file \in FilesOf(coverage)} IN
         Errors(edition) = {} <=>
           /\ \A t \in Tables : edition[t] # NoTable /\ ~Damaged(edition[t])
           /\ \A rows \in {scanned, readme} : ~Repeats(rows, "url")
           /\ \A rows \in {scanned, readme, coverage, category} : ~Repeats(rows, "file")
           /\ FilesOf(readme) \subseteq FilesOf(scanned)
           /\ FilesOf(coverage) \subseteq FilesOf(scanned)
           /\ FilesOf(category) \subseteq FilesOf(coverage)
           /\ ~Disputed(category, coverage)
           /\ ~Repeats(scanned, "number")
           /\ matched = Numbered(scanned)
           /\ \A r \in matched : RowOf(readme, r.file).url = r.url
           /\ covered = matched
           /\ \A r \in covered : r.file \in FilesOf(category)
           /\ \A r \in covered : r.file \in edition.pdfs
           /\ Cardinality(listed) = ExpectedPapers
           /\ Cardinality({p.category : p \in listed}) = ExpectedCategories
<1> DEFINE
      scanned == Readable(edition.scanned)
      readme == Readable(edition.readme)
      coverage == Readable(edition.coverage)
      category == Readable(edition.category)
      listed == Papers(edition)
      matched == {r \in Numbered(scanned) : r.file \in FilesOf(readme)}
      covered == {r \in matched : r.file \in FilesOf(coverage)}
      When(kind, condition) == IF condition THEN {kind} ELSE {}
      Missing == \E t \in Tables : edition[t] = NoTable
      Harmed == \E t \in Tables : Damaged(edition[t])
      SameUrl == \E rows \in {scanned, readme} : Repeats(rows, "url")
      SameFile == \E rows \in {scanned, readme, coverage, category} : Repeats(rows, "file")
      Unscanned == FilesOf(readme) \ FilesOf(scanned) # {}
      Uncovering == FilesOf(coverage) \ FilesOf(scanned) # {}
      Stray == FilesOf(category) \ FilesOf(coverage) # {}
      Elsewhere == Disputed(category, coverage)
      SameNumber == Repeats(scanned, "number")
      Unmatched == matched # Numbered(scanned)
      OtherUrl == \E r \in matched : RowOf(readme, r.file).url # r.url
      Uncovered == covered # matched
      Unfiled == \E r \in covered : r.file \notin FilesOf(category)
      NoPdf == \E r \in covered : r.file \notin edition.pdfs
      PaperCount == Cardinality(listed) # ExpectedPapers
      CategoryCount == Cardinality({p.category : p \in listed}) # ExpectedCategories
<1>1. Errors(edition) =
        UNION {When("table is missing", Missing),
               When("row is damaged", Harmed),
               When("duplicate source", SameUrl),
               When("duplicate file", SameFile),
               When("README row without scanned row", Unscanned),
               When("coverage without scanned row", Uncovering),
               When("category file without coverage", Stray),
               When("category file and coverage differ", Elsewhere),
               When("duplicate paper id", SameNumber),
               When("scanned row without README row", Unmatched),
               When("README and scanned row differ", OtherUrl),
               When("paper without category", Uncovered),
               When("paper without category file", Unfiled),
               When("PDF is missing", NoPdf),
               When("paper count", PaperCount),
               When("category count", CategoryCount)}
  BY DEF Errors
<1>2. /\ ~Missing /\ ~Harmed <=> \A t \in Tables : edition[t] # NoTable /\ ~Damaged(edition[t])
      /\ ~SameUrl <=> \A rows \in {scanned, readme} : ~Repeats(rows, "url")
      /\ ~SameFile <=> \A rows \in {scanned, readme, coverage, category} : ~Repeats(rows, "file")
      /\ ~Unscanned <=> FilesOf(readme) \subseteq FilesOf(scanned)
      /\ ~Uncovering <=> FilesOf(coverage) \subseteq FilesOf(scanned)
      /\ ~Stray <=> FilesOf(category) \subseteq FilesOf(coverage)
      /\ ~OtherUrl <=> \A r \in matched : RowOf(readme, r.file).url = r.url
      /\ ~Unfiled <=> \A r \in covered : r.file \in FilesOf(category)
      /\ ~NoPdf <=> \A r \in covered : r.file \in edition.pdfs
  OBVIOUS
<1> HIDE DEF Missing, Harmed, SameUrl, SameFile, Unscanned, Uncovering, Stray, Elsewhere,
             SameNumber, Unmatched, OtherUrl, Uncovered, Unfiled, NoPdf, PaperCount, CategoryCount
<1>3. Errors(edition) = {} <=>
        /\ ~Missing /\ ~Harmed /\ ~SameUrl /\ ~SameFile /\ ~Unscanned /\ ~Uncovering /\ ~Stray
        /\ ~Elsewhere /\ ~SameNumber /\ ~Unmatched /\ ~OtherUrl /\ ~Uncovered /\ ~Unfiled
        /\ ~NoPdf /\ ~PaperCount /\ ~CategoryCount
  BY <1>1
<1> QED
  BY <1>2, <1>3 DEF Elsewhere, SameNumber, Unmatched, Uncovered, PaperCount, CategoryCount

(* Tables that agree make one paper of every file they name. *)
LEMMA PapersOfAgreeing ==
  ASSUME NEW edition \in EditionsType, Agreeing(edition)
  PROVE  LET scanned == Rows(edition.scanned) IN
         /\ Numbered(scanned) = {r[2] : r \in scanned}
         /\ Cardinality(Papers(edition)) = Cardinality(FilesOf(scanned))
         /\ {p.category : p \in Papers(edition)} = Placed(edition)
<1> DEFINE scanned == Rows(edition.scanned)
           coverage == Rows(edition.coverage)
           named == FilesOf(scanned)
           PaperOf(row) == [id |-> row.number, file |-> row.file, url |-> row.url,
                            category |-> RowOf(coverage, row.file).category]
           paper == [f \in named |-> PaperOf(RowOf(scanned, f))]
<1>1. /\ \A t \in Tables : Readable(edition[t]) = Rows(edition[t])
      /\ \A t \in Tables : FilesOf(Rows(edition[t])) = named
      /\ ~Repeats(scanned, "number") /\ ~Repeats(scanned, "file")
  BY DEF Agreeing, Damaged, Tables
<1>2. IsFiniteSet(scanned) /\ \A r \in scanned : r[1] \in Nat
  BY TablesFinite DEF Tables
<1>3. Numbered(scanned) = {r[2] : r \in scanned}
  <2>1. \A q \in scanned : \A s \in scanned : s[2].number = q[2].number => q[1] <= s[1]
    BY <1>1, <1>2 DEF Repeats
  <2> QED BY <2>1 DEF Numbered
<1>4. /\ Readable(edition.scanned) = scanned
      /\ Readable(edition.coverage) = coverage
      /\ FilesOf(Readable(edition.readme)) = named
      /\ FilesOf(coverage) = named
  BY <1>1 DEF Tables
<1>5. Papers(edition) = {PaperOf(r[2]) : r \in scanned}
  <2>1. Papers(edition) = {PaperOf(row) : row \in {r \in Numbered(scanned) : r.file \in named}}
    BY <1>4 DEF Papers
  <2>2. {r \in Numbered(scanned) : r.file \in named} = Numbered(scanned)
    BY <1>3 DEF FilesOf
  <2> HIDE DEF PaperOf
  <2> QED BY <1>3, <2>1, <2>2
<1>6. \A r \in scanned : r[2].file \in named /\ RowOf(scanned, r[2].file) = r[2]
  BY <1>1, <1>2, RowOfOnly DEF FilesOf
<1>7. \A f \in named : \E r \in scanned : f = r[2].file
  BY DEF FilesOf
<1>8. Papers(edition) = {paper[f] : f \in named}
  <2>1. \A r \in scanned : paper[r[2].file] = PaperOf(r[2])
    BY <1>6
  <2> HIDE DEF paper, PaperOf
  <2> QED BY <1>5, <1>6, <1>7, <2>1
<1>9. \A f \in named : /\ paper[f].file = f
                       /\ paper[f].category = RowOf(coverage, f).category
  BY <1>6, <1>7
<1>10. IsFiniteSet(named)
  <2> DEFINE g == [r \in scanned |-> r[2].file]
  <2>1. g \in [scanned -> named] /\ named = {g[r] : r \in scanned}
    BY DEF FilesOf
  <2> HIDE DEF g, scanned, named
  <2> QED BY <1>2, <2>1, ImageCount
<1>11. Cardinality(Papers(edition)) = Cardinality(named)
  <2>1. paper \in [named -> Papers(edition)]
    BY <1>8
  <2>2. \A f, g \in named : paper[f] = paper[g] => f = g
    BY <1>9
  <2> HIDE DEF paper, named
  <2> QED BY <1>8, <1>10, <2>1, <2>2, ImageCount
<1>12. {p.category : p \in Papers(edition)} = Placed(edition)
  <2>1. Placed(edition) = {RowOf(coverage, f).category : f \in named}
    BY DEF Placed
  <2> HIDE DEF paper, named, coverage
  <2> QED BY <1>8, <1>9, <2>1
<1> QED BY <1>3, <1>11, <1>12

(* The conditions on sets of file names that load_corpus checks make       *)
(* undamaged tables agree line by line, and the other way round.           *)
LEMMA AgreeingSets ==
  ASSUME NEW edition \in EditionsType
  PROVE  LET scanned == Readable(edition.scanned)
             readme == Readable(edition.readme)
             coverage == Readable(edition.coverage)
             category == Readable(edition.category)
             matched == {r \in Numbered(scanned) : r.file \in FilesOf(readme)}
             covered == {r \in matched : r.file \in FilesOf(coverage)} IN
         Agreeing(edition) <=>
           /\ \A t \in Tables : edition[t] # NoTable /\ ~Damaged(edition[t])
           /\ \A rows \in {scanned, readme} : ~Repeats(rows, "url")
           /\ \A rows \in {scanned, readme, coverage, category} : ~Repeats(rows, "file")
           /\ FilesOf(readme) \subseteq FilesOf(scanned)
           /\ FilesOf(coverage) \subseteq FilesOf(scanned)
           /\ FilesOf(category) \subseteq FilesOf(coverage)
           /\ ~Disputed(category, coverage)
           /\ ~Repeats(scanned, "number")
           /\ matched = Numbered(scanned)
           /\ \A r \in matched : RowOf(readme, r.file).url = r.url
           /\ covered = matched
           /\ \A r \in covered : r.file \in FilesOf(category)
           /\ \A r \in covered : r.file \in edition.pdfs
<1> DEFINE
      scanned == Rows(edition.scanned)
      readme == Rows(edition.readme)
      coverage == Rows(edition.coverage)
      category == Rows(edition.category)
      matched == {r \in Numbered(scanned) : r.file \in FilesOf(readme)}
      covered == {r \in matched : r.file \in FilesOf(coverage)}
      Whole == \A t \in Tables : edition[t] # NoTable /\ ~Damaged(edition[t])
      Checked ==
        /\ \A rows \in {scanned, readme} : ~Repeats(rows, "url")
        /\ \A rows \in {scanned, readme, coverage, category} : ~Repeats(rows, "file")
        /\ FilesOf(readme) \subseteq FilesOf(scanned)
        /\ FilesOf(coverage) \subseteq FilesOf(scanned)
        /\ FilesOf(category) \subseteq FilesOf(coverage)
        /\ ~Disputed(category, coverage)
        /\ ~Repeats(scanned, "number")
        /\ matched = Numbered(scanned)
        /\ \A r \in matched : RowOf(readme, r.file).url = r.url
        /\ covered = matched
        /\ \A r \in covered : r.file \in FilesOf(category)
        /\ \A r \in covered : r.file \in edition.pdfs
<1>1. ASSUME Whole
      PROVE /\ Readable(edition.scanned) = scanned /\ Readable(edition.readme) = readme
            /\ Readable(edition.coverage) = coverage /\ Readable(edition.category) = category
  BY <1>1 DEF Damaged, Tables
<1>2. /\ \A r \in scanned : r[1] \in Nat
      /\ \A r \in readme : r[1] \in Nat
  BY TablesFinite DEF Tables
<1>3. ASSUME Whole, Checked PROVE Agreeing(edition)
  <2>1. Numbered(scanned) = {r[2] : r \in scanned}
    <3>1. \A q \in scanned : \A s \in scanned : s[2].number = q[2].number => q[1] <= s[1]
      BY <1>2, <1>3 DEF Repeats
    <3> QED BY <3>1 DEF Numbered
  <2>2. \A r \in scanned : r[2] \in matched /\ r[2] \in covered
    BY <1>3, <2>1
  <2>3. \A r \in scanned : /\ r[2].file \in FilesOf(readme) /\ r[2].file \in FilesOf(coverage)
                           /\ r[2].file \in FilesOf(category) /\ r[2].file \in edition.pdfs
                           /\ RowOf(readme, r[2].file).url = r[2].url
    BY <1>3, <2>2
  <2>4. \A r \in scanned : r[2].file \in FilesOf(scanned) /\ RowOf(scanned, r[2].file) = r[2]
    BY <1>2, <1>3, RowOfOnly DEF FilesOf
  <2>5. \A f \in FilesOf(scanned) : \E r \in scanned : f = r[2].file
    BY DEF FilesOf
  <2> HIDE DEF scanned, readme, coverage, category, matched, covered
  <2>6. /\ FilesOf(readme) = FilesOf(scanned) /\ FilesOf(coverage) = FilesOf(scanned)
        /\ FilesOf(category) = FilesOf(scanned) /\ FilesOf(scanned) \subseteq edition.pdfs
    BY <1>3, <2>3, <2>5
  <2>7. \A f \in FilesOf(scanned) :
          /\ RowOf(readme, f).url = RowOf(scanned, f).url
          /\ RowOf(coverage, f).category = RowOf(category, f).category
    <3>1. \A f \in FilesOf(scanned) : RowOf(readme, f).url = RowOf(scanned, f).url
      BY <2>3, <2>4, <2>5
    <3>2. \A f \in FilesOf(scanned) : RowOf(coverage, f).category = RowOf(category, f).category
      BY <1>3, <2>6 DEF Disputed
    <3> QED BY <3>1, <3>2
  <2>8. \A t \in Tables : FilesOf(Rows(edition[t])) = FilesOf(scanned)
    BY <2>6 DEF Tables, scanned, readme, coverage, category
  <2>9. \A t \in Tables : ~Repeats(Rows(edition[t]), "file")
    BY <1>3 DEF Tables, scanned, readme, coverage, category
  <2> QED BY <1>3, <2>6, <2>7, <2>8, <2>9 DEF Agreeing, scanned, readme, coverage, category
<1>4. ASSUME Agreeing(edition) PROVE Whole /\ Checked
  <2>1. Whole
    BY <1>4 DEF Agreeing
  <2>2. Numbered(scanned) = {r[2] : r \in scanned}
    BY <1>4, PapersOfAgreeing
  <2>3. /\ \A rows \in {scanned, readme, coverage, category} :
             ~Repeats(rows, "file") /\ FilesOf(rows) = FilesOf(scanned)
        /\ ~Repeats(scanned, "url") /\ ~Repeats(scanned, "number")
        /\ FilesOf(scanned) \subseteq edition.pdfs
        /\ \A f \in FilesOf(scanned) :
             /\ RowOf(readme, f).url = RowOf(scanned, f).url
             /\ RowOf(coverage, f).category = RowOf(category, f).category
    BY <1>4 DEF Agreeing, Tables
  <2>4. \A r \in scanned : r[2].file \in FilesOf(scanned) /\ RowOf(scanned, r[2].file) = r[2]
    BY <1>2, <2>3, RowOfOnly DEF FilesOf
  <2>5. \A r \in readme : r[2].file \in FilesOf(scanned) /\ RowOf(readme, r[2].file) = r[2]
    BY <1>2, <2>3, RowOfOnly DEF FilesOf
  <2>6. \A f \in FilesOf(scanned) : \E r \in scanned : f = r[2].file
    BY DEF FilesOf
  <2>7. ~Repeats(readme, "url")
    <3> SUFFICES ASSUME NEW r \in readme, NEW s \in readme, r[2].url = s[2].url
                 PROVE r = s
      BY DEF Repeats
    <3>1. PICK q \in scanned : q[2].file = r[2].file
      BY <2>5, <2>6
    <3>2. PICK o \in scanned : o[2].file = s[2].file
      BY <2>5, <2>6
    <3>3. q[2].url = r[2].url /\ o[2].url = s[2].url
      BY <2>3, <2>4, <2>5, <3>1, <3>2
    <3>4. q = o
      BY <2>3, <3>3 DEF Repeats
    <3> QED BY <2>3, <3>1, <3>2, <3>4 DEF Repeats
  <2>8. matched = Numbered(scanned) /\ covered = matched
    BY <2>2, <2>3, <2>4
  <2> HIDE DEF scanned, readme, coverage, category
  <2>9. \A r \in Numbered(scanned) : r.file \in FilesOf(scanned) /\ RowOf(scanned, r.file) = r
    BY <2>2, <2>4
  <2>10. ~Disputed(category, coverage)
    BY <2>3 DEF Disputed
  <2> HIDE DEF matched, covered
  <2> QED BY <2>1, <2>3, <2>7, <2>8, <2>9, <2>10
<1>5. Agreeing(edition) <=> Whole /\ Checked
  BY <1>3, <1>4
<1> QED BY <1>1, <1>5

(* load_corpus finds no error exactly in consistent tables, whatever they  *)
(* hold and however many papers and categories are expected (importer.py:  *)
(* load_corpus).                                                           *)
LEMMA CleanIsConsistent ==
  ASSUME NEW edition \in EditionsType
  PROVE  Errors(edition) = {} <=> Consistent(edition)
<1>1. Errors(edition) = {} <=>
        /\ Agreeing(edition)
        /\ Cardinality(Papers(edition)) = ExpectedPapers
        /\ Cardinality({p.category : p \in Papers(edition)}) = ExpectedCategories
  BY NoErrors, AgreeingSets
<1>2. Agreeing(edition) =>
        /\ Cardinality(Papers(edition)) = Cardinality(FilesOf(Rows(edition.scanned)))
        /\ {p.category : p \in Papers(edition)} = Placed(edition)
  BY PapersOfAgreeing
<1> QED BY <1>1, <1>2, ConsistentCounts

(* An import that reports no error has read tables that agree line by      *)
(* line, and one that reports an error has not (importer.py: load_corpus). *)
THEOREM CleanImport == Spec => []CleanImportIsConsistent
<1>1. TypeOK => CleanImportIsConsistent
  BY CleanIsConsistent DEF TypeOK, CleanImportIsConsistent
<1> QED BY <1>1, TypeCorrect, PTL
=============================================================================
