----------------------------- MODULE CorpusImport -----------------------------
(***************************************************************************)
(* corpus/importer.py and corpus/study.py over state/store.py: the four    *)
(* Markdown tables that list the papers are edited by hand, an importer    *)
(* reads and reconciles them and writes papers and category leads, a       *)
(* student writes one extraction per paper.  Every upsert is a             *)
(* transaction and an action; a worker may die between two, and two may    *)
(* be at it with tables read at different times.                           *)
(*                                                                         *)
(* A table is the sequence of its lines.  A row's URL stands for URL and   *)
(* title, its file for the path of the PDF (all are in papers/).  Nobody   *)
(* checks the title when a row is read: some rows have none.  The leads    *)
(* are rows of the datasets table, under an id made of the category's      *)
(* slug, which several spellings of a category can share.                  *)
(***************************************************************************)
EXTENDS Naturals, Sequences, FiniteSets

CONSTANTS
  Workers,
  Editions,            \* the contents the files can have at first
  LaterEditions,       \* the contents they can be edited to
  Numbers,             \* row numbers of SCANNED_PAPERS.md
  Files, Urls, Categories,
  Untitled,            \* the URLs of the rows whose title is empty
  Slugs,               \* what _slug makes of categories
  SlugOf,              \* the slug of each category
  SortedAt,            \* each category's place in alphabetical order
  Blank,               \* a line that is no table row
  Unreadable,          \* the file of a row with a missing or damaged cell
  NoTable,             \* the file or its table header is missing
  Absent,              \* no such row in the store
  ExpectedPapers,      \* EXPECTED_PAPER_COUNT
  ExpectedCategories,  \* EXPECTED_CATEGORY_COUNT
  MaxEdits, MaxCrashes \* bounds on the edits and on the crashes

Tables == {"scanned", "readme", "coverage", "category"}

ASSUME BoundsAssumption == MaxEdits \in Nat /\ MaxCrashes \in Nat

Lines(rows) == Seq(rows \cup {Blank}) \cup {NoTable}
EditionsType ==
  [scanned : Lines([number : Numbers, file : Files \cup {Unreadable}, url : Urls]),
   readme : Lines([file : Files \cup {Unreadable}, url : Urls]),
   coverage : Lines([file : Files \cup {Unreadable}, category : Categories]),
   category : Lines([file : Files \cup {Unreadable}, category : Categories]),
   pdfs : SUBSET Files]

ASSUME EditionsAssumption == Editions \cup LaterEditions \subseteq EditionsType
ASSUME TitleAssumption == Untitled \subseteq Urls
ASSUME SlugAssumption == SlugOf \in [Categories -> Slugs]
ASSUME OrderAssumption ==
  /\ SortedAt \in [Categories -> Nat]
  /\ \A c, d \in Categories : SortedAt[c] = SortedAt[d] => c = d
ASSUME AbsentAssumption ==
  /\ Absent \notin [id : Numbers, file : Files, url : Urls, category : Categories]
  /\ Absent \notin [category : Categories, papers : SUBSET Numbers]
  /\ Unreadable \notin Files

-----------------------------------------------------------------------------
(* Reading the tables. *)

(* _parse_markdown_table: the table ends at the first line that is no row. *)
(* A row goes with its line.                                               *)
Rows(table) ==
  IF table = NoTable THEN {}
  ELSE {<<i, table[i]>> : i \in {k \in DOMAIN table : \A j \in 1..k : table[j] # Blank}}

(* The loaders leave out what they cannot read. *)
Readable(table) == {r \in Rows(table) : r[2].file # Unreadable}
Damaged(table) == Readable(table) # Rows(table)

FilesOf(rows) == {r[2].file : r \in rows}

(* _rows_by_filename and the assignments: the first row of a file counts. *)
RowOf(rows, file) ==
  (CHOOSE r \in rows : r[2].file = file /\ \A s \in rows : s[2].file = file => r[1] <= s[1])[2]

Repeats(rows, field) ==
  \E r, s \in rows : r # s /\ r[2][field] = s[2][field]

(* The rows of SCANNED_PAPERS.md that load_corpus goes on with: the first  *)
(* with their number.                                                      *)
Numbered(scanned) ==
  {r[2] : r \in {q \in scanned : \A s \in scanned : s[2].number = q[2].number => q[1] <= s[1]}}

(* load_corpus: a row becomes a paper if the README and the coverage table *)
(* know its file.                                                          *)
Papers(edition) ==
  LET coverage == Readable(edition.coverage) IN
  {[id |-> row.number, file |-> row.file, url |-> row.url,
    category |-> RowOf(coverage, row.file).category] :
     row \in {r \in Numbered(Readable(edition.scanned)) :
                r.file \in FilesOf(Readable(edition.readme)) \cap FilesOf(coverage)}}

MutDisputedNever(category, coverage) == FALSE
(* A file that its category file and the coverage table put elsewhere. *)
Disputed(category, coverage) ==
  \E f \in FilesOf(category) \cap FilesOf(coverage) :
    RowOf(category, f).category # RowOf(coverage, f).category

(* Every error load_corpus records; it goes on after each of them. *)
Errors(edition) ==
  LET scanned == Readable(edition.scanned)
      readme == Readable(edition.readme)
      coverage == Readable(edition.coverage)
      category == Readable(edition.category)
      listed == Papers(edition)
      matched == {r \in Numbered(scanned) : r.file \in FilesOf(readme)}
      covered == {r \in matched : r.file \in FilesOf(coverage)}
      When(kind, condition) == IF condition THEN {kind} ELSE {} IN
  UNION
    {When("table is missing", \E t \in Tables : edition[t] = NoTable),
     When("row is damaged", \E t \in Tables : Damaged(edition[t])),
     When("duplicate source",
       \E rows \in {scanned, readme} : Repeats(rows, "url")),
     When("duplicate file",
       \E rows \in {scanned, readme, coverage, category} : Repeats(rows, "file")),
     When("README row without scanned row", FilesOf(readme) \ FilesOf(scanned) # {}),
     When("coverage without scanned row", FilesOf(coverage) \ FilesOf(scanned) # {}),
     When("category file without coverage", FilesOf(category) \ FilesOf(coverage) # {}),
     When("category file and coverage differ", Disputed(category, coverage)),
     When("duplicate paper id", Repeats(scanned, "number")),
     When("scanned row without README row", matched # Numbered(scanned)),
     When("README and scanned row differ",
       \E r \in matched : RowOf(readme, r.file).url # r.url),
     When("paper without category", covered # matched),
     When("paper without category file",
       \E r \in covered : r.file \notin FilesOf(category)),
     When("PDF is missing", \E r \in covered : r.file \notin edition.pdfs),
     When("paper count", Cardinality(listed) # ExpectedPapers),
     When("category count", Cardinality({p.category : p \in listed}) # ExpectedCategories)}

MutLeadsUngrouped(listed) ==
  [c \in {p.category : p \in listed} |->
    [category |-> c, papers |-> {p.id : p \in listed}]]
(* _dataset_leads_from_papers: a lead for each category, naming its papers. *)
Leads(listed) ==
  [c \in {p.category : p \in listed} |->
    [category |-> c, papers |-> {p.id : p \in {q \in listed : q.category = c}}]]

(* build_paper_studies: a paper without a title makes no valid record; the *)
(* ValueError is noted and the paper left out.                             *)
Studies(listed) == {p \in listed : p.url \notin Untitled}

-----------------------------------------------------------------------------
VARIABLES
  files,        \* the edition of the tables and PDFs in the repository
  papers,       \* the papers table
  leads,        \* the datasets table: the lead that stands under each slug
  extractions,  \* the paper_extractions table: the paper each one was made of
  pc,           \* where each worker is
  loaded,       \* the papers it has loaded
  todo,         \* the papers or categories it has still to write
  edits, crashes,
  first,        \* history: what an id stood for when it was first loaded
  moved,        \* history: the ids that a later load found to stand for
                \* another paper or category
  whole         \* history: the workers whose import, under way or last done,
                \* writes all of the present tables, while no worker has
                \* held others

store == <<papers, leads, extractions>>
worker == <<pc, loaded, todo>>
bounds == <<edits, crashes>>
history == <<first, moved>>
vars == <<files, store, worker, bounds, history, whole>>

Init ==
  /\ files \in Editions
  /\ papers = [n \in Numbers |-> Absent]
  /\ leads = [s \in Slugs |-> Absent]
  /\ extractions = [n \in Numbers |-> Absent]
  /\ pc = [w \in Workers |-> "idle"]
  /\ loaded = [w \in Workers |-> {}]
  /\ todo = [w \in Workers |-> {}]
  /\ edits = 0
  /\ crashes = 0
  /\ first = [n \in Numbers |-> Absent]
  /\ moved = {}
  /\ whole = {}

Goto(w, place, work) ==
  /\ pc' = [pc EXCEPT ![w] = place]
  /\ todo' = [todo EXCEPT ![w] = work]

Edit(edition) ==
  /\ edits < MaxEdits
  /\ edition # files
  /\ files' = edition
  /\ edits' = edits + 1
  /\ whole' = {}
  /\ UNCHANGED <<store, worker, crashes, history>>

(* load_corpus; nobody asks whether the result is ok.  The worker writes   *)
(* the corpus or, with an earlier one in the store, only the studies.      *)
Load(w) ==
  LET found == Papers(files) IN
  /\ pc[w] = "idle"
  /\ found # {}
  /\ loaded' = [loaded EXCEPT ![w] = found]
  /\ \E place \in {"papers", "studies"} :
       /\ place = "papers" \/ Studies(found) # {}
       /\ Goto(w, place, IF place = "papers" THEN found ELSE Studies(found))
       /\ whole' = IF place = "papers" /\ \A v \in Workers \ {w} : loaded[v] \in {{}, found}
                   THEN whole \cup {w} ELSE whole \ {w}
  /\ first' = [n \in Numbers |->
       IF first[n] # Absent \/ n \notin {p.id : p \in found} THEN first[n]
       ELSE CHOOSE p \in found : p.id = n]
  /\ moved' = moved \cup
       {p.id : p \in {q \in found : first[q.id] \notin {Absent, q}}}
  /\ UNCHANGED <<files, store, bounds>>

(* write_corpus_to_store: the papers first, then the leads. *)
MutWritePaperOnce(w) ==
  /\ pc[w] = "papers"
  /\ \E p \in todo[w] :
       /\ papers' = IF papers[p.id] = Absent THEN [papers EXCEPT ![p.id] = p] ELSE papers
       /\ IF todo[w] = {p} THEN Goto(w, "leads", DOMAIN Leads(loaded[w]))
          ELSE Goto(w, "papers", todo[w] \ {p})
  /\ UNCHANGED <<files, leads, extractions, loaded, bounds, history, whole>>
MutWritePaperAfterLeads(w) ==
  /\ pc[w] = "papers"
  /\ \E p \in todo[w] :
       /\ papers' = [papers EXCEPT ![p.id] = p]
       /\ Goto(w, "leads", DOMAIN Leads(loaded[w]))
  /\ UNCHANGED <<files, leads, extractions, loaded, bounds, history, whole>>
MutWritePaperReplaces(w) ==
  /\ pc[w] = "papers"
  /\ \E p \in todo[w] :
       /\ papers' = [papers EXCEPT ![p.id] = p]
       /\ extractions' = [extractions EXCEPT ![p.id] = Absent]
       /\ IF todo[w] = {p} THEN Goto(w, "leads", DOMAIN Leads(loaded[w]))
          ELSE Goto(w, "papers", todo[w] \ {p})
  /\ UNCHANGED <<files, leads, loaded, bounds, history, whole>>
WritePaper(w) ==
  /\ pc[w] = "papers"
  /\ \E p \in todo[w] :
       /\ papers' = [papers EXCEPT ![p.id] = p]
       /\ IF todo[w] = {p} THEN Goto(w, "leads", DOMAIN Leads(loaded[w]))
          ELSE Goto(w, "papers", todo[w] \ {p})
  /\ UNCHANGED <<files, leads, extractions, loaded, bounds, history, whole>>

MutForgetKeepsLoaded(w) ==
  /\ Goto(w, "idle", {})
  /\ UNCHANGED loaded
Forget(w) ==
  /\ Goto(w, "idle", {})
  /\ loaded' = [loaded EXCEPT ![w] = {}]

(* On to the studies, if there is any to write. *)
Study(w) ==
  IF Studies(loaded[w]) = {} THEN Forget(w)
  ELSE Goto(w, "studies", Studies(loaded[w])) /\ UNCHANGED loaded

(* The leads in alphabetical order of their categories, each upserted over *)
(* whatever stands under its slug.                                         *)
MutWriteLeadOnce(w) ==
  /\ pc[w] = "leads"
  /\ \E c \in todo[w] :
       /\ \A d \in todo[w] : SortedAt[c] <= SortedAt[d]
       /\ leads' = IF leads[SlugOf[c]] = Absent
                   THEN [leads EXCEPT ![SlugOf[c]] = Leads(loaded[w])[c]] ELSE leads
       /\ IF todo[w] = {c} THEN Study(w)
          ELSE Goto(w, "leads", todo[w] \ {c}) /\ UNCHANGED loaded
  /\ UNCHANGED <<files, papers, extractions, bounds, history, whole>>
WriteLead(w) ==
  /\ pc[w] = "leads"
  /\ \E c \in todo[w] :
       /\ \A d \in todo[w] : SortedAt[c] <= SortedAt[d]
       /\ leads' = [leads EXCEPT ![SlugOf[c]] = Leads(loaded[w])[c]]
       /\ IF todo[w] = {c} THEN Study(w)
          ELSE Goto(w, "leads", todo[w] \ {c}) /\ UNCHANGED loaded
  /\ UNCHANGED <<files, papers, extractions, bounds, history, whole>>

(* write_paper_studies_to_store: what an extraction holds is computed from *)
(* the paper.  The foreign key asks only for a paper of that id.           *)
WriteExtraction(w) ==
  /\ pc[w] = "studies"
  /\ \E p \in todo[w] :
       /\ papers[p.id] # Absent
       /\ extractions' = [extractions EXCEPT ![p.id] = p]
       /\ IF todo[w] = {p} THEN Forget(w)
          ELSE Goto(w, "studies", todo[w] \ {p}) /\ UNCHANGED loaded
  /\ UNCHANGED <<files, papers, leads, bounds, history, whole>>

(* IntegrityError: the foreign key fails and the call ends. *)
ExtractionRaises(w) ==
  /\ pc[w] = "studies"
  /\ \E p \in todo[w] : papers[p.id] = Absent
  /\ Forget(w)
  /\ whole' = whole \ {w}
  /\ UNCHANGED <<files, store, bounds, history>>

Crash(w) ==
  /\ pc[w] # "idle"
  /\ crashes < MaxCrashes
  /\ crashes' = crashes + 1
  /\ Forget(w)
  /\ whole' = whole \ {w}
  /\ UNCHANGED <<files, store, edits, history>>

Step(w) ==
  \/ WritePaper(w)
  \/ WriteLead(w)
  \/ WriteExtraction(w)
  \/ ExtractionRaises(w)

Next ==
  \/ \E edition \in LaterEditions : Edit(edition)
  \/ \E w \in Workers : Load(w) \/ Step(w) \/ Crash(w)

Spec == Init /\ [][Next]_vars

(* A worker that began goes on, and whole imports are run again and again. *)
Fairness ==
  \A w \in Workers :
    /\ WF_vars(Step(w))
    /\ SF_vars(Load(w) /\ pc'[w] = "papers")

FairSpec == Spec /\ Fairness

-----------------------------------------------------------------------------
(* Properties *)

PaperRecords == [id : Numbers, file : Files, url : Urls, category : Categories]
LeadRecords == [category : Categories, papers : SUBSET Numbers]

(* The types of the variables; what a worker has still to write comes from *)
(* what it has loaded.                                                     *)
TypeOK ==
  /\ files \in EditionsType
  /\ papers \in [Numbers -> PaperRecords \cup {Absent}]
  /\ leads \in [Slugs -> LeadRecords \cup {Absent}]
  /\ extractions \in [Numbers -> PaperRecords \cup {Absent}]
  /\ pc \in [Workers -> {"idle", "papers", "leads", "studies"}]
  /\ loaded \in [Workers -> SUBSET PaperRecords]
  /\ todo \in [Workers -> SUBSET (PaperRecords \cup Categories)]
  /\ edits \in Nat /\ crashes \in Nat
  /\ first \in [Numbers -> PaperRecords \cup {Absent}]
  /\ moved \subseteq Numbers
  /\ whole \subseteq Workers
  /\ \A w \in Workers :
       /\ (pc[w] = "idle") <=> (loaded[w] = {})
       /\ (pc[w] = "idle") <=> (todo[w] = {})
       /\ todo[w] \subseteq IF pc[w] = "leads" THEN DOMAIN Leads(loaded[w])
                            ELSE IF pc[w] = "studies" THEN Studies(loaded[w])
                            ELSE loaded[w]

(* The tables, read up to the first line that is no row, agree: the same   *)
(* files once each, with the same source and category everywhere.          *)
Consistent(edition) ==
  /\ \A t \in Tables : edition[t] # NoTable /\ ~Damaged(edition[t])
  /\ LET scanned == Rows(edition.scanned)
         named == FilesOf(scanned)
         All(field) == {r[2][field] : r \in scanned} IN
     /\ \A t \in Tables :
          /\ Cardinality(Rows(edition[t])) = ExpectedPapers
          /\ FilesOf(Rows(edition[t])) = named
     /\ \A field \in {"file", "number", "url"} : Cardinality(All(field)) = ExpectedPapers
     /\ named \subseteq edition.pdfs
     /\ \A f \in named :
          /\ RowOf(Rows(edition.readme), f).url = RowOf(scanned, f).url
          /\ RowOf(Rows(edition.coverage), f).category = RowOf(Rows(edition.category), f).category
     /\ Cardinality({RowOf(Rows(edition.coverage), f).category : f \in named}) = ExpectedCategories

(* load_corpus reports no error exactly when the tables agree line by      *)
(* line, although it checks them by sets of file names and goes on after   *)
(* each error (importer.py: load_corpus).  Lines after the first that is   *)
(* no row count for neither: a table cut off there shows only by what the  *)
(* other tables or the expected numbers miss.                              *)
CleanImportIsConsistent == Errors(files) = {} <=> Consistent(files)

(* Whatever was edited, interrupted or overtaken, a category lead and an   *)
(* extraction name only papers that are in the store                       *)
(* (write_corpus_to_store writes the papers first; no foreign key guards   *)
(* the leads).                                                             *)
NoOrphanRows ==
  \A n \in Numbers :
    (extractions[n] # Absent \/ \E s \in Slugs : leads[s] # Absent /\ n \in leads[s].papers)
      => papers[n] # Absent

(* Ids are row numbers, so an edit can make an id stand for another paper. *)
(* As long as it has not, all rows of the store agree about it: the paper, *)
(* its extraction, and the one lead that may name it.                      *)
RowsAgreeUnlessMoved ==
  \A n \in Numbers \ moved :
    /\ papers[n] \in {Absent, first[n]}
    /\ extractions[n] \in {Absent, first[n]}
    /\ \A s \in Slugs : leads[s] # Absent /\ n \in leads[s].papers =>
         leads[s].category = first[n].category /\ s = SlugOf[first[n].category]

(* The store holds all that an import of the present tables leaves: every  *)
(* paper, the extraction of every paper with a title, and under every slug *)
(* the lead of a category with that slug; of the categories that share one *)
(* only the last written has its lead (importer.py:715).                   *)
UpToDate ==
  LET listed == Papers(files) IN
  /\ \A p \in listed : papers[p.id] = p
  /\ \A p \in Studies(listed) : extractions[p.id] = p
  /\ \A c \in DOMAIN Leads(listed) :
       \E d \in DOMAIN Leads(listed) :
         SlugOf[d] = SlugOf[c] /\ leads[SlugOf[c]] = Leads(listed)[d]

(* An import that ran to its end while no other tables were in any         *)
(* worker's hands has brought the store up to date, whatever older         *)
(* editions had left there and whoever else wrote the same tables or died  *)
(* at it (importer.py and study.py: write_corpus_to_store,                 *)
(* write_paper_studies_to_store).                                          *)
FinishedImportIsUpToDate ==
  (\E w \in whole : pc[w] = "idle") => UpToDate

(* Importing is idempotent: a store that is up to date stays so while      *)
(* workers with the present tables write it all again, one upsert after    *)
(* the other, and die in between.  Only an edit makes it stale.            *)
Settled == UpToDate /\ \A w \in Workers : loaded[w] \in {{}, Papers(files)}
ReimportKeepsUpToDate ==
  [][Settled /\ files' = files => Settled']_vars

(* Once the files are left alone, repeated imports bring every row of a    *)
(* listed paper and category up to date, in spite of crashes and of a      *)
(* worker with old tables.                                                 *)
StoreConverges == <>[]UpToDate
=============================================================================
