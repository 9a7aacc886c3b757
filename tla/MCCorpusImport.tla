---------------------------- MODULE MCCorpusImport ----------------------------
(***************************************************************************)
(* Values of CorpusImport's constants for the model checker: two papers in *)
(* two categories, and every edition of the tables that one line more, one *)
(* line less or one line changed in one or two of the four tables makes of *)
(* the consistent one.  Category z is another spelling of x, with the same *)
(* slug; the rows of URL n have no title.                                  *)
(***************************************************************************)
EXTENDS CorpusImport, TLC

CONSTANTS a, b, x, y, z, u, v, n

Row(number, file, url) == [number |-> number, file |-> file, url |-> url]
Source(file, url) == [file |-> file, url |-> url]
Place(file, category) == [file |-> file, category |-> category]

Base ==
  [scanned |-> <<Row(1, a, u), Row(2, b, v)>>,
   readme |-> <<Source(a, u), Source(b, v)>>,
   coverage |-> <<Place(a, x), Place(b, y)>>,
   category |-> <<Place(a, x), Place(b, y)>>,
   pdfs |-> {a, b}]

ScannedRows ==
  {Row(1, a, u), Row(1, b, v), Row(2, a, u), Row(2, b, u), Row(2, a, v), Row(2, b, n),
   Row(1, Unreadable, u), Blank}
Sources == {Source(a, u), Source(b, v), Source(b, u), Source(Unreadable, u), Blank}
Places == {Place(a, x), Place(b, y), Place(a, y), Place(b, x), Place(b, z),
           Place(Unreadable, x), Blank}

(* The tables one line away from a table. *)
Edited(table, rows) ==
  {table, NoTable, SubSeq(table, 1, 1), SubSeq(table, 2, 2)} \cup
  {Append(table, row) : row \in rows} \cup
  {[table EXCEPT ![i] = row] : i \in DOMAIN table, row \in rows}

OneEdit ==
  {[Base EXCEPT !.scanned = t] : t \in Edited(Base.scanned, ScannedRows)} \cup
  {[Base EXCEPT !.readme = t] : t \in Edited(Base.readme, Sources)} \cup
  {[Base EXCEPT !.coverage = t] : t \in Edited(Base.coverage, Places)} \cup
  {[Base EXCEPT !.category = t] : t \in Edited(Base.category, Places)} \cup
  {[Base EXCEPT !.pdfs = {a}]} \cup
  {[Base EXCEPT !.scanned = <<Row(1, a, n)>>]}

(* The tables put right; and tables that agree, with the papers renumbered,*)
(* one of them without a title, and two spellings of a category.           *)
SomeLater ==
  {Base,
   [scanned |-> <<Row(1, b, n), Row(2, a, u)>>,
    readme |-> <<Source(a, u), Source(b, n)>>,
    coverage |-> <<Place(a, x), Place(b, z)>>,
    category |-> <<Place(a, x), Place(b, z)>>,
    pdfs |-> {a, b}]}

Slug == [c \in Categories |-> IF c = y THEN y ELSE x]
Alphabet == [c \in Categories |-> CASE c = x -> 1 [] c = y -> 2 [] c = z -> 3]
=============================================================================
