-------------------------- MODULE CanvasCrdt_proofs --------------------------
(***************************************************************************)
(* Lemmas about the metadata order and the merge of one cell, for every    *)
(* set of ids and authors.                                                 *)
(***************************************************************************)
EXTENDS CanvasCrdt, TLAPS

-----------------------------------------------------------------------------
(* The order of the metadata is total and the merge of a cell is typed.    *)

LEMMA MetaFields ==
  ASSUME NEW a \in MaybeMeta
  PROVE  /\ a.clock \in Int /\ a.author \in Int
         /\ a.clock >= -1
         /\ a.clock = -1 <=> a = Absent
         /\ a = [clock |-> a.clock, author |-> a.author]
<1>1. CASE a = Absent
  BY <1>1 DEF Absent
<1>2. CASE a \in Meta
  <2>1. a.clock \in Nat /\ a.author \in Nat
    BY <1>2, AuthorsAssumption DEF Meta
  <2>2. a = [clock |-> a.clock, author |-> a.author]
    BY <1>2 DEF Meta
  <2>3. a # Absent
    BY <2>1 DEF Absent
  <2> QED BY <2>1, <2>2, <2>3
<1> QED BY <1>1, <1>2 DEF MaybeMeta

LEMMA AbsentIn == Absent \in MaybeMeta /\ Absent.clock = -1 /\ Absent.author = 0
  BY DEF MaybeMeta, Absent

LEMMA AbsentBelow == \A a \in MaybeMeta : AtMost(Absent, a)
<1> TAKE a \in MaybeMeta
<1>1. CASE a = Absent
  BY <1>1, AbsentIn DEF AtMost
<1>2. CASE a # Absent
  BY <1>2, MetaFields, AbsentIn DEF AtMost
<1> QED BY <1>1, <1>2

LEMMA AtMostReflexive == \A a \in MaybeMeta : AtMost(a, a)
  BY MetaFields DEF AtMost

LEMMA AtMostTotal == \A a, b \in MaybeMeta : AtMost(a, b) \/ AtMost(b, a)
  BY MetaFields DEF AtMost

LEMMA AtMostTransitive ==
  \A a, b, c \in MaybeMeta : AtMost(a, b) /\ AtMost(b, c) => AtMost(a, c)
  BY MetaFields DEF AtMost

LEMMA AtMostAntisymmetric ==
  \A a, b \in MaybeMeta : AtMost(a, b) /\ AtMost(b, a) => a = b
<1> TAKE a, b \in MaybeMeta
<1> HAVE AtMost(a, b) /\ AtMost(b, a)
<1>1. a.clock = b.clock /\ a.author = b.author
  BY MetaFields DEF AtMost
<1> QED BY <1>1, MetaFields

LEMMA AtMostAbsent == \A a \in MaybeMeta : AtMost(a, Absent) => a = Absent
  BY AbsentBelow, AbsentIn, AtMostAntisymmetric

LEMMA MergeCellType ==
  \A c \in Cell, d, w \in MaybeMeta : MergeCell(c, d, w) \in Cell
  BY AbsentIn DEF MergeCell, WriteCell, DeleteCell, Cell

LEMMA MergeType ==
  ASSUME NEW s \in Entries, NEW t \in Entries, NEW d \in Entries, NEW w \in Entries
  PROVE  MergedShapes(s, t, d, w) \in Entries /\ MergedTombs(s, t, d, w) \in Entries
<1>1. \A i \in Ids : MergedCell(s, t, d, w, i) \in Cell
  <2>1. \A i \in Ids : [shape |-> s[i], tomb |-> t[i]] \in Cell
    BY DEF Entries, Cell
  <2> QED BY <2>1, MergeCellType DEF MergedCell, Entries
<1>2. \A c \in Cell : c.shape \in MaybeMeta /\ c.tomb \in MaybeMeta
  BY DEF Cell
<1> QED BY <1>1, <1>2 DEF MergedShapes, MergedTombs, Entries

-----------------------------------------------------------------------------
(* What a merge makes of one cell.                                         *)

Latest(c) == IF c.shape # Absent THEN c.shape ELSE c.tomb
Single(c) == c.shape = Absent \/ c.tomb = Absent

LEMMA DeleteCellFacts ==
  ASSUME NEW c \in Cell, NEW d \in MaybeMeta, Single(c)
  PROVE  LET n == DeleteCell(c, d) IN
         /\ n \in Cell /\ Single(n)
         /\ AtMost(Latest(c), Latest(n)) /\ AtMost(d, Latest(n))
         /\ d # Absent => n.shape # d \/ c.shape = d
         /\ n.shape \in {c.shape, Absent} /\ n.tomb \in {c.tomb, d}
         /\ n.shape # c.shape => d # Absent /\ n.tomb = d /\ AtMost(c.shape, d)
<1> DEFINE n == DeleteCell(c, d)
<1>1. c.shape \in MaybeMeta /\ c.tomb \in MaybeMeta /\ Latest(c) \in MaybeMeta
  BY DEF Cell, Latest
<1>2. CASE d # Absent /\ AtMost(Latest(c), d)
  <2>1. n = [shape |-> Absent, tomb |-> d]
    BY <1>2 DEF DeleteCell, Latest
  <2>2. n \in Cell /\ Single(n) /\ Latest(n) = d
    BY <2>1, <1>2, AbsentIn DEF Cell, Single, Latest
  <2>3. n.shape # c.shape => AtMost(c.shape, d)
    BY <2>1, <1>2 DEF Latest
  <2> QED BY <2>1, <2>2, <2>3, <1>1, <1>2, AtMostReflexive
<1>3. CASE ~(d # Absent /\ AtMost(Latest(c), d))
  <2>1. n = c
    BY <1>3 DEF DeleteCell, Latest
  <2>2. AtMost(d, Latest(c))
    BY <1>3, <1>1, AtMostTotal, AbsentBelow
  <2> QED BY <2>1, <2>2, <1>1, AtMostReflexive
<1> QED BY <1>2, <1>3

LEMMA WriteCellFacts ==
  ASSUME NEW c \in Cell, NEW w \in MaybeMeta, Single(c)
  PROVE  LET n == WriteCell(c, w) IN
         /\ n \in Cell /\ Single(n)
         /\ AtMost(Latest(c), Latest(n)) /\ AtMost(w, Latest(n))
         /\ \/ n = c
            \/ w # Absent /\ n.shape = w /\ n.tomb = Absent
               /\ AtMost(c.shape, w) /\ ~AtMost(w, c.tomb)
<1> DEFINE n == WriteCell(c, w)
<1>1. c.shape \in MaybeMeta /\ c.tomb \in MaybeMeta /\ Latest(c) \in MaybeMeta
  BY DEF Cell, Latest
<1>2. CASE w # Absent /\ ~AtMost(w, c.tomb) /\ AtMost(c.shape, w)
  <2>1. n = [shape |-> w, tomb |-> Absent]
    BY <1>2 DEF WriteCell
  <2>2. n \in Cell /\ Single(n) /\ Latest(n) = w
    BY <2>1, <1>2, AbsentIn DEF Cell, Single, Latest
  <2>3. AtMost(Latest(c), w)
    BY <1>1, <1>2, AtMostTotal DEF Latest
  <2> QED BY <2>1, <2>2, <2>3, <1>1, <1>2, AtMostReflexive
<1>3. CASE ~(w # Absent /\ ~AtMost(w, c.tomb) /\ AtMost(c.shape, w))
  <2>1. n = c
    BY <1>3 DEF WriteCell
  <2>2. AtMost(w, Latest(c))
    <3>1. CASE w = Absent
      BY <3>1, <1>1, AbsentBelow
    <3>2. CASE AtMost(w, c.tomb)
      <4>1. CASE c.shape = Absent
        BY <3>2, <4>1 DEF Latest
      <4>2. CASE c.tomb = Absent
        BY <3>2, <4>2, <1>1, AtMostAbsent, AbsentBelow
      <4> QED BY <4>1, <4>2 DEF Single
    <3>3. CASE ~AtMost(w, c.tomb) /\ ~AtMost(c.shape, w)
      <4>1. AtMost(w, c.shape) /\ c.shape # Absent
        BY <3>3, <1>1, AtMostTotal, AbsentBelow
      <4> QED BY <4>1 DEF Latest
    <3> QED BY <1>3, <3>1, <3>2, <3>3
  <2> QED BY <2>1, <2>2, <1>1, AtMostReflexive
<1> QED BY <1>2, <1>3

(* A merged cell knows everything the cell, the deletion and the write did, *)
(* and shows a shape only if no deletion it knows is at least as new.       *)
LEMMA MergeCellFacts ==
  ASSUME NEW c \in Cell, NEW d \in MaybeMeta, NEW w \in MaybeMeta, Single(c)
  PROVE  LET n == MergeCell(c, d, w) IN
         /\ n \in Cell /\ Single(n)
         /\ AtMost(Latest(c), Latest(n))
         /\ AtMost(d, Latest(n)) /\ AtMost(w, Latest(n))
         /\ n.shape \in {c.shape, w, Absent} /\ n.tomb \in {c.tomb, d, Absent}
<1> DEFINE k == DeleteCell(c, d)
           n == MergeCell(c, d, w)
<1>1. n = WriteCell(k, w)
  BY DEF MergeCell
<1>2. /\ k \in Cell /\ Single(k)
      /\ AtMost(Latest(c), Latest(k)) /\ AtMost(d, Latest(k))
      /\ k.shape \in {c.shape, Absent} /\ k.tomb \in {c.tomb, d}
  BY DeleteCellFacts
<1>3. /\ n \in Cell /\ Single(n)
      /\ AtMost(Latest(k), Latest(n)) /\ AtMost(w, Latest(n))
      /\ n.shape \in {k.shape, w} /\ n.tomb \in {k.tomb, Absent}
  BY <1>1, <1>2, WriteCellFacts
<1>4. \A x \in Cell : Latest(x) \in MaybeMeta
  BY DEF Cell, Latest
<1>5. AtMost(Latest(c), Latest(n)) /\ AtMost(d, Latest(n))
  BY <1>2, <1>3, <1>4, AtMostTransitive
<1> HIDE DEF k, n
<1> QED BY <1>2, <1>3, <1>5 DEF n

(* A deletion x the cell knew, and the one it merges, never match its shape. *)
LEMMA MergeCellDeleted ==
  ASSUME NEW c \in Cell, NEW d \in MaybeMeta, NEW w \in MaybeMeta, Single(c),
         NEW x \in MaybeMeta, x # Absent,
         x = d \/ (AtMost(x, Latest(c)) /\ c.shape # x)
  PROVE  MergeCell(c, d, w).shape # x
<1> DEFINE k == DeleteCell(c, d)
           n == MergeCell(c, d, w)
<1>1. n = WriteCell(k, w)
  BY DEF MergeCell
<1>2. k \in Cell /\ Single(k) /\ Latest(k) \in MaybeMeta /\ Latest(c) \in MaybeMeta
      /\ k.shape \in MaybeMeta /\ k.tomb \in MaybeMeta
  BY DeleteCellFacts DEF Cell, Latest
<1>3. AtMost(x, Latest(k)) /\ k.shape # x
  <2>1. CASE x = d
    <3>1. CASE AtMost(Latest(c), d)
      <4>1. k = [shape |-> Absent, tomb |-> d]
        BY <2>1, <3>1 DEF DeleteCell, Latest
      <4> QED BY <4>1, <2>1, AtMostReflexive DEF Latest
    <3>2. CASE ~AtMost(Latest(c), d)
      <4>1. k = c
        BY <3>2 DEF DeleteCell, Latest
      <4>2. AtMost(d, Latest(c)) /\ Latest(c) # d
        BY <3>2, <1>2, AtMostTotal, AtMostReflexive
      <4> QED BY <4>1, <4>2, <2>1 DEF Latest
    <3> QED BY <3>1, <3>2
  <2>2. CASE AtMost(x, Latest(c)) /\ c.shape # x
    <3>1. k.shape \in {c.shape, Absent} /\ AtMost(Latest(c), Latest(k))
      BY DeleteCellFacts
    <3> QED BY <3>1, <2>2, <1>2, AtMostTransitive
  <2> QED BY <2>1, <2>2
<1>4. CASE n = k
  BY <1>3, <1>4
<1>5. CASE n.shape = w /\ AtMost(k.shape, w) /\ ~AtMost(w, k.tomb)
  <2> SUFFICES ASSUME w = x PROVE FALSE
    BY <1>5
  <2>1. CASE k.shape = Absent
    BY <2>1, <1>3, <1>5 DEF Latest
  <2>2. CASE k.shape # Absent
    BY <2>2, <1>2, <1>3, <1>5, AtMostAntisymmetric DEF Latest
  <2> QED BY <2>1, <2>2
<1> QED BY <1>1, <1>2, <1>4, <1>5, WriteCellFacts

=============================================================================
