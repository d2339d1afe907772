---------------------------- MODULE Canvas_proofs ----------------------------
(***************************************************************************)
(* What a canvas keeps to.  Among replicas (CrdtReplicas), for any ids,    *)
(* authors, replicas and messages: replicas that merged the same snapshots *)
(* hold the same canvas, and a deletion is never undone by an older write. *)
(* The inductive invariant is CellInv: a cell is the newest of everything  *)
(* the replica merged for its id.  Under the hands of one user             *)
(* (SheetEdits), for any sheets, points and size of a pixel: connectors    *)
(* stay attached and labels ride.  The inductive invariant is EditInv: the *)
(* sheet is as normalizeShapes leaves it, every bound end has its shape,   *)
(* and what a gesture holds is a shape that is or was on the sheet.        *)
(***************************************************************************)
EXTENDS CrdtReplicas, CanvasCrdt_proofs, SheetEdits, SequenceTheorems, FiniteSetTheorems,
        WellFoundedInduction, NaturalsInduction

-----------------------------------------------------------------------------
(* Replicas that merge.                                                    *)

\* Merging well-formed snapshots leaves well-formed shapes and tombstones
\* (mergeCanvasCrdtSnapshot).
THEOREM TypeCorrect == Spec => []TypeOK
<1>1. Init => TypeOK
  BY AbsentIn DEF Init, TypeOK, Entries, NoEntries
<1>2. TypeOK /\ [Next]_vars => TypeOK'
  <2> SUFFICES ASSUME TypeOK, [Next]_vars PROVE TypeOK'
    OBVIOUS
  <2>1. ASSUME NEW r \in Replicas, NEW m \in Messages, MergeMessage(r, m)
        PROVE  TypeOK'
    <3>1. shapes[r] \in Entries /\ tombs[r] \in Entries
      BY DEF TypeOK
    <3>2. m.dels \in Entries /\ m.writes \in Entries
      BY MessagesAssumption
    <3>3. /\ MergedShapes(shapes[r], tombs[r], m.dels, m.writes) \in Entries
          /\ MergedTombs(shapes[r], tombs[r], m.dels, m.writes) \in Entries
      BY <3>1, <3>2, MergeType
    <3> QED BY <2>1, <3>3 DEF MergeMessage, TypeOK
  <2>2. CASE UNCHANGED vars
    BY <2>2 DEF vars, TypeOK
  <2> QED BY <2>1, <2>2 DEF Next
<1> QED BY <1>1, <1>2, PTL DEF Spec

-----------------------------------------------------------------------------
CellOf(r, i) == [shape |-> shapes[r][i], tomb |-> tombs[r][i]]

LEMMA CellOfFacts ==
  ASSUME TypeOK, NEW r \in Replicas, NEW i \in Ids
  PROVE  /\ CellOf(r, i) \in Cell
         /\ CellOf(r, i).shape = shapes[r][i] /\ CellOf(r, i).tomb = tombs[r][i]
         /\ Latest(CellOf(r, i)) = Live(r, i)
         /\ Single(CellOf(r, i)) <=> OneOfTwo(r, i)
  BY DEF TypeOK, Entries, CellOf, Cell, Latest, Live, Single, OneOfTwo

\* What a merge step does to the cell of id i at replica q.
LEMMA MergeMessageCell ==
  ASSUME TypeOK, NEW r \in Replicas, NEW m \in Messages, MergeMessage(r, m),
         NEW q \in Replicas, NEW i \in Ids
  PROVE  /\ q = r  => /\ CellOf(q, i)' = MergeCell(CellOf(q, i), m.dels[i], m.writes[i])
                      /\ merged'[q] = merged[q] \cup {m}
         /\ q # r => CellOf(q, i)' = CellOf(q, i) /\ merged'[q] = merged[q]
<1>1. CASE q = r
  <2>1. shapes'[q] = MergedShapes(shapes[r], tombs[r], m.dels, m.writes)
    BY <1>1 DEF MergeMessage, TypeOK
  <2>2. tombs'[q] = MergedTombs(shapes[r], tombs[r], m.dels, m.writes)
    BY <1>1 DEF MergeMessage, TypeOK
  <2>3. merged'[q] = merged[q] \cup {m}
    BY <1>1 DEF MergeMessage, TypeOK
  <2>4. MergeCell(CellOf(q, i), m.dels[i], m.writes[i]) \in Cell
    BY CellOfFacts, MergeCellType, MessagesAssumption DEF Entries
  <2>5. \A c \in Cell : c = [shape |-> c.shape, tomb |-> c.tomb]
    BY DEF Cell
  <2>6. /\ shapes'[q][i] = MergeCell(CellOf(q, i), m.dels[i], m.writes[i]).shape
        /\ tombs'[q][i] = MergeCell(CellOf(q, i), m.dels[i], m.writes[i]).tomb
    BY <1>1, <2>1, <2>2 DEF MergedShapes, MergedTombs, MergedCell, CellOf
  <2> QED BY <1>1, <2>3, <2>4, <2>5, <2>6 DEF CellOf
<1>2. CASE q # r
  BY <1>2 DEF MergeMessage, TypeOK, CellOf
<1> QED BY <1>1, <1>2

\* Every cell of a replica is the newest write or deletion it has received, and
\* is one of them: what mergeCanvasCrdtSnapshot keeps needs no other history.
THEOREM CellsAreNewest == Spec => []CellInv
<1>1. Init => CellInv
  BY DEF Init, CellInv, OneOfTwo, Covers, Witnessed, NoEntries
<1>2. TypeOK /\ CellInv /\ [Next]_vars => CellInv'
  <2> SUFFICES ASSUME TypeOK, CellInv, [Next]_vars,
                      NEW q \in Replicas, NEW i \in Ids
               PROVE  OneOfTwo(q, i)' /\ Covers(q, i)' /\ Witnessed(q, i)'
    BY DEF CellInv
  <2>1. ASSUME NEW r \in Replicas, NEW m \in Messages, MergeMessage(r, m)
        PROVE  OneOfTwo(q, i)' /\ Covers(q, i)' /\ Witnessed(q, i)'
    <3> DEFINE c == CellOf(q, i)
               n == MergeCell(c, m.dels[i], m.writes[i])
    <3>1. OneOfTwo(q, i) /\ Covers(q, i) /\ Witnessed(q, i)
      BY DEF CellInv
    <3>2. c \in Cell /\ Single(c) /\ Latest(c) = Live(q, i)
          /\ c.shape = shapes[q][i] /\ c.tomb = tombs[q][i]
      BY <3>1, CellOfFacts
    <3>3. m.dels[i] \in MaybeMeta /\ m.writes[i] \in MaybeMeta
      BY MessagesAssumption DEF Entries
    <3>4. \A k \in merged[q] : k.dels[i] \in MaybeMeta /\ k.writes[i] \in MaybeMeta
      BY MessagesAssumption DEF TypeOK, Entries
    <3>5. CASE q = r
      <4>1. shapes'[q][i] = n.shape /\ tombs'[q][i] = n.tomb
            /\ Live(q, i)' = Latest(n) /\ merged'[q] = merged[q] \cup {m}
        <5>1. CellOf(q, i)' = n /\ merged'[q] = merged[q] \cup {m}
          BY <2>1, <3>5, MergeMessageCell
        <5>2. CellOf(q, i)' = [shape |-> shapes'[q][i], tomb |-> tombs'[q][i]]
          BY DEF CellOf
        <5> HIDE DEF n
        <5>3. shapes'[q][i] = n.shape /\ tombs'[q][i] = n.tomb
          BY <5>1, <5>2
        <5> QED BY <5>1, <5>3 DEF Live, Latest
      <4>2. /\ n \in Cell /\ Single(n)
            /\ AtMost(Latest(c), Latest(n))
            /\ AtMost(m.dels[i], Latest(n)) /\ AtMost(m.writes[i], Latest(n))
            /\ n.shape \in {c.shape, m.writes[i], Absent}
            /\ n.tomb \in {c.tomb, m.dels[i], Absent}
        BY <3>2, <3>3, MergeCellFacts
      <4>3. Latest(c) \in MaybeMeta /\ Latest(n) \in MaybeMeta
        BY <3>2, <4>2 DEF Cell, Latest
      <4>4. OneOfTwo(q, i)'
        BY <4>1, <4>2 DEF OneOfTwo, Single
      <4>5. Witnessed(q, i)'
        BY <3>1, <3>2, <4>1, <4>2 DEF Witnessed
      <4>6. Covers(q, i)'
        <5> SUFFICES ASSUME NEW k \in merged'[q]
                     PROVE  /\ AtMost(k.writes[i], Live(q, i)')
                            /\ AtMost(k.dels[i], Live(q, i)')
                            /\ k.dels[i] # Absent => shapes'[q][i] # k.dels[i]
          BY DEF Covers
        <5>1. CASE k = m
          <6>1. m.dels[i] # Absent => n.shape # m.dels[i]
            BY <3>2, <3>3, MergeCellDeleted
          <6> QED BY <5>1, <6>1, <4>1, <4>2
        <5>2. CASE k \in merged[q]
          <6>1. /\ AtMost(k.writes[i], Latest(c)) /\ AtMost(k.dels[i], Latest(c))
                /\ k.dels[i] # Absent => c.shape # k.dels[i]
            BY <3>1, <3>2, <5>2 DEF Covers
          <6>2. AtMost(k.writes[i], Latest(n)) /\ AtMost(k.dels[i], Latest(n))
            BY <3>4, <4>2, <4>3, <5>2, <6>1, AtMostTransitive
          <6>3. k.dels[i] # Absent => n.shape # k.dels[i]
            BY <3>2, <3>3, <3>4, <5>2, <6>1, MergeCellDeleted
          <6> QED BY <4>1, <6>2, <6>3
        <5> QED BY <4>1, <5>1, <5>2
      <4> QED BY <4>4, <4>5, <4>6
    <3>6. CASE q # r
      <4>1. shapes'[q][i] = shapes[q][i] /\ tombs'[q][i] = tombs[q][i]
            /\ merged'[q] = merged[q]
        BY <2>1, <3>6 DEF MergeMessage, TypeOK
      <4> QED BY <4>1, <3>1 DEF OneOfTwo, Covers, Witnessed, Live
    <3> QED BY <3>5, <3>6
  <2>2. CASE UNCHANGED vars
    BY <2>2 DEF vars, CellInv, OneOfTwo, Covers, Witnessed, Live
  <2> QED BY <2>1, <2>2 DEF Next
<1> QED BY <1>1, <1>2, TypeCorrect, PTL DEF Spec

-----------------------------------------------------------------------------
\* Replicas that merged the same snapshots agree on each id.
LEMMA SameKnowledge ==
  ASSUME TypeOK, CellInv, NEW r \in Replicas, NEW s \in Replicas,
         merged[r] = merged[s], NEW i \in Ids
  PROVE  AtMost(Live(r, i), Live(s, i))
<1>1. Live(s, i) \in MaybeMeta
  BY DEF TypeOK, Entries, Live
<1>2. CASE Live(r, i) = Absent
  BY <1>1, <1>2, AbsentBelow
<1>3. CASE Live(r, i) # Absent
  <2>1. PICK m \in merged[r] : m.writes[i] = Live(r, i) \/ m.dels[i] = Live(r, i)
    BY <1>3 DEF CellInv, Witnessed, Live
  <2> QED BY <2>1 DEF CellInv, Covers
<1> QED BY <1>2, <1>3

(***************************************************************************)
(* Strong convergence (mergeCanvasCrdtSnapshot on every node and browser). *)
(***************************************************************************)
THEOREM Converges == Spec => []Convergence
<1>1. TypeOK /\ CellInv => Convergence
  <2> SUFFICES ASSUME TypeOK, CellInv, NEW r \in Replicas, NEW s \in Replicas,
                      merged[r] = merged[s]
               PROVE  shapes[r] = shapes[s] /\ tombs[r] = tombs[s]
    BY DEF Convergence
  <2>1. ASSUME NEW i \in Ids
        PROVE  shapes[r][i] = shapes[s][i] /\ tombs[r][i] = tombs[s][i]
    <3>1. Live(r, i) = Live(s, i)
      <4>1. Live(r, i) \in MaybeMeta /\ Live(s, i) \in MaybeMeta
        BY DEF TypeOK, Entries, Live
      <4> QED BY <4>1, SameKnowledge, AtMostAntisymmetric
    <3>2. \A a, b \in {r, s} : shapes[a][i] # Absent => shapes[b][i] # Absent
      <4> SUFFICES ASSUME NEW a \in {r, s}, NEW b \in {r, s},
                          shapes[a][i] # Absent, shapes[b][i] = Absent
                   PROVE  FALSE
        OBVIOUS
      <4>1. tombs[b][i] = shapes[a][i] /\ tombs[b][i] # Absent
        BY <3>1 DEF Live
      <4>2. PICK m \in merged[b] : m.dels[i] = shapes[a][i]
        BY <4>1 DEF CellInv, Witnessed
      <4> QED BY <4>2 DEF CellInv, Covers
    <3> QED BY <3>1, <3>2 DEF Live, CellInv, OneOfTwo
  <2> QED BY <2>1 DEF TypeOK, Entries
<1> QED BY <1>1, TypeCorrect, CellsAreNewest, PTL

(***************************************************************************)
(* A deletion that was merged hides every write that is not newer.         *)
(***************************************************************************)
THEOREM DeletionsHold == Spec => []NoResurrection
<1>1. TypeOK /\ CellInv => NoResurrection
  <2> SUFFICES ASSUME TypeOK, CellInv, NEW r \in Replicas, NEW i \in Ids,
                      NEW m \in merged[r], m.dels[i] # Absent,
                      shapes[r][i] # Absent, AtMost(shapes[r][i], m.dels[i])
               PROVE  FALSE
    BY DEF NoResurrection
  <2>1. shapes[r][i] \in MaybeMeta /\ m.dels[i] \in MaybeMeta
    BY MessagesAssumption DEF TypeOK, Entries
  <2>2. AtMost(m.dels[i], shapes[r][i]) /\ shapes[r][i] # m.dels[i]
    BY DEF CellInv, Covers, Live
  <2> QED BY <2>1, <2>2, AtMostAntisymmetric
<1> QED BY <1>1, TypeCorrect, CellsAreNewest, PTL

(***************************************************************************)
(* No merge moves an id back.                                              *)
(***************************************************************************)
THEOREM MergesGoForward == Spec => OnlyForward
<1>1. TypeOK /\ CellInv /\ [Next]_vars => [Forward]_vars
  <2> SUFFICES ASSUME TypeOK, CellInv, Next, NEW q \in Replicas, NEW i \in Ids
               PROVE  AtMost(Live(q, i), Live(q, i)')
    BY DEF Forward
  <2>1. PICK r \in Replicas, m \in Messages : MergeMessage(r, m)
    BY DEF Next
  <2>2. m.dels[i] \in MaybeMeta /\ m.writes[i] \in MaybeMeta
    BY MessagesAssumption DEF Entries
  <2>3. CellOf(q, i) \in Cell /\ Single(CellOf(q, i)) /\ Latest(CellOf(q, i)) = Live(q, i)
    BY CellOfFacts DEF CellInv
  <2>4. Live(q, i)' = Latest(CellOf(q, i)')
    BY DEF Live, Latest, CellOf
  <2>5. Live(q, i) \in MaybeMeta
    BY DEF TypeOK, Entries, Live
  <2>6. CASE q = r
    BY <2>1, <2>2, <2>3, <2>4, <2>6, MergeMessageCell, MergeCellFacts
  <2>7. CASE q # r
    BY <2>1, <2>3, <2>4, <2>5, <2>7, MergeMessageCell, AtMostReflexive
  <2> QED BY <2>6, <2>7
<1> QED BY <1>1, TypeCorrect, CellsAreNewest, PTL DEF Spec, OnlyForward

-----------------------------------------------------------------------------
(* Numbers.                                                                *)

\* Parts of lengths.
LEMMA DivFacts ==
  ASSUME NEW a \in Int, NEW d \in Int, d > 0
  PROVE  a \div d \in Int /\ d * (a \div d) <= a /\ a < d * (a \div d) + d
OBVIOUS

\* A part of a longer length: no less, and by no more than what was added.
LEMMA DivGrows ==
  ASSUME NEW n \in Nat, NEW d \in Nat, d # 0, n <= d, NEW v \in Nat, NEW w \in Nat, v <= w
  PROVE  /\ (n * w) \div d \in Int /\ (n * v) \div d \in Int
         /\ (n * v) \div d <= (n * w) \div d
         /\ (n * w) \div d <= (n * v) \div d + (w - v)
<1> DEFINE p == (n * v) \div d
           q == (n * w) \div d
<1>1. n * v \in Int /\ n * w \in Int /\ d \in Int /\ d > 0
  OBVIOUS
<1>2. p \in Int /\ d * p <= n * v /\ n * v < d * p + d
  BY <1>1, DivFacts
<1>3. q \in Int /\ d * q <= n * w /\ n * w < d * q + d
  BY <1>1, DivFacts
<1> DEFINE m == w - v
<1>4. m \in Nat /\ w = v + m /\ n * w = n * v + n * m
  OBVIOUS
<1>5. 0 <= n * m /\ n * m <= d * m
  BY <1>4
<1> HIDE DEF p, q, m
<1>6. p <= q
  <2> SUFFICES ASSUME p >= q + 1 PROVE FALSE
    BY <1>2, <1>3
  <2>1. d * p >= d * (q + 1)
    BY <1>1, <1>2, <1>3
  <2>2. d * (q + 1) = d * q + d
    BY <1>1, <1>3
  <2> QED BY <2>1, <2>2, <1>1, <1>2, <1>3, <1>4, <1>5
<1>7. q <= p + m
  <2> SUFFICES ASSUME q >= p + m + 1 PROVE FALSE
    BY <1>2, <1>3, <1>4
  <2>1. d * q >= d * (p + m + 1)
    BY <1>1, <1>2, <1>3, <1>4
  <2>2. d * (p + m + 1) = d * p + d * m + d
    BY <1>1, <1>2, <1>4
  <2> QED BY <2>1, <2>2, <1>1, <1>2, <1>3, <1>4, <1>5
<1> QED BY <1>2, <1>3, <1>6, <1>7 DEF p, q, m

\* Products and squares.
LEMMA IntProducts ==
  ASSUME NEW a \in Int, NEW b \in Int
  PROVE  a * b \in Int /\ a * a \in Nat
<1>1. a * a >= 0
  OBVIOUS
<1> QED BY <1>1

\* A pixel is a positive whole number.
LEMMA PxFacts == Px \in Nat /\ Px \in Int /\ Px > 0 /\ 0 \in Nat /\ 8 * Px \in Nat /\ 8 * Px > 0
BY PxAssumption DEF PxAssumption

\* The larger, the smaller, the absolute value and the half.
LEMMA SimpleFacts ==
  ASSUME NEW a \in Int, NEW b \in Int
  PROVE  /\ Larger(a, b) \in Int /\ Larger(a, b) >= a /\ Larger(a, b) >= b
         /\ Larger(a, b) \in {a, b}
         /\ Smaller(a, b) \in Int /\ Smaller(a, b) <= a /\ Smaller(a, b) <= b
         /\ Smaller(a, b) \in {a, b}
         /\ Abs(a) \in Nat /\ Abs(a) >= a /\ Abs(a) \in {a, -a} /\ (a >= 0 => Abs(a) = a)
         /\ Half(a) \in Int /\ (a >= 0 => Half(a) \in Nat)
BY DEF Larger, Smaller, Abs, Half

\* A number kept between two others.
LEMMA ClampFacts ==
  ASSUME NEW n \in Int, NEW low \in Int, NEW high \in Int, low <= high
  PROVE  Clamp(n, low, high) \in Int /\ low <= Clamp(n, low, high) /\ Clamp(n, low, high) <= high
BY DEF Clamp, Larger, Smaller

\* What is true of 0 and goes on to n + 1 is true of every number: a set of
\* numbers without it would have a least element.
LEMMA NoLeast ==
  ASSUME NEW B, 0 \notin B, \A n \in Nat : n \notin B => n + 1 \notin B
  PROVE  \A n \in Nat : n \notin B
<1> SUFFICES ASSUME NEW m \in Nat, m \in B PROVE FALSE
  OBVIOUS
<1> DEFINE T == Nat \cap B
<1>1. T \subseteq Nat /\ T # {}
  OBVIOUS
<1>2. PICK x \in T : \A y \in T : ~(<<y, x>> \in OpToRel(<, Nat))
  <2> HIDE DEF T
  <2> QED BY <1>1, NatLessThanWellFounded, WFMin
<1>3. x \in Nat /\ x # 0 /\ x - 1 \in Nat /\ x - 1 < x
  OBVIOUS
<1>4. x - 1 \notin T
  BY <1>2, <1>3 DEF OpToRel
<1> QED BY <1>3, <1>4

\* Finitely many numbers have a greatest one.
LEMMA SomeGreatest ==
  \A n \in Nat : \A f \in [1..n -> Int] : n # 0 => \E k \in 1..n : \A i \in 1..n : f[i] <= f[k]
<1> DEFINE Has(n, f) == \E k \in 1..n : \A i \in 1..n : f[i] <= f[k]
           B == {n \in Nat : n # 0 /\ \E f \in [1..n -> Int] : ~Has(n, f)}
<1>1. 0 \notin B
  OBVIOUS
<1>2. ASSUME NEW n \in Nat, n \notin B PROVE n + 1 \notin B
  <2> SUFFICES ASSUME NEW f \in [1..(n + 1) -> Int] PROVE Has(n + 1, f)
    OBVIOUS
  <2>1. CASE n = 0
    <3>1. \A i \in 1..(n + 1) : i = 1
      BY <2>1
    <3> QED BY <2>1, <3>1
  <2>2. CASE n # 0
    <3> DEFINE g == [i \in 1..n |-> f[i]]
    <3>1. g \in [1..n -> Int]
      OBVIOUS
    <3>2. Has(n, g)
      BY <1>2, <2>2, <3>1
    <3>3. PICK k \in 1..n : \A i \in 1..n : g[i] <= g[k]
      BY <3>2
    <3>4. \A i \in 1..n : f[i] <= f[k]
      BY <3>3
    <3>5. f[k] \in Int /\ f[n + 1] \in Int /\ k \in 1..(n + 1) /\ n + 1 \in 1..(n + 1)
      OBVIOUS
    <3>6. \A i \in 1..(n + 1) : i \in 1..n \/ i = n + 1
      OBVIOUS
    <3>7. CASE f[n + 1] <= f[k]
      <4>1. \A i \in 1..(n + 1) : f[i] <= f[k]
        BY <3>4, <3>6, <3>7
      <4> QED BY <3>5, <4>1
    <3>8. CASE f[k] <= f[n + 1]
      <4>1. \A i \in 1..n : f[i] \in Int
        OBVIOUS
      <4>2. \A i \in 1..(n + 1) : f[i] <= f[n + 1]
        BY <3>4, <3>5, <3>6, <3>8, <4>1
      <4> QED BY <3>5, <4>2
    <3> QED BY <3>5, <3>7, <3>8
  <2> QED BY <2>1, <2>2
<1> HIDE DEF B
<1>3. \A n \in Nat : n \notin B
  BY <1>1, <1>2, NoLeast
<1> QED BY <1>3 DEF B

\* The greatest of a finite set is one of it, and above all of it.
LEMMA MaxOfFacts ==
  ASSUME NEW S \in SUBSET Int, S # {}, IsFiniteSet(S)
  PROVE  MaxOf(S) \in S /\ \A y \in S : y <= MaxOf(S)
<1>1. PICK n \in Nat : \E f : f \in Bijection(1..n, S)
  BY FS_NatBijection DEF ExistsBijection
<1>2. PICK f : f \in [1..n -> S] /\ \A y \in S : \E i \in 1..n : f[i] = y
  BY <1>1 DEF Bijection, Surjection
<1>a. \A i \in 1..n : f[i] \in S /\ f[i] \in Int
  BY <1>2
<1>b. PICK member \in S : TRUE
  OBVIOUS
<1>c. 1..n # {}
  BY <1>2, <1>b
<1>3. f \in [1..n -> Int] /\ n # 0
  BY <1>2, <1>a, <1>c
<1>4. PICK k \in 1..n : \A i \in 1..n : f[i] <= f[k]
  BY <1>3, SomeGreatest
<1>5. f[k] \in S /\ \A y \in S : y <= f[k]
  BY <1>2, <1>4
<1> QED BY <1>5 DEF MaxOf

\* The least of a finite set is one of it, and below all of it.
LEMMA MinOfFacts ==
  ASSUME NEW S \in SUBSET Int, S # {}, IsFiniteSet(S)
  PROVE  MinOf(S) \in S /\ \A y \in S : MinOf(S) <= y
<1>1. PICK n \in Nat : \E f : f \in Bijection(1..n, S)
  BY FS_NatBijection DEF ExistsBijection
<1>2. PICK f : f \in [1..n -> S] /\ \A y \in S : \E i \in 1..n : f[i] = y
  BY <1>1 DEF Bijection, Surjection
<1> DEFINE g == [i \in 1..n |-> 0 - f[i]]
<1>a. \A i \in 1..n : f[i] \in S /\ f[i] \in Int
  BY <1>2
<1>b. PICK member \in S : TRUE
  OBVIOUS
<1>c. 1..n # {}
  BY <1>2, <1>b
<1>3. g \in [1..n -> Int] /\ n # 0
  BY <1>a, <1>c
<1>4. PICK k \in 1..n : \A i \in 1..n : g[i] <= g[k]
  BY <1>3, SomeGreatest
<1>5. \A i \in 1..n : f[k] <= f[i]
  <2> SUFFICES ASSUME NEW i \in 1..n PROVE f[k] <= f[i]
    OBVIOUS
  <2>1. 0 - f[i] <= 0 - f[k]
    BY <1>4
  <2>2. f[i] \in Int /\ f[k] \in Int
    BY <1>a
  <2> QED BY <2>1, <2>2
<1>6. f[k] \in S /\ \A y \in S : f[k] <= y
  BY <1>2, <1>5
<1>7. \E m \in S : \A y \in S : y >= m
  BY <1>6
<1>8. MinOf(S) \in S /\ \A y \in S : y >= MinOf(S)
  BY <1>7 DEF MinOf
<1> QED BY <1>8

\* The values of a function on a finite set.
LEMMA FiniteValues ==
  ASSUME NEW S, IsFiniteSet(S), NEW f
  PROVE  IsFiniteSet({f[x] : x \in S})
<1> DEFINE T == {f[x] : x \in S}
           g == [x \in S |-> f[x]]
<1>1. g \in Surjection(S, T)
  BY DEF Surjection
<1> HIDE DEF T, g
<1>2. IsFiniteSet(T)
  BY <1>1, FS_Surjection
<1> QED BY <1>2 DEF T

\* Places of a sequence are finite in number.
LEMMA PlacesFinite ==
  ASSUME NEW n \in Nat, NEW S \in SUBSET (1..n)
  PROVE  /\ S \in SUBSET Int /\ IsFiniteSet(S)
         /\ S # {} => MaxOf(S) \in S /\ MinOf(S) \in S
<1>1. IsFiniteSet(1..n)
  BY FS_Interval
<1>2. IsFiniteSet(S)
  BY <1>1, FS_Subset
<1>3. S \in SUBSET Int
  OBVIOUS
<1> QED BY <1>2, <1>3, MaxOfFacts, MinOfFacts

\* A sheet with other shapes in the places of the old ones.
LEMMA NewShapes ==
  ASSUME NEW S, NEW s \in Seq(S), NEW T, NEW t, t = [i \in DOMAIN s |-> t[i]],
         \A i \in DOMAIN s : t[i] \in T
  PROVE  t \o <<>> = t /\ t \in Seq(T) /\ DOMAIN t = DOMAIN s /\ Len(t) = Len(s)
<1>1. Len(s) \in Nat /\ DOMAIN s = 1..Len(s)
  BY LenProperties
<1>2. t \in [1..Len(s) -> T] /\ DOMAIN t = DOMAIN s
  BY <1>1
<1>3. t \in Seq(T)
  BY <1>1, <1>2, SeqDef
<1>4. Len(t) = Len(s)
  <2>1. DOMAIN t = 1..Len(t) /\ Len(t) \in Nat
    BY <1>3, LenProperties
  <2> QED BY <1>1, <1>2, <2>1
<1> QED BY <1>2, <1>3, <1>4, ConcatEmptySeq

-----------------------------------------------------------------------------
(* Shapes and their boxes.                                                 *)

\* What a shape of a type is made of.
LEMMA KindsOfShapes ==
  ASSUME NEW n \in Nat, NEW t \in ShapesOver(n)
  PROVE  /\ t.id \in ShapeIds
         /\ t.type \in {"rect", "rhombus"} => t \in BoxShapes(n)
         /\ t.type = "circle" => t \in CircleShapes(n)
         /\ t.type = "text" => t \in TextShapes
         /\ t.type = "freehand" => t \in Strokes
         /\ IsConnector(t) => t \in ConnectorShapes
         /\ t.type \in {"rect", "rhombus", "circle", "text", "freehand", "line", "arrow"}
<1>1. CASE t \in BoxShapes(n)
  BY <1>1 DEF BoxShapes, IsConnector, Connector
<1>2. CASE t \in CircleShapes(n)
  BY <1>2 DEF CircleShapes, IsConnector, Connector
<1>3. CASE t \in TextShapes
  BY <1>3 DEF TextShapes, IsConnector, Connector
<1>4. CASE t \in Strokes
  BY <1>4 DEF Strokes, IsConnector, Connector
<1>5. CASE t \in ConnectorShapes
  BY <1>5 DEF ConnectorShapes, IsConnector, Connector
<1> QED BY <1>1, <1>2, <1>3, <1>4, <1>5 DEF ShapesOver

\* Which types the shapes of a kind have.
LEMMA TypesOfKinds ==
  ASSUME NEW n \in Nat, NEW t
  PROVE  /\ t \in BoxShapes(n) => t.type \in {"rect", "rhombus"} /\ ~IsConnector(t)
         /\ t \in CircleShapes(n) => t.type = "circle" /\ ~IsConnector(t)
         /\ t \in TextShapes => t.type = "text" /\ ~IsConnector(t)
         /\ t \in Strokes => t.type = "freehand" /\ ~IsConnector(t)
         /\ t \in ConnectorShapes => t.type \in {"line", "arrow"} /\ IsConnector(t)
BY DEF BoxShapes, CircleShapes, TextShapes, Strokes, ConnectorShapes, IsConnector, Connector

\* A shape with long sides has sides of less, too.
LEMMA LongerShapes ==
  ASSUME NEW n \in Nat, NEW m \in Nat, n <= m
  PROVE  ShapesOver(m) \subseteq ShapesOver(n)
<1>1. AtLeastLong(m) \subseteq AtLeastLong(n)
  BY DEF AtLeastLong
<1>2. BoxShapes(m) \subseteq BoxShapes(n)
  BY <1>1 DEF BoxShapes
<1>3. CircleShapes(m) \subseteq CircleShapes(n)
  BY <1>1 DEF CircleShapes
<1> QED BY <1>2, <1>3 DEF ShapesOver

\* Boxes, and those that are not turned inside out.
Rectangles == [x1 : Int, y1 : Int, x2 : Int, y2 : Int]
Upright(b) == b \in Rectangles /\ b.x1 <= b.x2 /\ b.y1 <= b.y2

\* Two corners span an upright box; in order, they are its corners.
LEMMA NormalizeFacts ==
  ASSUME NEW x1 \in Int, NEW y1 \in Int, NEW x2 \in Int, NEW y2 \in Int
  PROVE  /\ Upright(Normalize(x1, y1, x2, y2))
         /\ x1 <= x2 => Normalize(x1, y1, x2, y2).x1 = x1 /\ Normalize(x1, y1, x2, y2).x2 = x2
         /\ y1 <= y2 => Normalize(x1, y1, x2, y2).y1 = y1 /\ Normalize(x1, y1, x2, y2).y2 = y2
BY DEF Normalize, Upright, Rectangles, Smaller, Larger

\* The box of a rect, a rhombus or a text.
LEMMA BoxShapeFacts ==
  ASSUME NEW n \in Nat, NEW t \in BoxShapes(n) \cup TextShapes
  PROVE  /\ t.x \in Int /\ t.y \in Int /\ t.w \in Nat /\ t.h \in Nat
         /\ Box(t) = [x1 |-> t.x, y1 |-> t.y, x2 |-> t.x + t.w, y2 |-> t.y + t.h]
         /\ t \in BoxShapes(n) => t.w >= n /\ t.h >= n
         /\ t \in TextShapes => t.w >= 8 * Px /\ t.h >= 8 * Px
<1>1. /\ t.x \in Int /\ t.y \in Int /\ t.w \in Nat /\ t.h \in Nat
      /\ t.type \in {"rect", "rhombus", "text"}
      /\ t \in BoxShapes(n) => t.w >= n /\ t.h >= n
      /\ t \in TextShapes => t.w >= 8 * Px /\ t.h >= 8 * Px
  BY DEF BoxShapes, TextShapes, AtLeastLong
<1>2. Box(t) = Normalize(t.x, t.y, t.x + t.w, t.y + t.h)
  <2>1. t.type # "circle" /\ t.type # "freehand" /\ ~IsConnector(t)
    BY <1>1 DEF IsConnector, Connector
  <2> QED BY <1>1, <2>1 DEF Box
<1>3. Normalize(t.x, t.y, t.x + t.w, t.y + t.h)
        = [x1 |-> t.x, y1 |-> t.y, x2 |-> t.x + t.w, y2 |-> t.y + t.h]
  BY <1>1 DEF Normalize, Smaller, Larger
<1> QED BY <1>1, <1>2, <1>3

\* The box of a circle.
LEMMA CircleFacts ==
  ASSUME NEW n \in Nat, NEW t \in CircleShapes(n)
  PROVE  /\ t.cx \in Int /\ t.cy \in Int /\ t.rx \in Nat /\ t.ry \in Nat /\ t.rx >= n /\ t.ry >= n
         /\ Box(t) = [x1 |-> t.cx - t.rx, y1 |-> t.cy - t.ry, x2 |-> t.cx + t.rx, y2 |-> t.cy + t.ry]
<1>1. /\ t.cx \in Int /\ t.cy \in Int /\ t.rx \in Nat /\ t.ry \in Nat /\ t.rx >= n /\ t.ry >= n
      /\ t.type = "circle"
  BY DEF CircleShapes, AtLeastLong
<1>2. Abs(t.rx) = t.rx /\ Abs(t.ry) = t.ry
  BY <1>1 DEF Abs
<1>3. Box(t) = [x1 |-> t.cx - Abs(t.rx), y1 |-> t.cy - Abs(t.ry),
                x2 |-> t.cx + Abs(t.rx), y2 |-> t.cy + Abs(t.ry)]
  <2>1. t.type = "circle" /\ ~(t.type \in {"rect", "rhombus", "text"})
        /\ t.type # "freehand" /\ ~IsConnector(t)
    BY <1>1 DEF IsConnector, Connector
  <2> QED BY <2>1 DEF Box
<1> QED BY <1>1, <1>2, <1>3

\* The points of a stroke.
LEMMA StrokeFacts ==
  ASSUME NEW t \in Strokes
  PROVE  /\ \A i \in DOMAIN t.points : t.points[i] \in Int \X Int
         /\ t.points \in Seq(Int \X Int) /\ Len(t.points) \in Nat /\ t.points # <<>>
         /\ DOMAIN t.points = 1..Len(t.points) /\ Len(t.points) # 0
<1> DEFINE q == t.points
<1>1. q \in Seq(Int \X Int) /\ q # <<>>
  BY DEF Strokes
<1> HIDE DEF q
<1>2. Len(q) \in Nat /\ DOMAIN q = 1..Len(q) /\ q \in [1..Len(q) -> Int \X Int]
  BY <1>1, LenProperties
<1>3. \A i \in DOMAIN q : q[i] \in Int \X Int
  BY <1>2
<1>4. Len(q) # 0
  BY <1>1, EmptySeq
<1> QED BY <1>1, <1>2, <1>3, <1>4 DEF q

\* The extent of some points.
LEMMA ExtentFacts ==
  ASSUME NEW q, NEW n \in Nat \ {0}, DOMAIN q = 1..n, \A i \in 1..n : q[i] \in Int \X Int
  PROVE  /\ MinOf(Xs(q)) \in Int /\ MaxOf(Xs(q)) \in Int /\ MinOf(Xs(q)) <= MaxOf(Xs(q))
         /\ MinOf(Ys(q)) \in Int /\ MaxOf(Ys(q)) \in Int /\ MinOf(Ys(q)) <= MaxOf(Ys(q))
         /\ Xs(q) \in SUBSET Int /\ Xs(q) # {} /\ IsFiniteSet(Xs(q))
         /\ Ys(q) \in SUBSET Int /\ Ys(q) # {} /\ IsFiniteSet(Ys(q))
<1> DEFINE f == [i \in 1..n |-> q[i][1]]
           g == [i \in 1..n |-> q[i][2]]
<1>1. IsFiniteSet(1..n) /\ 1 \in 1..n
  <2>1. 1 \in Int /\ n \in Int /\ 1 \in 1..n
    OBVIOUS
  <2> QED BY <2>1, FS_Interval
<1>2. \A i \in 1..n : f[i] \in Int /\ g[i] \in Int /\ f[i] = q[i][1] /\ g[i] = q[i][2]
  OBVIOUS
<1>3. Xs(q) = {f[i] : i \in 1..n} /\ Ys(q) = {g[i] : i \in 1..n}
  BY <1>2 DEF Xs, Ys
<1> HIDE DEF f, g
<1>4. IsFiniteSet(Xs(q)) /\ IsFiniteSet(Ys(q))
  <2>1. IsFiniteSet({f[i] : i \in 1..n})
    BY <1>1, FiniteValues
  <2>2. IsFiniteSet({g[i] : i \in 1..n})
    BY <1>1, FiniteValues
  <2> QED BY <1>3, <2>1, <2>2
<1>5. Xs(q) \in SUBSET Int /\ Ys(q) \in SUBSET Int /\ f[1] \in Xs(q) /\ g[1] \in Ys(q)
  BY <1>1, <1>2, <1>3
<1>6. /\ MinOf(Xs(q)) \in Xs(q) /\ MaxOf(Xs(q)) \in Xs(q) /\ MinOf(Xs(q)) <= MaxOf(Xs(q))
      /\ MinOf(Ys(q)) \in Ys(q) /\ MaxOf(Ys(q)) \in Ys(q) /\ MinOf(Ys(q)) <= MaxOf(Ys(q))
  BY <1>4, <1>5, MinOfFacts, MaxOfFacts
<1> QED BY <1>4, <1>5, <1>6

\* Every shape has a box, upright but for a connector.
LEMMA BoxFacts ==
  ASSUME NEW n \in Nat, NEW t \in ShapesOver(n)
  PROVE  Box(t) \in Rectangles /\ (~IsConnector(t) => Upright(Box(t)))
<1>1. CASE t \in BoxShapes(n) \cup TextShapes
  BY <1>1, BoxShapeFacts DEF Upright, Rectangles
<1>2. CASE t \in CircleShapes(n)
  BY <1>2, CircleFacts DEF Upright, Rectangles
<1>3. CASE t \in Strokes
  <2>1. Box(t) = [x1 |-> MinOf(Xs(t.points)), y1 |-> MinOf(Ys(t.points)),
                  x2 |-> MaxOf(Xs(t.points)), y2 |-> MaxOf(Ys(t.points))]
    BY <1>3, TypesOfKinds DEF Box
  <2>2. Len(t.points) \in Nat \ {0} /\ DOMAIN t.points = 1..Len(t.points)
        /\ \A i \in 1..Len(t.points) : t.points[i] \in Int \X Int
    BY <1>3, StrokeFacts
  <2> QED BY <2>1, <2>2, ExtentFacts DEF Upright, Rectangles
<1>4. CASE t \in ConnectorShapes
  <2>1. Box(t) = [x1 |-> t.x1, y1 |-> t.y1, x2 |-> t.x2, y2 |-> t.y2]
    BY <1>4, TypesOfKinds DEF Box
  <2>2. t.x1 \in Int /\ t.y1 \in Int /\ t.x2 \in Int /\ t.y2 \in Int
    BY <1>4 DEF ConnectorShapes
  <2> QED BY <1>4, <2>1, <2>2, TypesOfKinds DEF Rectangles
<1> QED BY <1>1, <1>2, <1>3, <1>4 DEF ShapesOver

-----------------------------------------------------------------------------
(* Moves and resizes.                                                      *)

\* What an operation makes of one shape keeps its kind and its id.
Kept(t, u) == u.id = t.id /\ u.type = t.type

\* A shape of the same id and type is of the same kind.
LEMMA KeptKinds ==
  ASSUME NEW t, NEW u, Kept(t, u)
  PROVE  /\ u.id = t.id /\ u.type = t.type
         /\ IsConnector(u) <=> IsConnector(t)
         /\ IsNode(u) <=> IsNode(t)
BY DEF Kept, IsConnector, IsNode

\* The types of shapes exclude one another.
LEMMA KindsApart ==
  ASSUME NEW t
  PROVE  /\ t.type = "circle" => ~(t.type \in {"rect", "rhombus", "text"}) /\ ~(t.type \in {"rect", "rhombus"})
              /\ t.type # "text" /\ t.type # "freehand" /\ ~IsConnector(t)
         /\ t.type = "freehand" => ~(t.type \in {"rect", "rhombus", "text"}) /\ ~(t.type \in {"rect", "rhombus"})
              /\ t.type # "text" /\ t.type # "circle" /\ ~IsConnector(t)
         /\ t.type = "text" => t.type \in {"rect", "rhombus", "text"} /\ ~(t.type \in {"rect", "rhombus"})
              /\ t.type # "freehand" /\ t.type # "circle" /\ ~IsConnector(t)
         /\ t.type \in {"rect", "rhombus"} => t.type \in {"rect", "rhombus", "text"}
              /\ t.type # "text" /\ t.type # "freehand" /\ t.type # "circle" /\ ~IsConnector(t)
         /\ IsConnector(t) => ~(t.type \in {"rect", "rhombus", "text"}) /\ ~(t.type \in {"rect", "rhombus"})
              /\ t.type # "text" /\ t.type # "freehand" /\ t.type # "circle"
BY DEF IsConnector, Connector

\* At least a pixel, at least eight.
LEMMA LargerPx ==
  ASSUME NEW v \in Int
  PROVE  Larger(Px, v) \in Int /\ Larger(Px, v) \in Nat /\ Larger(Px, v) > 0
         /\ Larger(Px, v) >= Px /\ Larger(Px, v) >= v
         /\ Larger(8 * Px, v) \in Nat /\ Larger(8 * Px, v) >= 8 * Px
BY PxFacts DEF Larger

\* A stroke with other points.
LEMMA StrokeOf ==
  ASSUME NEW t \in Strokes, NEW p, p = [i \in DOMAIN t.points |-> p[i]],
         \A i \in DOMAIN t.points : p[i] \in Int \X Int
  PROVE  [t EXCEPT !.points = p] \in Strokes /\ Kept(t, [t EXCEPT !.points = p])
<1>1. t.points \in Seq(Int \X Int) /\ t.points # <<>> /\ Len(t.points) # 0
  BY StrokeFacts
<1> DEFINE q == t.points
<1>2. p \in Seq(Int \X Int) /\ Len(p) = Len(t.points)
  <2> DEFINE S == Int \X Int
  <2>1. q \in Seq(S) /\ p = [i \in DOMAIN q |-> p[i]] /\ \A i \in DOMAIN q : p[i] \in S
    BY <1>1
  <2> HIDE DEF q, S
  <2>2. p \in Seq(S) /\ Len(p) = Len(q)
    BY <2>1, NewShapes
  <2> QED BY <2>2 DEF q, S
<1>3. p \in Seq(Int \X Int) \ {<<>>}
  BY <1>1, <1>2, EmptySeq
<1> QED BY <1>3 DEF Strokes, Kept

\* A shape moved is a shape, of the same id and type (translateShape).
LEMMA TranslatedFacts ==
  ASSUME NEW n \in Nat, NEW t \in ShapesOver(n), NEW dx \in Int, NEW dy \in Int
  PROVE  Translated(t, dx, dy) \in ShapesOver(n) /\ Kept(t, Translated(t, dx, dy))
<1>1. CASE t \in BoxShapes(n)
  <2>1. Translated(t, dx, dy) = [t EXCEPT !.x = @ + dx, !.y = @ + dy]
    BY <1>1, TypesOfKinds, KindsApart DEF Translated
  <2> DEFINE a == t.x + dx
             b == t.y + dy
  <2>2. a \in Int /\ b \in Int
    BY <1>1 DEF BoxShapes
  <2>3. Translated(t, dx, dy) = [t EXCEPT !.x = a, !.y = b]
    BY <2>1
  <2> HIDE DEF a, b
  <2>4. [t EXCEPT !.x = a, !.y = b] \in BoxShapes(n) /\ Kept(t, [t EXCEPT !.x = a, !.y = b])
    BY <1>1, <2>2 DEF BoxShapes, Kept
  <2> QED BY <2>3, <2>4 DEF ShapesOver
<1>2. CASE t \in TextShapes
  <2>1. Translated(t, dx, dy) = [t EXCEPT !.x = @ + dx, !.y = @ + dy]
    BY <1>2, TypesOfKinds, KindsApart DEF Translated
  <2> DEFINE a == t.x + dx
             b == t.y + dy
  <2>2. a \in Int /\ b \in Int
    BY <1>2 DEF TextShapes
  <2>3. Translated(t, dx, dy) = [t EXCEPT !.x = a, !.y = b]
    BY <2>1
  <2> HIDE DEF a, b
  <2>4. [t EXCEPT !.x = a, !.y = b] \in TextShapes /\ Kept(t, [t EXCEPT !.x = a, !.y = b])
    BY <1>2, <2>2 DEF TextShapes, Kept
  <2> QED BY <2>3, <2>4 DEF ShapesOver
<1>3. CASE t \in CircleShapes(n)
  <2>1. Translated(t, dx, dy) = [t EXCEPT !.cx = @ + dx, !.cy = @ + dy]
    BY <1>3, TypesOfKinds, KindsApart DEF Translated
  <2> DEFINE a == t.cx + dx
             b == t.cy + dy
  <2>2. a \in Int /\ b \in Int
    BY <1>3 DEF CircleShapes
  <2>3. Translated(t, dx, dy) = [t EXCEPT !.cx = a, !.cy = b]
    BY <2>1
  <2> HIDE DEF a, b
  <2>4. [t EXCEPT !.cx = a, !.cy = b] \in CircleShapes(n) /\ Kept(t, [t EXCEPT !.cx = a, !.cy = b])
    BY <1>3, <2>2 DEF CircleShapes, Kept
  <2> QED BY <2>3, <2>4 DEF ShapesOver
<1>4. CASE t \in ConnectorShapes
  <2>1. Translated(t, dx, dy)
          = [t EXCEPT !.x1 = @ + dx, !.y1 = @ + dy, !.x2 = @ + dx, !.y2 = @ + dy]
    BY <1>4, TypesOfKinds, KindsApart DEF Translated
  <2> DEFINE a == t.x1 + dx
             b == t.y1 + dy
             c == t.x2 + dx
             d == t.y2 + dy
             u == [t EXCEPT !.x1 = a, !.y1 = b, !.x2 = c, !.y2 = d]
  <2>2. a \in Int /\ b \in Int /\ c \in Int /\ d \in Int
    BY <1>4 DEF ConnectorShapes
  <2>3. Translated(t, dx, dy) = u
    BY <2>1
  <2> HIDE DEF a, b, c, d
  <2>4. u \in ConnectorShapes /\ Kept(t, u)
    BY <1>4, <2>2 DEF ConnectorShapes, Kept
  <2> QED BY <2>3, <2>4 DEF ShapesOver
<1>5. CASE t \in Strokes
  <2> DEFINE p == [i \in DOMAIN t.points |-> <<t.points[i][1] + dx, t.points[i][2] + dy>>]
  <2>1. Translated(t, dx, dy) = [t EXCEPT !.points = p]
    BY <1>5, TypesOfKinds, KindsApart DEF Translated
  <2>2. \A i \in DOMAIN t.points : p[i] \in Int \X Int
    <3> SUFFICES ASSUME NEW i \in DOMAIN t.points PROVE p[i] \in Int \X Int
      OBVIOUS
    <3>1. t.points[i] \in Int \X Int
      BY <1>5, StrokeFacts
    <3> QED BY <3>1
  <2>3. p = [i \in DOMAIN t.points |-> p[i]]
    OBVIOUS
  <2> HIDE DEF p
  <2> QED BY <1>5, <2>1, <2>2, <2>3, StrokeOf DEF ShapesOver
<1> QED BY <1>1, <1>2, <1>3, <1>4, <1>5 DEF ShapesOver

\* A box shape, a circle, a text and a stroke are given a box.
LEMMA ReshapedFacts ==
  ASSUME NEW t \in ShapesOver(0), ~IsConnector(t), NEW b, Upright(b)
  PROVE  Reshaped(t, b) \in ShapesOver(0) /\ Kept(t, Reshaped(t, b))
<1>b. /\ b.x1 \in Int /\ b.y1 \in Int /\ b.x2 \in Int /\ b.y2 \in Int
      /\ Width(b) \in Nat /\ Height(b) \in Nat
      /\ Half(b.x1 + b.x2) \in Int /\ Half(b.y1 + b.y2) \in Int
      /\ Half(Width(b)) \in Nat /\ Half(Height(b)) \in Nat
  BY DEF Upright, Rectangles, Width, Height, Half
<1>n. 0 \in Nat /\ Nat = AtLeastLong(0)
  BY DEF AtLeastLong
<1>1. CASE t \in BoxShapes(0)
  <2>1. Reshaped(t, b) = [t EXCEPT !.x = b.x1, !.y = b.y1, !.w = Width(b), !.h = Height(b)]
    BY <1>1, <1>n, TypesOfKinds, KindsApart DEF Reshaped
  <2>2. /\ [t EXCEPT !.x = b.x1, !.y = b.y1, !.w = Width(b), !.h = Height(b)] \in BoxShapes(0)
        /\ Kept(t, [t EXCEPT !.x = b.x1, !.y = b.y1, !.w = Width(b), !.h = Height(b)])
    BY <1>1, <1>b, <1>n DEF BoxShapes, Kept
  <2> QED BY <2>1, <2>2 DEF ShapesOver
<1>2. CASE t \in CircleShapes(0)
  <2>1. Reshaped(t, b) = [t EXCEPT !.cx = Half(b.x1 + b.x2), !.cy = Half(b.y1 + b.y2),
                                   !.rx = Half(Width(b)), !.ry = Half(Height(b))]
    BY <1>2, <1>n, TypesOfKinds, KindsApart DEF Reshaped
  <2>2. /\ [t EXCEPT !.cx = Half(b.x1 + b.x2), !.cy = Half(b.y1 + b.y2),
                     !.rx = Half(Width(b)), !.ry = Half(Height(b))] \in CircleShapes(0)
        /\ Kept(t, [t EXCEPT !.cx = Half(b.x1 + b.x2), !.cy = Half(b.y1 + b.y2),
                             !.rx = Half(Width(b)), !.ry = Half(Height(b))])
    BY <1>2, <1>b, <1>n DEF CircleShapes, Kept
  <2> QED BY <2>1, <2>2 DEF ShapesOver
<1>3. CASE t \in TextShapes
  <2> DEFINE h == Larger(8 * Px, Height(b))
             w == Larger(8 * Px, Width(b))
             font == Larger(8 * Px, (t.font * h) \div Larger(Px, t.h))
  <2>1. Reshaped(t, b) = [t EXCEPT !.x = b.x1, !.y = b.y1, !.w = w, !.h = h, !.font = font]
    BY <1>3, <1>n, TypesOfKinds, KindsApart DEF Reshaped
  <2>2. w \in Nat /\ h \in Nat /\ w >= 8 * Px /\ h >= 8 * Px
    BY <1>b, PxFacts DEF Larger
  <2> HIDE DEF w, h
  <2>3. t.font \in Int /\ t.h \in Int
    BY <1>3, BoxShapeFacts, <1>n DEF TextShapes
  <2>4. t.font * h \in Int /\ Larger(Px, t.h) \in Int /\ Larger(Px, t.h) > 0
    <3>1. h \in Int
      BY <2>2
    <3>2. t.font * h \in Int
      BY <2>3, <3>1, IntProducts
    <3> QED BY <3>2, <2>3, LargerPx
  <2>5. (t.font * h) \div Larger(Px, t.h) \in Int
    BY <2>4, DivFacts
  <2>6. font \in Int
    BY <2>5, PxFacts DEF Larger
  <2> HIDE DEF font
  <2>7. w \in AtLeastLong(8 * Px) /\ h \in AtLeastLong(8 * Px)
    BY <2>2 DEF AtLeastLong
  <2>8. /\ [t EXCEPT !.x = b.x1, !.y = b.y1, !.w = w, !.h = h, !.font = font] \in TextShapes
        /\ Kept(t, [t EXCEPT !.x = b.x1, !.y = b.y1, !.w = w, !.h = h, !.font = font])
    BY <1>3, <1>b, <2>6, <2>7 DEF TextShapes, Kept
  <2> QED BY <2>1, <2>8 DEF ShapesOver
<1>4. CASE t \in Strokes
  <2> DEFINE from == Box(t)
             sx == Larger(Px, Width(from))
             sy == Larger(Px, Height(from))
             p == [i \in DOMAIN t.points |->
                    <<b.x1 + ((t.points[i][1] - from.x1) * Width(b)) \div sx,
                      b.y1 + ((t.points[i][2] - from.y1) * Height(b)) \div sy>>]
  <2>1. Reshaped(t, b) = [t EXCEPT !.points = p]
    BY <1>4, <1>n, TypesOfKinds, KindsApart DEF Reshaped
  <2>2. /\ from.x1 \in Int /\ from.y1 \in Int /\ sx \in Int /\ sx > 0 /\ sy \in Int /\ sy > 0
    <3>1. from \in Rectangles
      BY <1>n, BoxFacts
    <3> HIDE DEF from
    <3>2. from.x1 \in Int /\ from.y1 \in Int /\ Width(from) \in Int /\ Height(from) \in Int
      BY <3>1 DEF Rectangles, Width, Height
    <3> QED BY <3>2, LargerPx DEF sx, sy
  <2> HIDE DEF from, sx, sy
  <2>3. \A i \in DOMAIN t.points : p[i] \in Int \X Int
    <3> SUFFICES ASSUME NEW i \in DOMAIN t.points PROVE p[i] \in Int \X Int
      OBVIOUS
    <3> DEFINE u == t.points[i][1] - from.x1
               v == t.points[i][2] - from.y1
    <3>1. t.points[i] \in Int \X Int
      BY <1>4, StrokeFacts
    <3>2. u \in Int /\ v \in Int
      BY <2>2, <3>1
    <3> HIDE DEF u, v
    <3>3. u * Width(b) \in Int /\ v * Height(b) \in Int
      BY <1>b, <3>2, IntProducts
    <3>4. (u * Width(b)) \div sx \in Int /\ (v * Height(b)) \div sy \in Int
      BY <2>2, <3>3, DivFacts
    <3>5. b.x1 + (u * Width(b)) \div sx \in Int /\ b.y1 + (v * Height(b)) \div sy \in Int
      BY <1>b, <3>4
    <3>6. p[i] = <<b.x1 + (u * Width(b)) \div sx, b.y1 + (v * Height(b)) \div sy>>
      BY DEF u, v
    <3> QED BY <3>5, <3>6
  <2>4. p = [i \in DOMAIN t.points |-> p[i]]
    OBVIOUS
  <2> HIDE DEF p
  <2> QED BY <1>4, <2>1, <2>3, <2>4, StrokeOf DEF ShapesOver
<1> QED BY <1>1, <1>2, <1>3, <1>4, <1>n, TypesOfKinds DEF ShapesOver

\* Two corners span an upright box.
LEMMA NormalizedUpright ==
  ASSUME NEW x1 \in Int, NEW y1 \in Int, NEW x2 \in Int, NEW y2 \in Int
  PROVE  Upright(Normalize(x1, y1, x2, y2))
BY NormalizeFacts

\* The ends of a pulled interval.
LEMMA PulledFacts ==
  ASSUME NEW low \in Int, NEW high \in Int, NEW side, NEW p \in Int, NEW fromCenter \in BOOLEAN
  PROVE  Pulled(low, high, side, p, fromCenter) \in Int \X Int
<1> DEFINE mirrored == low + high - p
<1>1. mirrored \in Int
  OBVIOUS
<1>2. Pulled(low, high, side, p, fromCenter) =
        CASE side = "low" -> <<p, IF fromCenter THEN mirrored ELSE high>>
          [] side = "high" -> <<IF fromCenter THEN mirrored ELSE low, p>>
          [] OTHER -> <<low, high>>
  BY DEF Pulled
<1> HIDE DEF mirrored
<1>3. CASE side = "low"
  <2>1. Pulled(low, high, side, p, fromCenter) = <<p, IF fromCenter THEN mirrored ELSE high>>
    BY <1>2, <1>3
  <2> QED BY <1>1, <2>1
<1>4. CASE side = "high"
  <2>1. Pulled(low, high, side, p, fromCenter) = <<IF fromCenter THEN mirrored ELSE low, p>>
    BY <1>2, <1>4
  <2> QED BY <1>1, <2>1
<1>5. CASE side # "low" /\ side # "high"
  <2>1. Pulled(low, high, side, p, fromCenter) = <<low, high>>
    BY <1>2, <1>5
  <2> QED BY <1>1, <2>1
<1> QED BY <1>3, <1>4, <1>5

\* The ends of an interval drawn to a size.
LEMMA SquaredFacts ==
  ASSUME NEW low \in Int, NEW high \in Int, NEW pulled \in Int \X Int, NEW side, NEW size \in Int
  PROVE  Squared(low, high, pulled, side, size) \in Int \X Int
<1> DEFINE a == IF pulled[1] - high < 0 THEN high - size ELSE high + size
           b == IF pulled[2] - low < 0 THEN low - size ELSE low + size
<1>1. a \in Int /\ b \in Int
  OBVIOUS
<1>2. Squared(low, high, pulled, side, size) = IF side = "low" THEN <<a, high>> ELSE <<low, b>>
  BY DEF Squared
<1> HIDE DEF a, b
<1> QED BY <1>1, <1>2

\* A resized box is upright, whichever handle is pulled across which side.
LEMMA ResizedBoxFacts ==
  ASSUME NEW b \in Rectangles, NEW handle, NEW x \in Int, NEW y \in Int,
         NEW fromCenter \in BOOLEAN, NEW square \in BOOLEAN
  PROVE  Upright(ResizedBox(b, handle, x, y, fromCenter, square))
<1> DEFINE px == Pulled(b.x1, b.x2, SideX(handle), x, fromCenter)
           py == Pulled(b.y1, b.y2, SideY(handle), y, fromCenter)
           size == Larger(Abs(px[2] - px[1]), Abs(py[2] - py[1]))
           qx == Squared(b.x1, b.x2, px, SideX(handle), size)
           qy == Squared(b.y1, b.y2, py, SideY(handle), size)
           x1 == Half(b.x1 + b.x2 - size)
           y1 == Half(b.y1 + b.y2 - size)
           x2 == Half(b.x1 + b.x2 + size)
           y2 == Half(b.y1 + b.y2 + size)
<1>1. b.x1 \in Int /\ b.x2 \in Int /\ b.y1 \in Int /\ b.y2 \in Int
  BY DEF Rectangles
<1>2. ResizedBox(b, handle, x, y, fromCenter, square) =
        CASE square /\ fromCenter -> Normalize(x1, y1, x2, y2)
          [] square /\ ~fromCenter /\ handle \in Corners -> Normalize(qx[1], qy[1], qx[2], qy[2])
          [] OTHER -> Normalize(px[1], py[1], px[2], py[2])
  BY DEF ResizedBox
<1>3. px \in Int \X Int /\ py \in Int \X Int
  BY <1>1, PulledFacts
<1> HIDE DEF px, py
<1>4. size \in Int
  <2>1. px[2] - px[1] \in Int /\ py[2] - py[1] \in Int
    BY <1>3
  <2>2. Abs(px[2] - px[1]) \in Int /\ Abs(py[2] - py[1]) \in Int
    BY <2>1, SimpleFacts
  <2> QED BY <2>2, SimpleFacts
<1> HIDE DEF size
<1>5. qx \in Int \X Int /\ qy \in Int \X Int
  BY <1>1, <1>3, <1>4, SquaredFacts
<1>6. x1 \in Int /\ x2 \in Int /\ y1 \in Int /\ y2 \in Int
  BY <1>1, <1>4 DEF Half
<1>7. /\ px[1] \in Int /\ px[2] \in Int /\ py[1] \in Int /\ py[2] \in Int
      /\ qx[1] \in Int /\ qx[2] \in Int /\ qy[1] \in Int /\ qy[2] \in Int
  BY <1>3, <1>5
<1> HIDE DEF qx, qy, x1, x2, y1, y2
<1>8. /\ Upright(Normalize(x1, y1, x2, y2)) /\ Upright(Normalize(qx[1], qy[1], qx[2], qy[2]))
      /\ Upright(Normalize(px[1], py[1], px[2], py[2]))
  BY <1>6, <1>7, NormalizedUpright
<1> QED BY <1>2, <1>8

\* A resized shape is a shape, perhaps with no sides (resizeShape).
LEMMA ResizeFacts ==
  ASSUME NEW t \in ShapesOver(0), NEW handle, NEW x \in Int, NEW y \in Int,
         NEW fromCenter \in BOOLEAN, NEW square \in BOOLEAN
  PROVE  /\ ResizeShape(t, handle, x, y, fromCenter, square) \in ShapesOver(0)
         /\ Kept(t, ResizeShape(t, handle, x, y, fromCenter, square))
<1>0. 0 \in Nat
  OBVIOUS
<1>1. CASE ~IsConnector(t)
  <2>1. Box(t) \in Rectangles
    BY <1>0, BoxFacts
  <2>2. Upright(ResizedBox(Box(t), handle, x, y, fromCenter, square))
    BY <2>1, ResizedBoxFacts
  <2>3. ResizeShape(t, handle, x, y, fromCenter, square)
          = Reshaped(t, ResizedBox(Box(t), handle, x, y, fromCenter, square))
    BY <1>1 DEF ResizeShape
  <2> QED BY <1>1, <2>2, <2>3, ReshapedFacts
<1>2. CASE IsConnector(t)
  <2>1. t \in ConnectorShapes
    BY <1>0, <1>2, KindsOfShapes
  <2>2. /\ [t EXCEPT !.x1 = x, !.y1 = y] \in ConnectorShapes
        /\ Kept(t, [t EXCEPT !.x1 = x, !.y1 = y])
    BY <2>1 DEF ConnectorShapes, Kept
  <2>3. /\ [t EXCEPT !.x2 = x, !.y2 = y] \in ConnectorShapes
        /\ Kept(t, [t EXCEPT !.x2 = x, !.y2 = y])
    BY <2>1 DEF ConnectorShapes, Kept
  <2>4. ResizeShape(t, handle, x, y, fromCenter, square)
          \in {t, [t EXCEPT !.x1 = x, !.y1 = y], [t EXCEPT !.x2 = x, !.y2 = y]}
    BY <1>2 DEF ResizeShape
  <2>5. Kept(t, t)
    BY DEF Kept
  <2> QED BY <2>1, <2>2, <2>3, <2>4, <2>5 DEF ShapesOver
<1> QED BY <1>1, <1>2

\* What a drag remembers are two numbers.
LEMMA AnchorFacts ==
  ASSUME NEW n \in Nat, NEW t \in ShapesOver(n), NEW x \in Int, NEW y \in Int,
         NEW a \in Int \X Int
  PROVE  /\ DragAnchor(t, x, y) \in Int \X Int
         /\ DragAnchorNext(t, a, x, y) \in Int \X Int
<1>1. DragAnchorNext(t, a, x, y) \in Int \X Int
  BY DEF DragAnchorNext
<1>2. CASE t \in BoxShapes(n) \cup TextShapes
  <2>1. DragAnchor(t, x, y) = <<x - t.x, y - t.y>>
    BY <1>2, TypesOfKinds, KindsApart DEF DragAnchor
  <2> QED BY <1>1, <1>2, <2>1, BoxShapeFacts
<1>3. CASE t \in CircleShapes(n)
  <2>1. DragAnchor(t, x, y) = <<x - t.cx, y - t.cy>>
    BY <1>3, TypesOfKinds, KindsApart DEF DragAnchor
  <2> QED BY <1>1, <1>3, <2>1, CircleFacts
<1>4. CASE t \in Strokes \cup ConnectorShapes
  <2>1. DragAnchor(t, x, y) = <<x, y>>
    BY <1>4, TypesOfKinds, KindsApart DEF DragAnchor
  <2> QED BY <1>1, <2>1
<1> QED BY <1>2, <1>3, <1>4 DEF ShapesOver

\* A free end is bound to nothing.
LEMMA FreeEndFacts == FreeEnd \in Ends /\ FreeEnd.to = NoId /\ ~IsBound(FreeEnd)
<1>1. <<0, 1>> \in Parts
  BY DEF Parts
<1> QED BY <1>1 DEF FreeEnd, Ends, IsBound

\* A dragged shape is a shape, of the same id and type.
LEMMA DraggedFacts ==
  ASSUME NEW n \in Nat, NEW t \in ShapesOver(n), NEW a \in Int \X Int, NEW x \in Int, NEW y \in Int
  PROVE  Dragged(t, a, x, y) \in ShapesOver(n) /\ Kept(t, Dragged(t, a, x, y))
<1> DEFINE p == x - a[1]
           q == y - a[2]
<1>0. p \in Int /\ q \in Int
  OBVIOUS
<1>1. CASE t \in BoxShapes(n) \cup TextShapes
  <2>1. Dragged(t, a, x, y) = [t EXCEPT !.x = p, !.y = q]
    BY <1>1, TypesOfKinds, KindsApart DEF Dragged
  <2> HIDE DEF p, q
  <2>2. ASSUME t \in BoxShapes(n)
        PROVE  [t EXCEPT !.x = p, !.y = q] \in BoxShapes(n) /\ Kept(t, [t EXCEPT !.x = p, !.y = q])
    BY <1>0, <2>2 DEF BoxShapes, Kept
  <2>3. ASSUME t \in TextShapes
        PROVE  [t EXCEPT !.x = p, !.y = q] \in TextShapes /\ Kept(t, [t EXCEPT !.x = p, !.y = q])
    BY <1>0, <2>3 DEF TextShapes, Kept
  <2> QED BY <1>1, <2>1, <2>2, <2>3 DEF ShapesOver
<1>2. CASE t \in CircleShapes(n)
  <2>1. Dragged(t, a, x, y) = [t EXCEPT !.cx = p, !.cy = q]
    BY <1>2, TypesOfKinds, KindsApart DEF Dragged
  <2> HIDE DEF p, q
  <2>2. [t EXCEPT !.cx = p, !.cy = q] \in CircleShapes(n) /\ Kept(t, [t EXCEPT !.cx = p, !.cy = q])
    BY <1>0, <1>2 DEF CircleShapes, Kept
  <2> QED BY <2>1, <2>2 DEF ShapesOver
<1>3. CASE t \in Strokes
  <2>1. Dragged(t, a, x, y) = Translated(t, p, q)
    BY <1>3, TypesOfKinds, KindsApart DEF Dragged
  <2> HIDE DEF p, q
  <2> QED BY <1>0, <2>1, TranslatedFacts
<1>4. CASE t \in ConnectorShapes
  <2> DEFINE u == Translated(t, p, q)
  <2>1. Dragged(t, a, x, y) = [u EXCEPT !.start = FreeEnd, !.end = FreeEnd]
    BY <1>4, TypesOfKinds, KindsApart DEF Dragged
  <2> HIDE DEF p, q
  <2>2. u \in ShapesOver(n) /\ Kept(t, u)
    BY <1>0, TranslatedFacts
  <2> HIDE DEF u
  <2>3. u \in ConnectorShapes
    BY <1>4, <2>2, TypesOfKinds, KeptKinds, KindsOfShapes
  <2>4. /\ [u EXCEPT !.start = FreeEnd, !.end = FreeEnd] \in ConnectorShapes
        /\ Kept(t, [u EXCEPT !.start = FreeEnd, !.end = FreeEnd])
    BY <2>2, <2>3, FreeEndFacts DEF ConnectorShapes, Kept
  <2> QED BY <2>1, <2>4 DEF ShapesOver
<1> QED BY <1>1, <1>2, <1>3, <1>4 DEF ShapesOver

-----------------------------------------------------------------------------
(* The places of ends, and what normalizeShapes does to them.              *)

\* A part is a fraction, one at the most.
LEMMA PartFacts ==
  ASSUME NEW r \in Parts
  PROVE  r[1] \in Nat /\ r[2] \in Nat /\ r[1] <= r[2] /\ r[2] # 0 /\ r[2] \in Int /\ r[2] > 0
BY DEF Parts

\* The parts of an end.
LEMMA EndParts ==
  ASSUME NEW e \in Ends
  PROVE  e.to \in ShapeIds \cup {NoId} /\ e.relX \in Parts /\ e.relY \in Parts
BY DEF Ends

\* The place of an end in a box.
LEMMA PlaceFacts ==
  ASSUME NEW b \in Rectangles, NEW e \in Ends
  PROVE  /\ PointIn(b, e) \in Int \X Int
         /\ PointIn(b, e)[1] = b.x1 + (e.relX[1] * Width(b)) \div e.relX[2]
         /\ PointIn(b, e)[2] = b.y1 + (e.relY[1] * Height(b)) \div e.relY[2]
<1>1. b.x1 \in Int /\ b.y1 \in Int /\ Width(b) \in Int /\ Height(b) \in Int
  BY DEF Rectangles, Width, Height
<1> DEFINE m == e.relX[1]
           n == e.relX[2]
           k == e.relY[1]
           l == e.relY[2]
<1>2. m \in Nat /\ n \in Int /\ n > 0 /\ k \in Nat /\ l \in Int /\ l > 0
  BY EndParts, PartFacts
<1> DEFINE p == (m * Width(b)) \div n
           q == (k * Height(b)) \div l
<1>3. PointIn(b, e) = <<b.x1 + p, b.y1 + q>>
  BY DEF PointIn
<1>4. p \in Int /\ q \in Int
  <2> HIDE DEF m, n, k, l
  <2>1. m * Width(b) \in Int /\ k * Height(b) \in Int
    BY <1>1, <1>2, IntProducts
  <2> QED BY <1>2, <2>1, DivFacts
<1> HIDE DEF p, q
<1>5. b.x1 + p \in Int /\ b.y1 + q \in Int
  BY <1>1, <1>4
<1>6. PointIn(b, e) \in Int \X Int /\ PointIn(b, e)[1] = b.x1 + p /\ PointIn(b, e)[2] = b.y1 + q
  BY <1>3, <1>5
<1> QED BY <1>6 DEF p, q, m, n, k, l

\* A box that another one reaches over by a pixel at most on every side.
PixelAround(b, c) ==
  /\ c.x1 <= b.x1 /\ b.x1 <= c.x1 + Px /\ b.x2 <= c.x2 /\ c.x2 <= b.x2 + Px
  /\ c.y1 <= b.y1 /\ b.y1 <= c.y1 + Px /\ b.y2 <= c.y2 /\ c.y2 <= b.y2 + Px

\* On one axis: a box that grows by up to a pixel on each side takes a place
\* along by up to a pixel.
LEMMA NearOnAxis ==
  ASSUME NEW r \in Parts, NEW b1 \in Int, NEW b2 \in Int, NEW c1 \in Int, NEW c2 \in Int,
         b1 <= b2, c1 <= b1, b1 <= c1 + Px, b2 <= c2, c2 <= b2 + Px
  PROVE  LET p == b1 + (r[1] * (b2 - b1)) \div r[2]
             q == c1 + (r[1] * (c2 - c1)) \div r[2]
         IN  p \in Int /\ q \in Int /\ q - p <= Px /\ p - q <= Px
<1> DEFINE n == r[1]
           d == r[2]
           v == b2 - b1
           w == c2 - c1
<1>1. n \in Nat /\ d \in Nat /\ d # 0 /\ n <= d
  BY PartFacts
<1>2. v \in Nat /\ w \in Nat /\ v <= w /\ Px \in Nat
  BY PxFacts
<1> DEFINE p == (n * v) \div d
           q == (n * w) \div d
<1>3. p \in Int /\ q \in Int /\ p <= q /\ q <= p + (w - v)
  <2> HIDE DEF n, d, v, w
  <2> QED BY <1>1, <1>2, DivGrows
<1>4. w - v = (b1 - c1) + (c2 - b2)
  OBVIOUS
<1> HIDE DEF p, q
<1>5. /\ b1 + p \in Int /\ c1 + q \in Int
      /\ (c1 + q) - (b1 + p) <= Px /\ (b1 + p) - (c1 + q) <= Px
  <2> HIDE DEF w, v
  <2> QED BY <1>2, <1>3, <1>4
<1> QED BY <1>5 DEF p, q, n, d, v, w

\* An absolute value from its two sides.
LEMMA AbsWithin ==
  ASSUME NEW a \in Int, NEW m \in Int, a <= m, 0 - a <= m
  PROVE  Abs(a) <= m
BY DEF Abs

\* The place of an end in a box and in one that is a pixel larger around.
LEMMA NearPlaces ==
  ASSUME NEW b, NEW c \in Rectangles, Upright(b), PixelAround(b, c), NEW e \in Ends
  PROVE  /\ Abs(PointIn(c, e)[1] - PointIn(b, e)[1]) <= Px
         /\ Abs(PointIn(c, e)[2] - PointIn(b, e)[2]) <= Px
<1>1. b \in Rectangles /\ b.x1 <= b.x2 /\ b.y1 <= b.y2
  BY DEF Upright
<1>2. /\ b.x1 \in Int /\ b.x2 \in Int /\ b.y1 \in Int /\ b.y2 \in Int
      /\ c.x1 \in Int /\ c.x2 \in Int /\ c.y1 \in Int /\ c.y2 \in Int
  BY <1>1 DEF Rectangles
<1>3. e.relX \in Parts /\ e.relY \in Parts
  BY EndParts
<1> DEFINE p == PointIn(b, e)[1]
           q == PointIn(c, e)[1]
           r == PointIn(b, e)[2]
           s == PointIn(c, e)[2]
<1>4. p \in Int /\ q \in Int /\ q - p <= Px /\ p - q <= Px
  <2>1. /\ p = b.x1 + (e.relX[1] * (b.x2 - b.x1)) \div e.relX[2]
        /\ q = c.x1 + (e.relX[1] * (c.x2 - c.x1)) \div e.relX[2]
    BY <1>1, PlaceFacts DEF Width
  <2> HIDE DEF p, q
  <2>2. b.x1 <= b.x2 /\ c.x1 <= b.x1 /\ b.x1 <= c.x1 + Px /\ b.x2 <= c.x2 /\ c.x2 <= b.x2 + Px
    BY <1>1 DEF PixelAround
  <2> QED BY <1>2, <1>3, <2>1, <2>2, NearOnAxis
<1>5. r \in Int /\ s \in Int /\ s - r <= Px /\ r - s <= Px
  <2>1. /\ r = b.y1 + (e.relY[1] * (b.y2 - b.y1)) \div e.relY[2]
        /\ s = c.y1 + (e.relY[1] * (c.y2 - c.y1)) \div e.relY[2]
    BY <1>1, PlaceFacts DEF Height
  <2> HIDE DEF r, s
  <2>2. b.y1 <= b.y2 /\ c.y1 <= b.y1 /\ b.y1 <= c.y1 + Px /\ b.y2 <= c.y2 /\ c.y2 <= b.y2 + Px
    BY <1>1 DEF PixelAround
  <2> QED BY <1>2, <1>3, <2>1, <2>2, NearOnAxis
<1> HIDE DEF p, q, r, s
<1>6. Abs(q - p) <= Px /\ Abs(s - r) <= Px
  BY <1>4, <1>5, PxFacts, AbsWithin
<1> QED BY <1>6 DEF p, q, r, s

\* A box given a least width and height.
LEMMA AtLeastBox ==
  ASSUME NEW x1 \in Int, NEW y1 \in Int, NEW x2 \in Int, NEW y2 \in Int, NEW w \in Int, NEW h \in Int
  PROVE  AtLeast([x1 |-> x1, y1 |-> y1, x2 |-> x2, y2 |-> y2], w, h)
           = [x1 |-> x1, y1 |-> y1, x2 |-> Larger(x1 + w, x2), y2 |-> Larger(y1 + h, y2)]
<1> DEFINE b == [x1 |-> x1, y1 |-> y1, x2 |-> x2, y2 |-> y2]
           c == Larger(x1 + w, x2)
           d == Larger(y1 + h, y2)
           u == [b EXCEPT !.x2 = c, !.y2 = d]
<1>1. AtLeast(b, w, h) = u
  BY DEF AtLeast
<1>2. c \in Int /\ d \in Int
  BY DEF Larger
<1> HIDE DEF c, d
<1>3. b \in Rectangles /\ b.x1 = x1 /\ b.y1 = y1
  BY DEF Rectangles
<1> HIDE DEF b
<1>4. u \in Rectangles /\ u.x1 = x1 /\ u.y1 = y1 /\ u.x2 = c /\ u.y2 = d
  BY <1>2, <1>3 DEF Rectangles
<1> HIDE DEF u
<1>5. u = [x1 |-> x1, y1 |-> y1, x2 |-> c, y2 |-> d]
  BY <1>4 DEF Rectangles
<1> QED BY <1>1, <1>5 DEF b, c, d

\* normalizeShapes on boxes: a pixel more at the most, and nothing twice.
LEMMA CanonicalBoxes ==
  ASSUME NEW t \in BoxShapes(0), NEW ids
  PROVE  LET u == CanonicalShape(t, ids)
         IN  u \in BoxShapes(Px) /\ Kept(t, u) /\ PixelAround(Box(t), Box(u))
             /\ (t \in BoxShapes(Px) => Box(u) = Box(t))
<1> DEFINE w == Larger(t.x + Px, t.x + t.w)
           h == Larger(t.y + Px, t.y + t.h)
           b == AtLeast(Box(t), Px, Px)
           u == [t EXCEPT !.x = t.x, !.y = t.y, !.w = w - t.x, !.h = h - t.y]
<1>0. 0 \in Nat
  OBVIOUS
<1>1. /\ t.x \in Int /\ t.y \in Int /\ t.w \in Nat /\ t.h \in Nat
      /\ Box(t) = [x1 |-> t.x, y1 |-> t.y, x2 |-> t.x + t.w, y2 |-> t.y + t.h]
  BY <1>0, BoxShapeFacts
<1>2. CanonicalShape(t, ids) = Reshaped(t, b)
  BY <1>0, TypesOfKinds, KindsApart DEF CanonicalShape
<1>3. b = [x1 |-> t.x, y1 |-> t.y, x2 |-> w, y2 |-> h]
  <2>1. t.x + t.w \in Int /\ t.y + t.h \in Int /\ Px \in Int
    BY <1>1, PxFacts
  <2> QED BY <1>1, <2>1, AtLeastBox
<1>4. CanonicalShape(t, ids) = u
  <2>1. Reshaped(t, b) = [t EXCEPT !.x = b.x1, !.y = b.y1, !.w = Width(b), !.h = Height(b)]
    BY <1>0, TypesOfKinds, KindsApart DEF Reshaped
  <2> HIDE DEF b
  <2>2. b.x1 = t.x /\ b.y1 = t.y /\ Width(b) = w - t.x /\ Height(b) = h - t.y
    BY <1>3 DEF Width, Height
  <2> QED BY <1>2, <2>1, <2>2 DEF b
<1> DEFINE m == w - t.x
           n == h - t.y
<1>5. /\ m \in Nat /\ n \in Nat /\ m >= Px /\ n >= Px /\ m >= t.w /\ n >= t.h
      /\ m <= t.w + Px /\ n <= t.h + Px
      /\ (t.w >= Px => m = t.w) /\ (t.h >= Px => n = t.h)
  BY <1>1, PxFacts DEF Larger
<1> HIDE DEF m, n
<1>6. m \in AtLeastLong(Px) /\ n \in AtLeastLong(Px)
  BY <1>5 DEF AtLeastLong
<1>7. u = [t EXCEPT !.x = t.x, !.y = t.y, !.w = m, !.h = n]
  BY DEF m, n
<1> HIDE DEF u, w, h, b
<1>8. u \in BoxShapes(Px) /\ Kept(t, u) /\ u.x = t.x /\ u.y = t.y /\ u.w = m /\ u.h = n
  BY <1>1, <1>6, <1>7 DEF BoxShapes, Kept
<1>9. Box(u) = [x1 |-> t.x, y1 |-> t.y, x2 |-> t.x + m, y2 |-> t.y + n]
  BY <1>8, PxFacts, BoxShapeFacts
<1>10. PixelAround(Box(t), Box(u))
  <2>1. /\ Box(t).x1 = t.x /\ Box(t).y1 = t.y /\ Box(t).x2 = t.x + t.w /\ Box(t).y2 = t.y + t.h
        /\ Box(u).x1 = t.x /\ Box(u).y1 = t.y /\ Box(u).x2 = t.x + m /\ Box(u).y2 = t.y + n
    BY <1>1, <1>9
  <2>2. t.x <= t.x /\ t.x <= t.x + Px /\ t.x + t.w <= t.x + m /\ t.x + m <= t.x + t.w + Px
    BY <1>1, <1>5, PxFacts
  <2>3. t.y <= t.y /\ t.y <= t.y + Px /\ t.y + t.h <= t.y + n /\ t.y + n <= t.y + t.h + Px
    BY <1>1, <1>5, PxFacts
  <2> QED BY <2>1, <2>2, <2>3 DEF PixelAround
<1>11. ASSUME t \in BoxShapes(Px) PROVE Box(u) = Box(t)
  <2>1. t.w >= Px /\ t.h >= Px
    BY <1>11, PxFacts, BoxShapeFacts
  <2> QED BY <1>1, <1>5, <1>9, <2>1
<1> QED BY <1>4, <1>8, <1>10, <1>11

\* normalizeShapes on circles: a pixel more at the most, and nothing twice.
LEMMA CanonicalCircles ==
  ASSUME NEW t \in CircleShapes(0), NEW ids
  PROVE  LET u == CanonicalShape(t, ids)
         IN  u \in CircleShapes(Px) /\ Kept(t, u) /\ PixelAround(Box(t), Box(u))
             /\ (t \in CircleShapes(Px) => Box(u) = Box(t))
<1> DEFINE m == Larger(Px, Abs(t.rx))
           n == Larger(Px, Abs(t.ry))
           u == [t EXCEPT !.rx = m, !.ry = n]
<1>0. 0 \in Nat
  OBVIOUS
<1>1. /\ t.cx \in Int /\ t.cy \in Int /\ t.rx \in Nat /\ t.ry \in Nat
      /\ Box(t) = [x1 |-> t.cx - t.rx, y1 |-> t.cy - t.ry, x2 |-> t.cx + t.rx, y2 |-> t.cy + t.ry]
  BY <1>0, CircleFacts
<1>2. CanonicalShape(t, ids) = u
  BY <1>0, TypesOfKinds, KindsApart DEF CanonicalShape
<1>3. /\ m \in Nat /\ n \in Nat /\ m >= Px /\ n >= Px /\ m >= t.rx /\ n >= t.ry
      /\ m <= t.rx + Px /\ n <= t.ry + Px
      /\ (t.rx >= Px => m = t.rx) /\ (t.ry >= Px => n = t.ry)
  BY <1>1, PxFacts DEF Larger, Abs
<1> HIDE DEF m, n
<1>4. m \in AtLeastLong(Px) /\ n \in AtLeastLong(Px)
  BY <1>3 DEF AtLeastLong
<1>5. u \in CircleShapes(Px) /\ Kept(t, u) /\ u.cx = t.cx /\ u.cy = t.cy /\ u.rx = m /\ u.ry = n
  BY <1>1, <1>4 DEF CircleShapes, Kept
<1> HIDE DEF u
<1>6. Box(u) = [x1 |-> t.cx - m, y1 |-> t.cy - n, x2 |-> t.cx + m, y2 |-> t.cy + n]
  BY <1>5, PxFacts, CircleFacts
<1>7. PixelAround(Box(t), Box(u))
  <2>1. /\ Box(t).x1 = t.cx - t.rx /\ Box(t).y1 = t.cy - t.ry
        /\ Box(t).x2 = t.cx + t.rx /\ Box(t).y2 = t.cy + t.ry
        /\ Box(u).x1 = t.cx - m /\ Box(u).y1 = t.cy - n
        /\ Box(u).x2 = t.cx + m /\ Box(u).y2 = t.cy + n
    BY <1>1, <1>6
  <2>2. /\ t.cx - m <= t.cx - t.rx /\ t.cx - t.rx <= t.cx - m + Px
        /\ t.cx + t.rx <= t.cx + m /\ t.cx + m <= t.cx + t.rx + Px
    BY <1>1, <1>3, PxFacts
  <2>3. /\ t.cy - n <= t.cy - t.ry /\ t.cy - t.ry <= t.cy - n + Px
        /\ t.cy + t.ry <= t.cy + n /\ t.cy + n <= t.cy + t.ry + Px
    BY <1>1, <1>3, PxFacts
  <2> QED BY <2>1, <2>2, <2>3 DEF PixelAround
<1>8. ASSUME t \in CircleShapes(Px) PROVE Box(u) = Box(t)
  <2>1. t.rx >= Px /\ t.ry >= Px
    BY <1>8, PxFacts, CircleFacts
  <2> QED BY <1>1, <1>3, <1>6, <2>1
<1> QED BY <1>2, <1>5, <1>7, <1>8

\* A text keeps its box, a stroke stays as it is.
LEMMA CanonicalTexts ==
  ASSUME NEW t \in TextShapes, NEW ids, ids \subseteq ShapeIds
  PROVE  LET u == CanonicalShape(t, ids)
         IN  u \in TextShapes /\ Kept(t, u) /\ Box(u) = Box(t)
<1> DEFINE b == AtLeast(Box(t), 8 * Px, 8 * Px)
           font == Larger(8 * Px, t.font)
           parent == IF t.parent \in ids THEN t.parent ELSE NoId
           u == [t EXCEPT !.x = t.x, !.y = t.y, !.w = t.w, !.h = t.h, !.font = font, !.parent = parent]
<1>0. 0 \in Nat
  OBVIOUS
<1>1. /\ t.x \in Int /\ t.y \in Int /\ t.w \in Nat /\ t.h \in Nat /\ t.w >= 8 * Px /\ t.h >= 8 * Px
      /\ Box(t) = [x1 |-> t.x, y1 |-> t.y, x2 |-> t.x + t.w, y2 |-> t.y + t.h]
  BY <1>0, BoxShapeFacts
<1>2. CanonicalShape(t, ids) = CanonicalText(t, b, ids)
  BY <1>0, TypesOfKinds, KindsApart DEF CanonicalShape
<1>3. b.x1 = t.x /\ b.y1 = t.y /\ b.x2 = t.x + t.w /\ b.y2 = t.y + t.h
  <2>1. b = [x1 |-> t.x, y1 |-> t.y, x2 |-> Larger(t.x + 8 * Px, t.x + t.w),
             y2 |-> Larger(t.y + 8 * Px, t.y + t.h)]
    <3>1. t.x + t.w \in Int /\ t.y + t.h \in Int /\ 8 * Px \in Int
      BY <1>1, PxFacts
    <3> QED BY <1>1, <3>1, AtLeastBox
  <2>2. Larger(t.x + 8 * Px, t.x + t.w) = t.x + t.w /\ Larger(t.y + 8 * Px, t.y + t.h) = t.y + t.h
    BY <1>1, PxFacts DEF Larger
  <2> HIDE DEF b
  <2> QED BY <2>1, <2>2
<1>4. CanonicalShape(t, ids) = u
  <2> HIDE DEF b
  <2>1. Width(b) = t.w /\ Height(b) = t.h
    BY <1>1, <1>3 DEF Width, Height
  <2>2. CanonicalText(t, b, ids)
          = [t EXCEPT !.x = b.x1, !.y = b.y1, !.w = Width(b), !.h = Height(b),
                      !.font = font, !.parent = parent]
    BY DEF CanonicalText
  <2> QED BY <1>2, <1>3, <2>1, <2>2
<1>5. font \in Int /\ parent \in ShapeIds \cup {NoId}
  <2>1. t.font \in Int
    BY DEF TextShapes
  <2> QED BY <2>1, PxFacts DEF Larger
<1>6. t.w \in AtLeastLong(8 * Px) /\ t.h \in AtLeastLong(8 * Px)
  BY <1>1 DEF AtLeastLong
<1> HIDE DEF font, parent
<1>7. /\ u \in TextShapes /\ Kept(t, u)
      /\ u.x = t.x /\ u.y = t.y /\ u.w = t.w /\ u.h = t.h
  BY <1>1, <1>5, <1>6 DEF TextShapes, Kept
<1> HIDE DEF u
<1>8. Box(u) = [x1 |-> u.x, y1 |-> u.y, x2 |-> u.x + u.w, y2 |-> u.y + u.h]
  BY <1>0, <1>7, BoxShapeFacts
<1> QED BY <1>1, <1>4, <1>7, <1>8

\* normalizeShapes on connectors: without a length, one end is pushed a pixel on.
LEMMA CanonicalConnectors ==
  ASSUME NEW t \in ConnectorShapes, NEW ids
  PROVE  LET u == CanonicalShape(t, ids)
         IN  /\ u \in ConnectorShapes /\ Kept(t, u)
             /\ u.start = t.start /\ u.end = t.end
             /\ u.x1 = t.x1 /\ u.y1 = t.y1 /\ u.y2 = t.y2
             /\ u.x2 \in Int /\ t.x2 <= u.x2 /\ u.x2 <= t.x2 + Px
             /\ <<u.x1, u.y1>> # <<u.x2, u.y2>>
             /\ <<t.x1, t.y1>> # <<t.x2, t.y2>> => u = t
<1> DEFINE far == IF <<t.x1, t.y1>> = <<t.x2, t.y2>> THEN t.x2 + Px ELSE t.x2
           u == [t EXCEPT !.x2 = far]
<1>0. 0 \in Nat
  OBVIOUS
<1>1. CanonicalShape(t, ids) = u
  BY <1>0, TypesOfKinds, KindsApart DEF CanonicalShape
<1>2. t.x1 \in Int /\ t.y1 \in Int /\ t.x2 \in Int /\ t.y2 \in Int
  BY DEF ConnectorShapes
<1>3. far \in Int /\ t.x2 <= far /\ far <= t.x2 + Px /\ <<t.x1, t.y1>> # <<far, t.y2>>
  BY <1>2, PxFacts
<1>4. <<t.x1, t.y1>> # <<t.x2, t.y2>> => far = t.x2
  OBVIOUS
<1> HIDE DEF far
<1>5. /\ u \in ConnectorShapes /\ Kept(t, u) /\ u.start = t.start /\ u.end = t.end
      /\ u.x1 = t.x1 /\ u.y1 = t.y1 /\ u.y2 = t.y2 /\ u.x2 = far
  BY <1>2, <1>3 DEF ConnectorShapes, Kept
<1>6. far = t.x2 => u = t
  BY DEF ConnectorShapes
<1> HIDE DEF u
<1> QED BY <1>1, <1>3, <1>4, <1>5, <1>6

\* A box is within a pixel around itself.
LEMMA PixelAroundItself ==
  ASSUME NEW b \in Rectangles
  PROVE  PixelAround(b, b)
<1>1. b.x1 \in Int /\ b.x2 \in Int /\ b.y1 \in Int /\ b.y2 \in Int
  BY DEF Rectangles
<1> QED BY <1>1, PxFacts DEF PixelAround

\* normalizeShapes on any shape.
LEMMA CanonicalFacts ==
  ASSUME NEW t \in ShapesOver(0), NEW ids, ids \subseteq ShapeIds
  PROVE  LET u == CanonicalShape(t, ids)
         IN  /\ u \in ShapesOver(Px) /\ Kept(t, u)
             /\ ~IsConnector(t) => PixelAround(Box(t), Box(u))
             /\ ~IsConnector(t) /\ t \in ShapesOver(Px) => Box(u) = Box(t)
<1> DEFINE u == CanonicalShape(t, ids)
<1>0. 0 \in Nat /\ Px \in Nat /\ Box(t) \in Rectangles
  BY PxFacts, BoxFacts
<1>1. CASE t \in BoxShapes(0)
  <2>1. u \in BoxShapes(Px) /\ Kept(t, u) /\ PixelAround(Box(t), Box(u))
        /\ (t \in BoxShapes(Px) => Box(u) = Box(t))
    BY <1>1, CanonicalBoxes
  <2>2. t \in ShapesOver(Px) => t \in BoxShapes(Px)
    BY <1>0, <1>1, TypesOfKinds, KindsOfShapes
  <2> HIDE DEF u
  <2>3. u \in ShapesOver(Px)
    BY <2>1 DEF ShapesOver
  <2> QED BY <2>1, <2>2, <2>3 DEF u
<1>2. CASE t \in CircleShapes(0)
  <2>1. u \in CircleShapes(Px) /\ Kept(t, u) /\ PixelAround(Box(t), Box(u))
        /\ (t \in CircleShapes(Px) => Box(u) = Box(t))
    BY <1>2, CanonicalCircles
  <2>2. t \in ShapesOver(Px) => t \in CircleShapes(Px)
    BY <1>0, <1>2, TypesOfKinds, KindsOfShapes
  <2> HIDE DEF u
  <2>3. u \in ShapesOver(Px)
    BY <2>1 DEF ShapesOver
  <2> QED BY <2>1, <2>2, <2>3 DEF u
<1>3. CASE t \in TextShapes
  <2>1. u \in TextShapes /\ Kept(t, u) /\ Box(u) = Box(t)
    BY <1>3, CanonicalTexts
  <2> HIDE DEF u
  <2>2. u \in ShapesOver(Px) /\ PixelAround(Box(t), Box(u))
    BY <1>0, <2>1, PixelAroundItself DEF ShapesOver
  <2> QED BY <2>1, <2>2 DEF u
<1>4. CASE t \in Strokes
  <2>1. u = t
    BY <1>0, <1>4, TypesOfKinds, KindsApart DEF CanonicalShape
  <2> HIDE DEF u
  <2>2. u \in ShapesOver(Px) /\ PixelAround(Box(t), Box(u)) /\ Kept(t, u)
    BY <1>0, <1>4, <2>1, PixelAroundItself DEF ShapesOver, Kept
  <2> QED BY <2>1, <2>2 DEF u
<1>5. CASE t \in ConnectorShapes
  <2>1. u \in ConnectorShapes /\ Kept(t, u) /\ IsConnector(t)
    BY <1>0, <1>5, CanonicalConnectors, TypesOfKinds
  <2> HIDE DEF u
  <2>2. u \in ShapesOver(Px)
    BY <2>1 DEF ShapesOver
  <2> QED BY <2>1, <2>2 DEF u
<1> QED BY <1>1, <1>2, <1>3, <1>4, <1>5 DEF ShapesOver

\* A connector given other ends at other places.
LEMMA RejoinedFacts ==
  ASSUME NEW c \in ConnectorShapes, NEW p \in Int \X Int, NEW q \in Int \X Int,
         NEW start \in Ends, NEW end \in Ends
  PROVE  LET u == Rejoined(c, p, q, start, end)
         IN  /\ u \in ConnectorShapes /\ Kept(c, u)
             /\ u.x1 = p[1] /\ u.y1 = p[2] /\ u.x2 = q[1] /\ u.y2 = q[2]
             /\ u.start = start /\ u.end = end
<1> DEFINE a == p[1]
           b == p[2]
           d == q[1]
           f == q[2]
           u == [c EXCEPT !.x1 = a, !.y1 = b, !.x2 = d, !.y2 = f, !.start = start, !.end = end]
<1>1. a \in Int /\ b \in Int /\ d \in Int /\ f \in Int
  OBVIOUS
<1>2. Rejoined(c, p, q, start, end) = u
  BY DEF Rejoined
<1> HIDE DEF a, b, d, f
<1>3. /\ u \in ConnectorShapes /\ Kept(c, u)
      /\ u.x1 = a /\ u.y1 = b /\ u.x2 = d /\ u.y2 = f /\ u.start = start /\ u.end = end
  BY <1>1 DEF ConnectorShapes, Kept
<1> HIDE DEF u
<1> QED BY <1>2, <1>3 DEF a, b, d, f

\* An end bound at a point has its parts between nothing and all of the box.
LEMMA BoundFacts ==
  ASSUME NEW t, t.id \in ShapeIds, NEW b \in Rectangles, NEW w \in Int, w > 0,
         NEW h \in Int, h > 0, NEW x \in Int, NEW y \in Int
  PROVE  BoundIn(t, b, w, h, x, y) \in Ends /\ BoundIn(t, b, w, h, x, y).to = t.id
<1> DEFINE m == Clamp(x - b.x1, 0, w)
           n == Clamp(y - b.y1, 0, h)
<1>1. x - b.x1 \in Int /\ y - b.y1 \in Int
  BY DEF Rectangles
<1>2. m \in Int /\ 0 <= m /\ m <= w /\ n \in Int /\ 0 <= n /\ n <= h
  <2>1. 0 \in Int /\ 0 <= w /\ 0 <= h
    OBVIOUS
  <2> QED BY <1>1, <2>1, ClampFacts
<1>3. BoundIn(t, b, w, h, x, y) = [to |-> t.id, relX |-> <<m, w>>, relY |-> <<n, h>>]
  BY DEF BoundIn, Bound
<1> HIDE DEF m, n
<1>4. <<m, w>> \in Parts /\ <<n, h>> \in Parts
  BY <1>2 DEF Parts
<1> QED BY <1>3, <1>4 DEF Ends

\* A length scaled from one box to another.
LEMMA ScaledFacts ==
  ASSUME NEW n \in Int, NEW a \in Int, NEW b \in Int
  PROVE  Scaled(n, Larger(Px, a), Larger(Px, b)) \in Int
<1> DEFINE from == Larger(Px, a)
           to == Larger(Px, b)
<1>1. from \in Int /\ from > 0 /\ to \in Int
  BY LargerPx
<1> HIDE DEF from, to
<1>2. Clamp(n, 0, from) \in Int
  BY <1>1, ClampFacts
<1>3. Clamp(n, 0, from) * to \in Int
  BY <1>1, <1>2, IntProducts
<1>4. (Clamp(n, 0, from) * to) \div from \in Int
  BY <1>1, <1>3, DivFacts
<1> QED BY <1>4 DEF Scaled, from, to

\* Where a label is carried to, on one axis.
LEMMA CarriedToFacts ==
  ASSUME NEW at \in Int, NEW o1 \in Int, NEW o2 \in Int, NEW n1 \in Int, NEW n2 \in Int
  PROVE  CarriedTo(at, o1, o2, n1, n2) \in Int
<1>1. at - o1 \in Int /\ o2 - o1 \in Int /\ n2 - n1 \in Int
  OBVIOUS
<1>2. Scaled(at - o1, Larger(Px, o2 - o1), Larger(Px, n2 - n1)) \in Int
  BY <1>1, ScaledFacts
<1> QED BY <1>2 DEF CarriedTo

\* How long a label becomes, on one axis.
LEMMA CarriedLengthFacts ==
  ASSUME NEW length \in Int, NEW at \in Int,
         NEW o1 \in Int, NEW o2 \in Int, NEW n1 \in Int, NEW n2 \in Int
  PROVE  CarriedLength(length, at, o1, o2, n1, n2) \in AtLeastLong(8 * Px)
<1> DEFINE scaled == Scaled(length, Larger(Px, o2 - o1), Larger(Px, n2 - n1))
           room == Larger(8 * Px, n2 - CarriedTo(at, o1, o2, n1, n2))
<1>1. scaled \in Int
  <2>1. o2 - o1 \in Int /\ n2 - n1 \in Int
    OBVIOUS
  <2> QED BY <2>1, ScaledFacts
<1>2. room \in Int
  <2>1. CarriedTo(at, o1, o2, n1, n2) \in Int
    BY CarriedToFacts
  <2>2. n2 - CarriedTo(at, o1, o2, n1, n2) \in Int
    BY <2>1
  <2>3. 8 * Px \in Int
    BY PxFacts
  <2> QED BY <2>2, <2>3, SimpleFacts
<1>3. CarriedLength(length, at, o1, o2, n1, n2) = Larger(8 * Px, Smaller(scaled, room))
  BY DEF CarriedLength
<1> HIDE DEF scaled, room
<1>4. Smaller(scaled, room) \in Int
  BY <1>1, <1>2, SimpleFacts
<1> QED BY <1>3, <1>4, LargerPx DEF AtLeastLong

\* A carried label is a text, eight pixels large at least.
LEMMA CarriedFacts ==
  ASSUME NEW t \in TextShapes, NEW old \in Rectangles, NEW new \in Rectangles
  PROVE  CarriedAlong(t, old, new) \in TextShapes /\ Kept(t, CarriedAlong(t, old, new))
<1>1. /\ old.x1 \in Int /\ old.x2 \in Int /\ old.y1 \in Int /\ old.y2 \in Int
      /\ new.x1 \in Int /\ new.x2 \in Int /\ new.y1 \in Int /\ new.y2 \in Int
  BY DEF Rectangles
<1>2. t.x \in Int /\ t.y \in Int /\ t.w \in Int /\ t.h \in Int
  <2>1. 0 \in Nat
    OBVIOUS
  <2> QED BY <2>1, BoxShapeFacts
<1> DEFINE x == CarriedTo(t.x, old.x1, old.x2, new.x1, new.x2)
           y == CarriedTo(t.y, old.y1, old.y2, new.y1, new.y2)
           w == CarriedLength(t.w, t.x, old.x1, old.x2, new.x1, new.x2)
           h == CarriedLength(t.h, t.y, old.y1, old.y2, new.y1, new.y2)
<1>3. CarriedAlong(t, old, new) = [t EXCEPT !.x = x, !.y = y, !.w = w, !.h = h]
  BY DEF CarriedAlong
<1>4. x \in Int /\ y \in Int
  BY <1>1, <1>2, CarriedToFacts
<1>5. w \in AtLeastLong(8 * Px) /\ h \in AtLeastLong(8 * Px)
  BY <1>1, <1>2, CarriedLengthFacts
<1> HIDE DEF x, y, w, h
<1>6. /\ [t EXCEPT !.x = x, !.y = y, !.w = w, !.h = h] \in TextShapes
      /\ Kept(t, [t EXCEPT !.x = x, !.y = y, !.w = w, !.h = h])
  BY <1>4, <1>5 DEF TextShapes, Kept
<1> QED BY <1>3, <1>6

-----------------------------------------------------------------------------
(* Sheets.                                                                 *)

\* Sheets whose shapes have sides of some length and an id each.
Laid(m, s) ==
  /\ s \in Seq(ShapesOver(m))
  /\ \A i, k \in DOMAIN s : s[i].id = s[k].id => i = k

\* The same shapes at the same places of the sheet, in other geometry.
Alike(s, n) == DOMAIN n = DOMAIN s /\ \A i \in DOMAIN s : Kept(s[i], n[i])

\* The places and shapes of a sheet.
LEMMA SheetFacts ==
  ASSUME NEW m \in Nat, NEW s, Laid(m, s)
  PROVE  /\ Len(s) \in Nat /\ DOMAIN s = 1..Len(s) /\ DOMAIN s \in SUBSET Int
         /\ \A i \in DOMAIN s : s[i] \in ShapesOver(m) /\ s[i].id \in ShapeIds
         /\ AllIds(s) \subseteq ShapeIds
<1> DEFINE S == ShapesOver(m)
<1>1. s \in Seq(S)
  BY DEF Laid
<1>2. \A t \in S : t.id \in ShapeIds
  BY KindsOfShapes
<1> HIDE DEF S
<1>3. Len(s) \in Nat /\ DOMAIN s = 1..Len(s) /\ s \in [1..Len(s) -> S]
  BY <1>1, LenProperties
<1>4. \A i \in DOMAIN s : s[i] \in S
  BY <1>3
<1>5. \A i \in DOMAIN s : s[i].id \in ShapeIds
  BY <1>2, <1>4
<1>6. AllIds(s) \subseteq ShapeIds
  BY <1>5 DEF AllIds
<1>7. DOMAIN s \in SUBSET Int
  BY <1>3
<1> QED BY <1>3, <1>4, <1>5, <1>6, <1>7 DEF S

\* A sheet of shapes with sides is one of shapes with or without.
LEMMA WiderSheets ==
  ASSUME NEW s, Laid(Px, s)
  PROVE  Laid(0, s)
<1>1. ShapesOver(Px) \subseteq ShapesOver(0)
  BY PxFacts, LongerShapes
<1> DEFINE S == ShapesOver(Px)
           T == ShapesOver(0)
<1>2. s \in Seq(S) /\ S \subseteq T
  BY <1>1 DEF Laid
<1> HIDE DEF S, T
<1>3. Len(s) \in Nat /\ s \in [1..Len(s) -> S]
  BY <1>2, LenProperties
<1>4. s \in [1..Len(s) -> T]
  BY <1>2, <1>3
<1>5. s \in Seq(T)
  BY <1>3, <1>4, SeqDef
<1> QED BY <1>5 DEF T, Laid

\* What normalizeShapes leaves, in two parts.
LEMMA NormalSheets ==
  ASSUME NEW s
  PROVE  Normal(s) <=> /\ Laid(Px, s)
                       /\ \A i \in DOMAIN s : IsConnector(s[i]) =>
                            <<s[i].x1, s[i].y1>> # <<s[i].x2, s[i].y2>>
BY DEF Normal, Laid

\* The shape with an id.
LEMMA TheShape ==
  ASSUME NEW m \in Nat, NEW s, Laid(m, s), NEW i \in DOMAIN s
  PROVE  IndexOf(s, s[i].id) = i /\ ShapeOf(s, s[i].id) = s[i]
<1> DEFINE id == s[i].id
           Is(k) == k \in DOMAIN s /\ s[k].id = id /\ \A l \in 1..(k - 1) : ~(s[l].id = id)
<1>1. IndexOf(s, id) = CHOOSE k \in DOMAIN s : s[k].id = id /\ \A l \in 1..(k - 1) : ~(s[l].id = id)
  BY DEF IndexOf, The
<1>2. Len(s) \in Nat /\ DOMAIN s = 1..Len(s)
  BY SheetFacts
<1>3. \A k \in DOMAIN s : s[k].id = id => k = i
  BY DEF Laid
<1>4. \A l \in 1..(i - 1) : l \in DOMAIN s /\ l # i
  BY <1>2
<1>5. s[i].id = id /\ \A l \in 1..(i - 1) : ~(s[l].id = id)
  BY <1>3, <1>4
<1> HIDE DEF id
<1>6. IndexOf(s, id) \in DOMAIN s /\ s[IndexOf(s, id)].id = id
  BY <1>1, <1>5
<1>7. IndexOf(s, id) = i
  BY <1>3, <1>6
<1> QED BY <1>7 DEF ShapeOf, id

\* The shape with an id.
LEMMA ShapeWithId ==
  ASSUME NEW m \in Nat, NEW s, Laid(m, s), NEW id \in AllIds(s)
  PROVE  /\ ShapeOf(s, id) \in ShapesOver(m) /\ ShapeOf(s, id).id = id
         /\ Box(ShapeOf(s, id)) \in Rectangles /\ IndexOf(s, id) \in DOMAIN s
<1>1. PICK i \in DOMAIN s : s[i].id = id
  BY DEF AllIds
<1>2. ShapeOf(s, id) = s[i] /\ IndexOf(s, id) = i
  BY <1>1, TheShape
<1>3. s[i] \in ShapesOver(m)
  BY SheetFacts
<1> QED BY <1>1, <1>2, <1>3, BoxFacts

\* Every shape of a sheet made anew.
LEMMA RemadeIds ==
  ASSUME NEW m \in Nat, NEW s, Laid(m, s), NEW l \in Nat,
         NEW t, t = [i \in DOMAIN s |-> t[i]],
         \A i \in DOMAIN s : t[i] \in ShapesOver(l) /\ t[i].id = s[i].id
  PROVE  t \o <<>> = t /\ Laid(l, t) /\ AllIds(t) = AllIds(s) /\ DOMAIN t = DOMAIN s
<1> DEFINE S == ShapesOver(m)
           T == ShapesOver(l)
<1>1. s \in Seq(S) /\ \A i \in DOMAIN s : t[i] \in T
  BY DEF Laid
<1> HIDE DEF S, T
<1>2. t \o <<>> = t /\ t \in Seq(T) /\ DOMAIN t = DOMAIN s
  BY <1>1, NewShapes
<1>4. \A i, k \in DOMAIN s : s[i].id = s[k].id => i = k
  BY DEF Laid
<1>5. Laid(l, t)
  BY <1>2, <1>4 DEF Laid, T
<1>6. AllIds(t) = AllIds(s)
  BY <1>2 DEF AllIds
<1> QED BY <1>2, <1>5, <1>6

\* A sheet remade shape by shape, each of the id and type it was.
LEMMA Remade ==
  ASSUME NEW m \in Nat, NEW s, Laid(m, s), NEW l \in Nat,
         NEW t, t = [i \in DOMAIN s |-> t[i]],
         \A i \in DOMAIN s : t[i] \in ShapesOver(l) /\ Kept(s[i], t[i])
  PROVE  /\ t \o <<>> = t /\ Laid(l, t) /\ Alike(s, t) /\ AllIds(t) = AllIds(s)
         /\ DOMAIN t = DOMAIN s
<1>1. \A i \in DOMAIN s : t[i] \in ShapesOver(l) /\ t[i].id = s[i].id
  BY DEF Kept
<1>2. t \o <<>> = t /\ Laid(l, t) /\ AllIds(t) = AllIds(s) /\ DOMAIN t = DOMAIN s
  BY <1>1, RemadeIds
<1> QED BY <1>2 DEF Alike

\* Two sheets that differ in where the shapes are hold the same ends.
LEMMA AlikeFacts ==
  ASSUME NEW s, NEW n, Alike(s, n)
  PROVE  /\ DOMAIN n = DOMAIN s
         /\ \A i \in DOMAIN s : n[i].id = s[i].id /\ n[i].type = s[i].type
              /\ (IsConnector(n[i]) <=> IsConnector(s[i])) /\ (IsNode(n[i]) <=> IsNode(s[i]))
         /\ \A e : Held(n, e) <=> Held(s, e)
         /\ AllIds(n) = AllIds(s)
<1>1. DOMAIN n = DOMAIN s
  BY DEF Alike
<1>2. \A i \in DOMAIN s : n[i].id = s[i].id /\ n[i].type = s[i].type
        /\ (IsConnector(n[i]) <=> IsConnector(s[i])) /\ (IsNode(n[i]) <=> IsNode(s[i]))
  BY KeptKinds DEF Alike
<1>3. \A e : Held(n, e) <=> Held(s, e)
  BY <1>1, <1>2 DEF Held
<1>4. AllIds(n) = AllIds(s)
  BY <1>1, <1>2 DEF AllIds
<1> QED BY <1>1, <1>2, <1>3, <1>4

\* Alike over two steps.
LEMMA AlikeTwice ==
  ASSUME NEW s, NEW n, NEW u, Alike(s, n), Alike(n, u)
  PROVE  Alike(s, u)
BY DEF Alike, Kept

\* A shape is of its own id and type.
LEMMA KeptItself ==
  ASSUME NEW t
  PROVE  Kept(t, t)
BY DEF Kept

\* An end that is held is on a shape of the sheet.
LEMMA EndFacts ==
  ASSUME NEW m \in Nat, NEW s, Laid(m, s), NoId \notin ShapeIds, NEW e \in Ends
  PROVE  /\ Held(s, e) => /\ IsBound(e) /\ e.to \in AllIds(s) /\ ~IsConnector(ShapeOf(s, e.to))
                          /\ Upright(Box(ShapeOf(s, e.to)))
                          /\ PointIn(Box(ShapeOf(s, e.to)), e) \in Int \X Int
         /\ KeptEnd(s, e) \in Ends
         /\ \A p \in Int \X Int : EndPoint(s, e, p) \in Int \X Int
<1>1. ASSUME Held(s, e)
      PROVE  /\ IsBound(e) /\ e.to \in AllIds(s) /\ ~IsConnector(ShapeOf(s, e.to))
             /\ Upright(Box(ShapeOf(s, e.to)))
             /\ PointIn(Box(ShapeOf(s, e.to)), e) \in Int \X Int
  <2>1. PICK i \in DOMAIN s : s[i].id = e.to /\ ~IsConnector(s[i])
    BY <1>1 DEF Held
  <2>2. s[i] \in ShapesOver(m) /\ s[i].id \in ShapeIds
    BY SheetFacts
  <2>3. ShapeOf(s, e.to) = s[i] /\ Upright(Box(s[i])) /\ Box(s[i]) \in Rectangles
    BY <2>1, <2>2, TheShape, BoxFacts
  <2>4. IsBound(e)
    BY <2>1, <2>2 DEF IsBound
  <2>5. e.to \in AllIds(s)
    BY <2>1 DEF AllIds
  <2> QED BY <2>1, <2>3, <2>4, <2>5, PlaceFacts
<1>2. KeptEnd(s, e) \in Ends
  BY FreeEndFacts DEF KeptEnd
<1>3. \A p \in Int \X Int : EndPoint(s, e, p) \in Int \X Int
  BY <1>1 DEF EndPoint
<1> QED BY <1>1, <1>2, <1>3

\* An end on a place of a box, where the shape has it but for a pixel.
LEMMA EndStays ==
  ASSUME NEW m \in Nat, NEW n, Laid(m, n), NEW k \in DOMAIN n, ~IsConnector(n[k]),
         NEW e \in Ends, e.to = n[k].id, NEW b, Upright(b), PixelAround(b, Box(n[k])),
         NEW x \in Int, NEW y \in Int, NEW push \in Nat,
         PointIn(b, e)[1] <= x, x <= PointIn(b, e)[1] + push, y = PointIn(b, e)[2]
  PROVE  EndHolds(n, e, x, y, push)
<1> DEFINE c == Box(n[k])
           p == PointIn(b, e)[1]
           q == PointIn(c, e)[1]
<1>1. c \in Rectangles /\ b \in Rectangles
  BY SheetFacts, BoxFacts DEF Upright
<1>2. Abs(q - p) <= Px /\ Abs(PointIn(c, e)[2] - y) <= Px
  BY <1>1, NearPlaces
<1>3. p \in Int /\ q \in Int
  BY <1>1, PlaceFacts
<1>4. Held(n, e)
  BY DEF Held
<1>5. Box(ShapeOf(n, e.to)) = c
  BY TheShape
<1> HIDE DEF c, p, q
<1>6. Abs(q - x) <= Px + push
  <2>1. q - p <= Px /\ p - q <= Px
    BY <1>2, <1>3, PxFacts DEF Abs
  <2>2. p <= x /\ x <= p + push
    BY DEF p
  <2>3. q - x \in Int /\ Px + push \in Int /\ q - x <= Px + push /\ 0 - (q - x) <= Px + push
    BY <1>3, <2>1, <2>2, PxFacts
  <2> QED BY <2>3, AbsWithin
<1> QED BY <1>2, <1>4, <1>5, <1>6 DEF EndHolds, q

\* An end stays on its shape where the box of that shape is the same.
LEMMA EndSame ==
  ASSUME NEW m \in Nat, NEW s, Laid(m, s), NEW l \in Nat, NEW n, Laid(l, n), NEW e, NEW x, NEW y, NEW push,
         EndHolds(s, e, x, y, push),
         Alike(s, n),
         \A k \in DOMAIN s : s[k].id = e.to /\ ~IsConnector(s[k]) => Box(n[k]) = Box(s[k])
  PROVE  EndHolds(n, e, x, y, push)
<1> SUFFICES ASSUME IsBound(e) PROVE EndHolds(n, e, x, y, push)
  BY DEF EndHolds
<1>1. /\ Held(s, e)
      /\ LET place == PointIn(Box(ShapeOf(s, e.to)), e)
         IN  Abs(place[1] - x) <= Px + push /\ Abs(place[2] - y) <= Px
  BY DEF EndHolds
<1>2. PICK k \in DOMAIN s : s[k].id = e.to /\ ~IsConnector(s[k])
  BY <1>1 DEF Held
<1>3. Box(n[k]) = Box(s[k]) /\ k \in DOMAIN n /\ n[k].id = e.to
  BY <1>2, AlikeFacts
<1>4. ShapeOf(s, e.to) = s[k] /\ ShapeOf(n, e.to) = n[k]
  BY <1>2, <1>3, TheShape
<1>5. Held(n, e)
  BY <1>1, AlikeFacts
<1> QED BY <1>1, <1>3, <1>4, <1>5 DEF EndHolds

-----------------------------------------------------------------------------
(* What a write of the store leaves.                                       *)

\* normalizeShapes on a sheet.
LEMMA CanonicalSheets ==
  ASSUME NEW s, Laid(0, s)
  PROVE  LET n == Canonical(s)
         IN  /\ Laid(Px, n) /\ Alike(s, n) /\ AllIds(n) = AllIds(s) /\ DOMAIN n = DOMAIN s
             /\ \A i \in DOMAIN s : n[i] = CanonicalShape(s[i], AllIds(s))
             /\ Normal(n)
<1> DEFINE ids == AllIds(s)
           t == [i \in DOMAIN s |-> CanonicalShape(s[i], ids)]
<1>0. 0 \in Nat /\ Px \in Nat
  BY PxFacts
<1>1. Canonical(s) = t \o <<>>
  BY DEF Canonical, Each
<1>2. \A i \in DOMAIN s : t[i] \in ShapesOver(Px) /\ Kept(s[i], t[i])
  <2> SUFFICES ASSUME NEW i \in DOMAIN s PROVE t[i] \in ShapesOver(Px) /\ Kept(s[i], t[i])
    OBVIOUS
  <2>1. s[i] \in ShapesOver(0) /\ ids \subseteq ShapeIds
    BY <1>0, SheetFacts
  <2>2. t[i] = CanonicalShape(s[i], ids)
    OBVIOUS
  <2> HIDE DEF ids, t
  <2> QED BY <2>1, <2>2, CanonicalFacts
<1>3. \A i \in DOMAIN s : t[i] = CanonicalShape(s[i], AllIds(s))
  OBVIOUS
<1>4. t = [i \in DOMAIN s |-> t[i]]
  OBVIOUS
<1> HIDE DEF t
<1>5. /\ t \o <<>> = t /\ Laid(Px, t) /\ Alike(s, t) /\ AllIds(t) = AllIds(s)
      /\ DOMAIN t = DOMAIN s
  BY <1>0, <1>2, <1>4, Remade
<1>6. \A i \in DOMAIN t : IsConnector(t[i]) => <<t[i].x1, t[i].y1>> # <<t[i].x2, t[i].y2>>
  <2> SUFFICES ASSUME NEW i \in DOMAIN t, IsConnector(t[i])
               PROVE  <<t[i].x1, t[i].y1>> # <<t[i].x2, t[i].y2>>
    OBVIOUS
  <2>1. IsConnector(s[i]) /\ s[i] \in ShapesOver(0) /\ i \in DOMAIN s
    BY <1>0, <1>5, AlikeFacts, SheetFacts
  <2>2. s[i] \in ConnectorShapes
    BY <1>0, <2>1, KindsOfShapes
  <2>3. t[i] = CanonicalShape(s[i], AllIds(s))
    BY <1>3, <2>1
  <2> QED BY <2>2, <2>3, CanonicalConnectors
<1>7. Normal(t)
  BY <1>5, <1>6, NormalSheets
<1> QED BY <1>1, <1>3, <1>5, <1>7

\* applyConnectorBindings: every connector between the places of its ends.
LEMMA ReprojectedSheets ==
  ASSUME NEW s, Laid(0, s), NoId \notin ShapeIds
  PROVE  LET n == Reprojected(s)
         IN  /\ Laid(0, n) /\ Alike(s, n) /\ AllIds(n) = AllIds(s) /\ DOMAIN n = DOMAIN s
             /\ \A i \in DOMAIN s : ~IsConnector(s[i]) => n[i] = s[i]
             /\ \A i \in DOMAIN s : IsConnector(s[i]) =>
                  n[i] = OnEnds(s, s[i], KeptEnd(s, s[i].start), KeptEnd(s, s[i].end))
<1> DEFINE anew(c) == OnEnds(s, c, KeptEnd(s, c.start), KeptEnd(s, c.end))
           t == [i \in DOMAIN s |-> IF IsConnector(s[i]) THEN anew(s[i]) ELSE s[i]]
<1>0. 0 \in Nat
  OBVIOUS
<1>1. Reprojected(s) = t \o <<>>
  BY DEF Reprojected, Each
<1>2. \A i \in DOMAIN s : t[i] \in ShapesOver(0) /\ Kept(s[i], t[i])
  <2> SUFFICES ASSUME NEW i \in DOMAIN s PROVE t[i] \in ShapesOver(0) /\ Kept(s[i], t[i])
    OBVIOUS
  <2>1. s[i] \in ShapesOver(0)
    BY <1>0, SheetFacts
  <2>2. CASE ~IsConnector(s[i])
    <3>1. t[i] = s[i]
      BY <2>2
    <3> QED BY <2>1, <3>1, KeptItself
  <2>3. CASE IsConnector(s[i])
    <3> DEFINE c == s[i]
               a == KeptEnd(s, c.start)
               b == KeptEnd(s, c.end)
               p == EndPoint(s, a, <<c.x1, c.y1>>)
               q == EndPoint(s, b, <<c.x2, c.y2>>)
    <3>1. t[i] = Rejoined(c, p, q, a, b)
      BY <2>3 DEF OnEnds
    <3>2. c \in ConnectorShapes
      BY <1>0, <2>1, <2>3, KindsOfShapes
    <3>3. c.start \in Ends /\ c.end \in Ends /\ <<c.x1, c.y1>> \in Int \X Int /\ <<c.x2, c.y2>> \in Int \X Int
      BY <3>2 DEF ConnectorShapes
    <3>4. a \in Ends /\ b \in Ends
      BY <1>0, <3>3, EndFacts
    <3>5. p \in Int \X Int /\ q \in Int \X Int
      BY <1>0, <3>3, <3>4, EndFacts
    <3> HIDE DEF c, a, b, p, q, t
    <3>6. t[i] \in ConnectorShapes /\ Kept(c, t[i])
      BY <3>1, <3>2, <3>4, <3>5, RejoinedFacts
    <3> QED BY <3>6 DEF c, ShapesOver
  <2> QED BY <2>2, <2>3
<1>3. /\ \A i \in DOMAIN s : ~IsConnector(s[i]) => t[i] = s[i]
      /\ \A i \in DOMAIN s : IsConnector(s[i]) => t[i] = anew(s[i])
  OBVIOUS
<1>4. t = [i \in DOMAIN s |-> t[i]]
  OBVIOUS
<1> HIDE DEF t
<1>5. /\ t \o <<>> = t /\ Laid(0, t) /\ Alike(s, t) /\ AllIds(t) = AllIds(s)
      /\ DOMAIN t = DOMAIN s
  BY <1>0, <1>2, <1>4, Remade
<1> QED BY <1>1, <1>3, <1>5

\* Every write of the store puts the bound ends on their places.
LEMMA StoreWrites ==
  ASSUME NEW s, Laid(0, s), NoId \notin ShapeIds
  PROVE  LET n == Canonical(Reprojected(s))
         IN  /\ Normal(n) /\ AllIds(n) = AllIds(s)
             /\ \A i \in DOMAIN n : IsConnector(n[i]) => OnItsEnds(n, n[i])
<1> DEFINE r == Reprojected(s)
           n == Canonical(r)
<1>0. 0 \in Nat /\ Px \in Nat
  BY PxFacts
<1>1. /\ Laid(0, r) /\ Alike(s, r) /\ AllIds(r) = AllIds(s) /\ DOMAIN r = DOMAIN s
      /\ \A i \in DOMAIN s : ~IsConnector(s[i]) => r[i] = s[i]
      /\ \A i \in DOMAIN s : IsConnector(s[i]) =>
           r[i] = OnEnds(s, s[i], KeptEnd(s, s[i].start), KeptEnd(s, s[i].end))
  BY ReprojectedSheets
<1> HIDE DEF r
<1>2. /\ Laid(Px, n) /\ Alike(r, n) /\ AllIds(n) = AllIds(r) /\ DOMAIN n = DOMAIN r
      /\ \A i \in DOMAIN r : n[i] = CanonicalShape(r[i], AllIds(r))
      /\ Normal(n)
  BY <1>1, CanonicalSheets
<1> HIDE DEF n
<1>e. ASSUME NEW e \in Ends, KeptEnd(s, e) # FreeEnd,
             NEW x \in Int, NEW y \in Int, NEW push \in Nat, NEW other,
             EndPoint(s, e, other)[1] <= x, x <= EndPoint(s, e, other)[1] + push,
             y = EndPoint(s, e, other)[2]
      PROVE  EndHolds(n, e, x, y, push)
  <2>1. Held(s, e)
    BY <1>e DEF KeptEnd
  <2>2. PICK k \in DOMAIN s : s[k].id = e.to /\ ~IsConnector(s[k])
    BY <2>1 DEF Held
  <2>3. r[k] = s[k] /\ k \in DOMAIN n /\ n[k].id = e.to /\ ~IsConnector(n[k])
        /\ n[k] = CanonicalShape(r[k], AllIds(r))
    BY <1>1, <1>2, <2>2, AlikeFacts
  <2>4. s[k] \in ShapesOver(0) /\ AllIds(r) \subseteq ShapeIds
    BY <1>0, <1>1, SheetFacts
  <2>5. PixelAround(Box(s[k]), Box(n[k])) /\ Upright(Box(s[k]))
    BY <1>0, <2>2, <2>3, <2>4, CanonicalFacts, BoxFacts
  <2>6. EndPoint(s, e, other) = PointIn(Box(s[k]), e)
    BY <1>0, <2>1, <2>2, TheShape DEF EndPoint
  <2> DEFINE b == Box(s[k])
  <2>7. PointIn(b, e)[1] <= x /\ x <= PointIn(b, e)[1] + push /\ y = PointIn(b, e)[2]
    BY <1>e, <2>6
  <2>8. Upright(b) /\ PixelAround(b, Box(n[k]))
    BY <2>5
  <2> HIDE DEF b
  <2> QED BY <1>0, <1>2, <2>3, <2>7, <2>8, EndStays
<1>3. ASSUME NEW i \in DOMAIN n, IsConnector(n[i]) PROVE OnItsEnds(n, n[i])
  <2> DEFINE c == s[i]
             a == KeptEnd(s, c.start)
             b == KeptEnd(s, c.end)
             p == EndPoint(s, a, <<c.x1, c.y1>>)
             q == EndPoint(s, b, <<c.x2, c.y2>>)
  <2>1. i \in DOMAIN s /\ IsConnector(c) /\ c \in ShapesOver(0)
    BY <1>0, <1>1, <1>2, <1>3, AlikeFacts, SheetFacts
  <2>2. c \in ConnectorShapes
    BY <1>0, <2>1, KindsOfShapes
  <2>3. c.start \in Ends /\ c.end \in Ends /\ <<c.x1, c.y1>> \in Int \X Int /\ <<c.x2, c.y2>> \in Int \X Int
    BY <2>2 DEF ConnectorShapes
  <2>4. a \in Ends /\ b \in Ends
    BY <1>0, <2>3, EndFacts
  <2>5. p \in Int \X Int /\ q \in Int \X Int
    BY <1>0, <2>3, <2>4, EndFacts
  <2>6. r[i] = Rejoined(c, p, q, a, b)
    BY <1>1, <2>1 DEF OnEnds
  <2>7. a # FreeEnd => KeptEnd(s, a) # FreeEnd
    BY DEF KeptEnd
  <2>8. b # FreeEnd => KeptEnd(s, b) # FreeEnd
    BY DEF KeptEnd
  <2>p. p = EndPoint(s, a, <<c.x1, c.y1>>) /\ q = EndPoint(s, b, <<c.x2, c.y2>>)
    OBVIOUS
  <2> HIDE DEF c, a, b, p, q
  <2>9. /\ r[i] \in ConnectorShapes /\ r[i].x1 = p[1] /\ r[i].y1 = p[2] /\ r[i].x2 = q[1] /\ r[i].y2 = q[2]
        /\ r[i].start = a /\ r[i].end = b
    BY <2>2, <2>4, <2>5, <2>6, RejoinedFacts
  <2>10. /\ n[i].start = a /\ n[i].end = b /\ n[i].x1 = p[1] /\ n[i].y1 = p[2] /\ n[i].y2 = q[2]
         /\ n[i].x2 \in Int /\ q[1] <= n[i].x2 /\ n[i].x2 <= q[1] + Px
    <3>1. n[i] = CanonicalShape(r[i], AllIds(r))
      BY <1>1, <1>2, <2>1
    <3> QED BY <2>9, <3>1, CanonicalConnectors
  <2>11. p[1] \in Int /\ p[2] \in Int /\ q[1] \in Int /\ q[2] \in Int
    BY <2>5
  <2>12. EndHolds(n, a, n[i].x1, n[i].y1, 0)
    <3>1. CASE a = FreeEnd
      BY <3>1, FreeEndFacts DEF EndHolds
    <3>2. CASE a # FreeEnd
      <4>1. p[1] <= p[1] /\ p[1] <= p[1] + 0
        BY <2>11
      <4> QED BY <1>0, <1>e, <2>4, <2>7, <2>p, <2>10, <2>11, <3>2, <4>1
    <3> QED BY <3>1, <3>2
  <2>13. EndHolds(n, b, n[i].x2, n[i].y2, Px)
    <3>1. CASE b = FreeEnd
      BY <3>1, FreeEndFacts DEF EndHolds
    <3>2. CASE b # FreeEnd
      BY <1>0, <1>e, <2>4, <2>8, <2>p, <2>10, <2>11, <3>2
    <3> QED BY <3>1, <3>2
  <2> QED BY <2>10, <2>12, <2>13 DEF OnItsEnds
<1> QED BY <1>1, <1>2, <1>3 DEF n, r

-----------------------------------------------------------------------------
(* Deletions and sums, by the least number of steps that goes wrong.       *)

\* What is worked out along a sequence.
WorksOut(h, V, base, N, step) ==
  h \in [0..N -> V] /\ h[0] = base /\ \A k \in 1..N : h[k] = step[k][h[k - 1]]

\* There is such a function, by the least number of steps that has none.
LEMMA WorkedOut ==
  ASSUME NEW V, NEW base \in V, NEW N \in Nat, NEW step \in [1..N -> [V -> V]]
  PROVE  \E h : WorksOut(h, V, base, N, step)
<1> DEFINE To(h, n) == h \in [0..n -> V] /\ h[0] = base /\ \A k \in 1..n : h[k] = step[k][h[k - 1]]
           B == {n \in Nat : n <= N /\ ~ \E h : To(h, n)}
<1>1. 0 \notin B
  <2> DEFINE h == [k \in 0..0 |-> base]
  <2>1. h \in [0..0 -> V] /\ h[0] = base
    OBVIOUS
  <2>2. \A k \in 1..0 : FALSE
    OBVIOUS
  <2> HIDE DEF h
  <2>3. To(h, 0)
    BY <2>1, <2>2
  <2> QED BY <2>3
<1>2. ASSUME NEW n \in Nat, n \notin B PROVE n + 1 \notin B
  <2> SUFFICES ASSUME n + 1 <= N PROVE \E h : To(h, n + 1)
    OBVIOUS
  <2>1. PICK h : To(h, n)
    BY <1>2
  <2> DEFINE g == [k \in 0..(n + 1) |-> IF k = n + 1 THEN step[n + 1][h[n]] ELSE h[k]]
  <2>2. h[n] \in V /\ n + 1 \in 1..N
    BY <2>1
  <2>3. step[n + 1][h[n]] \in V
    BY <2>2
  <2>4. \A k \in 0..(n + 1) : g[k] \in V
    BY <2>1, <2>3
  <2>5. \A k \in 0..n : g[k] = h[k]
    OBVIOUS
  <2>6. g[n + 1] = step[n + 1][h[n]]
    OBVIOUS
  <2>7. g \in [0..(n + 1) -> V]
    BY <2>4
  <2> HIDE DEF g
  <2>8. \A k \in 1..(n + 1) : g[k] = step[k][g[k - 1]]
    <3> TAKE k \in 1..(n + 1)
    <3>1. CASE k = n + 1
      <4>1. k - 1 = n /\ n \in 0..n
        BY <3>1
      <4> QED BY <2>5, <2>6, <3>1, <4>1
    <3>2. CASE k \in 1..n
      <4>1. k \in 0..n /\ k - 1 \in 0..n
        BY <3>2
      <4> QED BY <2>1, <2>5, <3>2, <4>1
    <3> QED BY <3>1, <3>2
  <2>9. g[0] = base
    BY <2>1, <2>5
  <2> QED BY <2>7, <2>8, <2>9
<1> HIDE DEF B
<1>3. N \notin B
  BY <1>1, <1>2, NoLeast
<1> QED BY <1>3 DEF B, WorksOut

\* The shapes that are not deleted.
SparedTo(s, u, n) ==
  /\ u \in Seq(ShapesOver(0))
  /\ \A k \in DOMAIN u : \E j \in 1..n : u[k] = s[j]
  /\ \A i, k \in DOMAIN u : u[i].id = u[k].id => i = k

\* One more shape passed over or kept.
LEMMA SparesOne ==
  ASSUME NEW s, Laid(0, s), NEW n \in Nat, n + 1 \in DOMAIN s, NEW u, SparedTo(s, u, n)
  PROVE  SparedTo(s, u, n + 1) /\ SparedTo(s, Append(u, s[n + 1]), n + 1)
<1> DEFINE S == ShapesOver(0)
           c == s[n + 1]
           w == Append(u, c)
           l == Len(u)
<1>0. 0 \in Nat
  OBVIOUS
<1>1. c \in S /\ \A j \in 1..n : j \in DOMAIN s /\ j # n + 1
  <2>1. DOMAIN s = 1..Len(s) /\ Len(s) \in Nat /\ c \in ShapesOver(0)
    BY <1>0, SheetFacts
  <2> QED BY <2>1
<1>2. u \in Seq(S) /\ l \in Nat /\ DOMAIN u = 1..l
  BY LenProperties DEF SparedTo
<1>3. \A k \in DOMAIN u : \E j \in 1..n : u[k] = s[j]
  BY DEF SparedTo
<1>4. \A j \in 1..n : s[j].id # c.id
  BY <1>1 DEF Laid
<1>5. \A k \in DOMAIN u : u[k].id # c.id
  BY <1>3, <1>4
<1>6. \A i, k \in DOMAIN u : u[i].id = u[k].id => i = k
  BY DEF SparedTo
<1>7. 1..n \subseteq 1..(n + 1) /\ n + 1 \in 1..(n + 1)
  OBVIOUS
<1>c. c = s[n + 1]
  OBVIOUS
<1> HIDE DEF S, c
<1>8. w \in Seq(S) /\ Len(w) = l + 1 /\ w[l + 1] = c /\ \A k \in 1..l : w[k] = u[k]
  BY <1>1, <1>2, AppendProperties
<1> HIDE DEF l, w
<1>9. DOMAIN w = 1..(l + 1)
  BY <1>8, LenProperties
<1>10. \A i \in DOMAIN w : i \in 1..l \/ i = l + 1
  BY <1>2, <1>9
<1>11. \A i, k \in DOMAIN w : w[i].id = w[k].id => i = k
  <2> SUFFICES ASSUME NEW i \in DOMAIN w, NEW k \in DOMAIN w, w[i].id = w[k].id PROVE i = k
    OBVIOUS
  <2>1. CASE i \in 1..l /\ k \in 1..l
    BY <1>2, <1>6, <1>8, <2>1
  <2>2. CASE i = l + 1 \/ k = l + 1
    BY <1>2, <1>5, <1>8, <1>10, <2>2
  <2> QED BY <1>10, <2>1, <2>2
<1>12. \A k \in DOMAIN w : \E j \in 1..(n + 1) : w[k] = s[j]
  <2> TAKE k \in DOMAIN w
  <2>1. CASE k \in 1..l
    BY <1>2, <1>3, <1>7, <1>8, <2>1
  <2>2. CASE k = l + 1
    BY <1>7, <1>8, <1>c, <2>2
  <2> QED BY <1>10, <2>1, <2>2
<1>13. SparedTo(s, u, n + 1)
  BY <1>2, <1>3, <1>6, <1>7 DEF SparedTo, S
<1>14. SparedTo(s, w, n + 1)
  BY <1>8, <1>11, <1>12 DEF SparedTo, S
<1> QED BY <1>13, <1>14 DEF w, c

\* The shapes that a deletion leaves are a sheet.
LEMMA SparedSheets ==
  ASSUME NEW s, Laid(0, s), NEW ids
  PROVE  Laid(0, Spared(s, ids))
<1> DEFINE N == Len(s)
           Onward(f, n) == IF s[n].id \in ids THEN f[n - 1] ELSE Append(f[n - 1], s[n])
           rest == CHOOSE f : f = [n \in 0..N |-> IF n = 0 THEN <<>> ELSE Onward(f, n)]
<1>0. 0 \in Nat
  OBVIOUS
<1>1. Spared(s, ids) = rest[N]
  BY DEF Spared
<1>2. N \in Nat /\ DOMAIN s = 1..N /\ \A i \in DOMAIN s : s[i] \in ShapesOver(0)
  BY <1>0, SheetFacts
<1> DEFINE S == ShapesOver(0)
           V == Seq(S)
           step == [k \in 1..N |-> [v \in V |-> IF s[k].id \in ids THEN v ELSE Append(v, s[k])]]
<1>3. \E h : h = [n \in 0..N |-> IF n = 0 THEN <<>> ELSE Onward(h, n)]
  <2>1. <<>> \in V
    OBVIOUS
  <2>2. \A k \in 1..N : \A v \in V : step[k][v] \in V /\ step[k][v] = IF s[k].id \in ids THEN v ELSE Append(v, s[k])
    <3> SUFFICES ASSUME NEW k \in 1..N, NEW v \in V
                 PROVE  step[k][v] \in V /\ step[k][v] = IF s[k].id \in ids THEN v ELSE Append(v, s[k])
      OBVIOUS
    <3>1. s[k] \in S
      BY <1>2
    <3> HIDE DEF S
    <3>2. Append(v, s[k]) \in V
      BY <3>1, AppendProperties
    <3>3. step[k][v] = IF s[k].id \in ids THEN v ELSE Append(v, s[k])
      OBVIOUS
    <3> QED BY <3>2, <3>3
  <2>6. step \in [1..N -> [V -> V]]
    BY <2>2
  <2> HIDE DEF step, V, N
  <2>3. PICK h \in [0..N -> V] : h[0] = <<>> /\ \A k \in 1..N : h[k] = step[k][h[k - 1]]
    <3> DEFINE base == <<>>
    <3>2. base \in V
      BY <2>1
    <3> HIDE DEF base
    <3>3. \E h : WorksOut(h, V, base, N, step)
      BY <1>2, <2>6, <3>2, WorkedOut
    <3> QED BY <3>3 DEF base, WorksOut
  <2>4. \A k \in 0..N : h[k] = IF k = 0 THEN <<>> ELSE Onward(h, k)
    <3> TAKE k \in 0..N
    <3>1. CASE k = 0
      BY <2>3, <3>1
    <3>2. CASE k # 0
      <4>1. k \in 1..N /\ k - 1 \in 0..N
        BY <1>2, <3>2
      <4>2. h[k - 1] \in V
        BY <2>3, <4>1
      <4> QED BY <2>2, <2>3, <3>2, <4>1, <4>2
    <3> QED BY <3>1, <3>2
  <2>5. h = [n \in 0..N |-> h[n]]
    BY <2>3
  <2>7. [n \in 0..N |-> h[n]] = [n \in 0..N |-> IF n = 0 THEN <<>> ELSE Onward(h, n)]
    BY <2>4
  <2> QED BY <2>5, <2>7
<1>4. rest = [n \in 0..N |-> IF n = 0 THEN <<>> ELSE Onward(rest, n)]
  BY <1>3
<1> HIDE DEF rest
<1>5. \A n \in 0..N : rest[n] = IF n = 0 THEN <<>> ELSE Onward(rest, n)
  BY <1>4
<1> DEFINE B == {n \in Nat : n <= N /\ ~SparedTo(s, rest[n], n)}
<1>6. 0 \notin B
  <2>1. rest[0] = <<>>
    BY <1>2, <1>5
  <2>2. SparedTo(s, <<>>, 0)
    BY DEF SparedTo
  <2> QED BY <2>1, <2>2
<1>7. ASSUME NEW n \in Nat, n \notin B PROVE n + 1 \notin B
  <2> SUFFICES ASSUME n + 1 <= N PROVE SparedTo(s, rest[n + 1], n + 1)
    OBVIOUS
  <2>1. SparedTo(s, rest[n], n)
    BY <1>2, <1>7
  <2>2. n + 1 \in 0..N /\ n + 1 # 0 /\ (n + 1) - 1 = n /\ n + 1 \in DOMAIN s
    BY <1>2
  <2>3. rest[n + 1] \in {rest[n], Append(rest[n], s[n + 1])}
    BY <1>5, <2>2
  <2> QED BY <2>1, <2>2, <2>3, SparesOne
<1> HIDE DEF B
<1>8. \A n \in Nat : n \notin B
  BY <1>6, <1>7, NoLeast
<1>9. SparedTo(s, rest[N], N)
  BY <1>2, <1>8 DEF B
<1> QED BY <1>1, <1>9 DEF SparedTo, Laid

\* There are such sums, by the least number of terms that has none.
LEMMA SummedUp ==
  ASSUME NEW N \in Nat, NEW add \in [1..N -> Int]
  PROVE  \E h \in [0..N -> Int] : h[0] = 0 /\ \A k \in 1..N : h[k] = h[k - 1] + add[k]
<1> DEFINE V == Int
           base == 0
           step == [k \in 1..N |-> [v \in V |-> v + add[k]]]
<1>1. base \in V
  OBVIOUS
<1>2. step \in [1..N -> [V -> V]]
  OBVIOUS
<1>3. \A k \in 1..N : \A v \in Int : step[k][v] = v + add[k]
  OBVIOUS
<1> HIDE DEF V, base, step
<1>4. PICK h : WorksOut(h, V, base, N, step)
  BY <1>1, <1>2, WorkedOut
<1>6. h \in [0..N -> V] /\ h[0] = base /\ \A k \in 1..N : h[k] = step[k][h[k - 1]]
  BY <1>4 DEF WorksOut
<1>5. \A k \in 1..N : h[k] = h[k - 1] + add[k]
  <2> TAKE k \in 1..N
  <2>1. k - 1 \in 0..N
    OBVIOUS
  <2>2. h[k - 1] \in Int
    BY <1>6, <2>1 DEF V
  <2> QED BY <1>3, <1>6, <2>2
<1> QED BY <1>5, <1>6 DEF V, base

\* The sum over some shapes of a sheet.
LEMMA SumFacts ==
  ASSUME NEW m \in Nat, NEW s, Laid(m, s), NEW ids, NEW f,
         \A id \in ids : f[id] \in Int
  PROVE  SumOver(s, ids, f) \in Int
<1> DEFINE N == Len(s)
           add == [k \in 1..N |-> IF s[k].id \in ids THEN f[s[k].id] ELSE 0]
           sum == CHOOSE g : g = [n \in 0..N |-> IF n = 0 THEN 0
                                   ELSE g[n - 1] + (IF s[n].id \in ids THEN f[s[n].id] ELSE 0)]
<1>1. SumOver(s, ids, f) = sum[N]
  BY DEF SumOver
<1>2. N \in Nat
  BY SheetFacts
<1>3. \A k \in 1..N : add[k] \in Int /\ add[k] = IF s[k].id \in ids THEN f[s[k].id] ELSE 0
  OBVIOUS
<1>a. add \in [1..N -> Int]
  BY <1>3
<1> HIDE DEF add, N
<1>4. \E h : h = [n \in 0..N |-> IF n = 0 THEN 0
                    ELSE h[n - 1] + (IF s[n].id \in ids THEN f[s[n].id] ELSE 0)]
  <2>2. PICK h \in [0..N -> Int] : h[0] = 0 /\ \A k \in 1..N : h[k] = h[k - 1] + add[k]
    BY <1>2, <1>a, SummedUp
  <2>3. \A k \in 0..N : h[k] = IF k = 0 THEN 0
                                ELSE h[k - 1] + (IF s[k].id \in ids THEN f[s[k].id] ELSE 0)
    <3> TAKE k \in 0..N
    <3>1. CASE k = 0
      BY <2>2, <3>1
    <3>2. CASE k # 0
      <4>1. k \in 1..N
        BY <1>2, <3>2
      <4> QED BY <1>3, <2>2, <3>2, <4>1
    <3> QED BY <3>1, <3>2
  <2>4. h = [n \in 0..N |-> h[n]]
    BY <2>2
  <2>5. [n \in 0..N |-> h[n]]
          = [n \in 0..N |-> IF n = 0 THEN 0
               ELSE h[n - 1] + (IF s[n].id \in ids THEN f[s[n].id] ELSE 0)]
    BY <2>3
  <2> QED BY <2>4, <2>5
<1>5. sum = [n \in 0..N |-> IF n = 0 THEN 0
               ELSE sum[n - 1] + (IF s[n].id \in ids THEN f[s[n].id] ELSE 0)]
  BY <1>4
<1> HIDE DEF sum
<1>6. \A n \in 0..N : sum[n] = IF n = 0 THEN 0
                         ELSE sum[n - 1] + (IF s[n].id \in ids THEN f[s[n].id] ELSE 0)
  BY <1>5
<1> DEFINE B == {n \in Nat : n <= N /\ sum[n] \notin Int}
<1>7. 0 \notin B
  BY <1>2, <1>6
<1>8. ASSUME NEW n \in Nat, n \notin B PROVE n + 1 \notin B
  <2> SUFFICES ASSUME n + 1 <= N PROVE sum[n + 1] \in Int
    OBVIOUS
  <2>1. sum[n] \in Int
    BY <1>2, <1>8
  <2>2. n + 1 \in 0..N /\ n + 1 # 0 /\ (n + 1) - 1 = n /\ n + 1 \in 1..N
    BY <1>2
  <2>3. sum[n + 1] = sum[n] + add[n + 1]
    BY <1>3, <1>6, <2>2
  <2>4. add[n + 1] \in Int
    BY <1>3, <2>2
  <2> QED BY <2>1, <2>3, <2>4
<1> HIDE DEF B
<1>9. \A n \in Nat : n \notin B
  BY <1>7, <1>8, NoLeast
<1> QED BY <1>1, <1>2, <1>9 DEF B

-----------------------------------------------------------------------------
(* What the actions of store.ts leave.                                     *)

\* An end that snaps, or does not, is an end.
LEMMA SnapFacts ==
  ASSUME NEW s, Laid(0, s), NEW x \in Int, NEW y \in Int
  PROVE  Snapped(s, x, y) \in Ends
<1> DEFINE hits == {i \in DOMAIN s : ~IsConnector(s[i]) /\ Within(Grown(Box(s[i]), SnapTolerance), x, y)}
           i == IF hits = {} THEN 0 ELSE MaxOf(hits)
           b == Box(s[i])
           w == Larger(Px, Width(b))
           h == Larger(Px, Height(b))
<1>0. 0 \in Nat
  OBVIOUS
<1>1. Snapped(s, x, y) = IF i = 0 THEN FreeEnd ELSE BoundIn(s[i], b, w, h, x, y)
  BY DEF Snapped, TopMost
<1>2. Len(s) \in Nat /\ hits \in SUBSET (1..Len(s)) /\ DOMAIN s = 1..Len(s)
  BY <1>0, SheetFacts
<1>3. i = 0 \/ i \in DOMAIN s
  <2> HIDE DEF hits
  <2> QED BY <1>2, PlacesFinite
<1> HIDE DEF hits, i
<1>4. CASE i = 0
  BY <1>1, <1>4, FreeEndFacts
<1>5. CASE i # 0
  <2>1. s[i] \in ShapesOver(0) /\ s[i].id \in ShapeIds
    BY <1>0, <1>3, <1>5, SheetFacts
  <2>2. b \in Rectangles
    BY <1>0, <2>1, BoxFacts
  <2> HIDE DEF b
  <2>3. Width(b) \in Int /\ Height(b) \in Int
    BY <2>2 DEF Rectangles, Width, Height
  <2>4. w \in Int /\ w > 0 /\ h \in Int /\ h > 0
    BY <2>3, LargerPx
  <2> HIDE DEF w, h
  <2>5. BoundIn(s[i], b, w, h, x, y) \in Ends
    BY <2>1, <2>2, <2>4, BoundFacts
  <2> QED BY <1>1, <1>5, <2>5
<1> QED BY <1>4, <1>5

\* Rebinding the ends of some connectors leaves a sheet, all else as it was.
LEMMA ReboundSheets ==
  ASSUME NEW s, Laid(0, s), NEW ids
  PROVE  /\ Laid(0, Rebound(s, ids)) /\ AllIds(Rebound(s, ids)) = AllIds(s)
         /\ Alike(s, Rebound(s, ids))
         /\ \A i \in DOMAIN s : ~IsConnector(s[i]) => Rebound(s, ids)[i] = s[i]
<1> DEFINE anew(c) == [c EXCEPT !.start = Snapped(s, c.x1, c.y1), !.end = Snapped(s, c.x2, c.y2)]
           t == [i \in DOMAIN s |-> IF IsConnector(s[i]) /\ s[i].id \in ids THEN anew(s[i]) ELSE s[i]]
<1>0. 0 \in Nat
  OBVIOUS
<1>1. Rebound(s, ids) = t \o <<>>
  BY DEF Rebound, Each
<1>2. \A i \in DOMAIN s : t[i] \in ShapesOver(0) /\ Kept(s[i], t[i])
  <2> SUFFICES ASSUME NEW i \in DOMAIN s PROVE t[i] \in ShapesOver(0) /\ Kept(s[i], t[i])
    OBVIOUS
  <2>1. s[i] \in ShapesOver(0)
    BY <1>0, SheetFacts
  <2>2. CASE ~(IsConnector(s[i]) /\ s[i].id \in ids)
    <3>1. t[i] = s[i]
      BY <2>2
    <3> QED BY <2>1, <3>1, KeptItself
  <2>3. CASE IsConnector(s[i]) /\ s[i].id \in ids
    <3> DEFINE c == s[i]
               a == Snapped(s, c.x1, c.y1)
               b == Snapped(s, c.x2, c.y2)
    <3>1. t[i] = [c EXCEPT !.start = a, !.end = b]
      BY <2>3
    <3>2. c \in ConnectorShapes
      BY <1>0, <2>1, <2>3, KindsOfShapes
    <3>3. a \in Ends /\ b \in Ends
      <4>1. c.x1 \in Int /\ c.x2 \in Int /\ c.y1 \in Int /\ c.y2 \in Int
        BY <3>2 DEF ConnectorShapes
      <4> QED BY <4>1, SnapFacts
    <3> HIDE DEF c, a, b, t
    <3>4. [c EXCEPT !.start = a, !.end = b] \in ConnectorShapes /\ Kept(c, [c EXCEPT !.start = a, !.end = b])
      BY <3>2, <3>3 DEF ConnectorShapes, Kept
    <3> QED BY <3>1, <3>4 DEF c, ShapesOver
  <2> QED BY <2>2, <2>3
<1>3. \A i \in DOMAIN s : ~IsConnector(s[i]) => t[i] = s[i]
  OBVIOUS
<1>4. t = [i \in DOMAIN s |-> t[i]]
  OBVIOUS
<1> HIDE DEF t
<1>5. t \o <<>> = t /\ Laid(0, t) /\ Alike(s, t) /\ AllIds(t) = AllIds(s)
  BY <1>0, <1>2, <1>4, Remade
<1> QED BY <1>1, <1>3, <1>5

\* Carrying the labels leaves a sheet, all but these labels as it was.
LEMMA SyncedSheets ==
  ASSUME NEW s, NEW n, Laid(0, s), Laid(0, n), AllIds(n) = AllIds(s), NEW parents, NEW skip
  PROVE  LET u == SyncChildren(s, n, parents, skip)
         IN  /\ Laid(0, u) /\ AllIds(u) = AllIds(n) /\ Alike(n, u)
             /\ \A i \in DOMAIN n :
                  u[i] = IF n[i].type = "text" /\ n[i].id \notin skip
                            /\ n[i].parent \in parents \cap AllIds(n)
                         THEN CarriedAlong(n[i], Box(ShapeOf(s, n[i].parent)),
                                           Box(ShapeOf(n, n[i].parent)))
                         ELSE n[i]
<1> DEFINE goes(t) == t.type = "text" /\ t.id \notin skip /\ t.parent \in parents \cap AllIds(n)
           anew(t) == CarriedAlong(t, Box(ShapeOf(s, t.parent)), Box(ShapeOf(n, t.parent)))
           t == [i \in DOMAIN n |-> IF goes(n[i]) THEN anew(n[i]) ELSE n[i]]
<1>0. 0 \in Nat
  OBVIOUS
<1>1. SyncChildren(s, n, parents, skip) = t \o <<>>
  BY DEF SyncChildren, Each
<1>2. \A i \in DOMAIN n : t[i] \in ShapesOver(0) /\ Kept(n[i], t[i])
  <2> SUFFICES ASSUME NEW i \in DOMAIN n PROVE t[i] \in ShapesOver(0) /\ Kept(n[i], t[i])
    OBVIOUS
  <2>1. n[i] \in ShapesOver(0)
    BY <1>0, SheetFacts
  <2>2. CASE ~goes(n[i])
    <3>1. t[i] = n[i]
      BY <2>2
    <3> QED BY <2>1, <3>1, KeptItself
  <2>3. CASE goes(n[i])
    <3> DEFINE c == n[i]
               a == Box(ShapeOf(s, c.parent))
               b == Box(ShapeOf(n, c.parent))
    <3>1. t[i] = CarriedAlong(c, a, b)
      BY <2>3
    <3>2. c \in TextShapes /\ c.parent \in AllIds(n) /\ c.parent \in AllIds(s)
      BY <1>0, <2>1, <2>3, KindsOfShapes
    <3>3. a \in Rectangles /\ b \in Rectangles
      BY <1>0, <3>2, ShapeWithId
    <3> HIDE DEF c, a, b, t
    <3>4. t[i] \in TextShapes /\ Kept(c, t[i])
      BY <3>1, <3>2, <3>3, CarriedFacts
    <3> QED BY <3>4 DEF c, ShapesOver
  <2> QED BY <2>2, <2>3
<1>3. \A i \in DOMAIN n : t[i] = IF goes(n[i]) THEN anew(n[i]) ELSE n[i]
  OBVIOUS
<1>4. t = [i \in DOMAIN n |-> t[i]]
  OBVIOUS
<1> HIDE DEF t
<1>5. t \o <<>> = t /\ Laid(0, t) /\ Alike(n, t) /\ AllIds(t) = AllIds(n)
  BY <1>0, <1>2, <1>4, Remade
<1> QED BY <1>1, <1>3, <1>5

\* Moving some shapes leaves a sheet, the others where they were.
LEMMA ShiftedSheets ==
  ASSUME NEW s, Laid(0, s), NEW ids, NEW dx \in Int, NEW dy \in Int
  PROVE  LET n == Shifted(s, ids, dx, dy)
         IN  /\ Laid(0, n) /\ AllIds(n) = AllIds(s) /\ Alike(s, n)
             /\ \A i \in DOMAIN s :
                  n[i] = IF s[i].id \in ids THEN Translated(s[i], dx, dy) ELSE s[i]
<1> DEFINE t == [i \in DOMAIN s |-> IF s[i].id \in ids THEN Translated(s[i], dx, dy) ELSE s[i]]
<1>0. 0 \in Nat
  OBVIOUS
<1>1. Shifted(s, ids, dx, dy) = t \o <<>>
  BY DEF Shifted, Each
<1>2. \A i \in DOMAIN s : t[i] \in ShapesOver(0) /\ Kept(s[i], t[i])
  <2> SUFFICES ASSUME NEW i \in DOMAIN s PROVE t[i] \in ShapesOver(0) /\ Kept(s[i], t[i])
    OBVIOUS
  <2>1. s[i] \in ShapesOver(0)
    BY <1>0, SheetFacts
  <2>2. t[i] \in {s[i], Translated(s[i], dx, dy)}
    OBVIOUS
  <2> HIDE DEF t
  <2> QED BY <1>0, <2>1, <2>2, KeptItself, TranslatedFacts
<1>3. \A i \in DOMAIN s : t[i] = IF s[i].id \in ids THEN Translated(s[i], dx, dy) ELSE s[i]
  OBVIOUS
<1>4. t = [i \in DOMAIN s |-> t[i]]
  OBVIOUS
<1> HIDE DEF t
<1>5. t \o <<>> = t /\ Laid(0, t) /\ Alike(s, t) /\ AllIds(t) = AllIds(s)
  BY <1>0, <1>2, <1>4, Remade
<1> QED BY <1>1, <1>3, <1>5

\* Replacing a shape leaves a sheet, the others as they were.
LEMMA ReplacedSheets ==
  ASSUME NEW s, Laid(0, s), NEW u \in ShapesOver(0)
  PROVE  LET n == Replaced(s, u)
         IN  /\ Laid(0, n) /\ AllIds(n) = AllIds(s) /\ DOMAIN n = DOMAIN s
             /\ \A i \in DOMAIN s : n[i] = IF s[i].id = u.id THEN u ELSE s[i]
<1> DEFINE t == [i \in DOMAIN s |-> IF s[i].id = u.id THEN u ELSE s[i]]
<1>0. 0 \in Nat
  OBVIOUS
<1>1. Replaced(s, u) = t \o <<>>
  BY DEF Replaced, Each
<1>2. \A i \in DOMAIN s : t[i] \in ShapesOver(0) /\ t[i].id = s[i].id
  <2> SUFFICES ASSUME NEW i \in DOMAIN s PROVE t[i] \in ShapesOver(0) /\ t[i].id = s[i].id
    OBVIOUS
  <2>1. s[i] \in ShapesOver(0)
    BY <1>0, SheetFacts
  <2> QED BY <2>1
<1>3. \A i \in DOMAIN s : t[i] = IF s[i].id = u.id THEN u ELSE s[i]
  OBVIOUS
<1>4. t = [i \in DOMAIN s |-> t[i]]
  OBVIOUS
<1> HIDE DEF t
<1>5. t \o <<>> = t /\ Laid(0, t) /\ AllIds(t) = AllIds(s) /\ DOMAIN t = DOMAIN s
  BY <1>0, <1>2, <1>4, RemadeIds
<1> QED BY <1>1, <1>3, <1>5

\* A new shape on top leaves a sheet.
LEMMA AppendedSheets ==
  ASSUME NEW s, Laid(0, s), NEW u \in ShapesOver(0), u.id \notin AllIds(s)
  PROVE  Laid(0, Append(s, u)) /\ AllIds(Append(s, u)) = AllIds(s) \cup {u.id}
<1> DEFINE S == ShapesOver(0)
           w == Append(s, u)
           l == Len(s)
<1>0. 0 \in Nat
  OBVIOUS
<1>1. s \in Seq(S) /\ u \in S /\ l \in Nat /\ DOMAIN s = 1..l
  BY <1>0, SheetFacts DEF Laid
<1>2. \A i \in DOMAIN s : s[i].id # u.id
  BY DEF AllIds
<1>3. \A i, k \in DOMAIN s : s[i].id = s[k].id => i = k
  BY DEF Laid
<1> HIDE DEF S
<1>4. w \in Seq(S) /\ Len(w) = l + 1 /\ w[l + 1] = u /\ \A k \in 1..l : w[k] = s[k]
  BY <1>1, AppendProperties
<1> HIDE DEF l, w
<1>5. DOMAIN w = 1..(l + 1)
  BY <1>4, LenProperties
<1>6. \A i \in DOMAIN w : i \in 1..l \/ i = l + 1
  BY <1>1, <1>5
<1>7. \A i, k \in DOMAIN w : w[i].id = w[k].id => i = k
  <2> SUFFICES ASSUME NEW i \in DOMAIN w, NEW k \in DOMAIN w, w[i].id = w[k].id PROVE i = k
    OBVIOUS
  <2>1. CASE i \in 1..l /\ k \in 1..l
    BY <1>1, <1>3, <1>4, <2>1
  <2>2. CASE i = l + 1 \/ k = l + 1
    BY <1>1, <1>2, <1>4, <1>6, <2>2
  <2> QED BY <1>6, <2>1, <2>2
<1>8. AllIds(w) = AllIds(s) \cup {u.id}
  <2>1. \A i \in 1..l : i \in DOMAIN w
    BY <1>1, <1>5
  <2>2. l + 1 \in DOMAIN w
    BY <1>1, <1>5
  <2>3. AllIds(w) \subseteq AllIds(s) \cup {u.id}
    BY <1>1, <1>4, <1>6 DEF AllIds
  <2>4. AllIds(s) \cup {u.id} \subseteq AllIds(w)
    BY <1>1, <1>4, <2>1, <2>2 DEF AllIds
  <2> QED BY <2>3, <2>4
<1>9. Laid(0, w)
  BY <1>4, <1>7 DEF Laid, S
<1> QED BY <1>8, <1>9 DEF w

\* What MOVE_SHAPE leaves, after normalizeShapes.
LEMMA MovedOneWrites ==
  ASSUME NEW s, Laid(0, s), NEW u \in ShapesOver(0), NEW keepEnds \in BOOLEAN, NoId \notin ShapeIds
  PROVE  LET n == Canonical(MovedOne(s, u, keepEnds))
         IN  /\ Normal(n) /\ AllIds(n) = AllIds(s)
             /\ \A i \in DOMAIN n : IsConnector(n[i]) => OnItsEnds(n, n[i])
<1> DEFINE r == Replaced(s, u)
           synced == SyncChildren(s, r, {u.id}, {})
           t == IF keepEnds THEN synced ELSE Rebound(synced, {u.id})
<1>1. Laid(0, r) /\ AllIds(r) = AllIds(s)
  BY ReplacedSheets
<1>2. MovedOne(s, u, keepEnds) = Reprojected(t)
  BY DEF MovedOne
<1> HIDE DEF r
<1>3. Laid(0, synced) /\ AllIds(synced) = AllIds(s)
  BY <1>1, SyncedSheets
<1> HIDE DEF synced
<1>4. Laid(0, t) /\ AllIds(t) = AllIds(s)
  <2>1. Laid(0, Rebound(synced, {u.id})) /\ AllIds(Rebound(synced, {u.id})) = AllIds(synced)
    BY <1>3, ReboundSheets
  <2> QED BY <1>3, <2>1
<1> HIDE DEF t
<1> QED BY <1>2, <1>4, StoreWrites

\* What MOVE_SHAPES and NUDGE_SHAPES leave, after normalizeShapes.
LEMMA MovedManyWrites ==
  ASSUME NEW s, Laid(0, s), NEW ids, NEW dx \in Int, NEW dy \in Int, NoId \notin ShapeIds
  PROVE  LET n == Canonical(MovedMany(s, ids, dx, dy))
         IN  /\ Normal(n) /\ AllIds(n) = AllIds(s)
             /\ \A i \in DOMAIN n : IsConnector(n[i]) => OnItsEnds(n, n[i])
<1> DEFINE r == Shifted(s, ids, dx, dy)
           synced == SyncChildren(s, r, ids, ids)
           t == Rebound(synced, ids)
<1>1. Laid(0, r) /\ AllIds(r) = AllIds(s)
  BY ShiftedSheets
<1>2. MovedMany(s, ids, dx, dy) = Reprojected(t)
  BY DEF MovedMany
<1> HIDE DEF r
<1>3. Laid(0, synced) /\ AllIds(synced) = AllIds(s)
  BY <1>1, SyncedSheets
<1> HIDE DEF synced
<1>4. Laid(0, t) /\ AllIds(t) = AllIds(s)
  BY <1>3, ReboundSheets
<1> HIDE DEF t
<1> QED BY <1>2, <1>4, StoreWrites

\* A drawn shape is a shape, perhaps with no sides.
LEMMA DrawnFacts ==
  ASSUME NEW tool \in {"rect", "circle", "arrow"}, NEW p \in Int \X Int, NEW q \in Int \X Int,
         NEW square \in BOOLEAN
  PROVE  Drawn(tool, p, q, square) \in ShapesOver(0) /\ Drawn(tool, p, q, square).id = DrawnId
<1> DEFINE u == Drawn(tool, p, q, square)
           b == DrawnBox(p[1], p[2], q[1], q[2], square)
<1>0. 0 \in Nat /\ 0 \in AtLeastLong(0) /\ 0 \in Int /\ DrawnId \in ShapeIds
  BY DEF AtLeastLong, ShapeIds
<1>1. p[1] \in Int /\ p[2] \in Int /\ q[1] \in Int /\ q[2] \in Int
  OBVIOUS
<1>2. Upright(b)
  <2> DEFINE size == Larger(Abs(q[1] - p[1]), Abs(q[2] - p[2]))
             qx == Squared(p[1], p[1], <<p[1], q[1]>>, "high", size)
             qy == Squared(p[2], p[2], <<p[2], q[2]>>, "high", size)
  <2>1. b = IF square THEN Normalize(p[1], p[2], qx[2], qy[2]) ELSE Normalize(p[1], p[2], q[1], q[2])
    BY DEF DrawnBox
  <2>2. size \in Int
    <3>1. q[1] - p[1] \in Int /\ q[2] - p[2] \in Int
      BY <1>1
    <3>2. Abs(q[1] - p[1]) \in Int /\ Abs(q[2] - p[2]) \in Int
      BY <3>1, SimpleFacts
    <3> QED BY <3>2, SimpleFacts
  <2> HIDE DEF size
  <2>3. qx \in Int \X Int /\ qy \in Int \X Int
    <3>1. <<p[1], q[1]>> \in Int \X Int /\ <<p[2], q[2]>> \in Int \X Int
      BY <1>1
    <3> QED BY <1>1, <2>2, <3>1, SquaredFacts
  <2> HIDE DEF qx, qy, b
  <2>4. qx[2] \in Int /\ qy[2] \in Int
    BY <2>3
  <2> QED BY <1>1, <2>1, <2>4, NormalizedUpright
<1>3. CASE tool = "arrow"
  <2>1. u = [id |-> DrawnId, type |-> tool, x1 |-> p[1], y1 |-> p[2], x2 |-> q[1], y2 |-> q[2],
             dashed |-> FALSE, start |-> FreeEnd, end |-> FreeEnd]
    BY <1>3 DEF Drawn, Connector
  <2> HIDE DEF u
  <2>2. u \in ConnectorShapes /\ u.id = DrawnId
    BY <1>0, <1>1, <1>3, <2>1, FreeEndFacts DEF ConnectorShapes, Connector
  <2> QED BY <2>2 DEF u, ShapesOver
<1>4. CASE tool = "circle"
  <2> DEFINE t == [id |-> DrawnId, type |-> tool, cx |-> 0, cy |-> 0, rx |-> 0, ry |-> 0]
  <2>1. u = Reshaped(t, b)
    BY <1>4 DEF Drawn, Connector
  <2>2. t \in CircleShapes(0) /\ t.id = DrawnId
    BY <1>0, <1>4 DEF CircleShapes
  <2> HIDE DEF t, u, b
  <2>3. t \in ShapesOver(0) /\ ~IsConnector(t)
    BY <1>0, <2>2, TypesOfKinds DEF ShapesOver
  <2>4. u \in ShapesOver(0) /\ Kept(t, u)
    BY <1>2, <2>1, <2>3, ReshapedFacts
  <2> QED BY <2>2, <2>4 DEF u, Kept
<1>5. CASE tool = "rect"
  <2> DEFINE t == [id |-> DrawnId, type |-> tool, x |-> 0, y |-> 0, w |-> 0, h |-> 0]
  <2>1. u = Reshaped(t, b)
    BY <1>5 DEF Drawn, Connector
  <2>2. t \in BoxShapes(0) /\ t.id = DrawnId
    BY <1>0, <1>5 DEF BoxShapes
  <2> HIDE DEF t, u, b
  <2>3. t \in ShapesOver(0) /\ ~IsConnector(t)
    BY <1>0, <2>2, TypesOfKinds DEF ShapesOver
  <2>4. u \in ShapesOver(0) /\ Kept(t, u)
    BY <1>2, <2>1, <2>3, ReshapedFacts
  <2> QED BY <2>2, <2>4 DEF u, Kept
<1> QED BY <1>3, <1>4, <1>5

-----------------------------------------------------------------------------
(* The invariant.                                                          *)

\* What always holds of the sheet: it is as every write leaves it, bound ends
\* have their shape, and what is held is a shape that is or was on the sheet.
HoldTyped ==
  \/ hold = Resting
  \/ hold \in [what : {"drag"}, id : ShapeIds, anchor : Int \X Int]
  \/ hold \in [what : {"multi"}, anchor : Int \X Int]
  \/ hold.what = "resize" /\ hold.shape \in ShapesOver(0)

\* The bound ends of every connector are on shapes that are there.
EndsHeld ==
  \A i \in DOMAIN sheet : IsConnector(sheet[i]) =>
    /\ IsBound(sheet[i].start) => Held(sheet, sheet[i].start)
    /\ IsBound(sheet[i].end) => Held(sheet, sheet[i].end)

\* The inductive invariant.
EditInv ==
  Normal(sheet) /\ chosen \subseteq AllIds(sheet) /\ HoldTyped /\ EndsHeld /\ Attached

\* Every end where it belongs, as the store leaves them.
AllOnEnds == \A i \in DOMAIN sheet : IsConnector(sheet[i]) => OnItsEnds(sheet, sheet[i])

\* All on their ends: attached, and none held by a shape that is gone.
LEMMA OnEndsHeld ==
  AllOnEnds => EndsHeld /\ Attached
BY DEF AllOnEnds, EndsHeld, Attached, OnItsEnds, EndHolds

\* The points of the pointer and of the marquees.
LEMMA InputsTyped ==
  /\ NoId \notin ShapeIds
  /\ \A p \in Points : p[1] \in Int /\ p[2] \in Int /\ <<p[1], p[2]>> \in Int \X Int
  /\ \A span \in Spans : span[1] \in Int \X Int /\ span[2] \in Int \X Int
BY SheetEditsAssumption DEF SheetEditsAssumption

\* The sheet to begin with is as normalizeShapes leaves one.
LEMMA EditInit ==
  ASSUME SheetInit
  PROVE  EditInv
<1>1. Normal(sheet) /\ chosen = AllIds(sheet) /\ hold = Resting
  BY SheetEditsAssumption DEF SheetInit, SheetEditsAssumption
<1>2. AllOnEnds
  BY SheetEditsAssumption DEF SheetInit, SheetEditsAssumption, AllOnEnds, IsConnector
<1> QED BY <1>1, <1>2, OnEndsHeld DEF EditInv, HoldTyped

\* The store has written.
LEMMA StoreKeeps ==
  ASSUME EditInv, NEW n, sheet' = n, Normal(n), chosen' \subseteq AllIds(n), HoldTyped',
         \A i \in DOMAIN n : IsConnector(n[i]) => OnItsEnds(n, n[i])
  PROVE  EditInv'
<1>1. AllOnEnds'
  BY DEF AllOnEnds
<1>2. (AllOnEnds => EndsHeld /\ Attached)'
  BY OnEndsHeld, PTL
<1>3. Normal(sheet)' /\ (chosen \subseteq AllIds(sheet))'
  OBVIOUS
<1> QED BY <1>1, <1>2, <1>3 DEF EditInv

\* A step that leaves the shapes alone.
LEMMA SheetStays ==
  ASSUME EditInv, sheet' = sheet, loose' = loose, chosen' \subseteq AllIds(sheet), HoldTyped'
  PROVE  EditInv'
<1>1. EndsHeld' /\ Attached'
  BY DEF EditInv, EndsHeld, Attached
<1>2. Normal(sheet)' /\ (chosen \subseteq AllIds(sheet))'
  BY DEF EditInv
<1> QED BY <1>1, <1>2 DEF EditInv

\* The sheet and the selection are typed.
LEMMA SheetTyped ==
  ASSUME EditInv
  PROVE  /\ Laid(Px, sheet) /\ Laid(0, sheet) /\ 0 \in Nat /\ Px \in Nat
         /\ Len(sheet) \in Nat /\ DOMAIN sheet = 1..Len(sheet)
         /\ \A i \in DOMAIN sheet : sheet[i] \in ShapesOver(0) /\ sheet[i].id \in ShapeIds
                                    /\ sheet[i].id \in AllIds(sheet)
         /\ AllIds(sheet) \subseteq ShapeIds /\ chosen \subseteq AllIds(sheet)
<1>1. Laid(Px, sheet) /\ 0 \in Nat /\ Px \in Nat /\ chosen \subseteq AllIds(sheet)
  BY NormalSheets, PxFacts DEF EditInv
<1>2. Laid(0, sheet)
  BY <1>1, WiderSheets
<1>3. \A i \in DOMAIN sheet : sheet[i].id \in AllIds(sheet)
  BY DEF AllIds
<1> QED BY <1>1, <1>2, <1>3, SheetFacts

\* What a pointer takes hold of.
LEMMA TargetFacts ==
  ASSUME EditInv, NEW x, NEW y
  PROVE  /\ ResizeTarget(sheet, x, y, primary) = 0 \/ ResizeTarget(sheet, x, y, primary) \in DOMAIN sheet
         /\ ShapeAtPoint(sheet, x, y) = 0 \/ ShapeAtPoint(sheet, x, y) \in DOMAIN sheet
<1> DEFINE own == {i \in DOMAIN sheet : sheet[i].id = primary
                      /\ HandleAtPoint(sheet[i], x, y, SelectionPadding) # "none"}
           grips == {i \in DOMAIN sheet : HandleAtPoint(sheet[i], x, y, SelectionPadding) # "none"}
           hits == {i \in DOMAIN sheet : Hit(sheet[i], x, y)}
<1>1. ResizeTarget(sheet, x, y, primary)
        = IF own # {} THEN MinOf(own) ELSE IF grips = {} THEN 0 ELSE MaxOf(grips)
  BY DEF ResizeTarget, TopMost
<1>2. ShapeAtPoint(sheet, x, y) = IF hits = {} THEN 0 ELSE MaxOf(hits)
  BY DEF ShapeAtPoint, TopMost
<1>3. /\ Len(sheet) \in Nat /\ DOMAIN sheet = 1..Len(sheet)
      /\ own \in SUBSET (1..Len(sheet)) /\ grips \in SUBSET (1..Len(sheet))
      /\ hits \in SUBSET (1..Len(sheet))
  BY SheetTyped
<1> HIDE DEF own, grips, hits
<1>4. /\ own # {} => MinOf(own) \in own
      /\ grips # {} => MaxOf(grips) \in grips
      /\ hits # {} => MaxOf(hits) \in hits
  BY <1>3, PlacesFinite
<1> QED BY <1>1, <1>2, <1>3, <1>4

\* What a press takes hold of is on the sheet.
Grasp(h) ==
  \/ h = Resting
  \/ h \in [what : {"drag"}, id : AllIds(sheet), anchor : Int \X Int]
  \/ h \in [what : {"multi"}, anchor : Int \X Int]
  \/ h.what = "resize" /\ h.shape \in ShapesOver(0) /\ h.shape.id \in AllIds(sheet)

\* A drag of a shape that is there.
LEMMA DragGrasp ==
  ASSUME EditInv, NEW t \in ShapesOver(0), t.id \in AllIds(sheet), NEW x \in Int, NEW y \in Int
  PROVE  Grasp(DragHold(t, x, y))
<1>1. DragAnchor(t, x, y) \in Int \X Int
  <2>1. <<0, 0>> \in Int \X Int /\ 0 \in Nat
    OBVIOUS
  <2> QED BY <2>1, AnchorFacts
<1>2. DragHold(t, x, y) = [what |-> "drag", id |-> t.id, anchor |-> DragAnchor(t, x, y)]
  BY DEF DragHold
<1> QED BY <1>1, <1>2 DEF Grasp

\* Whatever a press takes hold of.
LEMMA GraspFacts ==
  ASSUME EditInv, NEW x \in Int, NEW y \in Int
  PROVE  Grasp(Grasped(x, y))
<1> DEFINE r == ResizeTarget(sheet, x, y, primary)
           h == ShapeAtPoint(sheet, x, y)
           inside == InSelection(sheet, chosen, x, y)
           single == CHOOSE id \in chosen : TRUE
           pulls == r # 0 /\ (~IsConnector(sheet[r]) \/ primary = sheet[r].id)
           handle == HandleAtPoint(sheet[r], x, y, SelectionPadding)
           held == CASE h = 0 /\ inside /\ Cardinality(chosen) > 1 -> MultiHold(x, y)
                     [] h = 0 /\ inside /\ Cardinality(chosen) = 1 ->
                          DragHold(ShapeOf(sheet, single), x, y)
                     [] h # 0 /\ Cardinality(chosen) > 1 /\ sheet[h].id \in chosen -> MultiHold(x, y)
                     [] h # 0 /\ ~(Cardinality(chosen) > 1 /\ sheet[h].id \in chosen) ->
                          DragHold(sheet[h], x, y)
                     [] OTHER -> Resting
<1>1. Grasped(x, y) = CASE pulls -> ResizeHold(sheet[r], handle) [] OTHER -> held
  BY DEF Grasped
<1>2. (r = 0 \/ r \in DOMAIN sheet) /\ (h = 0 \/ h \in DOMAIN sheet)
  BY TargetFacts
<1> HIDE DEF r, h, inside, handle
<1>3. pulls => Grasp(ResizeHold(sheet[r], handle))
  <2> SUFFICES ASSUME pulls PROVE Grasp(ResizeHold(sheet[r], handle))
    OBVIOUS
  <2>1. sheet[r] \in ShapesOver(0) /\ sheet[r].id \in AllIds(sheet)
    BY <1>2, SheetTyped
  <2>2. ResizeHold(sheet[r], handle) = [what |-> "resize", shape |-> sheet[r], handle |-> handle]
    BY DEF ResizeHold
  <2>3. ResizeHold(sheet[r], handle).what = "resize" /\ ResizeHold(sheet[r], handle).shape = sheet[r]
    BY <2>2
  <2> QED BY <2>1, <2>3 DEF Grasp
<1>4. Grasp(held)
  <2>1. Grasp(MultiHold(x, y)) /\ Grasp(Resting)
    BY DEF Grasp, MultiHold
  <2>2. h # 0 => Grasp(DragHold(sheet[h], x, y))
    BY <1>2, SheetTyped, DragGrasp
  <2>3. Cardinality(chosen) = 1 => Grasp(DragHold(ShapeOf(sheet, single), x, y))
    <3> SUFFICES ASSUME Cardinality(chosen) = 1 PROVE Grasp(DragHold(ShapeOf(sheet, single), x, y))
      OBVIOUS
    <3>1. chosen # {}
      BY FS_EmptySet
    <3>2. single \in AllIds(sheet)
      BY <3>1, SheetTyped
    <3> HIDE DEF single
    <3>3. ShapeOf(sheet, single) \in ShapesOver(0) /\ ShapeOf(sheet, single).id = single
      BY <3>2, SheetTyped, ShapeWithId
    <3> QED BY <3>2, <3>3, DragGrasp
  <2>4. held \in {MultiHold(x, y), Resting}
        \/ (Cardinality(chosen) = 1 /\ held = DragHold(ShapeOf(sheet, single), x, y))
        \/ (h # 0 /\ held = DragHold(sheet[h], x, y))
    <3> HIDE DEF single
    <3> DEFINE some == Cardinality(chosen) > 1
               one == Cardinality(chosen) = 1
               isin == sheet[h].id \in chosen
    <3>1. held = CASE h = 0 /\ inside /\ some -> MultiHold(x, y)
                   [] h = 0 /\ inside /\ one -> DragHold(ShapeOf(sheet, single), x, y)
                   [] h # 0 /\ some /\ isin -> MultiHold(x, y)
                   [] h # 0 /\ ~(some /\ isin) -> DragHold(sheet[h], x, y)
                   [] OTHER -> Resting
      OBVIOUS
    <3>2. one => ~some
      OBVIOUS
    <3>3. one <=> Cardinality(chosen) = 1
      OBVIOUS
    <3> HIDE DEF some, one, isin, held
    <3> QED BY <3>1, <3>2, <3>3
  <2> QED BY <2>1, <2>2, <2>3, <2>4
<1> HIDE DEF held, pulls
<1> QED BY <1>1, <1>3, <1>4

\* A gesture that starts on the sheet is typed.
LEMMA GraspTyped ==
  ASSUME EditInv, NEW h, Grasp(h), hold' = h
  PROVE  HoldTyped'
BY SheetTyped DEF Grasp, HoldTyped

-----------------------------------------------------------------------------
(* Gestures.                                                               *)

\* The gestures, one by one.
LEMMA PressKeeps ==
  ASSUME EditInv, NEW x \in Int, NEW y \in Int, Press(x, y)
  PROVE  EditInv'
<1> DEFINE h == Grasped(x, y)
<1>1. /\ hold' = h
      /\ chosen' = CASE h.what = "resize" -> {h.shape.id}
                     [] h.what = "drag" -> {h.id}
                     [] h.what = "multi" -> chosen
                     [] OTHER -> {}
      /\ sheet' = sheet /\ loose' = loose
  BY DEF Press
<1>2. Grasp(h)
  BY GraspFacts
<1> HIDE DEF h
<1>3. chosen' \subseteq AllIds(sheet)
  <2>1. CASE h = Resting
    <3>1. h.what = "nothing"
      BY <2>1 DEF Resting
    <3> QED BY <1>1, <3>1
  <2>2. CASE h \in [what : {"drag"}, id : AllIds(sheet), anchor : Int \X Int]
    <3>1. h.what = "drag" /\ h.id \in AllIds(sheet)
      BY <2>2
    <3> QED BY <1>1, <3>1
  <2>3. CASE h \in [what : {"multi"}, anchor : Int \X Int]
    <3>1. h.what = "multi"
      BY <2>3
    <3> QED BY <1>1, <3>1, SheetTyped
  <2>4. CASE h.what = "resize" /\ h.shape \in ShapesOver(0) /\ h.shape.id \in AllIds(sheet)
    BY <1>1, <2>4
  <2> QED BY <1>2, <2>1, <2>2, <2>3, <2>4 DEF Grasp
<1>4. HoldTyped'
  BY <1>1, <1>2, GraspTyped
<1> QED BY <1>1, <1>3, <1>4, SheetStays

LEMMA MarqueeKeeps ==
  ASSUME EditInv, NEW p, NEW q, Marquee(p, q)
  PROVE  EditInv'
<1> DEFINE inside == {i \in DOMAIN sheet : Inside(Box(sheet[i]), Normalize(p[1], p[2], q[1], q[2]))}
<1>1. sheet' = sheet /\ loose' = loose /\ hold' = hold /\ chosen' = {sheet[i].id : i \in inside}
  BY DEF Marquee
<1>2. chosen' \subseteq AllIds(sheet)
  BY <1>1 DEF AllIds
<1>3. HoldTyped'
  BY <1>1 DEF EditInv, HoldTyped
<1> QED BY <1>1, <1>2, <1>3, SheetStays

LEMMA ReleaseKeeps ==
  ASSUME EditInv, Release
  PROVE  EditInv'
<1>1. sheet' = sheet /\ loose' = loose /\ hold' = Resting /\ chosen' = chosen
  BY DEF Release
<1>2. HoldTyped'
  BY <1>1 DEF HoldTyped
<1>3. chosen' \subseteq AllIds(sheet)
  BY <1>1, SheetTyped
<1> QED BY <1>1, <1>2, <1>3, SheetStays

LEMMA MoveDragKeeps ==
  ASSUME EditInv, NEW x \in Int, NEW y \in Int, MoveDrag(x, y)
  PROVE  EditInv'
<1> DEFINE now == ShapeOf(sheet, hold.id)
           u == Dragged(now, hold.anchor, x, y)
           keepEnds == IsConnector(now)
           n == Canonical(MovedOne(sheet, u, keepEnds))
           a == DragAnchorNext(now, hold.anchor, x, y)
<1>1. /\ hold.what = "drag" /\ hold.id \in AllIds(sheet)
      /\ sheet' = n /\ hold' = [hold EXCEPT !.anchor = a] /\ chosen' = chosen
  BY DEF MoveDrag
<1>2. hold \in [what : {"drag"}, id : ShapeIds, anchor : Int \X Int]
  <2>1. HoldTyped /\ Resting.what # "drag"
    BY DEF EditInv, Resting
  <2>2. ASSUME hold \in [what : {"multi"}, anchor : Int \X Int] PROVE FALSE
    BY <1>1, <2>2
  <2> QED BY <1>1, <2>1, <2>2 DEF HoldTyped
<1>3. hold.anchor \in Int \X Int
  BY <1>2
<1>4. now \in ShapesOver(0)
  BY <1>1, SheetTyped, ShapeWithId
<1>5. keepEnds \in BOOLEAN
  BY DEF IsConnector
<1>6. u \in ShapesOver(0) /\ a \in Int \X Int
  <2> HIDE DEF now
  <2> QED BY <1>3, <1>4, DraggedFacts, AnchorFacts, SheetTyped
<1> HIDE DEF u, a, keepEnds, now
<1>7. /\ Normal(n) /\ AllIds(n) = AllIds(sheet)
      /\ \A i \in DOMAIN n : IsConnector(n[i]) => OnItsEnds(n, n[i])
  BY <1>5, <1>6, SheetTyped, InputsTyped, MovedOneWrites
<1> HIDE DEF n
<1>8. HoldTyped'
  <2>1. [hold EXCEPT !.anchor = a] \in [what : {"drag"}, id : ShapeIds, anchor : Int \X Int]
    BY <1>2, <1>6
  <2> QED BY <1>1, <2>1 DEF HoldTyped
<1>9. chosen' \subseteq AllIds(n)
  BY <1>1, <1>7, SheetTyped
<1> QED BY <1>1, <1>7, <1>8, <1>9, StoreKeeps

LEMMA MoveMultiKeeps ==
  ASSUME EditInv, NEW x \in Int, NEW y \in Int, MoveMulti(x, y)
  PROVE  EditInv'
<1> DEFINE dx == x - hold.anchor[1]
           dy == y - hold.anchor[2]
           n == Canonical(MovedMany(sheet, chosen, dx, dy))
<1>1. /\ hold.what = "multi" /\ sheet' = n /\ chosen' = chosen
      /\ hold' = [hold EXCEPT !.anchor = <<x, y>>]
  BY DEF MoveMulti
<1>2. hold \in [what : {"multi"}, anchor : Int \X Int]
  <2>1. HoldTyped /\ Resting.what # "multi"
    BY DEF EditInv, Resting
  <2>2. ASSUME hold \in [what : {"drag"}, id : ShapeIds, anchor : Int \X Int] PROVE FALSE
    BY <1>1, <2>2
  <2> QED BY <1>1, <2>1, <2>2 DEF HoldTyped
<1>3. dx \in Int /\ dy \in Int
  <2>1. hold.anchor \in Int \X Int
    BY <1>2
  <2> QED BY <2>1
<1> HIDE DEF dx, dy
<1>4. /\ Normal(n) /\ AllIds(n) = AllIds(sheet)
      /\ \A i \in DOMAIN n : IsConnector(n[i]) => OnItsEnds(n, n[i])
  BY <1>3, SheetTyped, InputsTyped, MovedManyWrites
<1> HIDE DEF n
<1>5. HoldTyped'
  <2>1. [hold EXCEPT !.anchor = <<x, y>>] \in [what : {"multi"}, anchor : Int \X Int]
    BY <1>2
  <2> QED BY <1>1, <2>1 DEF HoldTyped
<1>6. chosen' \subseteq AllIds(n)
  BY <1>1, <1>4, SheetTyped
<1> QED BY <1>1, <1>4, <1>5, <1>6, StoreKeeps

LEMMA MoveResizeKeeps ==
  ASSUME EditInv, NEW x \in Int, NEW y \in Int, NEW fromCenter \in BOOLEAN, NEW square \in BOOLEAN,
         MoveResize(x, y, fromCenter, square)
  PROVE  EditInv'
<1> DEFINE u == ResizeShape(hold.shape, hold.handle, x, y, fromCenter, square)
           n == Canonical(MovedOne(sheet, u, FALSE))
<1>1. hold.what = "resize" /\ sheet' = n /\ hold' = hold /\ chosen' = chosen
  BY DEF MoveResize
<1>2. hold.shape \in ShapesOver(0)
  <2>1. HoldTyped /\ Resting.what # "resize"
    BY DEF EditInv, Resting
  <2>2. ASSUME hold \in [what : {"drag"}, id : ShapeIds, anchor : Int \X Int] PROVE FALSE
    BY <1>1, <2>2
  <2>3. ASSUME hold \in [what : {"multi"}, anchor : Int \X Int] PROVE FALSE
    BY <1>1, <2>3
  <2> QED BY <1>1, <2>1, <2>2, <2>3 DEF HoldTyped
<1>3. u \in ShapesOver(0)
  BY <1>2, ResizeFacts
<1> HIDE DEF u
<1>4. /\ Normal(n) /\ AllIds(n) = AllIds(sheet)
      /\ \A i \in DOMAIN n : IsConnector(n[i]) => OnItsEnds(n, n[i])
  BY <1>3, SheetTyped, InputsTyped, MovedOneWrites
<1> HIDE DEF n
<1>5. HoldTyped'
  BY <1>1 DEF EditInv, HoldTyped
<1>6. chosen' \subseteq AllIds(n)
  BY <1>1, <1>4, SheetTyped
<1> QED BY <1>1, <1>4, <1>5, <1>6, StoreKeeps

LEMMA DeleteKeeps ==
  ASSUME EditInv, DeleteChosen
  PROVE  EditInv'
<1> DEFINE s == Spared(sheet, chosen)
           n == Canonical(Reprojected(s))
<1>1. sheet' = n /\ hold' = hold /\ chosen' = {}
  BY DEF DeleteChosen
<1>2. Laid(0, s)
  BY SheetTyped, SparedSheets
<1> HIDE DEF s
<1>3. Normal(n) /\ \A i \in DOMAIN n : IsConnector(n[i]) => OnItsEnds(n, n[i])
  BY <1>2, InputsTyped, StoreWrites
<1> HIDE DEF n
<1>4. HoldTyped'
  BY <1>1 DEF EditInv, HoldTyped
<1>5. chosen' \subseteq AllIds(n)
  BY <1>1
<1> QED BY <1>1, <1>3, <1>4, <1>5, StoreKeeps

LEMMA DrawKeeps ==
  ASSUME EditInv, NEW tool \in {"rect", "circle", "arrow"}, NEW p \in Int \X Int, NEW q \in Int \X Int,
         NEW square \in BOOLEAN, Draw(tool, p, q, square)
  PROVE  EditInv'
<1> DEFINE u == Drawn(tool, p, q, square)
           s == Append(sheet, u)
           t == Rebound(s, {DrawnId})
           n == Canonical(Reprojected(t))
<1>1. DrawnId \notin AllIds(sheet) /\ sheet' = n /\ chosen' = {DrawnId} /\ hold' = hold
  BY DEF Draw
<1>2. u \in ShapesOver(0) /\ u.id = DrawnId
  BY DrawnFacts
<1> HIDE DEF u
<1>3. Laid(0, s) /\ AllIds(s) = AllIds(sheet) \cup {DrawnId}
  BY <1>1, <1>2, SheetTyped, AppendedSheets
<1> HIDE DEF s
<1>4. Laid(0, t) /\ AllIds(t) = AllIds(s)
  BY <1>3, ReboundSheets
<1> HIDE DEF t
<1>5. /\ Normal(n) /\ AllIds(n) = AllIds(t)
      /\ \A i \in DOMAIN n : IsConnector(n[i]) => OnItsEnds(n, n[i])
  BY <1>4, InputsTyped, StoreWrites
<1> HIDE DEF n
<1>6. HoldTyped'
  BY <1>1 DEF EditInv, HoldTyped
<1>7. chosen' \subseteq AllIds(n)
  BY <1>1, <1>3, <1>4, <1>5
<1> QED BY <1>1, <1>5, <1>6, <1>7, StoreKeeps

\* The gestures.
LEMMA GestureKeeps ==
  ASSUME EditInv, Gesture
  PROVE  EditInv'
<1>1. ASSUME NEW p \in Points, Press(p[1], p[2]) \/ MoveDrag(p[1], p[2]) \/ MoveMulti(p[1], p[2])
      PROVE  EditInv'
  BY <1>1, InputsTyped, PressKeeps, MoveDragKeeps, MoveMultiKeeps
<1>2. ASSUME NEW p \in Points, NEW fromCenter \in BOOLEAN, NEW square \in BOOLEAN,
             MoveResize(p[1], p[2], fromCenter, square)
      PROVE  EditInv'
  BY <1>2, InputsTyped, MoveResizeKeeps
<1>3. ASSUME NEW span \in Spans, Marquee(span[1], span[2]) PROVE EditInv'
  BY <1>3, MarqueeKeeps
<1>4. ASSUME NEW span \in Spans, NEW square \in BOOLEAN, NEW tool \in {"rect", "circle"},
             Draw(tool, span[1], span[2], square)
      PROVE  EditInv'
  BY <1>4, InputsTyped, DrawKeeps
<1>5. ASSUME NEW span \in Spans, NEW square \in BOOLEAN, Draw("arrow", span[1], span[2], square)
      PROVE  EditInv'
  BY <1>5, InputsTyped, DrawKeeps
<1> QED BY <1>1, <1>2, <1>3, <1>4, <1>5, ReleaseKeeps, DeleteKeeps DEF Gesture

-----------------------------------------------------------------------------
(* Page commands.                                                          *)

\* A connector that lies on its ends, or will when it is given a length.
Rests(n, c) ==
  /\ EndHolds(n, c.start, c.x1, c.y1, 0)
  /\ \/ EndHolds(n, c.end, c.x2, c.y2, 0)
     \/ <<c.x1, c.y1>> # <<c.x2, c.y2>> /\ EndHolds(n, c.end, c.x2, c.y2, Px)

\* The numbers and ends of a connector.
LEMMA ConnectorFacts ==
  ASSUME NEW m \in Nat, NEW s, Laid(m, s), NEW i \in DOMAIN s, IsConnector(s[i])
  PROVE  /\ s[i] \in ConnectorShapes /\ s[i].start \in Ends /\ s[i].end \in Ends
         /\ s[i].x1 \in Int /\ s[i].y1 \in Int /\ s[i].x2 \in Int /\ s[i].y2 \in Int
         /\ <<s[i].x1, s[i].y1>> \in Int \X Int /\ <<s[i].x2, s[i].y2>> \in Int \X Int
<1>1. s[i] \in ConnectorShapes
  BY SheetFacts, KindsOfShapes
<1> QED BY <1>1 DEF ConnectorShapes

\* An end that is pushed by up to a pixel along x.
LEMMA EndPushed ==
  ASSUME NEW m \in Nat, NEW n, Laid(m, n), NoId \notin ShapeIds, NEW e \in Ends,
         NEW x \in Int, NEW y \in Int, NEW z \in Int, x <= z, z <= x + Px,
         EndHolds(n, e, x, y, 0)
  PROVE  EndHolds(n, e, z, y, Px)
<1> SUFFICES ASSUME IsBound(e) PROVE EndHolds(n, e, z, y, Px)
  BY DEF EndHolds
<1> DEFINE p == PointIn(Box(ShapeOf(n, e.to)), e)
           q == p[1]
<1>1. Held(n, e) /\ Abs(p[1] - x) <= Px + 0 /\ Abs(p[2] - y) <= Px
  BY DEF EndHolds
<1>2. p \in Int \X Int
  BY <1>1, EndFacts
<1> HIDE DEF p
<1>3. q \in Int
  BY <1>2
<1>4. Abs(q - x) <= Px
  BY <1>1, PxFacts
<1> HIDE DEF q
<1>5. q - x <= Px /\ x - q <= Px
  BY <1>3, <1>4, PxFacts DEF Abs
<1>6. q - z \in Int /\ Px + Px \in Int /\ q - z <= Px + Px /\ 0 - (q - z) <= Px + Px
  BY <1>3, <1>5, PxFacts
<1>7. Abs(q - z) <= Px + Px
  BY <1>6, AbsWithin
<1> QED BY <1>1, <1>7 DEF EndHolds, p, q

\* An end that was put on its place.
LEMMA ExactEnd ==
  ASSUME NEW m \in Nat, NEW n, Laid(m, n), NoId \notin ShapeIds, NEW e \in Ends,
         Held(n, e), NEW x, NEW y,
         x = PointIn(Box(ShapeOf(n, e.to)), e)[1], y = PointIn(Box(ShapeOf(n, e.to)), e)[2]
  PROVE  EndHolds(n, e, x, y, 0)
<1> DEFINE p == PointIn(Box(ShapeOf(n, e.to)), e)
<1>1. p \in Int \X Int
  BY EndFacts
<1>2. x = p[1] /\ y = p[2]
  OBVIOUS
<1> HIDE DEF p
<1>3. Abs(p[1] - x) <= Px + 0 /\ Abs(p[2] - y) <= Px
  <2>1. x \in Int /\ y \in Int /\ p[1] - x = 0 /\ p[2] - y = 0
    BY <1>1, <1>2
  <2> QED BY <2>1, PxFacts DEF Abs
<1> QED BY <1>3 DEF EndHolds, p

\* A connector rests where it did when the boxes at its ends stay.
LEMMA RestsSame ==
  ASSUME NEW s, Laid(Px, s), NEW n, Laid(Px, n), Alike(s, n), NEW c, Rests(s, c),
         \A k \in DOMAIN s : s[k].id \in {c.start.to, c.end.to} /\ ~IsConnector(s[k]) => Box(n[k]) = Box(s[k]),
         NEW d, d.start = c.start, d.end = c.end, d.x1 = c.x1, d.y1 = c.y1, d.x2 = c.x2, d.y2 = c.y2
  PROVE  Rests(n, d)
<1>0. Px \in Nat
  BY PxFacts
<1>1. \A k \in DOMAIN s : s[k].id = c.start.to /\ ~IsConnector(s[k]) => Box(n[k]) = Box(s[k])
  OBVIOUS
<1>2. \A k \in DOMAIN s : s[k].id = c.end.to /\ ~IsConnector(s[k]) => Box(n[k]) = Box(s[k])
  OBVIOUS
<1>3. EndHolds(n, c.start, c.x1, c.y1, 0)
  <2>1. EndHolds(s, c.start, c.x1, c.y1, 0)
    BY DEF Rests
  <2> QED BY <1>0, <1>1, <2>1, EndSame
<1>4. EndHolds(s, c.end, c.x2, c.y2, 0) => EndHolds(n, c.end, c.x2, c.y2, 0)
  BY <1>0, <1>2, EndSame
<1>5. EndHolds(s, c.end, c.x2, c.y2, Px) => EndHolds(n, c.end, c.x2, c.y2, Px)
  BY <1>0, <1>2, EndSame
<1> QED BY <1>3, <1>4, <1>5 DEF Rests

\* A page command: the store normalizes what it is given, and a connector that
\* rests on its ends is still on them then, to the pixel.
LEMMA PageWrites ==
  ASSUME EditInv, NEW t, Laid(Px, t), Alike(sheet, t), sheet' = Canonical(t),
         chosen' = chosen, hold' = hold,
         \A i \in DOMAIN t : IsConnector(t[i]) =>
           /\ IsBound(t[i].start) => Held(t, t[i].start)
           /\ IsBound(t[i].end) => Held(t, t[i].end),
         \A i \in DOMAIN t : IsConnector(t[i]) /\ t[i].id \notin loose' => Rests(t, t[i])
  PROVE  EditInv'
<1> DEFINE n == Canonical(t)
<1>0. 0 \in Nat /\ Px \in Nat /\ Laid(0, t)
  BY PxFacts, WiderSheets
<1>1. /\ Laid(Px, n) /\ Alike(t, n) /\ AllIds(n) = AllIds(t) /\ DOMAIN n = DOMAIN t
      /\ \A i \in DOMAIN t : n[i] = CanonicalShape(t[i], AllIds(t))
      /\ Normal(n)
  BY <1>0, CanonicalSheets
<1>2. sheet' = n
  OBVIOUS
<1> HIDE DEF n
<1>3. AllIds(n) = AllIds(sheet) /\ AllIds(t) \subseteq ShapeIds
  BY <1>0, <1>1, AlikeFacts, SheetFacts
<1>4. \A k \in DOMAIN t : ~IsConnector(t[k]) => Box(n[k]) = Box(t[k])
  <2> SUFFICES ASSUME NEW k \in DOMAIN t, ~IsConnector(t[k]) PROVE Box(n[k]) = Box(t[k])
    OBVIOUS
  <2>1. t[k] \in ShapesOver(0) /\ t[k] \in ShapesOver(Px)
    BY <1>0, SheetFacts
  <2> QED BY <1>1, <1>3, <2>1, CanonicalFacts
<1>5. \A i \in DOMAIN n : IsConnector(n[i]) =>
        /\ i \in DOMAIN t /\ IsConnector(t[i]) /\ t[i] \in ConnectorShapes /\ n[i].id = t[i].id
        /\ n[i].start = t[i].start /\ n[i].end = t[i].end
        /\ n[i].x1 = t[i].x1 /\ n[i].y1 = t[i].y1 /\ n[i].y2 = t[i].y2
        /\ n[i].x2 \in Int /\ t[i].x2 <= n[i].x2 /\ n[i].x2 <= t[i].x2 + Px
        /\ (<<t[i].x1, t[i].y1>> # <<t[i].x2, t[i].y2>> => n[i] = t[i])
  <2> SUFFICES ASSUME NEW i \in DOMAIN n, IsConnector(n[i])
               PROVE  /\ i \in DOMAIN t /\ IsConnector(t[i]) /\ t[i] \in ConnectorShapes /\ n[i].id = t[i].id
                      /\ n[i].start = t[i].start /\ n[i].end = t[i].end
                      /\ n[i].x1 = t[i].x1 /\ n[i].y1 = t[i].y1 /\ n[i].y2 = t[i].y2
                      /\ n[i].x2 \in Int /\ t[i].x2 <= n[i].x2 /\ n[i].x2 <= t[i].x2 + Px
                      /\ (<<t[i].x1, t[i].y1>> # <<t[i].x2, t[i].y2>> => n[i] = t[i])
    OBVIOUS
  <2>1. i \in DOMAIN t /\ IsConnector(t[i]) /\ n[i].id = t[i].id
    BY <1>1, AlikeFacts
  <2>2. t[i] \in ConnectorShapes
    BY <1>0, <2>1, ConnectorFacts
  <2>3. n[i] = CanonicalShape(t[i], AllIds(t))
    BY <1>1, <2>1
  <2> QED BY <2>1, <2>2, <2>3, CanonicalConnectors
<1>6. EndsHeld'
  <2>1. \A e : Held(n, e) <=> Held(t, e)
    BY <1>1, AlikeFacts
  <2>2. \A i \in DOMAIN n : IsConnector(n[i]) =>
          /\ IsBound(n[i].start) => Held(n, n[i].start)
          /\ IsBound(n[i].end) => Held(n, n[i].end)
    BY <1>1, <1>5, <2>1
  <2> QED BY <1>2, <2>2 DEF EndsHeld
<1>7. \A i \in DOMAIN n : IsConnector(n[i]) /\ n[i].id \notin loose' => OnItsEnds(n, n[i])
  <2> SUFFICES ASSUME NEW i \in DOMAIN n, IsConnector(n[i]), n[i].id \notin loose'
               PROVE  OnItsEnds(n, n[i])
    OBVIOUS
  <2> DEFINE c == t[i]
             d == n[i]
  <2>1. /\ i \in DOMAIN t /\ IsConnector(c) /\ c \in ConnectorShapes /\ d.id = c.id
        /\ d.start = c.start /\ d.end = c.end
        /\ d.x1 = c.x1 /\ d.y1 = c.y1 /\ d.y2 = c.y2
        /\ d.x2 \in Int /\ c.x2 <= d.x2 /\ d.x2 <= c.x2 + Px
        /\ (<<c.x1, c.y1>> # <<c.x2, c.y2>> => d = c)
    BY <1>5
  <2>2. Rests(t, c)
    BY <2>1
  <2>3. \A k \in DOMAIN t : t[k].id \in {c.start.to, c.end.to} /\ ~IsConnector(t[k]) => Box(n[k]) = Box(t[k])
    BY <1>4
  <2>4. Rests(n, c)
    <3> HIDE DEF c
    <3> QED BY <1>1, <2>2, <2>3, RestsSame
  <2> HIDE DEF c, d
  <2>5. EndHolds(n, d.start, d.x1, d.y1, 0)
    BY <2>1, <2>4 DEF Rests
  <2>6. EndHolds(n, d.end, d.x2, d.y2, Px)
    <3>1. CASE EndHolds(n, c.end, c.x2, c.y2, 0)
      <4>1. c.end \in Ends /\ c.x2 \in Int /\ c.y2 \in Int
        BY <2>1 DEF ConnectorShapes
      <4>2. EndHolds(n, c.end, d.x2, c.y2, Px)
        BY <1>0, <1>1, <2>1, <3>1, <4>1, InputsTyped, EndPushed
      <4> QED BY <2>1, <4>2
    <3>2. CASE <<c.x1, c.y1>> # <<c.x2, c.y2>> /\ EndHolds(n, c.end, c.x2, c.y2, Px)
      BY <2>1, <3>2
    <3> QED BY <2>4, <3>1, <3>2 DEF Rests
  <2> QED BY <2>5, <2>6 DEF OnItsEnds, d
<1>8. Attached'
  BY <1>2, <1>7 DEF Attached
<1>9. Normal(sheet)' /\ (chosen \subseteq AllIds(sheet))' /\ HoldTyped'
  BY <1>1, <1>2, <1>3 DEF EditInv, HoldTyped
<1> QED BY <1>6, <1>8, <1>9 DEF EditInv

\* What a connector of the sheet starts from.
LEMMA SheetRests ==
  ASSUME EditInv, NEW i \in DOMAIN sheet, IsConnector(sheet[i])
  PROVE  /\ IsBound(sheet[i].start) => Held(sheet, sheet[i].start)
         /\ IsBound(sheet[i].end) => Held(sheet, sheet[i].end)
         /\ sheet[i].id \notin loose => Rests(sheet, sheet[i])
BY DEF EditInv, EndsHeld, Attached, OnItsEnds, Rests, Normal

-----------------------------------------------------------------------------
(* Align and distribute.                                                   *)

\* The shapes that some steps move: the ones that have a step, and labels.
LEMMA MovedBySheets ==
  ASSUME NEW s, Laid(Px, s), NEW moves, \A id \in DOMAIN moves : moves[id] \in Int \X Int,
         \A i \in DOMAIN s : s[i].id \in DOMAIN moves => ~IsConnector(s[i])
  PROVE  LET n == MovedBy(s, moves)
         IN  /\ Laid(Px, n) /\ Alike(s, n)
             /\ \A i \in DOMAIN s : s[i].type # "text" /\ s[i].id \notin DOMAIN moves => n[i] = s[i]
             /\ \A i \in DOMAIN s : IsConnector(s[i]) => n[i] = s[i]
             /\ \A i \in DOMAIN s :
                  LET by == Mover(s[i], DOMAIN moves)
                  IN  n[i] = IF by = NoId THEN s[i]
                             ELSE Translated(s[i], moves[by][1], moves[by][2])
<1> DEFINE ids == DOMAIN moves
           by(t) == Mover(t, ids)
           anew(t) == Translated(t, moves[by(t)][1], moves[by(t)][2])
           t == [i \in DOMAIN s |-> IF by(s[i]) = NoId THEN s[i] ELSE anew(s[i])]
<1>0. Px \in Nat
  BY PxFacts
<1>1. MovedBy(s, moves) = t \o <<>>
  BY DEF MovedBy, Each
<1>2. \A c : by(c) # NoId => by(c) \in ids
  BY DEF Mover
<1>3. \A i \in DOMAIN s : s[i].type # "text" /\ s[i].id \notin ids => by(s[i]) = NoId
  BY DEF Mover
<1>4. \A i \in DOMAIN s : t[i] \in ShapesOver(Px) /\ Kept(s[i], t[i])
  <2> SUFFICES ASSUME NEW i \in DOMAIN s PROVE t[i] \in ShapesOver(Px) /\ Kept(s[i], t[i])
    OBVIOUS
  <2>1. s[i] \in ShapesOver(Px)
    BY <1>0, SheetFacts
  <2>2. CASE by(s[i]) = NoId
    <3>1. t[i] = s[i]
      BY <2>2
    <3> QED BY <2>1, <3>1, KeptItself
  <2>3. CASE by(s[i]) # NoId
    <3> DEFINE dx == moves[by(s[i])][1]
               dy == moves[by(s[i])][2]
    <3>1. t[i] = Translated(s[i], dx, dy)
      BY <2>3
    <3>2. by(s[i]) \in DOMAIN moves
      BY <1>2, <2>3
    <3>3. dx \in Int /\ dy \in Int
      <4> HIDE DEF by
      <4>1. moves[by(s[i])] \in Int \X Int
        BY <3>2
      <4> QED BY <4>1
    <3> HIDE DEF t, dx, dy
    <3> QED BY <1>0, <2>1, <3>1, <3>3, TranslatedFacts
  <2> QED BY <2>2, <2>3
<1>5. \A i \in DOMAIN s : s[i].type # "text" /\ s[i].id \notin ids => t[i] = s[i]
  BY <1>3
<1>6. \A i \in DOMAIN s : IsConnector(s[i]) => s[i].type # "text" /\ s[i].id \notin ids
  BY KindsApart
<1>7. \A i \in DOMAIN s : t[i] = IF by(s[i]) = NoId THEN s[i] ELSE anew(s[i])
  OBVIOUS
<1>8. t = [i \in DOMAIN s |-> t[i]]
  OBVIOUS
<1> HIDE DEF t
<1>9. t \o <<>> = t /\ Laid(Px, t) /\ Alike(s, t)
  BY <1>0, <1>4, <1>8, Remade
<1> QED BY <1>1, <1>5, <1>6, <1>7, <1>9

\* c between the places of its ends, some sheet n apart.
LEMMA OnEndsFacts ==
  ASSUME NEW n, Laid(Px, n), NoId \notin ShapeIds, NEW c \in ConnectorShapes,
         NEW start \in Ends, NEW end \in Ends
  PROVE  LET d == OnEnds(n, c, start, end)
         IN  /\ d \in ConnectorShapes /\ Kept(c, d) /\ d.start = start /\ d.end = end
             /\ d.x1 = EndPoint(n, start, <<c.x1, c.y1>>)[1] /\ d.y1 = EndPoint(n, start, <<c.x1, c.y1>>)[2]
             /\ d.x2 = EndPoint(n, end, <<c.x2, c.y2>>)[1] /\ d.y2 = EndPoint(n, end, <<c.x2, c.y2>>)[2]
<1> DEFINE p == EndPoint(n, start, <<c.x1, c.y1>>)
           q == EndPoint(n, end, <<c.x2, c.y2>>)
<1>1. <<c.x1, c.y1>> \in Int \X Int /\ <<c.x2, c.y2>> \in Int \X Int
  BY DEF ConnectorShapes
<1>2. p \in Int \X Int /\ q \in Int \X Int
  BY <1>1, PxFacts, EndFacts
<1>3. OnEnds(n, c, start, end) = Rejoined(c, p, q, start, end)
  BY DEF OnEnds
<1> HIDE DEF p, q
<1> QED BY <1>2, <1>3, RejoinedFacts DEF p, q

\* An end that was put where the sheet n has it, on a sheet with the same boxes.
LEMMA EndReset ==
  ASSUME NEW n, Laid(Px, n), NEW u, Laid(Px, u), Alike(n, u), NoId \notin ShapeIds,
         NEW e \in Ends, IsBound(e) => Held(n, e), NEW other, NEW x, NEW y,
         x = EndPoint(n, e, other)[1], y = EndPoint(n, e, other)[2],
         \A k \in DOMAIN n : n[k].id = e.to /\ ~IsConnector(n[k]) => Box(u[k]) = Box(n[k])
  PROVE  EndHolds(u, e, x, y, 0)
<1> SUFFICES ASSUME IsBound(e) PROVE EndHolds(u, e, x, y, 0)
  BY DEF EndHolds
<1>0. Px \in Nat
  BY PxFacts
<1>1. Held(n, e)
  OBVIOUS
<1>2. EndPoint(n, e, other) = PointIn(Box(ShapeOf(n, e.to)), e)
  BY <1>1 DEF EndPoint
<1>3. EndHolds(n, e, x, y, 0)
  BY <1>0, <1>1, <1>2, ExactEnd
<1> QED BY <1>0, <1>3, EndSame

\* reattachConnectors: between their ends, with the shapes where they are now.
LEMMA ReattachedSheets ==
  ASSUME NEW s, Laid(Px, s), NEW moved, NoId \notin ShapeIds
  PROVE  LET n == Reattached(s, moved)
         IN  /\ Laid(Px, n) /\ Alike(s, n)
             /\ \A i \in DOMAIN s : ~IsConnector(s[i]) => n[i] = s[i]
             /\ \A i \in DOMAIN s : IsConnector(s[i]) =>
                  n[i] = IF {s[i].start.to, s[i].end.to} \cap moved # {}
                         THEN OnEnds(s, s[i], s[i].start, s[i].end) ELSE s[i]
<1> DEFINE goes(c) == IsConnector(c) /\ {c.start.to, c.end.to} \cap moved # {}
           anew(c) == OnEnds(s, c, c.start, c.end)
           t == [i \in DOMAIN s |-> IF goes(s[i]) THEN anew(s[i]) ELSE s[i]]
<1>0. Px \in Nat
  BY PxFacts
<1>1. Reattached(s, moved) = t \o <<>>
  BY DEF Reattached, Each
<1>2. \A i \in DOMAIN s : t[i] \in ShapesOver(Px) /\ Kept(s[i], t[i])
  <2> SUFFICES ASSUME NEW i \in DOMAIN s PROVE t[i] \in ShapesOver(Px) /\ Kept(s[i], t[i])
    OBVIOUS
  <2>1. s[i] \in ShapesOver(Px)
    BY <1>0, SheetFacts
  <2>2. CASE ~goes(s[i])
    <3>1. t[i] = s[i]
      BY <2>2
    <3> QED BY <2>1, <3>1, KeptItself
  <2>3. CASE goes(s[i])
    <3>1. t[i] = OnEnds(s, s[i], s[i].start, s[i].end)
      BY <2>3
    <3>2. s[i] \in ConnectorShapes /\ s[i].start \in Ends /\ s[i].end \in Ends
      BY <1>0, <2>3, ConnectorFacts
    <3> HIDE DEF t
    <3> DEFINE c == s[i]
               a == c.start
               b == c.end
               d == OnEnds(s, c, a, b)
    <3>3. c \in ConnectorShapes /\ a \in Ends /\ b \in Ends /\ t[i] = d
      BY <3>1, <3>2
    <3> HIDE DEF a, b, c
    <3>4. d \in ConnectorShapes /\ Kept(c, d)
      BY <3>3, OnEndsFacts
    <3> HIDE DEF d
    <3>5. t[i] \in ConnectorShapes /\ Kept(s[i], t[i])
      BY <3>3, <3>4 DEF c
    <3> QED BY <3>5 DEF ShapesOver
  <2> QED BY <2>2, <2>3
<1>3. /\ \A i \in DOMAIN s : ~IsConnector(s[i]) => t[i] = s[i]
      /\ \A i \in DOMAIN s : IsConnector(s[i]) =>
                  t[i] = IF {s[i].start.to, s[i].end.to} \cap moved # {}
                         THEN OnEnds(s, s[i], s[i].start, s[i].end) ELSE s[i]
  OBVIOUS
<1>4. t = [i \in DOMAIN s |-> t[i]]
  OBVIOUS
<1> HIDE DEF t
<1>5. t \o <<>> = t /\ Laid(Px, t) /\ Alike(s, t)
  BY <1>0, <1>2, <1>4, Remade
<1> QED BY <1>1, <1>3, <1>5

\* applyMoves: a connector whose boxes move is set between them anew; one whose
\* boxes stay has nothing to follow, labels aside.
LEMMA ArrangeKeeps ==
  ASSUME EditInv, NEW step, NEW moves, \A id \in DOMAIN moves : moves[id] \in Int \X Int,
         \A i \in DOMAIN sheet : sheet[i].id \in DOMAIN moves => ~IsConnector(sheet[i]),
         Arrange(step, moves)
  PROVE  EditInv'
<1> DEFINE steps1 == [id \in {k \in DOMAIN moves : moves[k] # <<0, 0>>} |-> moves[id]]
           ids == DOMAIN steps1
           m == MovedBy(sheet, steps1)
           t == Reattached(m, ids)
<1>1. /\ sheet' = Canonical(t) /\ loose' = loose \cup On(sheet, TextIds(sheet))
      /\ chosen' = chosen /\ hold' = hold
  BY DEF Arrange, Arranged
<1>2. (\A id \in ids : steps1[id] \in Int \X Int) /\ ids \subseteq DOMAIN moves
  OBVIOUS
<1> HIDE DEF steps1
<1>3. /\ Laid(Px, m) /\ Alike(sheet, m)
      /\ \A i \in DOMAIN sheet : sheet[i].type # "text" /\ sheet[i].id \notin ids => m[i] = sheet[i]
      /\ \A i \in DOMAIN sheet : IsConnector(sheet[i]) => m[i] = sheet[i]
  <2>1. \A i \in DOMAIN sheet : sheet[i].id \in ids => ~IsConnector(sheet[i])
    <3> HIDE DEF ids
    <3> QED BY <1>2
  <2>2. Laid(Px, sheet)
    BY SheetTyped
  <2> HIDE DEF m
  <2> QED BY <1>2, <2>1, <2>2, MovedBySheets DEF m
<1> HIDE DEF m, ids
<1>4. /\ Laid(Px, t) /\ Alike(m, t)
      /\ \A i \in DOMAIN m : ~IsConnector(m[i]) => t[i] = m[i]
      /\ \A i \in DOMAIN m : IsConnector(m[i]) =>
           t[i] = IF {m[i].start.to, m[i].end.to} \cap ids # {}
                  THEN OnEnds(m, m[i], m[i].start, m[i].end) ELSE m[i]
  BY <1>3, InputsTyped, ReattachedSheets
<1> HIDE DEF t
<1>5. /\ Alike(sheet, t) /\ DOMAIN t = DOMAIN sheet /\ DOMAIN m = DOMAIN sheet
      /\ \A e : (Held(t, e) <=> Held(sheet, e)) /\ (Held(m, e) <=> Held(sheet, e))
      /\ \A i \in DOMAIN sheet : /\ t[i].id = sheet[i].id /\ m[i].id = sheet[i].id
                                /\ (IsConnector(t[i]) <=> IsConnector(sheet[i]))
                                /\ (IsConnector(m[i]) <=> IsConnector(sheet[i]))
  <2>1. Alike(sheet, t)
    BY <1>3, <1>4, AlikeTwice
  <2> QED BY <1>3, <2>1, AlikeFacts
<1>6. \A k \in DOMAIN m : ~IsConnector(m[k]) => Box(t[k]) = Box(m[k])
  BY <1>4
<1>7. ASSUME NEW i \in DOMAIN t, IsConnector(t[i])
      PROVE  /\ t[i].start = sheet[i].start /\ t[i].end = sheet[i].end
             /\ IsBound(t[i].start) => Held(t, t[i].start)
             /\ IsBound(t[i].end) => Held(t, t[i].end)
             /\ t[i].id \notin loose' => Rests(t, t[i])
  <2> DEFINE c == sheet[i]
  <2>1. i \in DOMAIN sheet /\ IsConnector(c) /\ i \in DOMAIN m /\ IsConnector(m[i]) /\ m[i] = c /\ t[i].id = c.id
    BY <1>3, <1>5, <1>7
  <2>2. /\ IsBound(c.start) => Held(sheet, c.start)
        /\ IsBound(c.end) => Held(sheet, c.end)
        /\ c.id \notin loose => Rests(sheet, c)
    BY <2>1, SheetRests
  <2>3. c \in ConnectorShapes /\ c.start \in Ends /\ c.end \in Ends
    BY <2>1, SheetTyped, ConnectorFacts
  <2>4. c.id \notin loose' => {c.start.to, c.end.to} \cap TextIds(sheet) = {}
    BY <1>1, <2>1 DEF On
  <2> HIDE DEF c
  <2>5. CASE {c.start.to, c.end.to} \cap ids # {}
    <3>1. t[i] = OnEnds(m, c, c.start, c.end)
      BY <1>4, <2>1, <2>5
    <3> DEFINE d == t[i]
    <3>2. /\ d.start = c.start /\ d.end = c.end
          /\ d.x1 = EndPoint(m, c.start, <<c.x1, c.y1>>)[1] /\ d.y1 = EndPoint(m, c.start, <<c.x1, c.y1>>)[2]
          /\ d.x2 = EndPoint(m, c.end, <<c.x2, c.y2>>)[1] /\ d.y2 = EndPoint(m, c.end, <<c.x2, c.y2>>)[2]
      BY <1>3, <2>3, <3>1, InputsTyped, OnEndsFacts
    <3> HIDE DEF d
    <3>3. (IsBound(c.start) => Held(m, c.start)) /\ (IsBound(c.end) => Held(m, c.end))
      BY <1>5, <2>2
    <3>4. EndHolds(t, c.start, d.x1, d.y1, 0)
      BY <1>3, <1>4, <1>6, <2>3, <3>2, <3>3, InputsTyped, EndReset
    <3>5. EndHolds(t, c.end, d.x2, d.y2, 0)
      BY <1>3, <1>4, <1>6, <2>3, <3>2, <3>3, InputsTyped, EndReset
    <3> QED BY <1>5, <2>2, <3>2, <3>4, <3>5 DEF Rests, d, c
  <2>6. CASE {c.start.to, c.end.to} \cap ids = {}
    <3>1. t[i] = c
      BY <1>4, <2>1, <2>6
    <3>2. ASSUME c.id \notin loose' PROVE Rests(t, c)
      <4>1. Rests(sheet, c)
        BY <1>1, <2>2, <3>2
      <4>2. ASSUME NEW k \in DOMAIN sheet, sheet[k].id \in {c.start.to, c.end.to}, ~IsConnector(sheet[k])
            PROVE  Box(t[k]) = Box(sheet[k])
        <5>1. sheet[k].id \notin TextIds(sheet) /\ sheet[k].id \notin ids
          BY <2>4, <2>6, <3>2, <4>2
        <5>2. sheet[k].type # "text"
          BY <5>1 DEF TextIds
        <5>3. m[k] = sheet[k] /\ t[k] = m[k]
          BY <1>3, <1>4, <1>5, <4>2, <5>1, <5>2
        <5> QED BY <5>3
      <4> QED BY <1>4, <1>5, <4>1, <4>2, SheetTyped, RestsSame
    <3> QED BY <1>5, <2>1, <2>2, <3>1, <3>2 DEF c
  <2> QED BY <2>5, <2>6
<1> QED BY <1>1, <1>4, <1>5, <1>7, PageWrites

\* A finite set of whole numbers taken from a finite set, by its functions.
LEMMA LeastOf ==
  ASSUME NEW S, S # {}, IsFiniteSet(S), NEW f, \A x \in S : f[x] \in Int
  PROVE  LET V == {f[x] : x \in S}
         IN  MinOf(V) \in Int /\ MaxOf(V) \in Int /\ MinOf(V) \in V /\ MaxOf(V) \in V
<1> DEFINE V == {f[x] : x \in S}
<1>1. V \in SUBSET Int /\ V # {}
  OBVIOUS
<1>2. IsFiniteSet(V)
  BY FiniteValues
<1> HIDE DEF V
<1>3. MinOf(V) \in V /\ MaxOf(V) \in V
  BY <1>1, <1>2, MinOfFacts, MaxOfFacts
<1> QED BY <1>1, <1>3 DEF V

\* The shapes with these ids are at finitely many places of a sheet.
LEMMA ChosenPlaces ==
  ASSUME NEW m \in Nat, NEW s, Laid(m, s), NEW ids \in SUBSET AllIds(s)
  PROVE  /\ IsFiniteSet(ids) /\ Cardinality(ids) \in Nat
         /\ IsFiniteSet({k \in DOMAIN s : s[k].id \in ids})
         /\ ids # {} => {k \in DOMAIN s : s[k].id \in ids} # {}
<1> DEFINE K == {k \in DOMAIN s : s[k].id \in ids}
           f == [k \in K |-> s[k].id]
<1>1. K \in SUBSET (1..Len(s)) /\ Len(s) \in Nat
  BY SheetFacts
<1>2. IsFiniteSet(K)
  BY <1>1, PlacesFinite
<1>3. ids = {f[k] : k \in K}
  BY DEF AllIds
<1>4. IsFiniteSet({f[k] : k \in K})
  BY <1>2, FiniteValues
<1>5. IsFiniteSet(ids)
  BY <1>3, <1>4
<1> QED BY <1>2, <1>3, <1>5, FS_CardinalityType

\* The box of a selection.
LEMMA BoundsFacts ==
  ASSUME NEW m \in Nat, NEW s, Laid(m, s), NEW ids \in SUBSET AllIds(s), ids # {}
  PROVE  SelectionBounds(s, ids) \in Rectangles
<1> DEFINE K == {k \in DOMAIN s : s[k].id \in ids}
           f == [k \in K |-> Box(s[k])]
           boxes == {Box(s[i]) : i \in K}
<1>1. IsFiniteSet(K) /\ K # {}
  BY ChosenPlaces
<1>2. \A k \in K : Box(s[k]) \in Rectangles
  BY SheetFacts, BoxFacts
<1>3. boxes = {f[k] : k \in K}
  OBVIOUS
<1>4. IsFiniteSet({f[k] : k \in K})
  BY <1>1, FiniteValues
<1>5. IsFiniteSet(boxes) /\ boxes # {} /\ \A b \in boxes : b \in Rectangles
  BY <1>1, <1>2, <1>3, <1>4
<1>6. SelectionBounds(s, ids) =
        [x1 |-> MinOf({b.x1 : b \in boxes}), y1 |-> MinOf({b.y1 : b \in boxes}),
         x2 |-> MaxOf({b.x2 : b \in boxes}), y2 |-> MaxOf({b.y2 : b \in boxes})]
  BY DEF SelectionBounds
<1> HIDE DEF boxes, K
<1> DEFINE f1 == [b \in boxes |-> b.x1]
           f2 == [b \in boxes |-> b.y1]
           f3 == [b \in boxes |-> b.x2]
           f4 == [b \in boxes |-> b.y2]
<1>7. /\ {b.x1 : b \in boxes} = {f1[b] : b \in boxes} /\ {b.y1 : b \in boxes} = {f2[b] : b \in boxes}
      /\ {b.x2 : b \in boxes} = {f3[b] : b \in boxes} /\ {b.y2 : b \in boxes} = {f4[b] : b \in boxes}
  OBVIOUS
<1>8. \A b \in boxes : f1[b] \in Int /\ f2[b] \in Int /\ f3[b] \in Int /\ f4[b] \in Int
  BY <1>5 DEF Rectangles
<1> HIDE DEF f1, f2, f3, f4
<1>9. /\ MinOf({f1[b] : b \in boxes}) \in Int /\ MinOf({f2[b] : b \in boxes}) \in Int
      /\ MaxOf({f3[b] : b \in boxes}) \in Int /\ MaxOf({f4[b] : b \in boxes}) \in Int
  <2>1. MinOf({f1[b] : b \in boxes}) \in Int
    BY <1>5, <1>8, LeastOf
  <2>2. MinOf({f2[b] : b \in boxes}) \in Int
    BY <1>5, <1>8, LeastOf
  <2>3. MaxOf({f3[b] : b \in boxes}) \in Int
    BY <1>5, <1>8, LeastOf
  <2>4. MaxOf({f4[b] : b \in boxes}) \in Int
    BY <1>5, <1>8, LeastOf
  <2> QED BY <2>1, <2>2, <2>3, <2>4
<1> DEFINE c1 == MinOf({b.x1 : b \in boxes})
           c2 == MinOf({b.y1 : b \in boxes})
           c3 == MaxOf({b.x2 : b \in boxes})
           c4 == MaxOf({b.y2 : b \in boxes})
<1>10. c1 \in Int /\ c2 \in Int /\ c3 \in Int /\ c4 \in Int
  BY <1>7, <1>9
<1>11. SelectionBounds(s, ids) = [x1 |-> c1, y1 |-> c2, x2 |-> c3, y2 |-> c4]
  BY <1>6
<1> HIDE DEF c1, c2, c3, c4
<1> QED BY <1>10, <1>11 DEF Rectangles

\* The items of a selection are boxes, texts and strokes of the sheet.
LEMMA ItemFacts ==
  ASSUME NEW m \in Nat, NEW s, Laid(m, s), NEW ids
  PROVE  /\ Items(s, ids) \in SUBSET AllIds(s)
         /\ \A i \in DOMAIN s : s[i].id \in Items(s, ids) => ~IsConnector(s[i])
<1>1. Items(s, ids) \in SUBSET AllIds(s)
  BY DEF Items, AllIds
<1>2. ASSUME NEW i \in DOMAIN s, s[i].id \in Items(s, ids) PROVE ~IsConnector(s[i])
  <2>1. PICK k \in DOMAIN s : s[i].id = s[k].id /\ ~IsConnector(s[k])
    BY <1>2 DEF Items
  <2>2. i = k
    BY <2>1 DEF Laid
  <2> QED BY <2>1, <2>2
<1> QED BY <1>1, <1>2

\* The steps of Align are whole numbers.
LEMMA AlignStepFacts ==
  ASSUME NEW b \in Rectangles, NEW all \in Rectangles,
         NEW mode \in {"left", "right", "hcenter", "top", "bottom", "vcenter"}
  PROVE  AlignStep(b, all, mode) \in Int \X Int
<1> DEFINE h == Half(all.x1 + all.x2 - b.x1 - b.x2)
           v == Half(all.y1 + all.y2 - b.y1 - b.y2)
<1>1. /\ b.x1 \in Int /\ b.x2 \in Int /\ b.y1 \in Int /\ b.y2 \in Int
      /\ all.x1 \in Int /\ all.x2 \in Int /\ all.y1 \in Int /\ all.y2 \in Int
  BY DEF Rectangles
<1>2. all.x1 + all.x2 - b.x1 - b.x2 \in Int /\ all.y1 + all.y2 - b.y1 - b.y2 \in Int
  BY <1>1
<1>3. h \in Int /\ v \in Int
  BY <1>2, SimpleFacts
<1> HIDE DEF h, v
<1>4. /\ <<all.x1 - b.x1, 0>> \in Int \X Int /\ <<all.x2 - b.x2, 0>> \in Int \X Int
      /\ <<h, 0>> \in Int \X Int /\ <<0, all.y1 - b.y1>> \in Int \X Int
      /\ <<0, all.y2 - b.y2>> \in Int \X Int /\ <<0, v>> \in Int \X Int
  BY <1>1, <1>3
<1>5. AlignStep(b, all, mode) \in {<<all.x1 - b.x1, 0>>, <<all.x2 - b.x2, 0>>, <<h, 0>>,
                                   <<0, all.y1 - b.y1>>, <<0, all.y2 - b.y2>>, <<0, v>>}
  BY DEF AlignStep, h, v
<1> QED BY <1>4, <1>5

\* Align, of any selection.
LEMMA AlignKeeps ==
  ASSUME EditInv, NEW mode \in {"left", "right", "hcenter", "top", "bottom", "vcenter"}, Align(mode)
  PROVE  EditInv'
<1> DEFINE items == Items(sheet, chosen)
           all == SelectionBounds(sheet, items)
           moves == [id \in items |-> AlignStep(Box(ShapeOf(sheet, id)), all, mode)]
           step == [step |-> "align", ids |-> items, mode |-> mode]
<1>1. Cardinality(items) >= 2 /\ Arrange(step, moves)
  BY DEF Align
<1>2. /\ items \in SUBSET AllIds(sheet)
      /\ \A i \in DOMAIN sheet : sheet[i].id \in items => ~IsConnector(sheet[i])
  BY SheetTyped, ItemFacts
<1>3. items # {}
  <2>1. CASE items = {}
    BY <1>1, <2>1, FS_EmptySet
  <2> QED BY <2>1
<1> HIDE DEF items
<1>4. all \in Rectangles
  BY <1>2, <1>3, SheetTyped, BoundsFacts
<1>5. \A id \in items : Box(ShapeOf(sheet, id)) \in Rectangles
  BY <1>2, SheetTyped, ShapeWithId
<1> HIDE DEF all
<1>6. DOMAIN moves = items /\ \A id \in DOMAIN moves : moves[id] \in Int \X Int
  BY <1>4, <1>5, AlignStepFacts
<1> HIDE DEF moves, step
<1> QED BY <1>1, <1>2, <1>6, ArrangeKeeps

\* The steps of Distribute are whole numbers.
LEMMA DistributeFacts ==
  ASSUME NEW m \in Nat, NEW s, Laid(m, s), NEW items \in SUBSET AllIds(s), Cardinality(items) >= 3,
         NEW low \in [items -> Int], NEW high \in [items -> Int]
  PROVE  /\ DOMAIN DistributeSteps(s, low, high) = items
         /\ \A id \in items : DistributeSteps(s, low, high)[id] \in Int
<1> DEFINE Before(id, other) == \/ low[id] < low[other]
                                \/ low[id] = low[other] /\ IndexOf(s, id) < IndexOf(s, other)
           lows == {low[id] : id \in items}
           first == MinOf(lows)
           greatest == {k \in items : low[k] = MaxOf(lows)}
           places == {IndexOf(s, id) : id \in greatest}
           last == s[MaxOf(places)].id
           span == [id \in items |-> high[id] - low[id]]
           gap == (high[last] - first - SumOver(s, items, span)) \div (Cardinality(items) - 1)
           spaced == [id \in items |-> span[id] + gap]
<1>0. items = DOMAIN low
  OBVIOUS
<1>1. DistributeSteps(s, low, high) =
        [id \in items |-> first + SumOver(s, {other \in items : Before(other, id)}, spaced) - low[id]]
  BY <1>0 DEF DistributeSteps
<1>2. IsFiniteSet(items) /\ Cardinality(items) \in Nat /\ items # {}
  <2>1. IsFiniteSet(items) /\ Cardinality(items) \in Nat
    BY ChosenPlaces
  <2>2. CASE items = {}
    BY <2>2, FS_EmptySet
  <2> QED BY <2>1, <2>2
<1>3. first \in Int /\ MaxOf(lows) \in lows
  BY <1>2, LeastOf
<1>4. greatest # {} /\ greatest \subseteq items
  BY <1>3
<1>5. last \in items
  <2> HIDE DEF greatest
  <2>1. \A id \in greatest : IndexOf(s, id) \in DOMAIN s /\ s[IndexOf(s, id)].id = id
    BY <1>4, ShapeWithId DEF ShapeOf
  <2>2. places \in SUBSET (1..Len(s)) /\ Len(s) \in Nat /\ places # {}
    BY <1>4, <2>1, SheetFacts
  <2>3. MaxOf(places) \in places
    BY <2>2, PlacesFinite
  <2>4. PICK id \in greatest : MaxOf(places) = IndexOf(s, id)
    BY <2>3
  <2> HIDE DEF places
  <2> QED BY <1>4, <2>1, <2>4
<1> HIDE DEF last, first
<1>6. \A id \in items : span[id] \in Int
  OBVIOUS
<1> HIDE DEF span
<1>7. SumOver(s, items, span) \in Int
  BY <1>6, SumFacts
<1>8. gap \in Int
  <2> DEFINE a == high[last] - first - SumOver(s, items, span)
             d == Cardinality(items) - 1
  <2>1. high[last] \in Int
    BY <1>5
  <2>2. a \in Int
    BY <1>3, <1>7, <2>1
  <2>3. d \in Int /\ d > 0
    BY <1>2
  <2> HIDE DEF a, d
  <2>4. a \div d \in Int
    BY <2>2, <2>3, DivFacts
  <2> QED BY <2>4 DEF a, d
<1> HIDE DEF gap
<1>9. \A id \in items : spaced[id] \in Int
  BY <1>6, <1>8
<1> HIDE DEF spaced
<1>10. ASSUME NEW id \in items
       PROVE  first + SumOver(s, {other \in items : Before(other, id)}, spaced) - low[id] \in Int
  <2> DEFINE before == {other \in items : Before(other, id)}
  <2>1. \A k \in before : spaced[k] \in Int
    BY <1>9
  <2> HIDE DEF before
  <2>2. SumOver(s, before, spaced) \in Int
    BY <2>1, SumFacts
  <2>3. low[id] \in Int
    OBVIOUS
  <2>4. first + SumOver(s, before, spaced) - low[id] \in Int
    BY <1>3, <2>2, <2>3
  <2> QED BY <2>4 DEF before
<1> HIDE DEF Before
<1> QED BY <1>1, <1>10

\* Distribute, of any selection.
LEMMA DistributeKeeps ==
  ASSUME EditInv, NEW axis, Distribute(axis)
  PROVE  EditInv'
<1> DEFINE items == Items(sheet, chosen)
           across == axis = "horizontal"
           boxes == [id \in items |-> Box(ShapeOf(sheet, id))]
           low == [id \in items |-> IF across THEN boxes[id].x1 ELSE boxes[id].y1]
           high == [id \in items |-> IF across THEN boxes[id].x2 ELSE boxes[id].y2]
           by == DistributeSteps(sheet, low, high)
           moves == [id \in items |-> IF across THEN <<by[id], 0>> ELSE <<0, by[id]>>]
           step == [step |-> "distribute", ids |-> items, axis |-> axis]
<1>1. Cardinality(items) >= 3 /\ Arrange(step, moves)
  BY DEF Distribute
<1>2. /\ items \in SUBSET AllIds(sheet)
      /\ \A i \in DOMAIN sheet : sheet[i].id \in items => ~IsConnector(sheet[i])
  BY SheetTyped, ItemFacts
<1> HIDE DEF items
<1>3. \A id \in items : boxes[id] \in Rectangles
  BY <1>2, SheetTyped, ShapeWithId
<1> HIDE DEF boxes
<1>4. low \in [items -> Int] /\ high \in [items -> Int]
  BY <1>3 DEF Rectangles
<1> HIDE DEF low, high
<1>5. \A id \in items : by[id] \in Int
  BY <1>1, <1>2, <1>4, SheetTyped, DistributeFacts
<1> HIDE DEF by
<1>6. DOMAIN moves = items /\ \A id \in DOMAIN moves : moves[id] \in Int \X Int
  BY <1>5
<1> HIDE DEF moves, step
<1> QED BY <1>1, <1>2, <1>6, ArrangeKeeps

-----------------------------------------------------------------------------
(* Attach labels.                                                          *)

\* The first of the places with the smallest measure is one of them.
LEMMA BestPlace ==
  ASSUME NEW n \in Nat, NEW fits \in SUBSET (1..n), fits # {}, NEW f, \A i \in fits : f[i] \in Int
  PROVE  MinOf({i \in fits : f[i] = MinOf({f[k] : k \in fits})}) \in fits
<1> DEFINE V == {f[k] : k \in fits}
           B == {i \in fits : f[i] = MinOf(V)}
<1>1. IsFiniteSet(fits)
  BY PlacesFinite
<1>2. MinOf(V) \in V
  BY <1>1, LeastOf
<1>3. B # {} /\ B \in SUBSET (1..n) /\ B \subseteq fits
  BY <1>2
<1> HIDE DEF B
<1>4. MinOf(B) \in B
  BY <1>3, PlacesFinite
<1>5. MinOf(B) \in fits
  BY <1>3, <1>4
<1> QED BY <1>5 DEF B

\* The sides and the area of a box.
LEMMA AreaFacts ==
  ASSUME NEW b \in Rectangles
  PROVE  Area(b) \in Int /\ Width(b) \in Int /\ Height(b) \in Int
<1>1. Width(b) \in Int /\ Height(b) \in Int
  BY DEF Width, Height, Rectangles
<1> QED BY <1>1, IntProducts DEF Area

\* The distance from a box or its edge.
LEMMA EdgeFacts ==
  ASSUME NEW b, Upright(b), NEW x \in Int, NEW y \in Int
  PROVE  EdgeDistanceSq(b, x, y) \in Int
<1> DEFINE cx == Clamp(x, b.x1, b.x2)
           cy == Clamp(y, b.y1, b.y2)
           dx == x - cx
           dy == y - cy
           e1 == Smaller(x - b.x1, b.x2 - x)
           e2 == Smaller(y - b.y1, b.y2 - y)
           edge == Smaller(e1, e2)
<1>1. b.x1 \in Int /\ b.x2 \in Int /\ b.y1 \in Int /\ b.y2 \in Int /\ b.x1 <= b.x2 /\ b.y1 <= b.y2
  BY DEF Upright, Rectangles
<1>2. cx \in Int /\ cy \in Int
  BY <1>1, ClampFacts
<1> HIDE DEF cx, cy
<1>3. dx \in Int /\ dy \in Int
  BY <1>2
<1>4. x - b.x1 \in Int /\ b.x2 - x \in Int /\ y - b.y1 \in Int /\ b.y2 - y \in Int
  BY <1>1
<1>5. e1 \in Int /\ e2 \in Int
  BY <1>4, SimpleFacts
<1> HIDE DEF e1, e2
<1>6. edge \in Int
  BY <1>5, SimpleFacts
<1>7. EdgeDistanceSq(b, x, y) = IF Within(b, x, y) THEN edge * edge ELSE dx * dx + dy * dy
  BY DEF EdgeDistanceSq, edge, e1, e2, dx, dy, cx, cy
<1> HIDE DEF edge, dx, dy
<1>8. edge * edge \in Int /\ dx * dx \in Int /\ dy * dy \in Int
  BY <1>3, <1>6, IntProducts
<1>9. dx * dx + dy * dy \in Int
  BY <1>8
<1> QED BY <1>7, <1>8, <1>9

\* Loose texts become labels: nothing is moved.
LEMMA TextsBoundSheets ==
  ASSUME NEW s, Laid(Px, s), NEW only
  PROVE  LET n == TextsBound(s, only)
         IN  /\ Laid(Px, n) /\ Alike(s, n)
             /\ \A i \in DOMAIN s : Box(n[i]) = Box(s[i])
             /\ \A i \in DOMAIN s : IsConnector(s[i]) => n[i] = s[i]
<1> DEFINE at(t) == Best(s, Around(s, Box(t)), LAMBDA k : Area(Box(k)))
           stays(t) == t.type # "text" \/ t.id \notin only \/ t.parent # NoId \/ Around(s, Box(t)) = {}
           anew(t) == [t EXCEPT !.parent = s[at(t)].id]
           u == [i \in DOMAIN s |-> IF stays(s[i]) THEN s[i] ELSE anew(s[i])]
<1>0. Px \in Nat
  BY PxFacts
<1>1. TextsBound(s, only) = u \o <<>>
  BY DEF TextsBound, Each
<1>2. \A t : Around(s, Box(t)) # {} => s[at(t)].id \in ShapeIds
  <2> SUFFICES ASSUME NEW t, Around(s, Box(t)) # {} PROVE s[at(t)].id \in ShapeIds
    OBVIOUS
  <2> DEFINE fits == Around(s, Box(t))
             f == [i \in DOMAIN s |-> Area(Box(s[i]))]
  <2>1. fits \subseteq DOMAIN s
    BY DEF Around
  <2>2. DOMAIN s = 1..Len(s) /\ Len(s) \in Nat
    BY <1>0, SheetFacts
  <2>3. \A i \in fits : f[i] \in Int
    <3>1. \A i \in DOMAIN s : Box(s[i]) \in Rectangles
      BY <1>0, SheetFacts, BoxFacts
    <3> QED BY <2>1, <3>1, AreaFacts
  <2>4. at(t) = MinOf({i \in fits : f[i] = MinOf({f[k] : k \in fits})})
    <3>1. \A i \in fits : f[i] = Area(Box(s[i]))
      BY <2>1
    <3> HIDE DEF fits, f
    <3>2. {f[k] : k \in fits} = {Area(Box(s[k])) : k \in fits}
      BY <3>1
    <3>3. {i \in fits : f[i] = MinOf({f[k] : k \in fits})}
            = {i \in fits : Area(Box(s[i])) = MinOf({Area(Box(s[k])) : k \in fits})}
      BY <3>1, <3>2
    <3> QED BY <3>3 DEF Best, fits
  <2> HIDE DEF f, at, fits
  <2>5. at(t) \in fits
    BY <2>1, <2>2, <2>3, <2>4, BestPlace DEF fits
  <2> QED BY <1>0, <2>1, <2>5, SheetFacts
<1> HIDE DEF at
<1>3. ASSUME NEW i \in DOMAIN s
      PROVE  u[i] \in ShapesOver(Px) /\ Kept(s[i], u[i]) /\ Box(u[i]) = Box(s[i])
  <2>1. s[i] \in ShapesOver(Px)
    BY <1>0, SheetFacts
  <2>2. CASE stays(s[i])
    <3>1. u[i] = s[i]
      BY <2>2
    <3> QED BY <2>1, <3>1, KeptItself
  <2>3. CASE ~stays(s[i])
    <3> DEFINE t == s[i]
               id == s[at(t)].id
               v == [t EXCEPT !.parent = id]
    <3>1. u[i] = v /\ id \in ShapeIds /\ t.type = "text"
      BY <1>2, <2>3
    <3>2. t \in TextShapes
      BY <1>0, <2>1, <3>1, KindsOfShapes
    <3> HIDE DEF t, id, u
    <3>3. v \in TextShapes /\ Kept(t, v)
      BY <3>1, <3>2 DEF TextShapes, Kept
    <3>4. v.x = t.x /\ v.y = t.y /\ v.w = t.w /\ v.h = t.h
      BY <3>2 DEF TextShapes
    <3> HIDE DEF v
    <3>5. Box(v) = Box(t)
      BY <1>0, <3>2, <3>3, <3>4, BoxShapeFacts
    <3>6. v \in ShapesOver(Px)
      BY <3>3 DEF ShapesOver
    <3> QED BY <3>1, <3>3, <3>5, <3>6 DEF t
  <2> QED BY <2>2, <2>3
<1>4. \A i \in DOMAIN s : IsConnector(s[i]) => u[i] = s[i]
  BY KindsApart
<1>5. u = [i \in DOMAIN s |-> u[i]]
  OBVIOUS
<1> HIDE DEF u
<1>6. u \o <<>> = u /\ Laid(Px, u) /\ Alike(s, u)
  BY <1>0, <1>3, <1>5, Remade
<1> QED BY <1>1, <1>3, <1>4, <1>6

\* The end that a connector finds, if any, is on a node that is there.
LEMMA NearestFacts ==
  ASSUME NEW s, Laid(Px, s), NEW end, NEW x \in Int, NEW y \in Int
  PROVE  LET e == Nearest(s, end, x, y) IN e \in Ends /\ (IsBound(e) => Held(s, e))
<1> DEFINE fits == EdgesNear(s, x, y)
           k == Best(s, fits, LAMBDA t : EdgeDistanceSq(Box(t), x, y))
           f == [i \in DOMAIN s |-> EdgeDistanceSq(Box(s[i]), x, y)]
<1>0. Px \in Nat /\ DOMAIN s = 1..Len(s) /\ Len(s) \in Nat
  BY PxFacts, SheetFacts
<1>1. CASE IsBound(end) \/ fits = {}
  <2>1. Nearest(s, end, x, y) = FreeEnd
    BY <1>1 DEF Nearest
  <2> QED BY <2>1, FreeEndFacts
<1>2. CASE ~(IsBound(end) \/ fits = {})
  <2> DEFINE n == s[k]
             b == Box(n)
             e == BoundIn(n, b, Width(b), Height(b), x, y)
  <2>1. Nearest(s, end, x, y) = e
    BY <1>2 DEF Nearest
  <2>2. fits \subseteq DOMAIN s
    BY DEF EdgesNear
  <2>3. \A i \in fits : f[i] \in Int
    <3>1. \A i \in fits : IsNode(s[i])
      BY DEF EdgesNear
    <3>2. \A i \in fits : ~IsConnector(s[i])
      BY <3>1 DEF IsNode, IsConnector, Boxlike, Connector
    <3>3. \A i \in fits : Upright(Box(s[i]))
      BY <1>0, <2>2, <3>2, SheetFacts, BoxFacts
    <3> QED BY <2>2, <3>3, EdgeFacts
  <2>4. k = MinOf({i \in fits : f[i] = MinOf({f[j] : j \in fits})})
    <3>1. \A i \in fits : f[i] = EdgeDistanceSq(Box(s[i]), x, y)
      BY <2>2
    <3> HIDE DEF fits, f
    <3>2. {f[j] : j \in fits} = {EdgeDistanceSq(Box(s[j]), x, y) : j \in fits}
      BY <3>1
    <3>3. {i \in fits : f[i] = MinOf({f[j] : j \in fits})}
            = {i \in fits : EdgeDistanceSq(Box(s[i]), x, y)
                              = MinOf({EdgeDistanceSq(Box(s[j]), x, y) : j \in fits})}
      BY <3>1, <3>2
    <3> QED BY <3>3 DEF Best
  <2> HIDE DEF f, k
  <2>5. k \in fits
    BY <1>0, <1>2, <2>2, <2>3, <2>4, BestPlace
  <2>6. k \in DOMAIN s /\ IsNode(n) /\ Width(b) > 0 /\ Height(b) > 0
    BY <2>5 DEF EdgesNear
  <2>7. b \in Rectangles /\ n.id \in ShapeIds
    BY <1>0, <2>6, SheetFacts, BoxFacts
  <2> HIDE DEF b
  <2>8. Width(b) \in Int /\ Height(b) \in Int
    BY <2>7, AreaFacts
  <2>9. e \in Ends /\ e.to = n.id
    BY <2>6, <2>7, <2>8, BoundFacts
  <2> HIDE DEF e
  <2>10. Held(s, e)
    BY <2>6, <2>9 DEF Held, IsNode, IsConnector, Boxlike, Connector
  <2> QED BY <2>1, <2>9, <2>10
<1> QED BY <1>1, <1>2

\* Loose ends are bound: a connector may get an end, at a node that is there.
LEMMA EndsBoundSheets ==
  ASSUME NEW s, Laid(Px, s), NEW only
  PROVE  LET n == EndsBound(s, only)
         IN  /\ Laid(Px, n) /\ Alike(s, n)
             /\ \A i \in DOMAIN s : ~IsConnector(s[i]) => n[i] = s[i]
             /\ \A i \in DOMAIN s : IsConnector(s[i]) =>
                  /\ n[i].start = s[i].start \/ Held(s, n[i].start)
                  /\ n[i].end = s[i].end \/ Held(s, n[i].end)
<1> DEFINE start(c) == Nearest(s, c.start, c.x1, c.y1)
           end(c) == Nearest(s, c.end, c.x2, c.y2)
           stays(c) == ~IsConnector(c) \/ c.id \notin only \/ (IsBound(start(c)) /\ start(c).to = end(c).to)
           anew(c) == [c EXCEPT !.start = IF IsBound(start(c)) THEN start(c) ELSE @,
                                !.end = IF IsBound(end(c)) THEN end(c) ELSE @]
           u == [i \in DOMAIN s |-> IF stays(s[i]) THEN s[i] ELSE anew(s[i])]
<1>0. Px \in Nat
  BY PxFacts
<1>1. EndsBound(s, only) = u \o <<>>
  BY DEF EndsBound, Each
<1>2. ASSUME NEW i \in DOMAIN s
      PROVE  /\ u[i] \in ShapesOver(Px) /\ Kept(s[i], u[i])
             /\ ~IsConnector(s[i]) => u[i] = s[i]
             /\ u[i].start = s[i].start \/ Held(s, u[i].start)
             /\ u[i].end = s[i].end \/ Held(s, u[i].end)
  <2>1. s[i] \in ShapesOver(Px)
    BY <1>0, SheetFacts
  <2>2. CASE stays(s[i])
    <3>1. u[i] = s[i]
      BY <2>2
    <3> QED BY <2>1, <3>1, KeptItself
  <2>3. CASE ~stays(s[i])
    <3> DEFINE c == s[i]
               a == start(c)
               b == end(c)
               p == IF IsBound(a) THEN a ELSE c.start
               q == IF IsBound(b) THEN b ELSE c.end
               d == [c EXCEPT !.start = p, !.end = q]
    <3>1. u[i] = d /\ IsConnector(c)
      BY <2>3
    <3>2. /\ c \in ConnectorShapes /\ c.start \in Ends /\ c.end \in Ends
          /\ c.x1 \in Int /\ c.y1 \in Int /\ c.x2 \in Int /\ c.y2 \in Int
      BY <1>0, <3>1, ConnectorFacts
    <3> HIDE DEF c, u
    <3>3. /\ a \in Ends /\ (IsBound(a) => Held(s, a))
          /\ b \in Ends /\ (IsBound(b) => Held(s, b))
      BY <3>2, NearestFacts
    <3> HIDE DEF a, b
    <3>4. /\ p \in Ends /\ (p = c.start \/ Held(s, p))
          /\ q \in Ends /\ (q = c.end \/ Held(s, q))
      BY <3>2, <3>3
    <3> HIDE DEF p, q
    <3>5. d \in ConnectorShapes /\ Kept(c, d) /\ d.start = p /\ d.end = q
      BY <3>2, <3>4 DEF ConnectorShapes, Kept
    <3> HIDE DEF d
    <3>6. d \in ShapesOver(Px)
      BY <3>5 DEF ShapesOver
    <3> QED BY <3>1, <3>4, <3>5, <3>6 DEF c
  <2> QED BY <2>2, <2>3
<1>3. u = [i \in DOMAIN s |-> u[i]]
  OBVIOUS
<1> HIDE DEF u
<1>4. u \o <<>> = u /\ Laid(Px, u) /\ Alike(s, u)
  BY <1>0, <1>2, <1>3, Remade
<1> QED BY <1>1, <1>2, <1>4

\* Attach labels: nothing moves, and a connector that gets an end is loose.
LEMMA BindLabelsKeeps ==
  ASSUME EditInv, BindLabels
  PROVE  EditInv'
<1> DEFINE only == Scope(sheet, chosen)
           n == TextsBound(sheet, only)
           t == EndsBound(n, only)
<1>1. /\ sheet' = Canonical(t) /\ chosen' = chosen /\ hold' = hold
      /\ loose' = loose \cup {sheet[i].id : i \in {k \in DOMAIN sheet : t[k] # sheet[k]}}
  BY DEF BindLabels, LinkedUp
<1>2. /\ Laid(Px, n) /\ Alike(sheet, n)
      /\ \A i \in DOMAIN sheet : Box(n[i]) = Box(sheet[i])
      /\ \A i \in DOMAIN sheet : IsConnector(sheet[i]) => n[i] = sheet[i]
  BY SheetTyped, TextsBoundSheets
<1> HIDE DEF n
<1>3. /\ Laid(Px, t) /\ Alike(n, t)
      /\ \A i \in DOMAIN n : ~IsConnector(n[i]) => t[i] = n[i]
      /\ \A i \in DOMAIN n : IsConnector(n[i]) =>
           /\ t[i].start = n[i].start \/ Held(n, t[i].start)
           /\ t[i].end = n[i].end \/ Held(n, t[i].end)
  BY <1>2, EndsBoundSheets
<1> HIDE DEF t
<1>4. /\ Alike(sheet, t) /\ DOMAIN t = DOMAIN sheet /\ DOMAIN n = DOMAIN sheet
      /\ \A e : (Held(t, e) <=> Held(sheet, e)) /\ (Held(n, e) <=> Held(sheet, e))
      /\ \A i \in DOMAIN sheet : /\ t[i].id = sheet[i].id
                                /\ (IsConnector(t[i]) <=> IsConnector(sheet[i]))
                                /\ (IsConnector(n[i]) <=> IsConnector(sheet[i]))
  <2>1. Alike(sheet, t)
    BY <1>2, <1>3, AlikeTwice
  <2> QED BY <1>2, <2>1, AlikeFacts
<1>5. \A k \in DOMAIN sheet : ~IsConnector(sheet[k]) => Box(t[k]) = Box(sheet[k])
  BY <1>2, <1>3, <1>4
<1>6. ASSUME NEW i \in DOMAIN t, IsConnector(t[i])
      PROVE  /\ IsBound(t[i].start) => Held(t, t[i].start)
             /\ IsBound(t[i].end) => Held(t, t[i].end)
             /\ t[i].id \notin loose' => Rests(t, t[i])
  <2>1. i \in DOMAIN sheet /\ IsConnector(sheet[i]) /\ n[i] = sheet[i] /\ t[i].id = sheet[i].id
    BY <1>2, <1>4, <1>6
  <2>2. /\ IsBound(sheet[i].start) => Held(sheet, sheet[i].start)
        /\ IsBound(sheet[i].end) => Held(sheet, sheet[i].end)
        /\ sheet[i].id \notin loose => Rests(sheet, sheet[i])
    BY <2>1, SheetRests
  <2>3. /\ t[i].start = sheet[i].start \/ Held(sheet, t[i].start)
        /\ t[i].end = sheet[i].end \/ Held(sheet, t[i].end)
    BY <1>3, <1>4, <2>1
  <2>4. ASSUME t[i].id \notin loose' PROVE Rests(t, t[i])
    <3>1. t[i] = sheet[i] /\ sheet[i].id \notin loose
      BY <1>1, <2>1, <2>4
    <3> QED BY <1>3, <1>4, <1>5, <2>2, <3>1, SheetTyped, RestsSame
  <2> QED BY <1>4, <2>2, <2>3, <2>4
<1> QED BY <1>1, <1>3, <1>4, <1>6, PageWrites

-----------------------------------------------------------------------------
(* Tidy.                                                                   *)

\* Where a layout puts a node.
Spots == [x : Int, y : Int, rank : Nat]

\* The connected nodes of a scope are in it, and nodes.
LEMMA ConnectedFacts ==
  ASSUME NEW m \in Nat, NEW s, Laid(m, s), NEW scope
  PROVE  /\ Connected(s, scope) \in SUBSET AllIds(s) /\ Connected(s, scope) \subseteq scope
         /\ \A i \in DOMAIN s : s[i].id \in Connected(s, scope) => ~IsConnector(s[i]) /\ IsNode(s[i])
<1>1. Connected(s, scope) \subseteq NodesIn(s, scope)
  BY DEF Connected, IsLink
<1>2. NodesIn(s, scope) \subseteq scope /\ NodesIn(s, scope) \in SUBSET AllIds(s)
  BY DEF NodesIn, AllIds
<1>3. ASSUME NEW i \in DOMAIN s, s[i].id \in NodesIn(s, scope)
      PROVE  ~IsConnector(s[i]) /\ IsNode(s[i])
  <2>1. PICK k \in DOMAIN s : s[i].id = s[k].id /\ IsNode(s[k])
    BY <1>3 DEF NodesIn
  <2>2. i = k
    BY <2>1 DEF Laid
  <2> QED BY <2>1, <2>2 DEF IsNode, IsConnector, Boxlike, Connector
<1> QED BY <1>1, <1>2, <1>3

\* The steps to the places of a layout are whole numbers.
LEMMA TidyStepFacts ==
  ASSUME NEW m \in Nat, NEW s, Laid(m, s), NEW ids \in SUBSET AllIds(s), ids # {},
         NEW place \in [ids -> Spots]
  PROVE  /\ DOMAIN TidySteps(s, place) = ids
         /\ \A id \in ids : TidySteps(s, place)[id] \in Int \X Int
<1> DEFINE old == [id \in ids |-> Box(ShapeOf(s, id))]
           f1 == [id \in ids |-> old[id].x1]
           f2 == [id \in ids |-> place[id].x]
           f3 == [id \in ids |-> old[id].y1]
           f4 == [id \in ids |-> place[id].y]
           cornerX == MinOf({old[id].x1 : id \in ids}) - MinOf({place[id].x : id \in ids})
           cornerY == MinOf({old[id].y1 : id \in ids}) - MinOf({place[id].y : id \in ids})
<1>0. ids = DOMAIN place
  OBVIOUS
<1>1. TidySteps(s, place) =
        [id \in ids |-> <<place[id].x + cornerX - old[id].x1, place[id].y + cornerY - old[id].y1>>]
  BY <1>0 DEF TidySteps
<1>2. IsFiniteSet(ids)
  BY ChosenPlaces
<1>3. \A id \in ids : old[id] \in Rectangles /\ place[id] \in Spots
  BY ShapeWithId
<1> HIDE DEF old
<1>4. \A id \in ids : /\ f1[id] \in Int /\ f2[id] \in Int /\ f3[id] \in Int /\ f4[id] \in Int
                      /\ f1[id] = old[id].x1 /\ f2[id] = place[id].x
                      /\ f3[id] = old[id].y1 /\ f4[id] = place[id].y
  BY <1>3 DEF Rectangles, Spots
<1>5. /\ {old[id].x1 : id \in ids} = {f1[id] : id \in ids} /\ {place[id].x : id \in ids} = {f2[id] : id \in ids}
      /\ {old[id].y1 : id \in ids} = {f3[id] : id \in ids} /\ {place[id].y : id \in ids} = {f4[id] : id \in ids}
  OBVIOUS
<1> HIDE DEF f1, f2, f3, f4
<1>6. MinOf({f1[id] : id \in ids}) \in Int
  BY <1>2, <1>4, LeastOf
<1>7. MinOf({f2[id] : id \in ids}) \in Int
  BY <1>2, <1>4, LeastOf
<1>8. MinOf({f3[id] : id \in ids}) \in Int
  BY <1>2, <1>4, LeastOf
<1>9. MinOf({f4[id] : id \in ids}) \in Int
  BY <1>2, <1>4, LeastOf
<1>10. cornerX \in Int /\ cornerY \in Int
  <2> DEFINE m1 == MinOf({f1[id] : id \in ids})
             m2 == MinOf({f2[id] : id \in ids})
             m3 == MinOf({f3[id] : id \in ids})
             m4 == MinOf({f4[id] : id \in ids})
  <2>1. cornerX = m1 - m2 /\ cornerY = m3 - m4
    BY <1>5
  <2>2. m1 \in Int /\ m2 \in Int /\ m3 \in Int /\ m4 \in Int
    BY <1>6, <1>7, <1>8, <1>9
  <2> HIDE DEF m1, m2, m3, m4, cornerX, cornerY
  <2> QED BY <2>1, <2>2
<1> HIDE DEF cornerX, cornerY
<1>11. \A id \in ids : <<place[id].x + cornerX - old[id].x1, place[id].y + cornerY - old[id].y1>> \in Int \X Int
  <2> SUFFICES ASSUME NEW id \in ids
               PROVE  <<place[id].x + cornerX - old[id].x1, place[id].y + cornerY - old[id].y1>> \in Int \X Int
    OBVIOUS
  <2>1. place[id].x \in Int /\ place[id].y \in Int /\ old[id].x1 \in Int /\ old[id].y1 \in Int
    BY <1>4
  <2> QED BY <1>10, <2>1
<1> QED BY <1>1, <1>11

\* The ends of a connector of the layout are on the middles of the sides.
LEMMA HalfWayFacts ==
  ASSUME NEW id \in ShapeIds, NEW a \in (0..2) \X (0..2)
  PROVE  HalfWay(id, a) \in Ends /\ HalfWay(id, a).to = id
<1>1. <<a[1], 2>> \in Parts /\ <<a[2], 2>> \in Parts
  BY DEF Parts
<1> QED BY <1>1 DEF HalfWay, Bound, Ends

\* Anchors are halves of sides.
LEMMA ConnectorAnchorFacts ==
  ASSUME NEW direction \in {"TD", "LR"}, NEW forward \in BOOLEAN, NEW sameRank \in BOOLEAN
  PROVE  /\ ConnectorAnchors(direction, forward, sameRank).start \in (0..2) \X (0..2)
         /\ ConnectorAnchors(direction, forward, sameRank).end \in (0..2) \X (0..2)
<1>1. CASE sameRank
  BY <1>1 DEF ConnectorAnchors
<1>2. CASE ~sameRank /\ forward
  BY <1>2 DEF ConnectorAnchors
<1>3. CASE ~sameRank /\ ~forward
  BY <1>3 DEF ConnectorAnchors
<1> QED BY <1>1, <1>2, <1>3

\* What a connector of the scope becomes: d, with the ends start and end.
Rejoins(n, scope, c, d) ==
  /\ d.start \in Ends /\ d.end \in Ends /\ d.start.to = c.start.to /\ d.end.to = c.end.to
  /\ c.start.to \in scope => /\ d.x1 = EndPoint(n, d.start, <<c.x1, c.y1>>)[1]
                             /\ d.y1 = EndPoint(n, d.start, <<c.x1, c.y1>>)[2]
  /\ c.end.to \in scope => /\ d.x2 = EndPoint(n, d.end, <<c.x2, c.y2>>)[1]
                           /\ d.y2 = EndPoint(n, d.end, <<c.x2, c.y2>>)[2]
  /\ c.start.to \notin scope => d.x1 = c.x1 /\ d.y1 = c.y1
  /\ c.end.to \notin scope => d.x2 = c.x2 /\ d.y2 = c.y2

\* A connector of the scope that keeps its ends.
LEMMA WithinFacts ==
  ASSUME NEW n, Laid(Px, n), NoId \notin ShapeIds, NEW scope, NEW c \in ConnectorShapes,
         NEW start \in Ends, NEW end \in Ends, start.to = c.start.to, end.to = c.end.to
  PROVE  LET d == OnEndsWithin(n, scope, c, start, end)
         IN  /\ d \in ConnectorShapes /\ Kept(c, d) /\ d.start = start /\ d.end = end
             /\ Rejoins(n, scope, c, d)
<1> DEFINE p == IF start.to \in scope THEN EndPoint(n, start, <<c.x1, c.y1>>) ELSE <<c.x1, c.y1>>
           q == IF end.to \in scope THEN EndPoint(n, end, <<c.x2, c.y2>>) ELSE <<c.x2, c.y2>>
           d == OnEndsWithin(n, scope, c, start, end)
<1>1. <<c.x1, c.y1>> \in Int \X Int /\ <<c.x2, c.y2>> \in Int \X Int
  BY DEF ConnectorShapes
<1>2. EndPoint(n, start, <<c.x1, c.y1>>) \in Int \X Int /\ EndPoint(n, end, <<c.x2, c.y2>>) \in Int \X Int
  BY <1>1, PxFacts, EndFacts
<1>3. p \in Int \X Int /\ q \in Int \X Int
  BY <1>1, <1>2
<1>4. d = Rejoined(c, p, q, start, end)
  BY DEF OnEndsWithin
<1>5. /\ c.start.to \in scope => p = EndPoint(n, start, <<c.x1, c.y1>>)
      /\ c.end.to \in scope => q = EndPoint(n, end, <<c.x2, c.y2>>)
      /\ c.start.to \notin scope => p[1] = c.x1 /\ p[2] = c.y1
      /\ c.end.to \notin scope => q[1] = c.x2 /\ q[2] = c.y2
  OBVIOUS
<1> HIDE DEF p, q, d
<1>6. /\ d \in ConnectorShapes /\ Kept(c, d)
      /\ d.x1 = p[1] /\ d.y1 = p[2] /\ d.x2 = q[1] /\ d.y2 = q[2]
      /\ d.start = start /\ d.end = end
  BY <1>3, <1>4, RejoinedFacts
<1>7. Rejoins(n, scope, c, d)
  BY <1>5, <1>6 DEF Rejoins
<1> QED BY <1>6, <1>7 DEF d

\* A connector of the layout, which gets new ends on the same nodes.
LEMMA ReanchoredFacts ==
  ASSUME NEW n, Laid(Px, n), NoId \notin ShapeIds, NEW scope, NEW c \in ConnectorShapes,
         NEW ids \in SUBSET ShapeIds, NEW place \in [ids -> Spots], NEW direction \in {"TD", "LR"},
         c.start.to \in ids, c.end.to \in ids
  PROVE  LET d == Reanchored(n, scope, c, place, direction)
         IN  d \in ConnectorShapes /\ Kept(c, d) /\ Rejoins(n, scope, c, d)
<1> DEFINE from == place[c.start.to].rank
           to == place[c.end.to].rank
           anchors == ConnectorAnchors(direction, to > from, to = from)
           a == anchors.start
           b == anchors.end
           start == HalfWay(c.start.to, a)
           end == HalfWay(c.end.to, b)
<1>1. (to > from) \in BOOLEAN /\ (to = from) \in BOOLEAN
  OBVIOUS
<1> HIDE DEF from, to
<1>2. a \in (0..2) \X (0..2) /\ b \in (0..2) \X (0..2)
  BY <1>1, ConnectorAnchorFacts
<1>3. Reanchored(n, scope, c, place, direction) = OnEndsWithin(n, scope, c, start, end)
  BY DEF Reanchored, from, to
<1> HIDE DEF a, b
<1>4. start \in Ends /\ end \in Ends /\ start.to = c.start.to /\ end.to = c.end.to
  BY <1>2, HalfWayFacts
<1> HIDE DEF start, end
<1> QED BY <1>3, <1>4, WithinFacts

\* n is the sheet s with the connectors of the scope rejoined.
Reroutes(s, n, scope, ids) ==
  /\ \A i \in DOMAIN s : ~IsConnector(s[i]) \/ s[i].id \notin scope => n[i] = s[i]
  /\ \A i \in DOMAIN s : IsConnector(s[i]) /\ s[i].id \in scope =>
       /\ Rejoins(s, scope, s[i], n[i])
       /\ ~({s[i].start.to, s[i].end.to} \subseteq ids) =>
            n[i].start = s[i].start /\ n[i].end = s[i].end

\* The connectors of the scope are rejoined, nothing else is touched.
LEMMA ReroutedSheets ==
  ASSUME NEW s, Laid(Px, s), NoId \notin ShapeIds, NEW scope,
         NEW ids \in SUBSET ShapeIds, NEW place \in [ids -> Spots], NEW direction \in {"TD", "LR"}
  PROVE  LET n == Rerouted(s, scope, place, direction)
         IN  Laid(Px, n) /\ Alike(s, n) /\ Reroutes(s, n, scope, ids)
<1> DEFINE stays(c) == ~IsConnector(c) \/ c.id \notin scope
           anew(c) == IF {c.start.to, c.end.to} \subseteq ids
                      THEN Reanchored(s, scope, c, place, direction)
                      ELSE OnEndsWithin(s, scope, c, c.start, c.end)
           u == [i \in DOMAIN s |-> IF stays(s[i]) THEN s[i] ELSE anew(s[i])]
<1>0. Px \in Nat /\ DOMAIN place = ids
  BY PxFacts
<1>1. Rerouted(s, scope, place, direction) = u \o <<>>
  BY <1>0 DEF Rerouted, Each
<1>2. ASSUME NEW i \in DOMAIN s
      PROVE  /\ u[i] \in ShapesOver(Px) /\ Kept(s[i], u[i])
             /\ ~stays(s[i]) => Rejoins(s, scope, s[i], u[i])
             /\ ~stays(s[i]) /\ ~({s[i].start.to, s[i].end.to} \subseteq ids) =>
                  u[i].start = s[i].start /\ u[i].end = s[i].end
  <2>1. s[i] \in ShapesOver(Px)
    BY <1>0, SheetFacts
  <2>2. CASE stays(s[i])
    <3>1. u[i] = s[i]
      BY <2>2
    <3> QED BY <2>1, <2>2, <3>1, KeptItself
  <2>3. CASE ~stays(s[i])
    <3> DEFINE c == s[i]
               d == u[i]
    <3>1. c \in ConnectorShapes /\ c.start \in Ends /\ c.end \in Ends
      BY <1>0, <2>3, ConnectorFacts
    <3>2. d = anew(c)
      BY <2>3
    <3> HIDE DEF c, d
    <3>3. CASE {c.start.to, c.end.to} \subseteq ids
      <4>1. d = Reanchored(s, scope, c, place, direction)
        BY <3>2, <3>3
      <4>2. d \in ConnectorShapes /\ Kept(c, d) /\ Rejoins(s, scope, c, d)
        BY <3>1, <3>3, <4>1, ReanchoredFacts
      <4>3. d \in ShapesOver(Px)
        BY <4>2 DEF ShapesOver
      <4> QED BY <3>3, <4>2, <4>3 DEF c, d
    <3>4. CASE ~({c.start.to, c.end.to} \subseteq ids)
      <4> DEFINE a == c.start
                 b == c.end
      <4>1. d = OnEndsWithin(s, scope, c, a, b) /\ a \in Ends /\ b \in Ends /\ a.to = c.start.to /\ b.to = c.end.to
        BY <3>1, <3>2, <3>4
      <4> HIDE DEF a, b
      <4>2. d \in ConnectorShapes /\ Kept(c, d) /\ Rejoins(s, scope, c, d) /\ d.start = a /\ d.end = b
        BY <3>1, <4>1, WithinFacts
      <4>3. d \in ShapesOver(Px)
        BY <4>2 DEF ShapesOver
      <4> QED BY <4>2, <4>3 DEF a, b, c, d
    <3> QED BY <3>3, <3>4
  <2> QED BY <2>2, <2>3
<1>3. \A i \in DOMAIN s : stays(s[i]) => u[i] = s[i]
  OBVIOUS
<1>4. u = [i \in DOMAIN s |-> u[i]]
  OBVIOUS
<1> HIDE DEF u
<1>5. u \o <<>> = u /\ Laid(Px, u) /\ Alike(s, u)
  BY <1>0, <1>2, <1>4, Remade
<1>6. Reroutes(s, u, scope, ids)
  BY <1>2, <1>3 DEF Reroutes
<1> QED BY <1>1, <1>5, <1>6

\* Only loose texts follow the connectors.
LEMMA FollowingSheets ==
  ASSUME NEW old, Laid(Px, old), NEW new, Laid(Px, new), Alike(old, new), NEW scope
  PROVE  LET n == Following(old, new, scope)
         IN  /\ Laid(Px, n) /\ Alike(new, n)
             /\ \A i \in DOMAIN new : new[i].type # "text" \/ new[i].parent # NoId => n[i] = new[i]
<1> DEFINE Rides(t, c) ==
             /\ Abs(Middle(c)[1] - Half(Box(t).x1 + Box(t).x2)) <= 30 * Px
             /\ Abs(Middle(c)[2] - Half(Box(t).y1 + Box(t).y2)) <= 30 * Px
           Under(t) == {i \in DOMAIN old : old[i].id \in scope /\ IsConnector(old[i]) /\ Rides(t, old[i])}
           stays(t) == t.type # "text" \/ t.id \notin scope \/ t.parent # NoId \/ Under(t) = {}
           k(t) == MinOf(Under(t))
           dx(t) == Middle(new[k(t)])[1] - Middle(old[k(t)])[1]
           dy(t) == Middle(new[k(t)])[2] - Middle(old[k(t)])[2]
           u == [i \in DOMAIN new |-> IF stays(new[i]) THEN new[i]
                                      ELSE Translated(new[i], dx(new[i]), dy(new[i]))]
<1>0. Px \in Nat /\ DOMAIN new = DOMAIN old /\ DOMAIN old = 1..Len(old) /\ Len(old) \in Nat
  BY PxFacts, SheetFacts DEF Alike
<1>1. Following(old, new, scope) = u \o <<>>
  BY DEF Following, Each
<1>2. ASSUME NEW t, Under(t) # {} PROVE dx(t) \in Int /\ dy(t) \in Int
  <2> DEFINE j == k(t)
             c == old[j]
             d == new[j]
  <2>1. Under(t) \in SUBSET (1..Len(old))
    BY <1>0
  <2> HIDE DEF Rides
  <2>2. j \in Under(t)
    <3> HIDE DEF Under
    <3> QED BY <1>0, <1>2, <2>1, PlacesFinite
  <2>3. j \in DOMAIN old /\ IsConnector(c)
    BY <2>2
  <2> HIDE DEF j
  <2>4. j \in DOMAIN new /\ IsConnector(d)
    BY <1>0, <2>3, AlikeFacts
  <2>5. c.x1 \in Int /\ c.y1 \in Int /\ c.x2 \in Int /\ c.y2 \in Int
    BY <1>0, <2>3, ConnectorFacts
  <2>6. d.x1 \in Int /\ d.y1 \in Int /\ d.x2 \in Int /\ d.y2 \in Int
    BY <1>0, <2>4, ConnectorFacts
  <2> HIDE DEF c, d
  <2>7. c.x1 + c.x2 \in Int /\ c.y1 + c.y2 \in Int /\ d.x1 + d.x2 \in Int /\ d.y1 + d.y2 \in Int
    BY <2>5, <2>6
  <2>8. /\ Half(c.x1 + c.x2) \in Int /\ Half(c.y1 + c.y2) \in Int
        /\ Half(d.x1 + d.x2) \in Int /\ Half(d.y1 + d.y2) \in Int
    BY <2>7, SimpleFacts
  <2>9. /\ Middle(c)[1] = Half(c.x1 + c.x2) /\ Middle(c)[2] = Half(c.y1 + c.y2)
        /\ Middle(d)[1] = Half(d.x1 + d.x2) /\ Middle(d)[2] = Half(d.y1 + d.y2)
    BY DEF Middle
  <2>10. Middle(d)[1] - Middle(c)[1] \in Int /\ Middle(d)[2] - Middle(c)[2] \in Int
    BY <2>8, <2>9
  <2> QED BY <2>10 DEF c, d, j
<1> HIDE DEF dx, dy, Under
<1>3. ASSUME NEW i \in DOMAIN new PROVE u[i] \in ShapesOver(Px) /\ Kept(new[i], u[i])
  <2>1. new[i] \in ShapesOver(Px)
    BY <1>0, SheetFacts
  <2>2. CASE stays(new[i])
    <3>1. u[i] = new[i]
      BY <2>2
    <3> QED BY <2>1, <3>1, KeptItself
  <2>3. CASE ~stays(new[i])
    <3> DEFINE a == dx(new[i])
               b == dy(new[i])
    <3>1. u[i] = Translated(new[i], a, b) /\ a \in Int /\ b \in Int
      BY <1>2, <2>3
    <3> HIDE DEF a, b, u
    <3> QED BY <1>0, <2>1, <3>1, TranslatedFacts
  <2> QED BY <2>2, <2>3
<1>4. \A i \in DOMAIN new : new[i].type # "text" \/ new[i].parent # NoId => u[i] = new[i]
  OBVIOUS
<1>5. u = [i \in DOMAIN new |-> u[i]]
  OBVIOUS
<1> HIDE DEF u
<1>6. u \o <<>> = u /\ Laid(Px, u) /\ Alike(new, u)
  BY <1>0, <1>3, <1>5, Remade
<1> QED BY <1>1, <1>4, <1>6

\* Tidy, with the connected nodes anywhere: a connector that lies wholly in the
\* scope is set between its ends; one that does not and has an end in it is loose.
LEMMA TidyKeeps ==
  ASSUME EditInv, NEW direction \in {"TD", "LR"}, NEW place \in Layouts, TidyTo(direction, place)
  PROVE  EditInv'
<1> DEFINE scope == Scope(sheet, chosen)
           ids == Connected(sheet, scope)
           moves == TidySteps(sheet, place)
           m == MovedBy(sheet, moves)
           r == Rerouted(m, scope, place, direction)
           t == Following(sheet, r, scope)
<1>1. /\ sheet' = Canonical(t) /\ chosen' = chosen /\ hold' = hold
      /\ loose' = ((loose \cup On(sheet, scope)) \ Enclosed(sheet, scope)) \cup On(sheet, TextIds(sheet))
      /\ ids # {}
  BY DEF TidyTo, Tidied, CanTidy
<1>2. place \in [ids -> Spots]
  BY DEF Layouts, Spots
<1> HIDE DEF scope
<1>3. /\ ids \in SUBSET AllIds(sheet) /\ ids \subseteq scope
      /\ \A i \in DOMAIN sheet : sheet[i].id \in ids => ~IsConnector(sheet[i])
  BY SheetTyped, ConnectedFacts
<1> HIDE DEF ids
<1>4. DOMAIN moves = ids /\ \A id \in ids : moves[id] \in Int \X Int
  BY <1>1, <1>2, <1>3, SheetTyped, TidyStepFacts
<1> HIDE DEF moves
<1>5. /\ Laid(Px, m) /\ Alike(sheet, m)
      /\ \A i \in DOMAIN sheet : sheet[i].type # "text" /\ sheet[i].id \notin ids => m[i] = sheet[i]
      /\ \A i \in DOMAIN sheet : IsConnector(sheet[i]) => m[i] = sheet[i]
  BY <1>3, <1>4, SheetTyped, MovedBySheets
<1> HIDE DEF m
<1>6. ids \in SUBSET ShapeIds
  BY <1>3, SheetTyped
<1>7. /\ Laid(Px, r) /\ Alike(m, r)
      /\ \A i \in DOMAIN m : ~IsConnector(m[i]) \/ m[i].id \notin scope => r[i] = m[i]
      /\ \A i \in DOMAIN m : IsConnector(m[i]) /\ m[i].id \in scope =>
           /\ Rejoins(m, scope, m[i], r[i])
           /\ ~({m[i].start.to, m[i].end.to} \subseteq ids) =>
                r[i].start = m[i].start /\ r[i].end = m[i].end
  <2>1. Laid(Px, m) /\ NoId \notin ShapeIds
    BY <1>5, InputsTyped
  <2>2. Laid(Px, r) /\ Alike(m, r) /\ Reroutes(m, r, scope, ids)
    BY <1>2, <1>6, <2>1, ReroutedSheets
  <2> HIDE DEF r
  <2> QED BY <2>2 DEF Reroutes
<1> HIDE DEF r
<1>8. Alike(sheet, r)
  BY <1>5, <1>7, AlikeTwice
<1>9. /\ Laid(Px, t) /\ Alike(r, t)
      /\ \A i \in DOMAIN r : r[i].type # "text" => t[i] = r[i]
  BY <1>7, <1>8, SheetTyped, FollowingSheets
<1> HIDE DEF t
<1>10. Alike(sheet, t) /\ Alike(m, t)
  BY <1>7, <1>8, <1>9, AlikeTwice
<1>11. /\ DOMAIN t = DOMAIN sheet /\ DOMAIN m = DOMAIN sheet /\ DOMAIN r = DOMAIN sheet
       /\ \A e : (Held(t, e) <=> Held(sheet, e)) /\ (Held(m, e) <=> Held(sheet, e))
       /\ \A i \in DOMAIN sheet :
            /\ t[i].id = sheet[i].id /\ m[i].id = sheet[i].id /\ r[i].id = sheet[i].id
            /\ m[i].type = sheet[i].type /\ r[i].type = sheet[i].type
            /\ (IsConnector(t[i]) <=> IsConnector(sheet[i]))
            /\ (IsConnector(m[i]) <=> IsConnector(sheet[i]))
            /\ (IsConnector(r[i]) <=> IsConnector(sheet[i]))
  BY <1>5, <1>8, <1>10, AlikeFacts
<1>12. ASSUME NEW k \in DOMAIN sheet, ~IsConnector(sheet[k]), sheet[k].id \notin TextIds(sheet)
       PROVE  /\ Box(t[k]) = Box(m[k])
              /\ sheet[k].id \notin scope => Box(t[k]) = Box(sheet[k])
  <2>1. sheet[k].type # "text"
    BY <1>12 DEF TextIds
  <2>2. t[k] = m[k]
    BY <1>7, <1>9, <1>11, <1>12, <2>1
  <2>3. sheet[k].id \notin scope => m[k] = sheet[k]
    BY <1>3, <1>5, <2>1
  <2> QED BY <2>2, <2>3
<1>13. ASSUME NEW i \in DOMAIN t, IsConnector(t[i])
       PROVE  /\ IsBound(t[i].start) => Held(t, t[i].start)
              /\ IsBound(t[i].end) => Held(t, t[i].end)
              /\ t[i].id \notin loose' => Rests(t, t[i])
  <2> DEFINE c == sheet[i]
             d == t[i]
  <2>1. /\ i \in DOMAIN sheet /\ IsConnector(c) /\ m[i] = c /\ d.id = c.id
        /\ c.type # "text" /\ t[i] = r[i]
    <3>1. i \in DOMAIN sheet /\ IsConnector(c)
      BY <1>11, <1>13
    <3>2. c.type # "text"
      BY <3>1, KindsApart
    <3> QED BY <1>5, <1>9, <1>11, <3>1, <3>2
  <2>2. /\ IsBound(c.start) => Held(sheet, c.start)
        /\ IsBound(c.end) => Held(sheet, c.end)
        /\ c.id \notin loose => Rests(sheet, c)
    BY <2>1, SheetRests
  <2>3. c \in ConnectorShapes /\ c.start \in Ends /\ c.end \in Ends
    BY <2>1, SheetTyped, ConnectorFacts
  <2>4. c.id \notin loose' => {c.start.to, c.end.to} \cap TextIds(sheet) = {}
    BY <1>1, <2>1 DEF On
  <2>5. c.id \in Enclosed(sheet, scope) =>
          c.id \in scope /\ {c.start.to, c.end.to} \subseteq scope \cup {NoId}
    <3> SUFFICES ASSUME c.id \in Enclosed(sheet, scope)
                 PROVE  c.id \in scope /\ {c.start.to, c.end.to} \subseteq scope \cup {NoId}
      OBVIOUS
    <3>1. PICK k \in DOMAIN sheet : /\ sheet[k].id = c.id /\ sheet[k].id \in scope
                                   /\ {sheet[k].start.to, sheet[k].end.to} \subseteq scope \cup {NoId}
      BY DEF Enclosed
    <3>2. k = i
      BY <2>1, <3>1, SheetTyped DEF Laid
    <3> QED BY <3>1, <3>2
  <2>6. c.id \notin loose' /\ c.id \notin Enclosed(sheet, scope) =>
          /\ c.id \notin loose /\ c.start.to \notin scope /\ c.end.to \notin scope
    BY <1>1, <2>1 DEF On
  <2>7. c.id \notin scope => d = c
    BY <1>7, <1>11, <2>1
  <2>8. c.id \in scope => /\ Rejoins(m, scope, c, d)
                          /\ ~({c.start.to, c.end.to} \subseteq ids) => d.start = c.start /\ d.end = c.end
    BY <1>7, <1>11, <2>1
  <2> HIDE DEF c, d
  <2>9. d.start.to = c.start.to /\ d.end.to = c.end.to
    BY <2>7, <2>8 DEF Rejoins
  <2>10. (IsBound(d.start) => Held(t, d.start)) /\ (IsBound(d.end) => Held(t, d.end))
    <3>1. /\ IsBound(d.start) <=> IsBound(c.start)
          /\ IsBound(d.end) <=> IsBound(c.end)
      BY <2>9 DEF IsBound
    <3>2. /\ Held(sheet, d.start) <=> Held(sheet, c.start)
          /\ Held(sheet, d.end) <=> Held(sheet, c.end)
      BY <2>9 DEF Held
    <3> QED BY <1>11, <2>2, <3>1, <3>2
  <2>11. ASSUME c.id \notin loose', c.id \notin Enclosed(sheet, scope) PROVE Rests(t, d)
    <3>1. Rests(sheet, c) /\ c.start.to \notin scope /\ c.end.to \notin scope
      BY <2>2, <2>6, <2>11
    <3>2. d.start = c.start /\ d.end = c.end /\ d.x1 = c.x1 /\ d.y1 = c.y1 /\ d.x2 = c.x2 /\ d.y2 = c.y2
      <4>1. CASE c.id \notin scope
        BY <2>7, <4>1
      <4>2. CASE c.id \in scope
        <5>1. ~({c.start.to, c.end.to} \subseteq ids)
          BY <1>3, <3>1
        <5> QED BY <2>8, <3>1, <4>2, <5>1 DEF Rejoins
      <4> QED BY <4>1, <4>2
    <3>3. ASSUME NEW k \in DOMAIN sheet, sheet[k].id \in {c.start.to, c.end.to}, ~IsConnector(sheet[k])
          PROVE  Box(t[k]) = Box(sheet[k])
      BY <1>12, <2>4, <2>11, <3>1, <3>3
    <3> QED BY <1>9, <1>10, <3>1, <3>2, <3>3, SheetTyped, RestsSame
  <2>12. ASSUME c.id \notin loose', c.id \in Enclosed(sheet, scope) PROVE Rests(t, d)
    <3> DEFINE a == d.start
               b == d.end
    <3>1. Rejoins(m, scope, c, d) /\ c.start.to \in scope \cup {NoId} /\ c.end.to \in scope \cup {NoId}
      BY <2>5, <2>8, <2>12
    <3>2. a \in Ends /\ b \in Ends
      BY <3>1 DEF Rejoins
    <3>3. (IsBound(a) => Held(m, a)) /\ (IsBound(b) => Held(m, b))
      BY <1>11, <2>10
    <3>4. /\ IsBound(a) => /\ d.x1 = EndPoint(m, a, <<c.x1, c.y1>>)[1]
                           /\ d.y1 = EndPoint(m, a, <<c.x1, c.y1>>)[2]
          /\ IsBound(b) => /\ d.x2 = EndPoint(m, b, <<c.x2, c.y2>>)[1]
                           /\ d.y2 = EndPoint(m, b, <<c.x2, c.y2>>)[2]
      BY <2>9, <3>1 DEF Rejoins, IsBound
    <3>5. ASSUME NEW k \in DOMAIN m, m[k].id \in {c.start.to, c.end.to}, ~IsConnector(m[k])
          PROVE  Box(t[k]) = Box(m[k])
      BY <1>11, <1>12, <2>4, <2>12, <3>5
    <3>6. a.to = c.start.to /\ b.to = c.end.to
      BY <2>9
    <3> HIDE DEF a, b
    <3>7. EndHolds(t, a, d.x1, d.y1, 0)
      <4>1. CASE ~IsBound(a)
        BY <4>1 DEF EndHolds
      <4>2. CASE IsBound(a)
        BY <1>5, <1>9, <1>10, <3>2, <3>3, <3>4, <3>5, <3>6, <4>2, InputsTyped, EndReset
      <4> QED BY <4>1, <4>2
    <3>8. EndHolds(t, b, d.x2, d.y2, 0)
      <4>1. CASE ~IsBound(b)
        BY <4>1 DEF EndHolds
      <4>2. CASE IsBound(b)
        BY <1>5, <1>9, <1>10, <3>2, <3>3, <3>4, <3>5, <3>6, <4>2, InputsTyped, EndReset
      <4> QED BY <4>1, <4>2
    <3> QED BY <3>7, <3>8 DEF Rests, a, b
  <2> QED BY <2>1, <2>10, <2>11, <2>12 DEF d
<1> QED BY <1>1, <1>9, <1>10, <1>13, PageWrites

\* The commands of the page.
LEMMA CommandKeeps ==
  ASSUME EditInv, ArrangeCommand \/ AnyTidy
  PROVE  EditInv'
<1>1. CASE \E mode \in {"left", "right", "hcenter", "top", "bottom", "vcenter"} : Align(mode)
  BY <1>1, AlignKeeps
<1>2. CASE \E axis \in {"horizontal", "vertical"} : Distribute(axis)
  BY <1>2, DistributeKeeps
<1>3. CASE BindLabels
  BY <1>3, BindLabelsKeeps
<1>4. CASE AnyTidy
  <2>1. PICK direction \in {"TD", "LR"}, place \in Layouts : TidyTo(direction, place)
    BY <1>4 DEF AnyTidy
  <2> QED BY <2>1, TidyKeeps
<1> QED BY <1>1, <1>2, <1>3, <1>4 DEF ArrangeCommand

\* The invariant holds.
LEMMA EditInvariant == EditsSpec => []EditInv
<1>1. SheetInit => EditInv
  BY EditInit
<1>2. EditInv /\ [Gesture \/ ArrangeCommand \/ AnyTidy]_sheetVars => EditInv'
  <2> SUFFICES ASSUME EditInv, [Gesture \/ ArrangeCommand \/ AnyTidy]_sheetVars PROVE EditInv'
    OBVIOUS
  <2>1. CASE Gesture
    BY <2>1, GestureKeeps
  <2>2. CASE ArrangeCommand \/ AnyTidy
    BY <2>2, CommandKeeps
  <2>3. CASE UNCHANGED sheetVars
    BY <2>3 DEF EditInv, HoldTyped, EndsHeld, Attached, sheetVars
  <2> QED BY <2>1, <2>2, <2>3
<1> QED BY <1>1, <1>2, PTL DEF EditsSpec

\* Connectors stay attached through every gesture of the select tool and every
\* arrange command, for any sheets, points and size of a pixel, and with the
\* nodes of a diagram laid out anywhere: a bound end is within a pixel of its
\* place on a shape that is there, unless a page command set the shapes past
\* the store (store.ts:161, tidy.ts:201).
THEOREM EditsKeepAttached == EditsSpec => []Attached
<1>1. EditInv => Attached
  BY DEF EditInv
<1> QED BY <1>1, EditInvariant, PTL

-----------------------------------------------------------------------------
(* Labels.                                                                 *)

\* A box a step further.
Beside(b, dx, dy) == [x1 |-> b.x1 + dx, y1 |-> b.y1 + dy, x2 |-> b.x2 + dx, y2 |-> b.y2 + dy]

\* A product by a factor gives the other one back.
LEMMA DivBack ==
  ASSUME NEW n \in Int, NEW d \in Int, d > 0
  PROVE  (n * d) \div d = n
<1> DEFINE q == (n * d) \div d
<1>1. n * d \in Int /\ n * d = d * n
  OBVIOUS
<1>2. q \in Int /\ d * q <= d * n /\ d * n < d * q + d
  BY <1>1, DivFacts
<1> HIDE DEF q
<1>3. q <= n
  <2> SUFFICES ASSUME q >= n + 1 PROVE FALSE
    BY <1>2
  <2>1. d * q >= d * (n + 1) /\ d * (n + 1) = d * n + d
    BY <1>2
  <2>2. d * q \in Int /\ d * n \in Int
    BY <1>2, IntProducts
  <2> QED BY <1>2, <2>1, <2>2
<1>4. n <= q
  <2> SUFFICES ASSUME n >= q + 1 PROVE FALSE
    BY <1>2
  <2>1. d * n >= d * (q + 1) /\ d * (q + 1) = d * q + d
    BY <1>2
  <2>2. d * q \in Int /\ d * n \in Int
    BY <1>2, IntProducts
  <2> QED BY <1>2, <2>1, <2>2
<1> QED BY <1>2, <1>3, <1>4 DEF q

\* The least and the greatest of some numbers that all grow by d.
LEMMA BoundsGrow ==
  ASSUME NEW S \in SUBSET Int, S # {}, IsFiniteSet(S), NEW d \in Int
  PROVE  MinOf({x + d : x \in S}) = MinOf(S) + d /\ MaxOf({x + d : x \in S}) = MaxOf(S) + d
<1> DEFINE f == [x \in S |-> x + d]
           T == {x + d : x \in S}
<1>1. T = {f[x] : x \in S}
  OBVIOUS
<1>2. IsFiniteSet({f[x] : x \in S})
  BY FiniteValues
<1> HIDE DEF f
<1>3. T \in SUBSET Int /\ T # {} /\ IsFiniteSet(T)
  <2>1. \A x \in S : x + d \in Int
    OBVIOUS
  <2>2. T \in SUBSET Int
    BY <2>1
  <2>3. PICK x \in S : TRUE
    OBVIOUS
  <2>4. x + d \in T
    BY <2>3
  <2> HIDE DEF T
  <2> QED BY <1>1, <1>2, <2>2, <2>4
<1> DEFINE low == MinOf(S)
           high == MaxOf(S)
<1>4. /\ low \in S /\ \A y \in S : low <= y
      /\ high \in S /\ \A y \in S : y <= high
  <2> HIDE DEF T
  <2> QED BY MinOfFacts, MaxOfFacts
<1> HIDE DEF low, high
<1>5. low + d \in T /\ high + d \in T
  BY <1>4
<1>6. \A y \in T : low + d <= y /\ y <= high + d
  <2> SUFFICES ASSUME NEW x \in S PROVE low + d <= x + d /\ x + d <= high + d
    OBVIOUS
  <2>1. low \in Int /\ high \in Int /\ x \in Int /\ low <= x /\ x <= high
    BY <1>4
  <2> HIDE DEF T
  <2> QED BY <2>1
<1> HIDE DEF T
<1>7. /\ MinOf(T) \in T /\ \A y \in T : MinOf(T) <= y
      /\ MaxOf(T) \in T /\ \A y \in T : y <= MaxOf(T)
  BY <1>3, MinOfFacts, MaxOfFacts
<1>8. /\ MinOf(T) <= low + d /\ low + d <= MinOf(T)
      /\ MaxOf(T) <= high + d /\ high + d <= MaxOf(T)
  BY <1>5, <1>6, <1>7
<1>9. low + d \in Int /\ high + d \in Int /\ MinOf(T) \in Int /\ MaxOf(T) \in Int
  BY <1>3, <1>5, <1>7
<1>10. MinOf(T) = low + d /\ MaxOf(T) = high + d
  BY <1>8, <1>9
<1> QED BY <1>10 DEF T, low, high

\* The points of a stroke that all go a step further.
PointsBeside(q, dx, dy) == [i \in DOMAIN q |-> <<q[i][1] + dx, q[i][2] + dy>>]

LEMMA ExtentGrows ==
  ASSUME NEW q, NEW n \in Nat \ {0}, DOMAIN q = 1..n, \A i \in 1..n : q[i] \in Int \X Int,
         NEW dx \in Int, NEW dy \in Int
  PROVE  LET p == PointsBeside(q, dx, dy)
         IN  /\ MinOf(Xs(p)) = MinOf(Xs(q)) + dx /\ MaxOf(Xs(p)) = MaxOf(Xs(q)) + dx
             /\ MinOf(Ys(p)) = MinOf(Ys(q)) + dy /\ MaxOf(Ys(p)) = MaxOf(Ys(q)) + dy
<1> DEFINE p == PointsBeside(q, dx, dy)
<1>0. DOMAIN p = 1..n /\ \A i \in 1..n : p[i][1] = q[i][1] + dx /\ p[i][2] = q[i][2] + dy
  BY DEF PointsBeside
<1> HIDE DEF p
<1>1. Xs(p) = {x + dx : x \in Xs(q)}
  <2>1. Xs(p) = {q[i][1] + dx : i \in 1..n}
    BY <1>0 DEF Xs
  <2>2. Xs(q) = {q[i][1] : i \in 1..n}
    BY DEF Xs
  <2> QED BY <2>1, <2>2
<1>2. Ys(p) = {y + dy : y \in Ys(q)}
  <2>1. Ys(p) = {q[i][2] + dy : i \in 1..n}
    BY <1>0 DEF Ys
  <2>2. Ys(q) = {q[i][2] : i \in 1..n}
    BY DEF Ys
  <2> QED BY <2>1, <2>2
<1>3. /\ Xs(q) \in SUBSET Int /\ Xs(q) # {} /\ IsFiniteSet(Xs(q))
      /\ Ys(q) \in SUBSET Int /\ Ys(q) # {} /\ IsFiniteSet(Ys(q))
  BY ExtentFacts
<1>4. MinOf(Xs(p)) = MinOf(Xs(q)) + dx /\ MaxOf(Xs(p)) = MaxOf(Xs(q)) + dx
  BY <1>1, <1>3, BoundsGrow
<1>5. MinOf(Ys(p)) = MinOf(Ys(q)) + dy /\ MaxOf(Ys(p)) = MaxOf(Ys(q)) + dy
  BY <1>2, <1>3, BoundsGrow
<1> QED BY <1>4, <1>5 DEF p

\* translateShape takes the box along.
LEMMA TranslatedBox ==
  ASSUME NEW n \in Nat, NEW t \in ShapesOver(n), ~IsConnector(t), NEW dx \in Int, NEW dy \in Int
  PROVE  /\ Box(Translated(t, dx, dy)) = Beside(Box(t), dx, dy)
         /\ t.type = "text" => Translated(t, dx, dy).parent = t.parent
<1> DEFINE u == Translated(t, dx, dy)
<1>1. u \in ShapesOver(n) /\ Kept(t, u)
  BY TranslatedFacts
<1>2. u.type = t.type /\ ~IsConnector(u)
  BY <1>1, KeptKinds
<1>3. CASE t \in BoxShapes(n) \cup TextShapes
  <2>1. u = [t EXCEPT !.x = @ + dx, !.y = @ + dy]
    BY <1>3, TypesOfKinds, KindsApart DEF Translated
  <2> DEFINE a == t.x + dx
             b == t.y + dy
  <2>2. u = [t EXCEPT !.x = a, !.y = b]
    BY <2>1
  <2> HIDE DEF u
  <2>3. u \in BoxShapes(n) \cup TextShapes
    BY <1>1, <1>2, <1>3, TypesOfKinds, KindsOfShapes
  <2>4. u.x = a /\ u.y = b /\ u.w = t.w /\ u.h = t.h /\ (t.type = "text" => u.parent = t.parent)
    <3> HIDE DEF a, b
    <3>1. CASE t \in BoxShapes(n)
      <4>1. t.type # "text"
        BY <3>1, TypesOfKinds, KindsApart
      <4> QED BY <2>2, <3>1, <4>1 DEF BoxShapes
    <3>2. CASE t \in TextShapes
      BY <2>2, <3>2 DEF TextShapes
    <3> QED BY <1>3, <3>1, <3>2
  <2>5. /\ Box(t) = [x1 |-> t.x, y1 |-> t.y, x2 |-> t.x + t.w, y2 |-> t.y + t.h]
        /\ t.x \in Int /\ t.y \in Int /\ t.w \in Int /\ t.h \in Int
    BY <1>3, BoxShapeFacts
  <2>6. Box(u) = [x1 |-> u.x, y1 |-> u.y, x2 |-> u.x + u.w, y2 |-> u.y + u.h]
    BY <2>3, BoxShapeFacts
  <2>7. a + t.w = t.x + t.w + dx /\ b + t.h = t.y + t.h + dy
    BY <2>5
  <2> QED BY <2>4, <2>5, <2>6, <2>7 DEF Beside, u
<1>4. CASE t \in CircleShapes(n)
  <2>1. u = [t EXCEPT !.cx = @ + dx, !.cy = @ + dy]
    BY <1>4, TypesOfKinds, KindsApart DEF Translated
  <2> DEFINE a == t.cx + dx
             b == t.cy + dy
  <2>2. u = [t EXCEPT !.cx = a, !.cy = b]
    BY <2>1
  <2> HIDE DEF u
  <2>3. u \in CircleShapes(n) /\ t.type # "text"
    BY <1>1, <1>2, <1>4, TypesOfKinds, KindsOfShapes, KindsApart
  <2>4. u.cx = a /\ u.cy = b /\ u.rx = t.rx /\ u.ry = t.ry
    <3> HIDE DEF a, b
    <3> QED BY <1>4, <2>2 DEF CircleShapes
  <2>5. /\ Box(t) = [x1 |-> t.cx - t.rx, y1 |-> t.cy - t.ry, x2 |-> t.cx + t.rx, y2 |-> t.cy + t.ry]
        /\ t.cx \in Int /\ t.cy \in Int /\ t.rx \in Int /\ t.ry \in Int
    BY <1>4, CircleFacts
  <2>6. Box(u) = [x1 |-> u.cx - u.rx, y1 |-> u.cy - u.ry, x2 |-> u.cx + u.rx, y2 |-> u.cy + u.ry]
    BY <2>3, CircleFacts
  <2>7. /\ a - t.rx = t.cx - t.rx + dx /\ b - t.ry = t.cy - t.ry + dy
        /\ a + t.rx = t.cx + t.rx + dx /\ b + t.ry = t.cy + t.ry + dy
    BY <2>5
  <2> QED BY <2>3, <2>4, <2>5, <2>6, <2>7 DEF Beside, u
<1>5. CASE t \in Strokes
  <2> DEFINE q == t.points
             p == PointsBeside(q, dx, dy)
             m == Len(q)
  <2>1. u = [t EXCEPT !.points = p] /\ t.type = "freehand" /\ t.type # "text"
    BY <1>5, TypesOfKinds, KindsApart DEF Translated, PointsBeside
  <2>2. m \in Nat \ {0} /\ DOMAIN q = 1..m /\ \A i \in 1..m : q[i] \in Int \X Int
    BY <1>5, StrokeFacts
  <2>3. /\ MinOf(Xs(p)) = MinOf(Xs(q)) + dx /\ MaxOf(Xs(p)) = MaxOf(Xs(q)) + dx
        /\ MinOf(Ys(p)) = MinOf(Ys(q)) + dy /\ MaxOf(Ys(p)) = MaxOf(Ys(q)) + dy
    <3> HIDE DEF q, m
    <3> QED BY <2>2, ExtentGrows
  <2> HIDE DEF p, q, m, u
  <2>4. u.points = p
    BY <1>5, <2>1 DEF Strokes
  <2>5. Box(t) = [x1 |-> MinOf(Xs(q)), y1 |-> MinOf(Ys(q)), x2 |-> MaxOf(Xs(q)), y2 |-> MaxOf(Ys(q))]
    BY <2>1, KindsApart DEF Box, q
  <2>6. Box(u) = [x1 |-> MinOf(Xs(p)), y1 |-> MinOf(Ys(p)), x2 |-> MaxOf(Xs(p)), y2 |-> MaxOf(Ys(p))]
    BY <1>2, <2>1, <2>4, KindsApart DEF Box
  <2> QED BY <2>1, <2>3, <2>5, <2>6 DEF Beside, u
<1>6. t \notin ConnectorShapes
  BY TypesOfKinds
<1> QED BY <1>3, <1>4, <1>5, <1>6 DEF ShapesOver

\* A drag takes the box along.
LEMMA DraggedBox ==
  ASSUME NEW n \in Nat, NEW t \in ShapesOver(n), ~IsConnector(t),
         NEW a \in Int \X Int, NEW x \in Int, NEW y \in Int
  PROVE  \E dx, dy \in Int : Box(Dragged(t, a, x, y)) = Beside(Box(t), dx, dy)
<1> DEFINE p == x - a[1]
           q == y - a[2]
           u == Dragged(t, a, x, y)
<1>0. p \in Int /\ q \in Int
  OBVIOUS
<1>1. CASE t \in BoxShapes(n) \cup TextShapes
  <2>1. u = [t EXCEPT !.x = p, !.y = q]
    BY <1>1, TypesOfKinds, KindsApart DEF Dragged
  <2>2. t.x \in Int /\ t.y \in Int
    BY <1>1, BoxShapeFacts
  <2> DEFINE dx == p - t.x
             dy == q - t.y
  <2>3. dx \in Int /\ dy \in Int /\ t.x + dx = p /\ t.y + dy = q
    BY <1>0, <2>2
  <2> HIDE DEF dx, dy
  <2>4. Translated(t, dx, dy) = [t EXCEPT !.x = t.x + dx, !.y = t.y + dy]
    BY <1>1, TypesOfKinds, KindsApart DEF Translated
  <2> HIDE DEF p, q, u
  <2>5. u = Translated(t, dx, dy)
    BY <2>1, <2>3, <2>4
  <2> QED BY <2>3, <2>5, TranslatedBox DEF u
<1>2. CASE t \in CircleShapes(n)
  <2>1. u = [t EXCEPT !.cx = p, !.cy = q]
    BY <1>2, TypesOfKinds, KindsApart DEF Dragged
  <2>2. t.cx \in Int /\ t.cy \in Int
    BY <1>2, CircleFacts
  <2> DEFINE dx == p - t.cx
             dy == q - t.cy
  <2>3. dx \in Int /\ dy \in Int /\ t.cx + dx = p /\ t.cy + dy = q
    BY <1>0, <2>2
  <2> HIDE DEF dx, dy
  <2>4. Translated(t, dx, dy) = [t EXCEPT !.cx = t.cx + dx, !.cy = t.cy + dy]
    BY <1>2, TypesOfKinds, KindsApart DEF Translated
  <2> HIDE DEF p, q, u
  <2>5. u = Translated(t, dx, dy)
    BY <2>1, <2>3, <2>4
  <2> QED BY <2>3, <2>5, TranslatedBox DEF u
<1>3. CASE t \in Strokes
  <2>1. u = Translated(t, p, q)
    BY <1>3, TypesOfKinds, KindsApart DEF Dragged
  <2> HIDE DEF p, q, u
  <2> QED BY <1>0, <2>1, TranslatedBox DEF u
<1>4. t \notin ConnectorShapes
  BY TypesOfKinds
<1> QED BY <1>1, <1>2, <1>3, <1>4 DEF ShapesOver

\* Between boxes of one length a label goes with its box, on one axis.
LEMMA CarriedWith ==
  ASSUME NEW at \in Int, NEW length \in Nat, length >= 8 * Px, NEW o1 \in Int, NEW o2 \in Int,
         o1 <= at, at + length <= o2, NEW d \in Int
  PROVE  /\ CarriedTo(at, o1, o2, o1 + d, o2 + d) = at + d
         /\ CarriedLength(length, at, o1, o2, o1 + d, o2 + d) = length
<1> DEFINE l == Larger(Px, o2 - o1)
           m == Larger(Px, (o2 + d) - (o1 + d))
<1>1. o2 - o1 \in Int /\ (o2 + d) - (o1 + d) = o2 - o1
  OBVIOUS
<1>2. l \in Int /\ l > 0 /\ l >= o2 - o1 /\ m = l
  BY <1>1, LargerPx
<1> HIDE DEF l, m
<1>3. ASSUME NEW n \in Int, 0 <= n, n <= l PROVE Scaled(n, l, l) = n
  <2>1. Clamp(n, 0, l) = n
    BY <1>2, <1>3 DEF Clamp, Larger, Smaller
  <2> QED BY <1>2, <1>3, <2>1, DivBack DEF Scaled
<1>4. Scaled(at - o1, l, l) = at - o1 /\ Scaled(length, l, l) = length
  <2>1. at - o1 \in Int /\ 0 <= at - o1 /\ at - o1 <= l
    BY <1>2
  <2>2. length \in Int /\ 0 <= length /\ length <= l
    BY <1>2
  <2> QED BY <1>3, <2>1, <2>2
<1>5. CarriedTo(at, o1, o2, o1 + d, o2 + d) = at + d
  <2>1. CarriedTo(at, o1, o2, o1 + d, o2 + d) = (o1 + d) + Scaled(at - o1, l, m)
    BY DEF CarriedTo, l, m
  <2> QED BY <1>2, <1>4, <2>1
<1>6. CarriedLength(length, at, o1, o2, o1 + d, o2 + d) = length
  <2> DEFINE room == Larger(8 * Px, (o2 + d) - (at + d))
  <2>1. CarriedLength(length, at, o1, o2, o1 + d, o2 + d)
          = Larger(8 * Px, Smaller(Scaled(length, l, m), room))
    BY <1>5 DEF CarriedLength, l, m
  <2>2. room \in Int /\ room >= length
    BY PxFacts DEF Larger
  <2> HIDE DEF room
  <2>3. Smaller(length, room) = length /\ Larger(8 * Px, length) = length
    BY <2>2, PxFacts DEF Larger, Smaller
  <2> QED BY <1>2, <1>4, <2>1, <2>3
<1> QED BY <1>5, <1>6

\* A label in a box that is moved goes with it.
LEMMA CarriedBox ==
  ASSUME NEW t \in TextShapes, NEW old \in Rectangles, Inside(Box(t), old),
         NEW dx \in Int, NEW dy \in Int
  PROVE  Box(CarriedAlong(t, old, Beside(old, dx, dy))) = Beside(Box(t), dx, dy)
<1> DEFINE new == Beside(old, dx, dy)
<1>0. 0 \in Nat
  OBVIOUS
<1>1. /\ old.x1 \in Int /\ old.x2 \in Int /\ old.y1 \in Int /\ old.y2 \in Int
      /\ new.x1 = old.x1 + dx /\ new.x2 = old.x2 + dx /\ new.y1 = old.y1 + dy /\ new.y2 = old.y2 + dy
  BY DEF Rectangles, Beside
<1>2. new \in Rectangles
  BY <1>1 DEF Rectangles, Beside
<1>3. /\ t.x \in Int /\ t.y \in Int /\ t.w \in Nat /\ t.h \in Nat /\ t.w >= 8 * Px /\ t.h >= 8 * Px
      /\ Box(t) = [x1 |-> t.x, y1 |-> t.y, x2 |-> t.x + t.w, y2 |-> t.y + t.h]
  BY <1>0, BoxShapeFacts
<1>4. old.x1 <= t.x /\ t.x + t.w <= old.x2 /\ old.y1 <= t.y /\ t.y + t.h <= old.y2
  BY <1>3 DEF Inside
<1> HIDE DEF new
<1> DEFINE x == CarriedTo(t.x, old.x1, old.x2, new.x1, new.x2)
           y == CarriedTo(t.y, old.y1, old.y2, new.y1, new.y2)
           w == CarriedLength(t.w, t.x, old.x1, old.x2, new.x1, new.x2)
           h == CarriedLength(t.h, t.y, old.y1, old.y2, new.y1, new.y2)
           u == CarriedAlong(t, old, new)
<1>5. u = [t EXCEPT !.x = x, !.y = y, !.w = w, !.h = h]
  BY DEF CarriedAlong
<1>6. x = t.x + dx /\ w = t.w
  BY <1>1, <1>3, <1>4, CarriedWith
<1>7. y = t.y + dy /\ h = t.h
  BY <1>1, <1>3, <1>4, CarriedWith
<1>8. u \in TextShapes
  BY <1>2, CarriedFacts
<1> HIDE DEF x, y, w, h, u
<1>9. u.x = x /\ u.y = y /\ u.w = w /\ u.h = h
  BY <1>5 DEF TextShapes
<1>10. Box(u) = [x1 |-> u.x, y1 |-> u.y, x2 |-> u.x + u.w, y2 |-> u.y + u.h]
  BY <1>0, <1>8, BoxShapeFacts
<1>11. (t.x + dx) + t.w = t.x + t.w + dx /\ (t.y + dy) + t.h = t.y + t.h + dy
  BY <1>3
<1> QED BY <1>3, <1>6, <1>7, <1>9, <1>10, <1>11 DEF Beside, u, new

\* A label, at place i of the sheet s, of the shape at place k, which it lies in
\* and does not leave on its own among ids.
LabelOf(s, ids, i, k) ==
  /\ i \in DOMAIN s /\ s[i].type = "text"
  /\ k \in DOMAIN s /\ s[k].id = s[i].parent /\ ~IsConnector(s[k]) /\ s[k].type # "text"
  /\ Inside(Box(s[i]), Box(s[k]))
  /\ ~(s[i].id \in ids /\ s[k].id \notin ids)

\* The shape and its label went the same step from the sheet s to the sheet z.
WentTogether(s, z, i, k) ==
  \E dx, dy \in Int : Box(z[i]) = Beside(Box(s[i]), dx, dy) /\ Box(z[k]) = Beside(Box(s[k]), dx, dy)

\* The label keeps its place and its size.
KeepsPlace(t, u, b, c) ==
  u.x - c.x1 = t.x - b.x1 /\ u.y - c.y1 = t.y - b.y1 /\ u.w = t.w /\ u.h = t.h

LabelsKept(s, n, ids) ==
  /\ Alike(s, n)
  /\ \A i, k : LabelOf(s, ids, i, k) => KeepsPlace(s[i], n[i], Box(s[k]), Box(n[k]))

\* What stays where it is goes no step.
LEMMA BesideItself ==
  ASSUME NEW b \in Rectangles
  PROVE  Beside(b, 0, 0) = b
<1>1. /\ b.x1 \in Int /\ b.x2 \in Int /\ b.y1 \in Int /\ b.y2 \in Int
      /\ b = [x1 |-> b.x1, y1 |-> b.y1, x2 |-> b.x2, y2 |-> b.y2]
  BY DEF Rectangles
<1>2. b.x1 + 0 = b.x1 /\ b.x2 + 0 = b.x2 /\ b.y1 + 0 = b.y1 /\ b.y2 + 0 = b.y2
  BY <1>1
<1> QED BY <1>1, <1>2 DEF Beside

\* Labels that go with their shapes keep their places through normalizeShapes.
LEMMA TogetherKept ==
  ASSUME NEW s, Laid(Px, s), NEW z, Laid(0, z), Alike(s, z), NEW ids,
         \A i, k : LabelOf(s, ids, i, k) => z[k] \in ShapesOver(Px) /\ WentTogether(s, z, i, k)
  PROVE  LabelsKept(s, Canonical(z), ids)
<1> DEFINE n == Canonical(z)
<1>a. Alike(s, n)
  <2>1. Alike(z, n)
    BY CanonicalSheets
  <2> QED BY <2>1, AlikeTwice
<1> SUFFICES ASSUME NEW i, NEW k, LabelOf(s, ids, i, k)
             PROVE  KeepsPlace(s[i], n[i], Box(s[k]), Box(n[k]))
  BY <1>a DEF LabelsKept
<1>0. 0 \in Nat /\ Px \in Nat
  BY PxFacts
<1>1. /\ i \in DOMAIN s /\ s[i].type = "text" /\ k \in DOMAIN s /\ ~IsConnector(s[k])
      /\ z[k] \in ShapesOver(Px)
  BY DEF LabelOf
<1>2. PICK dx \in Int, dy \in Int :
        Box(z[i]) = Beside(Box(s[i]), dx, dy) /\ Box(z[k]) = Beside(Box(s[k]), dx, dy)
  BY DEF WentTogether
<1>3. /\ i \in DOMAIN z /\ k \in DOMAIN z /\ z[i].type = "text" /\ ~IsConnector(z[k])
  BY <1>1, AlikeFacts
<1>4. /\ \A j \in DOMAIN z : n[j] = CanonicalShape(z[j], AllIds(z))
      /\ AllIds(z) \subseteq ShapeIds
  BY <1>0, CanonicalSheets, SheetFacts
<1>5. s[i] \in TextShapes /\ z[i] \in TextShapes /\ z[k] \in ShapesOver(0) /\ s[k] \in ShapesOver(Px)
  BY <1>0, <1>1, <1>3, SheetFacts, KindsOfShapes
<1>6. n[i] \in TextShapes /\ Box(n[i]) = Box(z[i])
  BY <1>3, <1>4, <1>5, CanonicalTexts
<1>7. Box(n[k]) = Box(z[k])
  BY <1>1, <1>3, <1>4, <1>5, CanonicalFacts
<1> DEFINE t == s[i]
           u == n[i]
           b == Box(s[k])
<1>8. /\ t.x \in Int /\ t.y \in Int /\ t.w \in Int /\ t.h \in Int
      /\ Box(t) = [x1 |-> t.x, y1 |-> t.y, x2 |-> t.x + t.w, y2 |-> t.y + t.h]
  BY <1>0, <1>5, BoxShapeFacts
<1>9. /\ u.x \in Int /\ u.y \in Int /\ u.w \in Int /\ u.h \in Int
      /\ Box(u) = [x1 |-> u.x, y1 |-> u.y, x2 |-> u.x + u.w, y2 |-> u.y + u.h]
  BY <1>0, <1>6, BoxShapeFacts
<1>10. b.x1 \in Int /\ b.y1 \in Int
  BY <1>0, <1>5, BoxFacts DEF Rectangles
<1>11. Box(u) = Beside(Box(t), dx, dy) /\ Box(n[k]) = Beside(b, dx, dy)
  BY <1>2, <1>6, <1>7
<1> HIDE DEF t, u, b
<1>12. u.x = t.x + dx /\ u.y = t.y + dy /\ u.x + u.w = t.x + t.w + dx /\ u.y + u.h = t.y + t.h + dy
  BY <1>8, <1>9, <1>11 DEF Beside
<1>13. Box(n[k]).x1 = b.x1 + dx /\ Box(n[k]).y1 = b.y1 + dy
  BY <1>11 DEF Beside
<1>14. u.x - (b.x1 + dx) = t.x - b.x1 /\ u.y - (b.y1 + dy) = t.y - b.y1 /\ u.w = t.w /\ u.h = t.h
  BY <1>8, <1>9, <1>10, <1>12
<1> QED BY <1>13, <1>14 DEF KeepsPlace, t, u, b

\* What the rest of a proof needs to know of a label and its shape.
LEMMA LabelFacts ==
  ASSUME NEW s, Laid(Px, s), NEW ids, NEW i, NEW k, LabelOf(s, ids, i, k), NoId \notin ShapeIds
  PROVE  /\ i \in DOMAIN s /\ k \in DOMAIN s /\ i # k
         /\ s[i].type = "text" /\ ~IsConnector(s[i]) /\ s[i] \in TextShapes /\ s[i] \in ShapesOver(Px)
         /\ s[k].type # "text" /\ ~IsConnector(s[k]) /\ s[k] \in ShapesOver(Px)
         /\ s[i].parent = s[k].id /\ s[i].parent \in AllIds(s) /\ s[i].parent # NoId
         /\ s[i].id \in ids => s[k].id \in ids
         /\ s[k].id # s[i].id
         /\ Box(s[i]) \in Rectangles /\ Box(s[k]) \in Rectangles /\ Inside(Box(s[i]), Box(s[k]))
         /\ ShapeOf(s, s[i].parent) = s[k]
         /\ Px \in Nat
<1>0. Px \in Nat
  BY PxFacts
<1>1. /\ i \in DOMAIN s /\ k \in DOMAIN s /\ s[i].type = "text"
      /\ s[k].type # "text" /\ ~IsConnector(s[k]) /\ s[i].parent = s[k].id
      /\ Inside(Box(s[i]), Box(s[k])) /\ (s[i].id \in ids => s[k].id \in ids)
  BY DEF LabelOf
<1>2. /\ s[i] \in ShapesOver(Px) /\ s[k] \in ShapesOver(Px) /\ s[k].id \in ShapeIds
      /\ s[k].id \in AllIds(s)
  BY <1>0, <1>1, SheetFacts DEF AllIds
<1>3. s[i] \in TextShapes /\ ~IsConnector(s[i])
  BY <1>0, <1>1, <1>2, KindsOfShapes, KindsApart
<1>4. Box(s[i]) \in Rectangles /\ Box(s[k]) \in Rectangles
  BY <1>0, <1>2, BoxFacts
<1>5. ShapeOf(s, s[k].id) = s[k]
  BY <1>0, <1>1, TheShape
<1>6. s[k].id # s[i].id
  BY <1>1 DEF Laid
<1> QED BY <1>0, <1>1, <1>2, <1>3, <1>4, <1>5, <1>6

\* What stays went together.
LEMMA StayedTogether ==
  ASSUME NEW s, Laid(Px, s), NEW ids, NEW i, NEW k, LabelOf(s, ids, i, k), NoId \notin ShapeIds,
         NEW z, z[i] = s[i], z[k] = s[k]
  PROVE  z[k] \in ShapesOver(Px) /\ WentTogether(s, z, i, k)
<1>1. /\ s[k] \in ShapesOver(Px) /\ Box(s[i]) \in Rectangles /\ Box(s[k]) \in Rectangles
  BY LabelFacts
<1>2. 0 \in Int /\ Box(z[i]) = Beside(Box(s[i]), 0, 0) /\ Box(z[k]) = Beside(Box(s[k]), 0, 0)
  BY <1>1, BesideItself
<1> QED BY <1>1, <1>2 DEF WentTogether

\* What was moved by one step went together.
LEMMA TranslatedTogether ==
  ASSUME NEW s, Laid(Px, s), NEW ids, NEW i, NEW k, LabelOf(s, ids, i, k), NoId \notin ShapeIds,
         NEW dx \in Int, NEW dy \in Int,
         NEW z, z[i] = Translated(s[i], dx, dy), z[k] = Translated(s[k], dx, dy)
  PROVE  z[k] \in ShapesOver(Px) /\ WentTogether(s, z, i, k)
<1>1. /\ s[k] \in ShapesOver(Px) /\ ~IsConnector(s[k])
      /\ s[i] \in ShapesOver(Px) /\ ~IsConnector(s[i]) /\ Px \in Nat
  BY LabelFacts
<1>2. Box(z[i]) = Beside(Box(s[i]), dx, dy) /\ Box(z[k]) = Beside(Box(s[k]), dx, dy)
  BY <1>1, TranslatedBox
<1>3. z[k] \in ShapesOver(Px)
  BY <1>1, TranslatedFacts
<1> QED BY <1>2, <1>3 DEF WentTogether

\* What was carried went together with what carried it.
LEMMA CarriedTogether ==
  ASSUME NEW s, Laid(Px, s), NEW ids, NEW i, NEW k, LabelOf(s, ids, i, k), NoId \notin ShapeIds,
         NEW dx \in Int, NEW dy \in Int, NEW z, Box(z[k]) = Beside(Box(s[k]), dx, dy),
         z[i] = CarriedAlong(s[i], Box(s[k]), Box(z[k]))
  PROVE  WentTogether(s, z, i, k)
<1>1. s[i] \in TextShapes /\ Box(s[k]) \in Rectangles /\ Inside(Box(s[i]), Box(s[k]))
  BY LabelFacts
<1>2. Box(z[i]) = Beside(Box(s[i]), dx, dy)
  BY <1>1, CarriedBox
<1> QED BY <1>2 DEF WentTogether

\* MOVE_SHAPE, with a shape that was moved: its labels go with it.
LEMMA MovedOneLabels ==
  ASSUME NEW s, Laid(Px, s), NoId \notin ShapeIds, NEW j \in DOMAIN s,
         NEW u \in ShapesOver(Px), Kept(s[j], u), NEW keepEnds \in BOOLEAN,
         ~IsConnector(s[j]) => \E dx, dy \in Int : Box(u) = Beside(Box(s[j]), dx, dy)
  PROVE  LabelsKept(s, Canonical(MovedOne(s, u, keepEnds)), {s[j].id})
<1> DEFINE r == Replaced(s, u)
           y == SyncChildren(s, r, {u.id}, {})
           z == IF keepEnds THEN y ELSE Rebound(y, {u.id})
           w == Reprojected(z)
           id == s[j].id
<1>0. 0 \in Nat /\ Px \in Nat /\ Laid(0, s) /\ u \in ShapesOver(0) /\ u.id = id /\ u.type = s[j].type
  BY PxFacts, WiderSheets, LongerShapes DEF Kept
<1>1. MovedOne(s, u, keepEnds) = w
  BY DEF MovedOne
<1>2. /\ Laid(0, r) /\ AllIds(r) = AllIds(s) /\ DOMAIN r = DOMAIN s
      /\ \A i \in DOMAIN s : r[i] = IF s[i].id = id THEN u ELSE s[i]
  BY <1>0, ReplacedSheets
<1>3. \A i \in DOMAIN s : s[i].id = id => i = j
  BY DEF Laid
<1> HIDE DEF r, id
<1>4. Alike(s, r)
  BY <1>2, <1>3, KeptItself DEF Alike
<1>5. /\ Laid(0, y) /\ AllIds(y) = AllIds(r) /\ Alike(r, y)
      /\ \A i \in DOMAIN r :
           y[i] = IF r[i].type = "text" /\ r[i].id \notin {} /\ r[i].parent \in {id} \cap AllIds(r)
                  THEN CarriedAlong(r[i], Box(ShapeOf(s, r[i].parent)), Box(ShapeOf(r, r[i].parent)))
                  ELSE r[i]
  BY <1>0, <1>2, SyncedSheets
<1> HIDE DEF y
<1>6. /\ Laid(0, z) /\ Alike(y, z) /\ \A i \in DOMAIN y : ~IsConnector(y[i]) => z[i] = y[i]
  <2>1. /\ Laid(0, Rebound(y, {u.id})) /\ Alike(y, Rebound(y, {u.id}))
        /\ \A i \in DOMAIN y : ~IsConnector(y[i]) => Rebound(y, {u.id})[i] = y[i]
    BY <1>5, ReboundSheets
  <2>2. Alike(y, y)
    BY KeptItself DEF Alike
  <2> QED BY <1>5, <2>1, <2>2
<1> HIDE DEF z
<1>7. /\ Laid(0, w) /\ Alike(z, w) /\ \A i \in DOMAIN z : ~IsConnector(z[i]) => w[i] = z[i]
  BY <1>6, ReprojectedSheets
<1> HIDE DEF w
<1>8. Alike(s, y) /\ Alike(s, z) /\ Alike(s, w)
  BY <1>4, <1>5, <1>6, <1>7, AlikeTwice
<1>9. \A i \in DOMAIN s : ~IsConnector(s[i]) => w[i] = y[i]
  BY <1>6, <1>7, <1>8, AlikeFacts
<1>10. ASSUME NEW i, NEW k, LabelOf(s, {id}, i, k)
       PROVE  w[k] \in ShapesOver(Px) /\ WentTogether(s, w, i, k)
  <2>1. /\ i \in DOMAIN s /\ k \in DOMAIN s /\ i # k
        /\ s[i].type = "text" /\ ~IsConnector(s[i])
        /\ s[k].type # "text" /\ ~IsConnector(s[k])
        /\ s[i].parent = s[k].id /\ s[i].parent \in AllIds(s)
        /\ s[i].id \in {id} => s[k].id \in {id}
        /\ s[k].id # s[i].id
        /\ ShapeOf(s, s[i].parent) = s[k]
    BY <1>10, LabelFacts
  <2>2. s[i].id # id
    BY <2>1
  <2>3. r[i] = s[i]
    BY <1>2, <2>1, <2>2
  <2>4. r[k].type # "text" /\ w[k] = r[k]
    <3>1. r[k].type = s[k].type
      BY <1>4, <2>1, AlikeFacts
    <3> QED BY <1>2, <1>5, <1>9, <2>1, <3>1
  <2>5. w[i] = y[i]
    BY <1>9, <2>1
  <2>6. CASE s[k].id = id
    <3>1. k = j /\ r[k] = u
      BY <1>2, <1>3, <2>1, <2>6
    <3>2. ShapeOf(r, s[i].parent) = u
      <4>1. k \in DOMAIN r /\ r[k].id = s[i].parent
        BY <1>0, <1>2, <2>1, <2>6, <3>1
      <4> QED BY <1>0, <1>2, <3>1, <4>1, TheShape
    <3>3. w[i] = CarriedAlong(s[i], Box(s[k]), Box(u))
      BY <1>2, <1>5, <2>1, <2>3, <2>5, <2>6, <3>2
    <3>4. PICK dx \in Int, dy \in Int : Box(u) = Beside(Box(s[k]), dx, dy)
      BY <2>1, <3>1
    <3>5. w[k] = u
      BY <2>4, <3>1
    <3> QED BY <1>10, <3>3, <3>4, <3>5, CarriedTogether
  <2>7. CASE s[k].id # id
    <3>1. w[k] = s[k]
      BY <1>2, <2>1, <2>4, <2>7
    <3>2. w[i] = s[i]
      BY <1>2, <1>5, <2>1, <2>3, <2>5, <2>7
    <3> QED BY <1>10, <3>1, <3>2, StayedTogether
  <2> QED BY <2>6, <2>7
<1>11. LabelsKept(s, Canonical(w), {id})
  BY <1>7, <1>8, <1>10, TogetherKept
<1> QED BY <1>1, <1>11 DEF id

\* MOVE_SHAPES: the labels of the shapes go with them, chosen or not.
LEMMA MovedManyLabels ==
  ASSUME NEW s, Laid(Px, s), NoId \notin ShapeIds, NEW ids, NEW dx \in Int, NEW dy \in Int
  PROVE  LabelsKept(s, Canonical(MovedMany(s, ids, dx, dy)), ids)
<1> DEFINE r == Shifted(s, ids, dx, dy)
           y == SyncChildren(s, r, ids, ids)
           z == Rebound(y, ids)
           w == Reprojected(z)
<1>0. 0 \in Nat /\ Px \in Nat /\ Laid(0, s)
  BY PxFacts, WiderSheets
<1>1. MovedMany(s, ids, dx, dy) = w
  BY DEF MovedMany
<1>2. /\ Laid(0, r) /\ AllIds(r) = AllIds(s) /\ Alike(s, r)
      /\ \A i \in DOMAIN s : r[i] = IF s[i].id \in ids THEN Translated(s[i], dx, dy) ELSE s[i]
  BY <1>0, ShiftedSheets
<1> HIDE DEF r
<1>3. /\ Laid(0, y) /\ AllIds(y) = AllIds(r) /\ Alike(r, y)
      /\ \A i \in DOMAIN r :
           y[i] = IF r[i].type = "text" /\ r[i].id \notin ids /\ r[i].parent \in ids \cap AllIds(r)
                  THEN CarriedAlong(r[i], Box(ShapeOf(s, r[i].parent)), Box(ShapeOf(r, r[i].parent)))
                  ELSE r[i]
  BY <1>0, <1>2, SyncedSheets
<1> HIDE DEF y
<1>4. Laid(0, z) /\ Alike(y, z) /\ \A i \in DOMAIN y : ~IsConnector(y[i]) => z[i] = y[i]
  BY <1>3, ReboundSheets
<1> HIDE DEF z
<1>5. /\ Laid(0, w) /\ Alike(z, w) /\ \A i \in DOMAIN z : ~IsConnector(z[i]) => w[i] = z[i]
  BY <1>4, ReprojectedSheets
<1> HIDE DEF w
<1>6. Alike(s, y) /\ Alike(s, z) /\ Alike(s, w)
  BY <1>2, <1>3, <1>4, <1>5, AlikeTwice
<1>7. \A i \in DOMAIN s : ~IsConnector(s[i]) => w[i] = y[i]
  BY <1>4, <1>5, <1>6, AlikeFacts
<1>8. \A i \in DOMAIN s : i \in DOMAIN r /\ r[i].type = s[i].type /\ r[i].id = s[i].id
  BY <1>2, AlikeFacts
<1>9. ASSUME NEW i, NEW k, LabelOf(s, ids, i, k)
      PROVE  w[k] \in ShapesOver(Px) /\ WentTogether(s, w, i, k)
  <2>1. /\ i \in DOMAIN s /\ k \in DOMAIN s
        /\ s[i].type = "text" /\ ~IsConnector(s[i])
        /\ s[k].type # "text" /\ ~IsConnector(s[k]) /\ s[k] \in ShapesOver(Px)
        /\ s[i].parent = s[k].id /\ s[i].parent \in AllIds(s)
        /\ s[i].id \in ids => s[k].id \in ids
        /\ ShapeOf(s, s[i].parent) = s[k]
    BY <1>9, LabelFacts
  <2>2. w[k] = r[k] /\ w[i] = y[i]
    BY <1>3, <1>7, <1>8, <2>1
  <2>3. CASE s[i].id \in ids
    <3>1. w[k] = Translated(s[k], dx, dy)
      BY <1>2, <2>1, <2>2, <2>3
    <3>2. w[i] = Translated(s[i], dx, dy)
      BY <1>2, <1>3, <1>8, <2>1, <2>2, <2>3
    <3> QED BY <1>9, <3>1, <3>2, TranslatedTogether
  <2>4. CASE s[i].id \notin ids /\ s[k].id \in ids
    <3>1. w[k] = Translated(s[k], dx, dy) /\ r[k] = w[k]
      BY <1>2, <2>1, <2>2, <2>4
    <3>2. r[i] = s[i]
      BY <1>2, <2>1, <2>4
    <3>3. ShapeOf(r, s[i].parent) = w[k]
      <4>1. k \in DOMAIN r /\ r[k].id = s[i].parent
        BY <1>8, <2>1
      <4> QED BY <1>0, <1>2, <3>1, <4>1, TheShape
    <3>4. w[i] = CarriedAlong(s[i], Box(s[k]), Box(w[k]))
      BY <1>2, <1>3, <1>8, <2>1, <2>2, <2>4, <3>2, <3>3
    <3>5. Box(w[k]) = Beside(Box(s[k]), dx, dy) /\ w[k] \in ShapesOver(Px)
      BY <1>0, <2>1, <3>1, TranslatedBox, TranslatedFacts
    <3> QED BY <1>9, <3>4, <3>5, CarriedTogether
  <2>5. CASE s[i].id \notin ids /\ s[k].id \notin ids
    <3>1. w[k] = s[k] /\ r[i] = s[i]
      BY <1>2, <2>1, <2>2, <2>5
    <3>2. w[i] = s[i]
      BY <1>3, <1>8, <2>1, <2>2, <2>5, <3>1
    <3> QED BY <1>9, <3>1, <3>2, StayedTogether
  <2> QED BY <2>3, <2>4, <2>5
<1>10. LabelsKept(s, Canonical(w), ids)
  BY <1>5, <1>6, <1>9, TogetherKept
<1> QED BY <1>1, <1>10

\* applyMoves, and tidy: a label has no step of its own, and goes with its shape.
LEMMA MovedByLabels ==
  ASSUME NEW s, Laid(Px, s), NoId \notin ShapeIds, NEW ids,
         NEW moves, \A id \in DOMAIN moves : moves[id] \in Int \X Int,
         \A i \in DOMAIN s : s[i].id \in DOMAIN moves => ~IsConnector(s[i]),
         \A i, k : LabelOf(s, ids, i, k) => s[i].id \notin DOMAIN moves,
         NEW z, Laid(Px, z), Alike(s, z),
         \A i, k : LabelOf(s, ids, i, k) => z[i] = MovedBy(s, moves)[i] /\ z[k] = MovedBy(s, moves)[k]
  PROVE  LabelsKept(s, Canonical(z), ids)
<1> DEFINE m == MovedBy(s, moves)
<1>1. \A i \in DOMAIN s :
        LET by == Mover(s[i], DOMAIN moves)
        IN  m[i] = IF by = NoId THEN s[i] ELSE Translated(s[i], moves[by][1], moves[by][2])
  BY MovedBySheets
<1> HIDE DEF m
<1>2. ASSUME NEW i, NEW k, LabelOf(s, ids, i, k)
      PROVE  z[k] \in ShapesOver(Px) /\ WentTogether(s, z, i, k)
  <2>1. /\ i \in DOMAIN s /\ k \in DOMAIN s /\ s[i].type = "text" /\ s[k].type # "text"
        /\ s[i].parent = s[k].id /\ s[i].parent # NoId
    BY <1>2, LabelFacts
  <2>2. z[i] = m[i] /\ z[k] = m[k] /\ s[i].id \notin DOMAIN moves
    BY <1>2 DEF m
  <2> DEFINE id == s[k].id
  <2>3. CASE id \in DOMAIN moves
    <3>1. Mover(s[i], DOMAIN moves) = id /\ Mover(s[k], DOMAIN moves) = id /\ id # NoId
      BY <2>1, <2>2, <2>3 DEF Mover
    <3> DEFINE dx == moves[id][1]
               dy == moves[id][2]
    <3>2. dx \in Int /\ dy \in Int
      <4>1. moves[id] \in Int \X Int
        BY <2>3
      <4> HIDE DEF id
      <4> QED BY <4>1
    <3>3. z[i] = Translated(s[i], dx, dy) /\ z[k] = Translated(s[k], dx, dy)
      <4> HIDE DEF id
      <4> QED BY <1>1, <2>1, <2>2, <3>1
    <3> HIDE DEF dx, dy, id
    <3> QED BY <1>2, <3>2, <3>3, TranslatedTogether
  <2>4. CASE id \notin DOMAIN moves
    <3>1. Mover(s[i], DOMAIN moves) = NoId /\ Mover(s[k], DOMAIN moves) = NoId
      BY <2>1, <2>2, <2>4 DEF Mover
    <3>2. z[i] = s[i] /\ z[k] = s[k]
      BY <1>1, <2>1, <2>2, <3>1
    <3> QED BY <1>2, <3>2, StayedTogether
  <2> QED BY <2>3, <2>4
<1>3. Laid(0, z)
  BY WiderSheets
<1> QED BY <1>2, <1>3, TogetherKept

\* MoveDrag.
LEMMA DragKeepsLabels ==
  ASSUME EditInv, NEW x \in Int, NEW y \in Int, MoveDrag(x, y)
  PROVE  LabelsKept(sheet, sheet', done'.ids)
<1> DEFINE now == ShapeOf(sheet, hold.id)
           u == Dragged(now, hold.anchor, x, y)
           keepEnds == IsConnector(now)
<1>1. /\ hold.what = "drag" /\ hold.id \in AllIds(sheet)
      /\ sheet' = Canonical(MovedOne(sheet, u, keepEnds)) /\ done' = [step |-> "drag", ids |-> {hold.id}]
  BY DEF MoveDrag, Went
<1>2. hold.anchor \in Int \X Int
  <2>1. HoldTyped /\ Resting.what # "drag"
    BY DEF EditInv, Resting
  <2>2. ASSUME hold \in [what : {"multi"}, anchor : Int \X Int] PROVE FALSE
    BY <1>1, <2>2
  <2>3. hold \in [what : {"drag"}, id : ShapeIds, anchor : Int \X Int]
    BY <1>1, <2>1, <2>2 DEF HoldTyped
  <2> QED BY <2>3
<1>3. PICK j \in DOMAIN sheet : sheet[j].id = hold.id
  BY <1>1 DEF AllIds
<1>4. now = sheet[j] /\ sheet[j] \in ShapesOver(Px) /\ Laid(Px, sheet) /\ Px \in Nat
  BY <1>3, SheetTyped, TheShape, SheetFacts
<1>5. keepEnds \in BOOLEAN
  BY DEF IsConnector
<1>6. u \in ShapesOver(Px) /\ Kept(sheet[j], u)
  BY <1>2, <1>4, DraggedFacts
<1>7. ~IsConnector(sheet[j]) => \E dx, dy \in Int : Box(u) = Beside(Box(sheet[j]), dx, dy)
  BY <1>2, <1>4, DraggedBox
<1> HIDE DEF u, keepEnds, now
<1>8. LabelsKept(sheet, Canonical(MovedOne(sheet, u, keepEnds)), {sheet[j].id})
  BY <1>4, <1>5, <1>6, <1>7, InputsTyped, MovedOneLabels
<1>9. done'.ids = {sheet[j].id}
  BY <1>1, <1>3
<1> QED BY <1>1, <1>8, <1>9

\* MoveMulti.
LEMMA MultiKeepsLabels ==
  ASSUME EditInv, NEW x \in Int, NEW y \in Int, MoveMulti(x, y)
  PROVE  LabelsKept(sheet, sheet', done'.ids)
<1> DEFINE dx == x - hold.anchor[1]
           dy == y - hold.anchor[2]
<1>1. /\ hold.what = "multi" /\ sheet' = Canonical(MovedMany(sheet, chosen, dx, dy))
      /\ done' = [step |-> "multi", ids |-> chosen]
  BY DEF MoveMulti, Went
<1>2. dx \in Int /\ dy \in Int
  <2>1. HoldTyped /\ Resting.what # "multi"
    BY DEF EditInv, Resting
  <2>2. ASSUME hold \in [what : {"drag"}, id : ShapeIds, anchor : Int \X Int] PROVE FALSE
    BY <1>1, <2>2
  <2>3. hold \in [what : {"multi"}, anchor : Int \X Int]
    BY <1>1, <2>1, <2>2 DEF HoldTyped
  <2>4. hold.anchor \in Int \X Int
    BY <2>3
  <2> QED BY <2>4
<1> HIDE DEF dx, dy
<1>3. LabelsKept(sheet, Canonical(MovedMany(sheet, chosen, dx, dy)), chosen)
  BY <1>2, SheetTyped, InputsTyped, MovedManyLabels
<1>4. done'.ids = chosen
  BY <1>1
<1> QED BY <1>1, <1>3, <1>4

\* Align and Distribute: a label of an item is no item itself.
LEMMA ArrangeKeepsLabels ==
  ASSUME EditInv, NEW step, NEW moves, \A id \in DOMAIN moves : moves[id] \in Int \X Int,
         DOMAIN moves = Items(sheet, chosen), step.ids = Items(sheet, chosen),
         Arrange(step, moves)
  PROVE  LabelsKept(sheet, sheet', done'.ids)
<1> DEFINE steps1 == [id \in {k \in DOMAIN moves : moves[k] # <<0, 0>>} |-> moves[id]]
           m == MovedBy(sheet, steps1)
           t == Reattached(m, DOMAIN steps1)
           items == Items(sheet, chosen)
<1>1. sheet' = Canonical(t) /\ done'.ids = items
  BY DEF Arrange, Arranged, Went
<1>2. (\A id \in DOMAIN steps1 : steps1[id] \in Int \X Int) /\ DOMAIN steps1 \subseteq items
  OBVIOUS
<1> HIDE DEF steps1
<1>3. Laid(Px, sheet) /\ Px \in Nat /\ NoId \notin ShapeIds
  BY SheetTyped, InputsTyped
<1>4. /\ \A i \in DOMAIN sheet : sheet[i].id \in items => ~IsConnector(sheet[i])
  BY <1>3, ItemFacts
<1>5. ASSUME NEW i, NEW k, LabelOf(sheet, items, i, k) PROVE sheet[i].id \notin items
  <2> SUFFICES ASSUME sheet[i].id \in items PROVE FALSE
    OBVIOUS
  <2>1. /\ i \in DOMAIN sheet /\ sheet[i].type = "text" /\ sheet[i].parent = sheet[k].id
        /\ sheet[k].id \in items
    BY <1>3, <1>5, LabelFacts
  <2>2. sheet[k].id \in chosen
    BY <2>1 DEF Items
  <2>3. PICK j \in DOMAIN sheet : /\ sheet[j].id = sheet[i].id
                                 /\ ~(sheet[j].type = "text" /\ sheet[j].parent \in chosen)
    BY DEF Items
  <2>4. j = i
    BY <1>3, <2>1, <2>3 DEF Laid
  <2> QED BY <2>1, <2>2, <2>3, <2>4
<1> HIDE DEF items
<1>6. \A i \in DOMAIN sheet : sheet[i].id \in DOMAIN steps1 => ~IsConnector(sheet[i])
  BY <1>2, <1>4
<1>7. Laid(Px, m) /\ Alike(sheet, m)
  BY <1>2, <1>3, <1>6, MovedBySheets
<1>8. /\ Laid(Px, t) /\ Alike(m, t)
      /\ \A i \in DOMAIN m : ~IsConnector(m[i]) => t[i] = m[i]
  <2> HIDE DEF m
  <2> QED BY <1>3, <1>7, ReattachedSheets
<1> HIDE DEF t
<1>9. ASSUME NEW i, NEW k, LabelOf(sheet, items, i, k) PROVE t[i] = m[i] /\ t[k] = m[k]
  <2>1. /\ i \in DOMAIN sheet /\ ~IsConnector(sheet[i])
        /\ k \in DOMAIN sheet /\ ~IsConnector(sheet[k])
    BY <1>3, <1>9, LabelFacts
  <2> HIDE DEF m
  <2> QED BY <1>7, <1>8, <2>1, AlikeFacts
<1>10. Alike(sheet, t)
  <2> HIDE DEF m
  <2> QED BY <1>7, <1>8, AlikeTwice
<1>11. \A i, k : LabelOf(sheet, items, i, k) => sheet[i].id \notin DOMAIN steps1
  BY <1>2, <1>5
<1>12. LabelsKept(sheet, Canonical(t), items)
  BY <1>2, <1>3, <1>6, <1>8, <1>9, <1>10, <1>11, MovedByLabels
<1> QED BY <1>1, <1>12

\* Align, of any selection.
LEMMA AlignKeepsLabels ==
  ASSUME EditInv, NEW mode \in {"left", "right", "hcenter", "top", "bottom", "vcenter"}, Align(mode)
  PROVE  LabelsKept(sheet, sheet', done'.ids)
<1> DEFINE items == Items(sheet, chosen)
           all == SelectionBounds(sheet, items)
           moves == [id \in items |-> AlignStep(Box(ShapeOf(sheet, id)), all, mode)]
           step == [step |-> "align", ids |-> items, mode |-> mode]
<1>1. Cardinality(items) >= 2 /\ Arrange(step, moves)
  BY DEF Align
<1>2. items \in SUBSET AllIds(sheet)
  BY SheetTyped, ItemFacts
<1>3. items # {}
  <2>1. CASE items = {}
    BY <1>1, <2>1, FS_EmptySet
  <2> QED BY <2>1
<1>4. all \in Rectangles
  <2> HIDE DEF items
  <2> QED BY <1>2, <1>3, SheetTyped, BoundsFacts
<1>5. \A id \in items : Box(ShapeOf(sheet, id)) \in Rectangles
  BY <1>2, SheetTyped, ShapeWithId
<1> HIDE DEF all
<1>6. DOMAIN moves = items /\ step.ids = items /\ \A id \in DOMAIN moves : moves[id] \in Int \X Int
  BY <1>4, <1>5, AlignStepFacts
<1> HIDE DEF moves, step
<1> QED BY <1>1, <1>6, ArrangeKeepsLabels

\* Distribute, of any selection.
LEMMA DistributeKeepsLabels ==
  ASSUME EditInv, NEW axis, Distribute(axis)
  PROVE  LabelsKept(sheet, sheet', done'.ids)
<1> DEFINE items == Items(sheet, chosen)
           across == axis = "horizontal"
           boxes == [id \in items |-> Box(ShapeOf(sheet, id))]
           low == [id \in items |-> IF across THEN boxes[id].x1 ELSE boxes[id].y1]
           high == [id \in items |-> IF across THEN boxes[id].x2 ELSE boxes[id].y2]
           by == DistributeSteps(sheet, low, high)
           moves == [id \in items |-> IF across THEN <<by[id], 0>> ELSE <<0, by[id]>>]
           step == [step |-> "distribute", ids |-> items, axis |-> axis]
<1>1. Cardinality(items) >= 3 /\ Arrange(step, moves)
  BY DEF Distribute
<1>2. items \in SUBSET AllIds(sheet)
  BY SheetTyped, ItemFacts
<1> HIDE DEF items
<1>3. \A id \in items : boxes[id] \in Rectangles
  BY <1>2, SheetTyped, ShapeWithId
<1> HIDE DEF boxes
<1>4. low \in [items -> Int] /\ high \in [items -> Int]
  BY <1>3 DEF Rectangles
<1> HIDE DEF low, high
<1>5. \A id \in items : by[id] \in Int
  BY <1>1, <1>2, <1>4, SheetTyped, DistributeFacts
<1> HIDE DEF by
<1>6. DOMAIN moves = items /\ step.ids = items /\ \A id \in DOMAIN moves : moves[id] \in Int \X Int
  BY <1>5
<1> HIDE DEF moves, step
<1> QED BY <1>1, <1>6, ArrangeKeepsLabels DEF items

\* Tidy, with the connected nodes anywhere: only nodes have a step.
LEMMA TidyKeepsLabels ==
  ASSUME EditInv, NEW direction \in {"TD", "LR"}, NEW place \in Layouts, TidyTo(direction, place)
  PROVE  LabelsKept(sheet, sheet', done'.ids)
<1> DEFINE scope == Scope(sheet, chosen)
           ids == Connected(sheet, scope)
           moves == TidySteps(sheet, place)
           m == MovedBy(sheet, moves)
           r == Rerouted(m, scope, place, direction)
           t == Following(sheet, r, scope)
<1>1. sheet' = Canonical(t) /\ done'.ids = scope /\ ids # {}
  BY DEF TidyTo, Tidied, CanTidy, Went
<1>2. place \in [ids -> Spots]
  BY DEF Layouts, Spots
<1> HIDE DEF scope
<1>3. /\ ids \in SUBSET AllIds(sheet)
      /\ \A i \in DOMAIN sheet : sheet[i].id \in ids => ~IsConnector(sheet[i]) /\ IsNode(sheet[i])
  BY SheetTyped, ConnectedFacts
<1> HIDE DEF ids
<1>4. DOMAIN moves = ids /\ \A id \in ids : moves[id] \in Int \X Int
  BY <1>1, <1>2, <1>3, SheetTyped, TidyStepFacts
<1> HIDE DEF moves
<1>5. Laid(Px, sheet) /\ Px \in Nat /\ NoId \notin ShapeIds /\ ids \in SUBSET ShapeIds
  BY <1>3, SheetTyped, InputsTyped
<1>6. /\ Laid(Px, m) /\ Alike(sheet, m)
      /\ \A i \in DOMAIN sheet :
           LET by == Mover(sheet[i], DOMAIN moves)
           IN  m[i] = IF by = NoId THEN sheet[i]
                      ELSE Translated(sheet[i], moves[by][1], moves[by][2])
  BY <1>3, <1>4, <1>5, MovedBySheets
<1>7. /\ Laid(Px, r) /\ Alike(m, r)
      /\ \A i \in DOMAIN m : ~IsConnector(m[i]) => r[i] = m[i]
  <2> HIDE DEF m
  <2>1. Laid(Px, r) /\ Alike(m, r) /\ Reroutes(m, r, scope, ids)
    BY <1>2, <1>5, <1>6, ReroutedSheets
  <2> HIDE DEF r
  <2> QED BY <2>1 DEF Reroutes
<1> HIDE DEF r
<1>8. Alike(sheet, r)
  <2> HIDE DEF m
  <2> QED BY <1>6, <1>7, AlikeTwice
<1>9. /\ Laid(Px, t) /\ Alike(r, t)
      /\ \A i \in DOMAIN r : r[i].type # "text" \/ r[i].parent # NoId => t[i] = r[i]
  BY <1>5, <1>7, <1>8, FollowingSheets
<1> HIDE DEF t
<1>10. Alike(sheet, t)
  BY <1>8, <1>9, AlikeTwice
<1>11. ASSUME NEW i, NEW k, LabelOf(sheet, scope, i, k)
       PROVE  t[i] = m[i] /\ t[k] = m[k] /\ sheet[i].id \notin DOMAIN moves
  <2>1. /\ i \in DOMAIN sheet /\ sheet[i].type = "text" /\ ~IsConnector(sheet[i])
        /\ k \in DOMAIN sheet /\ sheet[k].type # "text" /\ ~IsConnector(sheet[k])
        /\ sheet[i].parent # NoId /\ sheet[i] \in ShapesOver(Px)
    BY <1>5, <1>11, LabelFacts
  <2>2. sheet[i].id \notin DOMAIN moves
    <3>1. ~IsNode(sheet[i])
      BY <2>1 DEF IsNode, Boxlike
    <3> QED BY <1>3, <1>4, <2>1, <3>1
  <2>3. m[i].parent = sheet[i].parent
    <3> DEFINE by == Mover(sheet[i], DOMAIN moves)
    <3>1. CASE by = NoId
      BY <1>6, <2>1, <3>1
    <3>2. CASE by # NoId
      <4>1. by \in DOMAIN moves
        BY <3>2 DEF Mover
      <4> DEFINE dx == moves[by][1]
                 dy == moves[by][2]
      <4>2. m[i] = Translated(sheet[i], dx, dy)
        BY <1>6, <2>1, <3>2
      <4>3. dx \in Int /\ dy \in Int
        <5> HIDE DEF by
        <5>1. moves[by] \in Int \X Int
          BY <1>4, <4>1
        <5> QED BY <5>1
      <4> HIDE DEF dx, dy, by, m
      <4> QED BY <1>5, <2>1, <4>2, <4>3, TranslatedBox
    <3> QED BY <3>1, <3>2
  <2> HIDE DEF m
  <2>4. r[i] = m[i] /\ r[k] = m[k] /\ i \in DOMAIN r /\ k \in DOMAIN r /\ r[k].type # "text"
    BY <1>6, <1>7, <1>8, <2>1, AlikeFacts
  <2> QED BY <1>9, <2>1, <2>2, <2>3, <2>4
<1>12. LabelsKept(sheet, Canonical(t), scope)
  BY <1>3, <1>4, <1>5, <1>9, <1>10, <1>11, MovedByLabels
<1> QED BY <1>1, <1>12

\* The step of LabelsRide.
RidingStep ==
  done'.step \in {"drag", "multi", "align", "distribute", "tidy"} =>
    \A i \in DOMAIN sheet : sheet[i].type = "text" =>
      LabelRides(sheet[i], sheet'[i], sheet, sheet')

\* Labels that kept their places did ride.
LEMMA KeptRide ==
  ASSUME EditInv, EditInv', LabelsKept(sheet, sheet', done'.ids)
  PROVE  RidingStep
<1> DEFINE n == sheet'
           ids == done'.ids
<1> SUFFICES ASSUME NEW i \in DOMAIN sheet, sheet[i].type = "text"
             PROVE  LabelRides(sheet[i], n[i], sheet, n)
  BY DEF RidingStep
<1>1. Laid(Px, sheet) /\ Laid(Px, n) /\ Px \in Nat
  BY NormalSheets, PxFacts DEF EditInv
<1> DEFINE box == ShapeOf(sheet, sheet[i].parent)
<1> SUFFICES ASSUME sheet[i].parent \in AllIds(sheet), IsNode(box) \/ box.type = "freehand",
                    Inside(Box(sheet[i]), Box(box)),
                    ~(sheet[i].id \in ids /\ sheet[i].parent \notin ids)
             PROVE  LET c == Box(ShapeOf(n, sheet[i].parent))
                    IN  /\ n[i].x - c.x1 = sheet[i].x - Box(box).x1
                        /\ n[i].y - c.y1 = sheet[i].y - Box(box).y1
                        /\ n[i].w = sheet[i].w /\ n[i].h = sheet[i].h
  BY DEF LabelRides
<1>2. PICK k \in DOMAIN sheet : sheet[k].id = sheet[i].parent
  BY DEF AllIds
<1>3. box = sheet[k]
  BY <1>1, <1>2, TheShape
<1>4. ~IsConnector(sheet[k]) /\ sheet[k].type # "text"
  BY <1>3 DEF IsNode, Boxlike, IsConnector, Connector
<1> HIDE DEF box, n, ids
<1>5. LabelOf(sheet, ids, i, k)
  BY <1>2, <1>3, <1>4 DEF LabelOf
<1>6. /\ Alike(sheet, n)
      /\ KeepsPlace(sheet[i], n[i], Box(sheet[k]), Box(n[k]))
  BY <1>5 DEF LabelsKept, n, ids
<1>7. ShapeOf(n, sheet[i].parent) = n[k]
  <2>1. k \in DOMAIN n /\ n[k].id = sheet[i].parent
    BY <1>2, <1>6, AlikeFacts
  <2> QED BY <1>1, <2>1, TheShape
<1> QED BY <1>3, <1>6, <1>7 DEF KeepsPlace

\* The gestures and the commands, those that move shapes and the others.
LEMMA GestureRides ==
  ASSUME EditInv, EditInv', Gesture
  PROVE  RidingStep
<1>1. ASSUME NEW p \in Points, MoveDrag(p[1], p[2]) \/ MoveMulti(p[1], p[2]) PROVE RidingStep
  BY <1>1, InputsTyped, DragKeepsLabels, MultiKeepsLabels, KeptRide
<1>2. ASSUME done'.step \in {"press", "marquee", "resize", "release", "delete", "draw"}
      PROVE  RidingStep
  BY <1>2 DEF RidingStep
<1>3. ASSUME NEW p \in Points, Press(p[1], p[2]) PROVE done'.step = "press"
  BY <1>3 DEF Press, Went
<1>4. ASSUME NEW p \in Points, NEW fromCenter \in BOOLEAN, NEW square \in BOOLEAN,
             MoveResize(p[1], p[2], fromCenter, square)
      PROVE  done'.step = "resize"
  BY <1>4 DEF MoveResize, Went
<1>5. ASSUME NEW span \in Spans, Marquee(span[1], span[2]) PROVE done'.step = "marquee"
  BY <1>5 DEF Marquee, Went
<1>6. Release => done'.step = "release"
  BY DEF Release, Went
<1>7. DeleteChosen => done'.step = "delete"
  BY DEF DeleteChosen, Went
<1>8. ASSUME NEW span \in Spans, NEW square \in BOOLEAN, NEW tool, Draw(tool, span[1], span[2], square)
      PROVE  done'.step = "draw"
  BY <1>8 DEF Draw, Went
<1> QED BY <1>1, <1>2, <1>3, <1>4, <1>5, <1>6, <1>7, <1>8 DEF Gesture

LEMMA CommandRides ==
  ASSUME EditInv, EditInv', ArrangeCommand \/ AnyTidy
  PROVE  RidingStep
<1>1. CASE \E mode \in {"left", "right", "hcenter", "top", "bottom", "vcenter"} : Align(mode)
  BY <1>1, AlignKeepsLabels, KeptRide
<1>2. CASE \E axis \in {"horizontal", "vertical"} : Distribute(axis)
  BY <1>2, DistributeKeepsLabels, KeptRide
<1>3. CASE BindLabels
  <2>1. done'.step = "attach"
    BY <1>3 DEF BindLabels, Went
  <2> QED BY <2>1 DEF RidingStep
<1>4. CASE AnyTidy
  <2>1. PICK direction \in {"TD", "LR"}, place \in Layouts : TidyTo(direction, place)
    BY <1>4 DEF AnyTidy
  <2> QED BY <2>1, TidyKeepsLabels, KeptRide
<1> QED BY <1>1, <1>2, <1>3, <1>4 DEF ArrangeCommand

\* Labels ride: through every gesture and every arrange command, for any
\* sheets, points and size of a pixel, and with the nodes laid out anywhere, a
\* label that lies in its box, or on its stroke, keeps its place there and its
\* size, unless it is moved on its own (store.ts:243, arrange.ts:29, tidy.ts:108).
THEOREM EditsKeepLabels == EditsSpec => LabelsRide
<1>1. EditInv /\ EditInv' /\ [Gesture \/ ArrangeCommand \/ AnyTidy]_sheetVars => [RidingStep]_sheetVars
  BY GestureRides, CommandRides
<1>2. EditsSpec => [][RidingStep]_sheetVars
  BY <1>1, EditInvariant, PTL DEF EditsSpec
<1> QED BY <1>2 DEF LabelsRide, RidingStep
=============================================================================
