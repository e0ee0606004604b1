---------------------------- MODULE AStar_proofs ----------------------------
(***************************************************************************)
(* Theorems about the path search of the LEGO farm, for a floor of any     *)
(* size and any plan of it.  The search, the way back and the road are     *)
(* recursive functions: first, that such a function unrolls; then what a   *)
(* round of the search keeps, what its way and its road are, and that no   *)
(* way is shorter.                                                         *)
(***************************************************************************)
EXTENDS AStar, FiniteSetTheorems, SequenceTheorems, WellFoundedInduction, TLAPS

\* A set of numbers that has 0, and with each number the next, has them all.
LEMMA NatSetInduction ==
    ASSUME NEW T, T \subseteq Nat, 0 \in T, \A n \in T : n + 1 \in T
    PROVE  Nat \subseteq T
<1> SUFFICES ASSUME Nat \ T # {}
             PROVE  FALSE
  OBVIOUS
<1>1. PICK n \in Nat \ T : \A m \in Nat \ T : <<m, n>> \notin OpToRel(<, Nat)
  BY WFMin, NatLessThanWellFounded, Zenon
<1>2. n # 0 /\ n - 1 \in Nat /\ n - 1 < n
  OBVIOUS
<1>3. n - 1 \in T
  <2>1. \A m \in Nat : m < n => <<m, n>> \in OpToRel(<, Nat)
    BY DEF OpToRel
  <2>2. QED
    BY <1>1, <1>2, <2>1
<1>4. (n - 1) + 1 = n
  OBVIOUS
<1>5. QED
  BY <1>3, <1>4

\* f begins with a and goes on by h, for n steps.
Unfolds(f, S, a, h, n) ==
    /\ f \in [0..n -> S]
    /\ f[0] = a
    /\ \A k \in 0..(n - 1) : f[k + 1] = h[<<k, f[k]>>]

\* Two functions that begin and go on in the same way are the same, as far as
\* both of them go.
LEMMA UnfoldsAgree ==
    ASSUME NEW S, NEW a, NEW h, NEW m \in Nat, NEW n \in Nat, m <= n, NEW f, NEW g,
           Unfolds(f, S, a, h, m), Unfolds(g, S, a, h, n)
    PROVE  \A k \in 0..m : f[k] = g[k]
<1> DEFINE T == {k \in Nat : k <= m => f[k] = g[k]}
<1>1. 0 \in T
  BY DEF Unfolds
<1>2. ASSUME NEW k \in T
      PROVE  k + 1 \in T
  <2>1. CASE k + 1 <= m
    <3>1. k \in 0..(m - 1) /\ k \in 0..(n - 1) /\ k <= m
      BY <2>1
    <3>2. f[k + 1] = h[<<k, f[k]>>] /\ g[k + 1] = h[<<k, g[k]>>] /\ f[k] = g[k]
      BY <3>1 DEF Unfolds
    <3>3. QED
      BY <3>2
  <2>2. CASE ~(k + 1 <= m)
    BY <2>2
  <2>3. QED
    BY <2>1, <2>2
<1>3. Nat \subseteq T
  <2> HIDE DEF T
  <2>1. T \subseteq Nat
    BY DEF T
  <2>2. QED
    BY <1>1, <1>2, <2>1, NatSetInduction
<1>4. QED
  BY <1>3

\* There is one for any number of steps.
LEMMA UnfoldsExists ==
    ASSUME NEW S, NEW a \in S, NEW h \in [Nat \X S -> S]
    PROVE  \A n \in Nat : \E f : Unfolds(f, S, a, h, n)
<1> DEFINE T == {n \in Nat : \E f : Unfolds(f, S, a, h, n)}
<1>1. 0 \in T
  <2>1. Unfolds([k \in 0..0 |-> a], S, a, h, 0)
    BY DEF Unfolds
  <2>2. QED
    BY <2>1
<1>2. ASSUME NEW n \in T
      PROVE  n + 1 \in T
  <2>1. PICK f : Unfolds(f, S, a, h, n)
    OBVIOUS
  <2> DEFINE g == [k \in 0..(n + 1) |-> IF k = n + 1 THEN h[<<n, f[n]>>] ELSE f[k]]
  <2>2. n \in Nat /\ f \in [0..n -> S] /\ f[n] \in S
    BY <2>1 DEF Unfolds
  <2>3. g \in [0..(n + 1) -> S]
    BY <2>2
  <2>4. g[0] = a
    BY <2>1, <2>2 DEF Unfolds
  <2>5. ASSUME NEW k \in 0..((n + 1) - 1)
        PROVE  g[k + 1] = h[<<k, g[k]>>]
    <3>1. CASE k = n
      <4>1. k \in Nat /\ k + 1 \in 0..(n + 1) /\ k + 1 = n + 1 /\ k \in 0..(n + 1) /\ k # n + 1
        BY <2>2, <3>1
      <4>2. g[k + 1] = h[<<n, f[n]>>] /\ g[k] = f[k]
        BY <4>1
      <4>3. QED
        BY <3>1, <4>2
    <3>2. CASE k # n
      <4>1. k \in 0..(n - 1) /\ k + 1 \in 0..n
        BY <2>2, <3>2
      <4>2. f[k + 1] = h[<<k, f[k]>>]
        BY <2>1, <4>1 DEF Unfolds
      <4>3. k + 1 \in 0..(n + 1) /\ k + 1 # n + 1 /\ k \in 0..(n + 1) /\ k # n + 1
        BY <2>2, <3>2
      <4>5. g[k + 1] = f[k + 1] /\ g[k] = f[k]
        BY <4>3
      <4>4. QED
        BY <4>2, <4>5
    <3>3. QED
      BY <3>1, <3>2
  <2> HIDE DEF g
  <2>6. Unfolds(g, S, a, h, n + 1)
    BY <2>3, <2>4, <2>5 DEF Unfolds
  <2>7. QED
    BY <2>2, <2>6
<1>3. Nat \subseteq T
  <2> HIDE DEF T
  <2>1. T \subseteq Nat
    BY DEF T
  <2>2. QED
    BY <1>1, <1>2, <2>1, NatSetInduction
<1>4. QED
  BY <1>3

\* f goes on without end.
Unrolls(f, S, a, h) ==
    /\ f \in [Nat -> S]
    /\ f[0] = a
    /\ \A n \in Nat : f[n + 1] = h[<<n, f[n]>>]

\* Such a function exists.
LEMMA Recursion ==
    ASSUME NEW S, NEW a \in S, NEW h \in [Nat \X S -> S]
    PROVE  \E f : Unrolls(f, S, a, h)
<1> DEFINE u(n) == CHOOSE f : Unfolds(f, S, a, h, n)
           f == [n \in Nat |-> u(n)[n]]
<1>1. ASSUME NEW n \in Nat
      PROVE  Unfolds(u(n), S, a, h, n)
  BY UnfoldsExists
<1> HIDE DEF u
<1>2. f \in [Nat -> S]
  BY <1>1 DEF Unfolds
<1>3. f[0] = a
  BY <1>1 DEF Unfolds
<1>4. ASSUME NEW n \in Nat
      PROVE  f[n + 1] = h[<<n, f[n]>>]
  <2>1. Unfolds(u(n), S, a, h, n) /\ Unfolds(u(n + 1), S, a, h, n + 1)
    BY <1>1
  <2>2. u(n)[n] = u(n + 1)[n]
    BY <2>1, UnfoldsAgree
  <2>3. n \in 0..((n + 1) - 1)
    OBVIOUS
  <2>4. u(n + 1)[n + 1] = h[<<n, u(n + 1)[n]>>]
    BY <2>1, <2>3 DEF Unfolds
  <2>5. QED
    BY <2>2, <2>4
<1>5. Unrolls(f, S, a, h)
  BY <1>2, <1>3, <1>4 DEF Unrolls
<1>6. QED
  BY <1>5

-----------------------------------------------------------------------------
\* The lists of the search.

\* The nodes of the search, which are what it makes of cells.
Nodes == [coord : Cells, father : Cells, g : Nat, h : Nat]

\* Some node of the list is of cell c.
Has(list, c) == \E j \in DOMAIN list : list[j].coord = c

\* No two nodes of the list are of the same cell.
Distinct(list) ==
    \A j, k \in DOMAIN list : list[j].coord = list[k].coord => j = k

\* A set of numbers has a least one.
LEMMA LeastElement ==
    ASSUME NEW T, T \subseteq Nat, T # {}
    PROVE  \E n \in T : \A m \in T : n <= m
<1>1. PICK n \in T : \A m \in T : <<m, n>> \notin OpToRel(<, Nat)
  BY WFMin, NatLessThanWellFounded, Zenon
<1>2. ASSUME NEW m \in T
      PROVE  n <= m
  <2>1. m < n => <<m, n>> \in OpToRel(<, Nat)
    BY DEF OpToRel
  <2>2. ~(m < n)
    BY <1>1, <2>1, Zenon
  <2>3. m \in Nat /\ n \in Nat
    OBVIOUS
  <2>4. QED
    BY <2>2, <2>3
<1>3. QED
  BY <1>2

\* searchNode() finds the first node of a cell, if there is one.
LEMMA SearchNode ==
    ASSUME NEW list \in Seq(Nodes), NEW c
    PROVE  /\ searchNode(list, c) \in 0..Len(list)
           /\ searchNode(list, c) # 0 <=> Has(list, c)
           /\ searchNode(list, c) # 0 => list[searchNode(list, c)].coord = c
<1> DEFINE found == {j \in 1..Len(list) : list[j].coord = c}
<1>1. searchNode(list, c) = IF found # {} THEN Min(found) ELSE 0
  BY DEF searchNode, SelectInSeq
<1>2. CASE found = {}
  BY <1>1, <1>2 DEF Has
<1>3. CASE found # {}
  <2>1. found \subseteq Nat
    OBVIOUS
  <2>2. PICK j \in found : \A k \in found : j <= k
    BY <1>3, <2>1, LeastElement, Zenon
  <2>3. Min(found) \in found
    BY <2>2 DEF Min
  <2>4. QED
    BY <1>1, <1>3, <2>3 DEF Has
<1>4. QED
  BY <1>2, <1>3

\* The node found in a list without doubles is the only one.
LEMMA SearchDistinct ==
    ASSUME NEW list \in Seq(Nodes), Distinct(list), NEW j \in DOMAIN list
    PROVE  searchNode(list, list[j].coord) = j
<1>1. Has(list, list[j].coord)
  BY DEF Has
<1>2. searchNode(list, list[j].coord) \in DOMAIN list
  BY <1>1, SearchNode
<1>3. list[searchNode(list, list[j].coord)].coord = list[j].coord
  BY <1>1, SearchNode
<1>4. QED
  BY <1>2, <1>3 DEF Distinct

\* A node put at the end of a list.
LEMMA AppendNode ==
    ASSUME NEW list \in Seq(Nodes), NEW node \in Nodes
    PROVE  /\ Append(list, node) \in Seq(Nodes) /\ Len(Append(list, node)) = Len(list) + 1
           /\ \A j \in DOMAIN list : Append(list, node)[j] = list[j]
           /\ Append(list, node)[Len(list) + 1] = node
           /\ \A c : Has(Append(list, node), c) <=> Has(list, c) \/ c = node.coord
           /\ Distinct(list) /\ ~Has(list, node.coord) => Distinct(Append(list, node))
<1> DEFINE longer == Append(list, node)
<1>1. longer \in Seq(Nodes) /\ Len(longer) = Len(list) + 1
  BY AppendProperties
<1>2. \A j \in 1..Len(list) : longer[j] = list[j]
  BY AppendProperties
<1>3. longer[Len(list) + 1] = node
  BY AppendProperties
<1>4. DOMAIN longer = 1..(Len(list) + 1) /\ DOMAIN list = 1..Len(list) /\ Len(list) \in Nat
  BY <1>1
<1> HIDE DEF longer
<1>5. ASSUME NEW j \in DOMAIN longer
      PROVE  j \in DOMAIN list \/ j = Len(list) + 1
  BY <1>4
<1>6. \A c : Has(longer, c) <=> Has(list, c) \/ c = node.coord
  <2>1. DOMAIN list \subseteq DOMAIN longer /\ Len(list) + 1 \in DOMAIN longer
    BY <1>4
  <2>2. ASSUME NEW c, Has(longer, c)
        PROVE  Has(list, c) \/ c = node.coord
    BY <1>2, <1>3, <1>4, <1>5, <2>2 DEF Has
  <2>3. ASSUME NEW c, Has(list, c) \/ c = node.coord
        PROVE  Has(longer, c)
    BY <1>2, <1>3, <1>4, <2>1, <2>3 DEF Has
  <2>4. QED
    BY <2>2, <2>3
<1>7. ASSUME Distinct(list), ~Has(list, node.coord)
      PROVE  Distinct(longer)
  <2>1. SUFFICES ASSUME NEW j \in DOMAIN longer, NEW k \in DOMAIN longer,
                        longer[j].coord = longer[k].coord
                 PROVE  j = k
    BY DEF Distinct
  <2>2. CASE j \in DOMAIN list /\ k \in DOMAIN list
    BY <1>2, <1>4, <1>7, <2>1, <2>2 DEF Distinct
  <2>3. CASE j \in DOMAIN list /\ k = Len(list) + 1
    BY <1>2, <1>3, <1>4, <1>7, <2>1, <2>3 DEF Has
  <2>4. CASE k \in DOMAIN list /\ j = Len(list) + 1
    BY <1>2, <1>3, <1>4, <1>7, <2>1, <2>4 DEF Has
  <2>5. QED
    BY <1>5, <2>2, <2>3, <2>4
<1>8. QED
  BY <1>1, <1>2, <1>3, <1>4, <1>6, <1>7 DEF longer

\* A node replaced by another one of the same cell.
LEMMA ReplaceNode ==
    ASSUME NEW list \in Seq(Nodes), NEW node \in Nodes, NEW j \in DOMAIN list,
           list[j].coord = node.coord
    PROVE  /\ ReplaceAt(list, j, node) \in Seq(Nodes)
           /\ Len(ReplaceAt(list, j, node)) = Len(list)
           /\ \A k \in DOMAIN list :
                 ReplaceAt(list, j, node)[k] = IF k = j THEN node ELSE list[k]
           /\ \A c : Has(ReplaceAt(list, j, node), c) <=> Has(list, c)
           /\ Distinct(list) => Distinct(ReplaceAt(list, j, node))
<1> DEFINE other == ReplaceAt(list, j, node)
<1>1. other \in Seq(Nodes) /\ Len(other) = Len(list) /\ DOMAIN other = DOMAIN list
  BY ExceptSeq DEF ReplaceAt
<1>2. \A k \in DOMAIN list : other[k] = IF k = j THEN node ELSE list[k]
  BY DEF ReplaceAt
<1>3. \A k \in DOMAIN list : other[k].coord = list[k].coord
  BY <1>2
<1> HIDE DEF other
<1>4. \A c : Has(other, c) <=> Has(list, c)
  BY <1>1, <1>3 DEF Has
<1>5. Distinct(list) => Distinct(other)
  BY <1>1, <1>3 DEF Distinct
<1>6. QED
  BY <1>1, <1>2, <1>4, <1>5 DEF other

\* A node taken out of a list without doubles.
LEMMA RemoveNode ==
    ASSUME NEW list \in Seq(Nodes), NEW j \in DOMAIN list
    PROVE  /\ RemoveAt(list, j) \in Seq(Nodes) /\ Len(RemoveAt(list, j)) = Len(list) - 1
           /\ \A k \in DOMAIN RemoveAt(list, j) :
                 RemoveAt(list, j)[k] = list[IF k < j THEN k ELSE k + 1]
           /\ Distinct(list) =>
                 /\ Distinct(RemoveAt(list, j))
                 /\ \A c : Has(RemoveAt(list, j), c) <=> Has(list, c) /\ c # list[j].coord
<1> DEFINE left  == RemoveAt(list, j)
           at(k) == IF k < j THEN k ELSE k + 1
           front == SubSeq(list, 1, j - 1)
           back  == SubSeq(list, j + 1, Len(list))
<1>0. j \in 1..Len(list) /\ Len(list) \in Nat
  OBVIOUS
<1>1. front \in Seq(Nodes) /\ back \in Seq(Nodes)
  BY <1>0, SubSeqProperties
<1>2. Len(front) = j - 1 /\ Len(back) = Len(list) - j
  BY <1>0, SubSeqProperties
<1>9. /\ \A k \in 1..(j - 1) : front[k] = list[k]
      /\ \A k \in 1..(Len(list) - j) : back[k] = list[k + j]
  BY <1>0, SubSeqProperties
<1>10. left = front \o back
  BY DEF RemoveAt
<1> HIDE DEF front, back, left
<1>3. left \in Seq(Nodes) /\ Len(left) = Len(list) - 1
  BY <1>0, <1>1, <1>2, <1>10, ConcatProperties
<1>4. ASSUME NEW k \in DOMAIN left
      PROVE  left[k] = list[at(k)] /\ at(k) \in DOMAIN list /\ at(k) # j
  <2>1. k \in 1..(Len(list) - 1) /\ k \in 1..(Len(front) + Len(back))
    BY <1>0, <1>2, <1>3
  <2>4. left[k] = IF k <= Len(front) THEN front[k] ELSE back[k - Len(front)]
    BY <1>1, <1>10, <2>1, ConcatProperties
  <2>2. CASE k < j
    <3>1. k \in 1..(j - 1) /\ k \in 1..Len(list) /\ k # j
      BY <1>0, <2>1, <2>2
    <3>2. front[k] = list[k]
      BY <1>9, <3>1
    <3>3. k <= Len(front)
      BY <1>2, <3>1
    <3>4. left[k] = list[k]
      BY <2>4, <3>2, <3>3
    <3>5. QED
      BY <1>0, <2>2, <3>1, <3>4
  <2>3. CASE ~(k < j)
    <3>1. k - (j - 1) \in 1..(Len(list) - j) /\ (k - (j - 1)) + j = k + 1
      BY <1>0, <2>1, <2>3
    <3>2. back[k - (j - 1)] = list[k + 1]
      BY <1>9, <3>1
    <3>3. ~(k <= Len(front)) /\ Len(front) = j - 1
      BY <1>0, <1>2, <2>1, <2>3
    <3>4. left[k] = list[k + 1]
      BY <2>4, <3>2, <3>3
    <3>5. k + 1 \in 1..Len(list) /\ k + 1 # j
      BY <1>0, <2>1, <2>3
    <3>6. QED
      BY <2>3, <3>4, <3>5
  <2>5. QED
    BY <2>2, <2>3
<1>5. DOMAIN left = 1..(Len(list) - 1)
  BY <1>3
<1> HIDE DEF left
<1>6. ASSUME Distinct(list)
      PROVE  Distinct(left)
  <2>1. SUFFICES ASSUME NEW k \in DOMAIN left, NEW m \in DOMAIN left,
                        left[k].coord = left[m].coord
                 PROVE  k = m
    BY DEF Distinct
  <2>2. at(k) = at(m)
    BY <1>4, <1>6, <2>1 DEF Distinct
  <2>3. QED
    BY <1>0, <1>5, <2>2
<1>7. ASSUME Distinct(list), NEW c
      PROVE  Has(left, c) <=> Has(list, c) /\ c # list[j].coord
  <2>1. ASSUME Has(left, c)
        PROVE  Has(list, c) /\ c # list[j].coord
    <3>1. PICK k \in DOMAIN left : left[k].coord = c
      BY <2>1 DEF Has
    <3>2. at(k) \in DOMAIN list /\ at(k) # j /\ list[at(k)].coord = c
      BY <1>4, <3>1
    <3>3. QED
      BY <1>7, <3>2 DEF Has, Distinct
  <2>2. ASSUME Has(list, c), c # list[j].coord
        PROVE  Has(left, c)
    <3>1. PICK k \in DOMAIN list : list[k].coord = c
      BY <2>2 DEF Has
    <3>2. k # j /\ k \in 1..Len(list)
      BY <2>2, <3>1
    <3>3. PICK m \in 1..(Len(list) - 1) : at(m) = k
      <4>1. CASE k < j
        <5>1. k \in 1..(Len(list) - 1) /\ at(k) = k
          BY <1>0, <3>2, <4>1
        <5>2. QED
          BY <5>1
      <4>2. CASE ~(k < j)
        <5>1. k - 1 \in 1..(Len(list) - 1) /\ ~(k - 1 < j) /\ (k - 1) + 1 = k
          BY <1>0, <3>2, <4>2
        <5>2. at(k - 1) = k
          BY <5>1
        <5>3. QED
          BY <5>1, <5>2
      <4>3. QED
        BY <4>1, <4>2
    <3>4. left[m].coord = c
      BY <1>4, <1>5, <3>1, <3>3
    <3>5. QED
      BY <1>5, <3>3, <3>4 DEF Has
  <2>3. QED
    BY <2>1, <2>2
<1>8. QED
  BY <1>3, <1>4, <1>6, <1>7 DEF left

-----------------------------------------------------------------------------
\* The floor.

\* The place that is none is not on the floor.
LEMMA NowhereIsNone == Nowhere \notin Cells
BY FloorAssumption DEF Nowhere, Cells, Coordinates

\* A cell is a row and a column.
LEMMA CellParts ==
    ASSUME NEW c \in Cells
    PROVE  c[1] \in Coordinates /\ c[2] \in Coordinates /\ c = <<c[1], c[2]>>
BY DEF Cells

\* A cell next to another one is one row or one column away.
LEMMA AdjacentParts ==
    ASSUME NEW c \in Cells, NEW d \in Cells, Adjacent(c, d)
    PROVE  \/ d = <<c[1], c[2] - 1>> \/ d = <<c[1], c[2] + 1>>
           \/ d = <<c[1] - 1, c[2]>> \/ d = <<c[1] + 1, c[2]>>
<1> DEFINE p == c[1]
           q == c[2]
           r == d[1]
           t == d[2]
<1>1. p \in Int /\ q \in Int /\ r \in Int /\ t \in Int /\ d = <<r, t>>
  BY CellParts, FloorAssumption DEF Coordinates
<1>2. AbsDiff(p, r) + AbsDiff(q, t) = 1
  BY DEF Adjacent
<1> HIDE DEF p, q, r, t
<1>3. \/ r = p /\ t = q - 1
      \/ r = p /\ t = q + 1
      \/ r = p - 1 /\ t = q
      \/ r = p + 1 /\ t = q
  BY <1>1, <1>2 DEF AbsDiff
<1>4. d = <<p, q - 1>> \/ d = <<p, q + 1>> \/ d = <<p - 1, q>> \/ d = <<p + 1, q>>
  BY <1>1, <1>3
<1>5. QED
  BY <1>4 DEF p, q

\* The neighbours that are tried are next to the cell.
LEMMA NeighborIsNext ==
    ASSUME NEW c \in Cells, NEW k \in 1..4, neighborCoord(c, k) # Nowhere
    PROVE  neighborCoord(c, k) \in Cells /\ Adjacent(c, neighborCoord(c, k))
<1> DEFINE p == c[1]
           q == c[2]
<1>1. p \in Int /\ q \in Int
  BY CellParts, FloorAssumption DEF Coordinates
<1> HIDE DEF p, q
<1>2. k = 1 \/ k = 2 \/ k = 3 \/ k = 4
  OBVIOUS
<1>3. PICK n : n = << <<p, q - 1>>, <<p, q + 1>>, <<p - 1, q>>, <<p + 1, q>> >>[k]
  OBVIOUS
<1>4. neighborCoord(c, k) = IF n \in Cells THEN n ELSE Nowhere
  BY <1>3 DEF neighborCoord, p, q
<1>5. n \in Cells /\ neighborCoord(c, k) = n
  BY <1>4
<1>6. AbsDiff(p, n[1]) + AbsDiff(q, n[2]) = 1
  <2>1. n = <<p, q - 1>> \/ n = <<p, q + 1>> \/ n = <<p - 1, q>> \/ n = <<p + 1, q>>
    BY <1>2, <1>3
  <2>2. QED
    BY <1>1, <2>1 DEF AbsDiff
<1>7. QED
  BY <1>5, <1>6 DEF Adjacent, p, q

\* All that are next to the cell are tried.
LEMMA NextIsNeighbor ==
    ASSUME NEW c \in Cells, NEW d \in Cells, Adjacent(c, d)
    PROVE  \E k \in 1..4 : neighborCoord(c, k) = d
<1> DEFINE p == c[1]
           q == c[2]
<1>1. d = <<p, q - 1>> \/ d = <<p, q + 1>> \/ d = <<p - 1, q>> \/ d = <<p + 1, q>>
  BY AdjacentParts
<1>2. ASSUME NEW k \in 1..4,
             << <<p, q - 1>>, <<p, q + 1>>, <<p - 1, q>>, <<p + 1, q>> >>[k] = d
      PROVE  neighborCoord(c, k) = d
  BY <1>2 DEF neighborCoord
<1> HIDE DEF p, q
<1>3. PICK k \in 1..4 : << <<p, q - 1>>, <<p, q + 1>>, <<p - 1, q>>, <<p + 1, q>> >>[k] = d
  BY <1>1
<1>4. neighborCoord(c, k) = d
  BY <1>2, <1>3
<1>5. QED
  BY <1>4

\* There are Size * Size cells.
LEMMA FloorIsFinite ==
    IsFiniteSet(Cells) /\ Cardinality(Cells) = Size * Size
<1>1. IsFiniteSet(Coordinates) /\ Cardinality(Coordinates) = Size
  BY FloorAssumption, FS_Interval DEF Coordinates
<1>2. QED
  BY <1>1, FS_Product DEF Cells

\* A new node.
LEMMA NodeTyped ==
    ASSUME NEW c \in Cells, NEW father \in Cells, NEW g \in Nat, NEW finish \in Cells
    PROVE  /\ Node(c, father, g, finish) \in Nodes
           /\ Node(c, father, g, finish).coord = c
           /\ Node(c, father, g, finish).father = father
<1>1. \A a, b \in Int : AbsDiff(a, b) \in Nat
  BY DEF AbsDiff
<1>2. c[1] \in Int /\ c[2] \in Int /\ finish[1] \in Int /\ finish[2] \in Int
  BY CellParts, FloorAssumption DEF Coordinates
<1>3. AbsDiff(c[1], finish[1]) \in Nat /\ AbsDiff(c[2], finish[2]) \in Nat
  BY <1>1, <1>2
<1>4. AbsDiff(c[1], finish[1]) + AbsDiff(c[2], finish[2]) \in Nat
  BY <1>3
<1>5. QED
  BY <1>4 DEF Node, Nodes

-----------------------------------------------------------------------------
\* A round of the search.

\* The node is that of the start, or next to its father, which is in the list.
Sired(start, list, node) ==
    node.coord = start \/ (Has(list, node.father) /\ Adjacent(node.father, node.coord))

\* A list of open nodes: their fathers are among those.
OpenNodes(plan, start, fathers, list) ==
    /\ list \in Seq(Nodes)
    /\ Distinct(list)
    /\ \A j \in DOMAIN list : isTransitable(plan, list[j].coord) /\ Sired(start, fathers, list[j])

Apart(list, other) == \A c : ~(Has(list, c) /\ Has(other, c))

\* A neighbour is opened, unless it is closed or cannot be entered.
LEMMA RelaxOK ==
    ASSUME NEW plan, NEW start, NEW finish \in Cells, NEW s, NEW fathers, NEW list,
           s.current \in Nodes, s.closeList \in Seq(Nodes), Has(fathers, s.current.coord),
           OpenNodes(plan, start, fathers, list), Apart(list, s.closeList), NEW k \in 1..4
    PROVE  LET later == Relax(plan, finish, s, list, k)
           IN  /\ OpenNodes(plan, start, fathers, later)
               /\ Apart(later, s.closeList)
               /\ \A c : Has(list, c) => Has(later, c)
               /\ \A d \in Cells : d = neighborCoord(s.current.coord, k) /\ isTransitable(plan, d)
                                      => Has(s.closeList, d) \/ Has(later, d)
<1> DEFINE later == Relax(plan, finish, s, list, k)
           here == s.current.coord
           c    == neighborCoord(here, k)
           m    == searchNode(list, c)
           node == Node(c, here, s.current.g + 1, finish)
           skip == c = Nowhere \/ searchNode(s.closeList, c) # 0 \/ ~isTransitable(plan, c)
<1>1. later = IF skip THEN list
              ELSE IF m = 0 THEN Append(list, node)
              ELSE IF node.g < list[m].g THEN ReplaceAt(list, m, node) ELSE list
  BY DEF Relax
<1>2. here \in Cells /\ s.current.g + 1 \in Nat /\ list \in Seq(Nodes) /\ Distinct(list)
  BY DEF Nodes, OpenNodes
<1> HIDE DEF here, later
<1>3. CASE skip
  <2>1. \A d \in Cells : d = c /\ isTransitable(plan, d) => Has(s.closeList, d)
    BY <1>3, NowhereIsNone, SearchNode
  <2>2. later = list
    BY <1>1, <1>3
  <2>3. QED
    BY <2>1, <2>2 DEF here, later
<1>4. CASE ~skip
  <2>1. c \in Cells /\ Adjacent(here, c) /\ isTransitable(plan, c) /\ ~Has(s.closeList, c)
    BY <1>2, <1>4, NeighborIsNext, SearchNode
  <2> HIDE DEF c
  <2>2. node \in Nodes /\ node.coord = c /\ node.father = here
    <3>1. c \in Cells /\ here \in Cells /\ s.current.g + 1 \in Nat /\ finish \in Cells
      BY <1>2, <2>1
    <3> HIDE DEF skip
    <3>2. QED
      BY ONLY <3>1, NodeTyped
  <2>3. Sired(start, fathers, node) /\ isTransitable(plan, node.coord)
    BY <2>1, <2>2 DEF Sired, here
  <2> HIDE DEF node
  <2>4. m \in 0..Len(list) /\ (m # 0 <=> Has(list, c)) /\ (m # 0 => list[m].coord = c)
    BY <1>2, SearchNode
  <2> HIDE DEF m
  <2>5. CASE m = 0
    <3>1. later = Append(list, node)
      BY <1>1, <1>4, <2>5
    <3>2. ~Has(list, node.coord)
      BY <2>2, <2>4, <2>5
    <3>3. later \in Seq(Nodes) /\ Distinct(later)
      BY <1>2, <2>2, <3>1, <3>2, AppendNode
    <3>4. \A e : Has(later, e) <=> Has(list, e) \/ e = node.coord
      BY <1>2, <2>2, <3>1, AppendNode
    <3>5. \A j \in DOMAIN later : (j \in DOMAIN list /\ later[j] = list[j]) \/ later[j] = node
      <4>1. /\ Len(later) = Len(list) + 1 /\ later[Len(list) + 1] = node
            /\ \A j \in DOMAIN list : later[j] = list[j]
        BY <1>2, <2>2, <3>1, AppendNode
      <4>2. \A j \in DOMAIN later : j \in DOMAIN list \/ j = Len(list) + 1
        BY <1>2, <3>3, <4>1
      <4>3. QED
        BY <4>1, <4>2
    <3>6. OpenNodes(plan, start, fathers, later)
      BY <2>3, <3>3, <3>5 DEF OpenNodes
    <3>7. Apart(later, s.closeList)
      BY <2>1, <2>2, <3>4 DEF Apart
    <3>8. QED
      BY <2>2, <3>4, <3>6, <3>7 DEF here, c, later
  <2>6. CASE m # 0 /\ later = ReplaceAt(list, m, node)
    <3>1. m \in DOMAIN list /\ list[m].coord = node.coord
      BY <1>2, <2>2, <2>4, <2>6
    <3>2. /\ later \in Seq(Nodes) /\ Len(later) = Len(list)
          /\ \A j \in DOMAIN list : later[j] = IF j = m THEN node ELSE list[j]
          /\ \A e : Has(later, e) <=> Has(list, e)
          /\ Distinct(later)
      BY <1>2, <2>2, <2>6, <3>1, ReplaceNode
    <3>3. DOMAIN later = DOMAIN list
      BY <1>2, <3>2
    <3>4. OpenNodes(plan, start, fathers, later)
      BY <2>3, <3>2, <3>3 DEF OpenNodes
    <3>5. Apart(later, s.closeList)
      BY <3>2 DEF Apart
    <3>6. QED
      BY <2>4, <2>6, <3>2, <3>4, <3>5 DEF here, c, later
  <2>7. CASE m # 0 /\ later = list
    BY <2>4, <2>7 DEF here, c, later
  <2>8. QED
    BY <1>1, <1>4, <2>5, <2>6, <2>7
<1>5. QED
  BY <1>3, <1>4

\* The neighbours are tried one after the other.
LEMMA OpenedSteps ==
    ASSUME NEW plan, NEW finish, NEW s
    PROVE  Opened(plan, finish, s) =
             LET a == Relax(plan, finish, s, s.openList, 1)
                 b == Relax(plan, finish, s, a, 2)
                 c == Relax(plan, finish, s, b, 3)
             IN  Relax(plan, finish, s, c, 4)
<1> DEFINE a == Relax(plan, finish, s, s.openList, 1)
           b == Relax(plan, finish, s, a, 2)
           c == Relax(plan, finish, s, b, 3)
           e == Relax(plan, finish, s, c, 4)
<1> DEFINE body(list) == [k \in 0..4 |-> IF k = 0 THEN s.openList
                                         ELSE Relax(plan, finish, s, list[k - 1], k)]
           made == [k \in 0..4 |-> CASE k = 0 -> s.openList [] k = 1 -> a [] k = 2 -> b
                                     [] k = 3 -> c [] k = 4 -> e]
           list == CHOOSE h : h = body(h)
<1>1. Opened(plan, finish, s) = list[4]
  BY DEF Opened
<1>2. made = body(made)
  <2>1. made[0] = s.openList /\ made[1] = a /\ made[2] = b /\ made[3] = c /\ made[4] = e
    BY DEF made
  <2>2. ASSUME NEW k \in 0..4
        PROVE  made[k] = IF k = 0 THEN s.openList ELSE Relax(plan, finish, s, made[k - 1], k)
    <3> HIDE DEF made
    <3>1. k = 0 \/ k = 1 \/ k = 2 \/ k = 3 \/ k = 4
      OBVIOUS
    <3>2. 1 - 1 = 0 /\ 2 - 1 = 1 /\ 3 - 1 = 2 /\ 4 - 1 = 3
      OBVIOUS
    <3>3. QED
      BY <2>1, <3>1, <3>2
  <2>3. made = [k \in 0..4 |-> made[k]]
    BY DEF made
  <2> HIDE DEF made
  <2>4. QED
    BY <2>2, <2>3
<1>3. list = body(list)
  BY <1>2
<1> HIDE DEF list
<1>4. list[0] = s.openList
  BY <1>3
<1>5. \A k \in 1..4 : list[k] = Relax(plan, finish, s, list[k - 1], k)
  BY <1>3
<1>6. list[1] = a /\ list[2] = b /\ list[3] = c /\ list[4] = e
  BY <1>4, <1>5
<1>7. QED
  BY <1>1, <1>6

\* All four neighbours.
LEMMA OpenedOK ==
    ASSUME NEW plan, NEW start, NEW finish \in Cells, NEW s, NEW fathers,
           s.current \in Nodes, s.closeList \in Seq(Nodes), Has(fathers, s.current.coord),
           OpenNodes(plan, start, fathers, s.openList), Apart(s.openList, s.closeList)
    PROVE  LET opened == Opened(plan, finish, s)
           IN  /\ OpenNodes(plan, start, fathers, opened)
               /\ Apart(opened, s.closeList)
               /\ \A c : Has(s.openList, c) => Has(opened, c)
               /\ \A d \in Cells : Adjacent(s.current.coord, d) /\ isTransitable(plan, d)
                                      => Has(s.closeList, d) \/ Has(opened, d)
<1> DEFINE a == Relax(plan, finish, s, s.openList, 1)
           b == Relax(plan, finish, s, a, 2)
           c == Relax(plan, finish, s, b, 3)
           e == Relax(plan, finish, s, c, 4)
           good(list) == OpenNodes(plan, start, fathers, list) /\ Apart(list, s.closeList)
           keeps(list, later) == \A x : Has(list, x) => Has(later, x)
           tries(list, k) == \A d \in Cells :
               d = neighborCoord(s.current.coord, k) /\ isTransitable(plan, d)
                  => Has(s.closeList, d) \/ Has(list, d)
<1>1. Opened(plan, finish, s) = e
  BY OpenedSteps
<1>2. ASSUME NEW list, NEW k \in 1..4, good(list)
      PROVE  /\ good(Relax(plan, finish, s, list, k))
             /\ keeps(list, Relax(plan, finish, s, list, k))
             /\ tries(Relax(plan, finish, s, list, k), k)
  BY <1>2, RelaxOK
<1>3. good(s.openList)
  OBVIOUS
<1> HIDE DEF good, keeps, tries
<1>4. good(a) /\ keeps(s.openList, a) /\ tries(a, 1)
  BY <1>2, <1>3
<1> HIDE DEF a
<1>5. good(b) /\ keeps(a, b) /\ tries(b, 2)
  BY <1>2, <1>4
<1> HIDE DEF b
<1>6. good(c) /\ keeps(b, c) /\ tries(c, 3)
  BY <1>2, <1>5
<1> HIDE DEF c
<1>7. good(e) /\ keeps(c, e) /\ tries(e, 4)
  BY <1>2, <1>6
<1> HIDE DEF e
<1>8. \A x : Has(s.openList, x) => Has(e, x)
  BY <1>4, <1>5, <1>6, <1>7 DEF keeps
<1>9. ASSUME NEW d \in Cells, Adjacent(s.current.coord, d), isTransitable(plan, d)
      PROVE  Has(s.closeList, d) \/ Has(e, d)
  <2>1. s.current.coord \in Cells
    BY DEF Nodes
  <2>2. PICK k \in 1..4 : neighborCoord(s.current.coord, k) = d
    BY <1>9, <2>1, NextIsNeighbor
  <2>3. k = 1 \/ k = 2 \/ k = 3 \/ k = 4
    OBVIOUS
  <2>4. CASE k = 1
    BY <1>4, <1>5, <1>6, <1>7, <1>9, <2>2, <2>4 DEF keeps, tries
  <2>5. CASE k = 2
    BY <1>5, <1>6, <1>7, <1>9, <2>2, <2>5 DEF keeps, tries
  <2>6. CASE k = 3
    BY <1>6, <1>7, <1>9, <2>2, <2>6 DEF keeps, tries
  <2>7. CASE k = 4
    BY <1>7, <1>9, <2>2, <2>7 DEF keeps, tries
  <2>8. QED
    BY <2>3, <2>4, <2>5, <2>6, <2>7
<1>10. QED
  BY <1>1, <1>7, <1>8, <1>9 DEF good

\* A bounded set of numbers has a greatest one.
LEMMA GreatestElement ==
    ASSUME NEW n \in Nat, NEW T, T \subseteq 1..n, T # {}
    PROVE  \E m \in T : \A k \in T : k <= m
<1> DEFINE U == {k \in Nat : n - k \in T}
<1>1. U # {}
  <2>1. PICK k \in T : TRUE
    OBVIOUS
  <2>2. n - k \in Nat /\ n - (n - k) = k
    OBVIOUS
  <2>3. n - k \in U
    BY <2>2
  <2>4. QED
    BY <2>3
<1>2. PICK k \in U : \A m \in U : k <= m
  <2>1. U \subseteq Nat
    OBVIOUS
  <2> HIDE DEF U
  <2>2. QED
    BY <1>1, <2>1, LeastElement, Zenon
<1>3. ASSUME NEW m \in T
      PROVE  m <= n - k
  <2>1. n - m \in Nat /\ n - (n - m) = m
    OBVIOUS
  <2>2. n - m \in U
    BY <2>1
  <2>3. k <= n - m /\ k \in Nat /\ m \in Int
    BY <1>2, <2>2
  <2>4. QED
    BY <2>3
<1>4. QED
  BY <1>3

\* searchMinF() finds a node.
LEMMA SearchMinF ==
    ASSUME NEW list \in Seq(Nodes), list # <<>>
    PROVE  searchMinF(list) \in DOMAIN list
<1> DEFINE less == {j \in DOMAIN list : getF(list[j]) < getF(list[1])}
<1>1. searchMinF(list) = IF less = {} THEN 1 ELSE CHOOSE j \in less : \A k \in less : k <= j
  BY DEF searchMinF
<1>2. 1 \in DOMAIN list /\ less \subseteq 1..Len(list) /\ Len(list) \in Nat /\ less \subseteq DOMAIN list
  OBVIOUS
<1> HIDE DEF less
<1>3. CASE less = {}
  BY <1>1, <1>2, <1>3
<1>4. CASE less # {}
  <2>1. \E j \in less : \A k \in less : k <= j
    BY <1>2, <1>4, GreatestElement
  <2>2. (CHOOSE j \in less : \A k \in less : k <= j) \in less
    BY <2>1
  <2>3. QED
    BY <1>1, <1>2, <1>4, <2>2
<1>5. QED
  BY <1>3, <1>4

-----------------------------------------------------------------------------
\* The invariant of the search.

States == [current : Nodes, openList : Seq(Nodes), closeList : Seq(Nodes), found : BOOLEAN]

\* The fathers of the closed nodes were closed before them.
Descends(plan, start, list) ==
    \A j \in DOMAIN list :
        /\ isTransitable(plan, list[j].coord)
        /\ \/ list[j].coord = start
           \/ /\ Adjacent(list[j].father, list[j].coord)
              /\ \E m \in 1..(j - 1) : list[m].coord = list[j].father

\* What is next to a closed cell is closed or open.
Bordered(plan, s) ==
    \A c, d \in Cells : Has(s.closeList, c) /\ Adjacent(c, d) /\ isTransitable(plan, d)
                           => Has(s.closeList, d) \/ Has(s.openList, d)

\* The search has not met the finish yet; the open list has every cell that the
\* closed ones border on.
Searching(plan, start, finish, s) ==
    /\ ~Has(s.closeList, finish)
    /\ OpenNodes(plan, start, s.closeList, s.openList) /\ Apart(s.openList, s.closeList)
    /\ s.openList # <<>> =>
          s.current.coord # finish /\ \E j \in DOMAIN s.openList : s.openList[j] = s.current
    /\ Bordered(plan, s)
    /\ Has(s.closeList, start) \/ Has(s.openList, start)

\* What holds after every round.
SearchOK(plan, start, finish, s) ==
    /\ s \in States
    /\ Distinct(s.closeList) /\ Descends(plan, start, s.closeList)
    /\ s.found => Has(s.closeList, finish)
    /\ ~s.found => Searching(plan, start, finish, s)

\* A node whose father is in the list may follow.
LEMMA DescendsAppend ==
    ASSUME NEW plan, NEW start, NEW list \in Seq(Nodes), NEW node \in Nodes,
           Descends(plan, start, list), isTransitable(plan, node.coord), Sired(start, list, node)
    PROVE  Descends(plan, start, Append(list, node))
<1> DEFINE longer == Append(list, node)
<1>1. /\ longer \in Seq(Nodes) /\ Len(longer) = Len(list) + 1 /\ Len(list) \in Nat
      /\ \A j \in DOMAIN list : longer[j] = list[j]
      /\ longer[Len(list) + 1] = node
  BY AppendNode
<1> HIDE DEF longer
<1>2. SUFFICES ASSUME NEW j \in DOMAIN longer
               PROVE  /\ isTransitable(plan, longer[j].coord)
                      /\ \/ longer[j].coord = start
                         \/ /\ Adjacent(longer[j].father, longer[j].coord)
                            /\ \E m \in 1..(j - 1) : longer[m].coord = longer[j].father
  BY DEF Descends, longer
<1>3. CASE j \in DOMAIN list
  <2>1. \A m \in 1..(j - 1) : m \in DOMAIN list
    BY <1>3
  <2>2. QED
    BY <1>1, <1>3, <2>1 DEF Descends
<1>4. CASE j = Len(list) + 1
  <2>1. \A m \in DOMAIN list : m \in 1..(j - 1)
    BY <1>1, <1>4
  <2>2. QED
    BY <1>1, <1>4, <2>1 DEF Sired, Has
<1>5. QED
  BY <1>1, <1>3, <1>4

\* Fathers stay in a list that grows.
LEMMA SiredMonotone ==
    ASSUME NEW start, NEW list, NEW longer, \A c : Has(list, c) => Has(longer, c), NEW node,
           Sired(start, list, node)
    PROVE  Sired(start, longer, node)
BY DEF Sired

\* A round closes the current cell, and keeps the invariant.
LEMMA RoundOK ==
    ASSUME NEW plan, NEW start, NEW finish \in Cells, NEW s,
           SearchOK(plan, start, finish, s), s.openList # <<>>, ~s.found
    PROVE  /\ SearchOK(plan, start, finish, Round(plan, finish, s))
           /\ Len(Round(plan, finish, s).closeList) > Len(s.closeList)
<1> DEFINE t      == Round(plan, finish, s)
           here   == s.current.coord
           closed == Append(s.closeList, s.current)
           opened == Opened(plan, finish, s)
           at     == searchNode(opened, here)
           rest   == RemoveAt(opened, at)
           next   == IF rest = <<>> THEN s.current ELSE rest[searchMinF(rest)]
<1>1. t = [current |-> next, openList |-> rest, found |-> (next.coord = finish),
           closeList |-> IF next.coord = finish THEN Append(closed, next) ELSE closed]
  BY DEF Round
<1>2. /\ s.current \in Nodes /\ s.openList \in Seq(Nodes) /\ s.closeList \in Seq(Nodes)
      /\ Distinct(s.closeList) /\ Descends(plan, start, s.closeList)
      /\ Searching(plan, start, finish, s)
  BY DEF SearchOK, States
<1> HIDE DEF t, here
<1>3. /\ Has(s.openList, here) /\ ~Has(s.closeList, here) /\ here # finish
      /\ isTransitable(plan, here) /\ Sired(start, s.closeList, s.current)
  <2>1. PICK j \in DOMAIN s.openList : s.openList[j] = s.current
    BY <1>2 DEF Searching
  <2>2. isTransitable(plan, here) /\ Sired(start, s.closeList, s.current)
    BY <1>2, <2>1 DEF Searching, OpenNodes, here
  <2>3. Has(s.openList, here) /\ here # finish
    BY <1>2, <2>1 DEF Searching, here, Has
  <2>4. QED
    BY <1>2, <2>2, <2>3 DEF Searching, Apart
<1>4. /\ closed \in Seq(Nodes) /\ Len(closed) = Len(s.closeList) + 1
      /\ \A c : Has(closed, c) <=> Has(s.closeList, c) \/ c = here
      /\ Distinct(closed) /\ Descends(plan, start, closed)
  BY <1>2, <1>3, AppendNode, DescendsAppend DEF here
<1> HIDE DEF closed
<1>5. OpenNodes(plan, start, closed, s.openList) /\ Apart(s.openList, s.closeList)
  BY <1>2, <1>4, SiredMonotone DEF Searching, OpenNodes
<1>6. /\ OpenNodes(plan, start, closed, opened)
      /\ Apart(opened, s.closeList)
      /\ \A c : Has(s.openList, c) => Has(opened, c)
      /\ \A d \in Cells : Adjacent(here, d) /\ isTransitable(plan, d)
                             => Has(s.closeList, d) \/ Has(opened, d)
  BY <1>2, <1>4, <1>5, OpenedOK DEF here
<1> HIDE DEF opened
<1>7. opened \in Seq(Nodes) /\ Distinct(opened) /\ at \in DOMAIN opened /\ opened[at].coord = here
  <2>1. opened \in Seq(Nodes) /\ Distinct(opened) /\ Has(opened, here)
    BY <1>3, <1>6 DEF OpenNodes
  <2>2. QED
    BY <2>1, SearchNode
<1> HIDE DEF at
<1>8. /\ rest \in Seq(Nodes) /\ Distinct(rest)
      /\ \A k \in DOMAIN rest : \E j \in DOMAIN opened : rest[k] = opened[j]
      /\ \A c : Has(rest, c) <=> Has(opened, c) /\ c # here
  <2>1. rest \in Seq(Nodes) /\ Len(rest) = Len(opened) - 1
    BY <1>7, RemoveNode
  <2>2. Distinct(rest) /\ \A c : Has(rest, c) <=> Has(opened, c) /\ c # here
    BY <1>7, RemoveNode
  <2>3. \A k \in DOMAIN rest : rest[k] = opened[IF k < at THEN k ELSE k + 1]
    BY <1>7, RemoveNode
  <2>4. \A k \in DOMAIN rest : k \in DOMAIN opened /\ k + 1 \in DOMAIN opened
    <3>1. DOMAIN rest = 1..(Len(opened) - 1) /\ DOMAIN opened = 1..Len(opened) /\ Len(opened) \in Nat
      BY <1>7, <2>1
    <3>2. QED
      BY <3>1
  <2>5. QED
    BY <2>1, <2>2, <2>3, <2>4
<1> HIDE DEF rest
<1>9. OpenNodes(plan, start, closed, rest)
  BY <1>6, <1>8 DEF OpenNodes
<1>10. Apart(rest, closed)
  BY <1>4, <1>6, <1>8 DEF Apart
<1>11. rest # <<>> =>
          \E k \in DOMAIN rest : next = rest[k]
  BY <1>8, SearchMinF
<1>12. rest = <<>> => next = s.current
  OBVIOUS
<1> HIDE DEF next
<1>13. next \in Nodes
  BY <1>2, <1>8, <1>11, <1>12, ElementOfSeq
<1>14. CASE next.coord = finish
  <2>1. rest # <<>>
    BY <1>3, <1>12, <1>14 DEF here
  <2>2. PICK k \in DOMAIN rest : next = rest[k]
    BY <1>11, <2>1
  <2>3. isTransitable(plan, next.coord) /\ Sired(start, closed, next)
    BY <1>9, <2>2 DEF OpenNodes
  <2>4. ~Has(closed, next.coord)
    BY <1>10, <2>2 DEF Apart, Has
  <2>5. /\ Append(closed, next) \in Seq(Nodes) /\ Len(Append(closed, next)) = Len(closed) + 1
        /\ Distinct(Append(closed, next)) /\ Has(Append(closed, next), finish)
    BY <1>4, <1>13, <1>14, <2>4, AppendNode
  <2>6. Descends(plan, start, Append(closed, next))
    BY <1>4, <1>13, <2>3, DescendsAppend
  <2>7. t.closeList = Append(closed, next) /\ t.found = TRUE /\ t \in States
    BY <1>1, <1>8, <1>13, <1>14, <2>5 DEF States
  <2>8. Len(t.closeList) > Len(s.closeList)
    BY <1>2, <1>4, <2>5, <2>7
  <2>9. QED
    BY <2>5, <2>6, <2>7, <2>8 DEF SearchOK, t
<1>15. CASE next.coord # finish
  <2>1. /\ t.closeList = closed /\ t.found = FALSE /\ t \in States
        /\ t.openList = rest /\ t.current = next
    BY <1>1, <1>4, <1>8, <1>13, <1>15 DEF States
  <2>2. ~Has(closed, finish)
    BY <1>2, <1>3, <1>4 DEF Searching
  <2>3. Bordered(plan, t)
    <3>1. SUFFICES ASSUME NEW c \in Cells, NEW d \in Cells, Has(closed, c), Adjacent(c, d),
                          isTransitable(plan, d), ~Has(closed, d)
                   PROVE  Has(rest, d)
      BY <2>1 DEF Bordered
    <3>2. d # here /\ ~Has(s.closeList, d)
      BY <1>4, <3>1
    <3>3. CASE c = here
      BY <1>6, <1>8, <3>1, <3>2, <3>3
    <3>4. CASE Has(s.closeList, c)
      BY <1>2, <1>6, <1>8, <3>1, <3>2, <3>4 DEF Searching, Bordered
    <3>5. QED
      BY <1>4, <3>1, <3>3, <3>4
  <2>4. Has(closed, start) \/ Has(rest, start)
    BY <1>2, <1>4, <1>6, <1>8 DEF Searching
  <2>5. Searching(plan, start, finish, t)
    BY <1>9, <1>10, <1>11, <1>15, <2>1, <2>2, <2>3, <2>4 DEF Searching
  <2>6. Len(t.closeList) > Len(s.closeList)
    BY <1>2, <1>4, <2>1
  <2>7. QED
    BY <1>4, <2>1, <2>5, <2>6 DEF SearchOK, t
<1>16. QED
  BY <1>14, <1>15

\* A list without doubles is no longer than the floor is large.
LEMMA DistinctIsShort ==
    ASSUME NEW list \in Seq(Nodes), Distinct(list)
    PROVE  Len(list) <= Size * Size
<1> DEFINE f == [j \in 1..Len(list) |-> list[j].coord]
<1>1. \A j \in 1..Len(list) : list[j].coord \in Cells
  <2>1. \A j \in 1..Len(list) : list[j] \in Nodes
    OBVIOUS
  <2>2. QED
    BY <2>1 DEF Nodes
<1>2. f \in Injection(1..Len(list), Cells)
  BY <1>1 DEF Injection, Distinct, IsInjective
<1> HIDE DEF f
<1>3. Cardinality(1..Len(list)) <= Cardinality(Cells)
  BY <1>2, FloorIsFinite, FS_Injection, Zenon
<1>4. Cardinality(1..Len(list)) = Len(list)
  <2>1. PICK n \in Nat : n = Len(list)
    OBVIOUS
  <2>2. Cardinality(1..n) = IF 1 > n THEN 0 ELSE n - 1 + 1
    BY FS_Interval
  <2>3. QED
    BY <2>1, <2>2
<1>5. QED
  BY <1>3, <1>4, FloorIsFinite

Over(s) == s.openList = <<>> \/ s.found

\* Where the rounds begin.
First(start, finish) ==
    [current |-> Node(start, start, 0, finish), openList |-> <<Node(start, start, 0, finish)>>,
     closeList |-> <<>>, found |-> FALSE]

\* The rounds of the search, as a function on the numbers.
Rounds(plan, start, finish, round) ==
    round = [n \in Nat |-> IF n = 0 THEN First(start, finish)
                           ELSE IF Over(round[n - 1]) THEN round[n - 1]
                           ELSE Round(plan, finish, round[n - 1])]

\* The search begins with the invariant.
LEMMA FirstOK ==
    ASSUME NEW plan, NEW start \in Cells, NEW finish \in Cells, start # finish,
           isTransitable(plan, start)
    PROVE  SearchOK(plan, start, finish, First(start, finish))
<1> DEFINE node == Node(start, start, 0, finish)
           s == First(start, finish)
<1>1. node \in Nodes /\ node.coord = start
  BY NodeTyped
<1> HIDE DEF node
<1>2. s.openList = <<node>> /\ s.current = node /\ s.closeList = <<>> /\ s.found = FALSE /\ s \in States
  BY <1>1 DEF First, States, node
<1> HIDE DEF s
<1>3. \A c : ~Has(s.closeList, c)
  BY <1>2 DEF Has
<1>4. Has(s.openList, start) /\ s.openList \in Seq(Nodes) /\ s.openList[1] = node /\ DOMAIN s.openList = {1}
  BY <1>1, <1>2 DEF Has
<1>5. OpenNodes(plan, start, s.closeList, s.openList)
  BY <1>1, <1>4 DEF OpenNodes, Distinct, Sired
<1>6. Searching(plan, start, finish, s)
  BY <1>1, <1>2, <1>3, <1>4, <1>5 DEF Searching, Apart, Bordered
<1>7. Distinct(s.closeList) /\ Descends(plan, start, s.closeList)
  BY <1>2 DEF Distinct, Descends
<1>8. QED
  BY <1>2, <1>6, <1>7 DEF SearchOK, s

\* The search is such a function.
LEMMA SearchIsRounds ==
    ASSUME NEW plan, NEW start \in Cells, NEW finish \in Cells, start # finish,
           isTransitable(plan, start)
    PROVE  \E round : /\ Rounds(plan, start, finish, round)
                      /\ Search(plan, start, finish) = round[Size * Size].closeList
<1> DEFINE body(h) ==
               [n \in Nat |-> IF n = 0 THEN First(start, finish)
                              ELSE IF Over(h[n - 1]) THEN h[n - 1]
                              ELSE Round(plan, finish, h[n - 1])]
           S == {s \in States : SearchOK(plan, start, finish, s)}
           g == [p \in Nat \X S |-> IF Over(p[2]) THEN p[2] ELSE Round(plan, finish, p[2])]
<1>1. First(start, finish) \in S
  BY FirstOK DEF SearchOK
<1>2. g \in [Nat \X S -> S]
  <2>1. ASSUME NEW s \in S, ~Over(s)
        PROVE  Round(plan, finish, s) \in S
    BY <2>1, RoundOK DEF SearchOK, Over
  <2>2. QED
    BY <2>1
<1>3. \A n \in Nat, s \in S : g[<<n, s>>] = IF Over(s) THEN s ELSE Round(plan, finish, s)
  OBVIOUS
<1> HIDE DEF g, S
<1>4. PICK f : Unrolls(f, S, First(start, finish), g)
  BY <1>1, <1>2, Recursion
<1>10. /\ f \in [Nat -> S] /\ f[0] = First(start, finish)
       /\ \A n \in Nat : f[n + 1] = g[<<n, f[n]>>]
  BY <1>4 DEF Unrolls
<1>5. f = body(f)
  <2>1. f = [n \in Nat |-> f[n]]
    BY <1>10
  <2>2. ASSUME NEW n \in Nat, n # 0
        PROVE  f[n] = IF Over(f[n - 1]) THEN f[n - 1] ELSE Round(plan, finish, f[n - 1])
    <3>1. n - 1 \in Nat /\ (n - 1) + 1 = n
      BY <2>2
    <3>2. f[n] = g[<<n - 1, f[n - 1]>>] /\ f[n - 1] \in S
      BY <1>10, <3>1
    <3>3. QED
      BY <1>3, <3>1, <3>2
  <2>3. QED
    BY <1>10, <2>1, <2>2
<1> DEFINE round == CHOOSE h : h = body(h)
<1>6. round = body(round)
  <2> HIDE DEF body
  <2>1. QED
    BY <1>5
<1>7. Search(plan, start, finish) = round[Size * Size].closeList
  BY Zenon DEF Search, First, Over
<1> HIDE DEF round
<1>8. Rounds(plan, start, finish, round)
  BY <1>6 DEF Rounds
<1>9. QED
  BY <1>7, <1>8

\* Each round leaves the invariant, and one more closed node than the one before,
\* or the search is over.
LEMMA RoundsOK ==
    ASSUME NEW plan, NEW start \in Cells, NEW finish \in Cells, start # finish,
           isTransitable(plan, start), NEW round, Rounds(plan, start, finish, round)
    PROVE  \A n \in Nat : /\ SearchOK(plan, start, finish, round[n])
                          /\ Over(round[n]) \/ Len(round[n].closeList) >= n
<1> DEFINE good(n) == /\ SearchOK(plan, start, finish, round[n])
                      /\ Over(round[n]) \/ Len(round[n].closeList) >= n
           T == {n \in Nat : good(n)}
<1>1. round[0] = First(start, finish)
  BY DEF Rounds
<1>2. \A n \in Nat :
         round[n + 1] = IF Over(round[n]) THEN round[n] ELSE Round(plan, finish, round[n])
  <2>1. SUFFICES ASSUME NEW n \in Nat
                 PROVE  round[n + 1] = IF Over(round[n]) THEN round[n]
                                       ELSE Round(plan, finish, round[n])
    OBVIOUS
  <2>2. n + 1 \in Nat /\ n + 1 # 0 /\ (n + 1) - 1 = n
    OBVIOUS
  <2>3. QED
    BY <2>2, Zenon DEF Rounds
<1>3. 0 \in T
  <2>1. SearchOK(plan, start, finish, round[0])
    BY <1>1, FirstOK
  <2>2. Len(round[0].closeList) >= 0
    BY <2>1 DEF SearchOK, States
  <2>3. QED
    BY <2>1, <2>2
<1>4. ASSUME NEW n \in T
      PROVE  n + 1 \in T
  <2>1. n \in Nat /\ SearchOK(plan, start, finish, round[n])
        /\ (Over(round[n]) \/ Len(round[n].closeList) >= n)
    OBVIOUS
  <2>2. CASE Over(round[n])
    BY <1>2, <2>1, <2>2
  <2>3. CASE ~Over(round[n])
    <3>1. round[n + 1] = Round(plan, finish, round[n])
      BY <1>2, <2>1, <2>3
    <3>2. SearchOK(plan, start, finish, round[n + 1])
          /\ Len(round[n + 1].closeList) > Len(round[n].closeList)
      BY <2>1, <2>3, <3>1, RoundOK DEF Over
    <3>3. Len(round[n].closeList) \in Nat /\ Len(round[n + 1].closeList) \in Nat
      BY <2>1, <3>2 DEF SearchOK, States
    <3>4. Len(round[n + 1].closeList) >= n + 1
      BY <2>1, <2>3, <3>2, <3>3
    <3>5. QED
      BY <2>1, <3>2, <3>4
  <2>4. QED
    BY <2>2, <2>3
<1>5. Nat \subseteq T
  <2>1. T \subseteq Nat
    OBVIOUS
  <2> HIDE DEF T
  <2>2. QED
    BY <1>3, <1>4, <2>1, NatSetInduction
<1>6. QED
  BY <1>5

\* The search leaves the finish closed, or the start walled in.
LEMMA SearchResult ==
    ASSUME NEW plan, NEW start \in Cells, NEW finish \in Cells, start # finish,
           isTransitable(plan, start)
    PROVE  LET list == Search(plan, start, finish)
           IN  /\ list \in Seq(Nodes) /\ Distinct(list) /\ Descends(plan, start, list)
               /\ Has(list, finish) \/ WalledIn(plan, start, finish)
<1>1. PICK round : /\ Rounds(plan, start, finish, round)
                   /\ Search(plan, start, finish) = round[Size * Size].closeList
  BY SearchIsRounds
<1>2. PICK n \in Nat : n = Size * Size
  BY FloorAssumption
<1>3. PICK s : s = round[n]
  OBVIOUS
<1>4. SearchOK(plan, start, finish, s) /\ (Over(s) \/ Len(s.closeList) >= n)
  BY <1>1, <1>3, RoundsOK
<1>5. s.closeList \in Seq(Nodes) /\ s.current \in Nodes /\ s.openList \in Seq(Nodes)
      /\ Distinct(s.closeList) /\ Descends(plan, start, s.closeList)
  BY <1>4 DEF SearchOK, States
<1>6. CASE s.found
  BY <1>1, <1>2, <1>3, <1>4, <1>5, <1>6 DEF SearchOK
<1>7. CASE ~s.found
  <2>1. Searching(plan, start, finish, s)
    BY <1>4, <1>7 DEF SearchOK
  <2>2. s.openList = <<>>
    <3>1. SUFFICES ASSUME s.openList # <<>>
                   PROVE  FALSE
      OBVIOUS
    <3>2. Has(s.openList, s.current.coord) /\ Apart(s.openList, s.closeList)
      BY <2>1, <3>1 DEF Searching, Has
    <3>3. ~Has(s.closeList, s.current.coord)
      BY <3>2 DEF Apart
    <3>4. PICK longer \in Seq(Nodes) : Len(longer) = Len(s.closeList) + 1 /\ Distinct(longer)
      <4>1. /\ Append(s.closeList, s.current) \in Seq(Nodes)
            /\ Len(Append(s.closeList, s.current)) = Len(s.closeList) + 1
            /\ Distinct(Append(s.closeList, s.current))
        BY <1>5, <3>3, AppendNode
      <4>2. QED
        BY <4>1
    <3>5. Len(longer) <= n /\ Len(s.closeList) \in Nat
      BY <1>2, <1>5, <3>4, DistinctIsShort
    <3>6. Len(s.closeList) >= n
      BY <1>4, <1>7, <3>1 DEF Over
    <3>7. QED
      BY <3>4, <3>5, <3>6
  <2>3. \A c : ~Has(s.openList, c)
    BY <2>2 DEF Has
  <2> DEFINE room == {c \in Cells : Has(s.closeList, c)}
  <2>4. start \in room /\ finish \notin room
    BY <2>1, <2>3 DEF Searching
  <2>5. \A c \in room, d \in Cells : Adjacent(c, d) /\ isTransitable(plan, d) => d \in room
    BY <2>1, <2>3 DEF Searching, Bordered
  <2>6. room \in SUBSET Cells
    OBVIOUS
  <2> HIDE DEF room
  <2>7. WalledIn(plan, start, finish)
    BY <2>4, <2>5, <2>6 DEF WalledIn
  <2>8. QED
    BY <1>1, <1>2, <1>3, <1>5, <2>7
<1>8. QED
  BY <1>6, <1>7

-----------------------------------------------------------------------------
\* What the nodes cost.

\* The moves to the finish, were no cell blocked: the h of a node.
Estimate(c, finish) == AbsDiff(c[1], finish[1]) + AbsDiff(c[2], finish[2])

\* No move changes the estimate by more, or less, than one.
LEMMA Estimates ==
    ASSUME NEW finish \in Cells
    PROVE  /\ Estimate(finish, finish) = 0
           /\ \A c \in Cells : Estimate(c, finish) \in Nat
           /\ \A c, d \in Cells : Adjacent(c, d) =>
                 \/ Estimate(d, finish) = Estimate(c, finish) + 1
                 \/ Estimate(d, finish) = Estimate(c, finish) - 1
<1> DEFINE dist(p, q, u, v) == AbsDiff(p, u) + AbsDiff(q, v)
<1>1. \A c \in Cells : /\ c[1] \in Int /\ c[2] \in Int
                       /\ Estimate(c, finish) = dist(c[1], c[2], finish[1], finish[2])
  BY CellParts, FloorAssumption DEF Coordinates, Estimate
<1>2. \A p, q, u, v \in Int : dist(p, q, u, v) \in Nat /\ dist(p, q, p, q) = 0
  BY DEF AbsDiff
<1>3. \A p, q, r, s, u, v \in Int :
         dist(p, q, r, s) = 1 => \/ dist(r, s, u, v) = dist(p, q, u, v) + 1
                                 \/ dist(r, s, u, v) = dist(p, q, u, v) - 1
  BY DEF AbsDiff
<1>4. \A c, d \in Cells : Adjacent(c, d) <=> dist(c[1], c[2], d[1], d[2]) = 1
  BY DEF Adjacent
<1> HIDE DEF dist
<1>5. ASSUME NEW c \in Cells, NEW d \in Cells, Adjacent(c, d)
      PROVE  \/ Estimate(d, finish) = Estimate(c, finish) + 1
             \/ Estimate(d, finish) = Estimate(c, finish) - 1
  BY <1>1, <1>3, <1>4, <1>5
<1>6. Estimate(finish, finish) = 0 /\ \A c \in Cells : Estimate(c, finish) \in Nat
  BY <1>1, <1>2
<1>7. QED
  BY <1>5, <1>6

\* The nodes of a list.
Members(list) == {list[j] : j \in DOMAIN list}

\* The members of a list are nodes, and their cells are those that it has.
LEMMA MembersAre ==
    ASSUME NEW list \in Seq(Nodes)
    PROVE  /\ Members(list) \subseteq Nodes
           /\ \A c : Has(list, c) <=> \E m \in Members(list) : m.coord = c
           /\ Distinct(list) => \A m, n \in Members(list) : m.coord = n.coord => m = n
<1>1. Members(list) \subseteq Nodes
  BY DEF Members
<1>2. \A c : Has(list, c) <=> \E m \in Members(list) : m.coord = c
  BY DEF Members, Has
<1>3. Distinct(list) => \A m, n \in Members(list) : m.coord = n.coord => m = n
  BY DEF Members, Distinct
<1>4. QED
  BY <1>1, <1>2, <1>3

\* A node put at the end of a list is its new member.
LEMMA MembersAppend ==
    ASSUME NEW list \in Seq(Nodes), NEW node \in Nodes
    PROVE  Members(Append(list, node)) = Members(list) \cup {node}
<1> DEFINE longer == Append(list, node)
<1>1. /\ longer \in Seq(Nodes) /\ Len(longer) = Len(list) + 1 /\ Len(list) \in Nat
      /\ \A j \in DOMAIN list : longer[j] = list[j]
      /\ longer[Len(list) + 1] = node
  BY AppendNode
<1> HIDE DEF longer
<1>2. DOMAIN longer = (DOMAIN list) \cup {Len(list) + 1}
  <2>1. DOMAIN longer = 1..(Len(list) + 1) /\ DOMAIN list = 1..Len(list)
    BY <1>1
  <2>2. QED
    BY <1>1, <2>1
<1>3. Members(longer) = Members(list) \cup {node}
  BY <1>1, <1>2 DEF Members
<1>4. QED
  BY <1>3 DEF longer

\* A node of the same cell takes the place of a member.
LEMMA MembersReplace ==
    ASSUME NEW list \in Seq(Nodes), NEW node \in Nodes, NEW j \in DOMAIN list,
           list[j].coord = node.coord
    PROVE  /\ Members(ReplaceAt(list, j, node)) \subseteq Members(list) \cup {node}
           /\ node \in Members(ReplaceAt(list, j, node))
           /\ \A m \in Members(list) : m = list[j] \/ m \in Members(ReplaceAt(list, j, node))
<1> DEFINE other == ReplaceAt(list, j, node)
<1>1. /\ other \in Seq(Nodes) /\ Len(other) = Len(list)
      /\ \A k \in DOMAIN list : other[k] = IF k = j THEN node ELSE list[k]
  BY ReplaceNode
<1> HIDE DEF other
<1>2. DOMAIN other = DOMAIN list
  BY <1>1
<1>3. Members(other) \subseteq Members(list) \cup {node} /\ node \in Members(other)
  BY <1>1, <1>2 DEF Members
<1>4. \A m \in Members(list) : m = list[j] \/ m \in Members(other)
  BY <1>1, <1>2 DEF Members
<1>5. QED
  BY <1>3, <1>4 DEF other

\* A node taken out of a list without doubles leaves the members of other cells.
LEMMA MembersRemove ==
    ASSUME NEW list \in Seq(Nodes), Distinct(list), NEW j \in DOMAIN list
    PROVE  Members(RemoveAt(list, j)) = {m \in Members(list) : m.coord # list[j].coord}
<1> DEFINE left == RemoveAt(list, j)
<1>1. /\ left \in Seq(Nodes) /\ Len(left) = Len(list) - 1
      /\ \A k \in DOMAIN left : left[k] = list[IF k < j THEN k ELSE k + 1]
      /\ \A c : Has(left, c) <=> Has(list, c) /\ c # list[j].coord
  BY RemoveNode
<1> HIDE DEF left
<1>2. \A k \in DOMAIN left : k \in DOMAIN list /\ k + 1 \in DOMAIN list
  <2>1. DOMAIN left = 1..(Len(list) - 1) /\ DOMAIN list = 1..Len(list) /\ Len(list) \in Nat
    BY <1>1
  <2>2. QED
    BY <2>1
<1>3. Members(left) \subseteq Members(list)
  BY <1>1, <1>2 DEF Members
<1>4. ASSUME NEW m \in Members(left)
      PROVE  m.coord # list[j].coord
  BY <1>1 DEF Members, Has
<1>5. ASSUME NEW m \in Members(list), m.coord # list[j].coord
      PROVE  m \in Members(left)
  <2>1. Has(list, m.coord)
    BY DEF Members, Has
  <2>2. Has(left, m.coord)
    BY <1>1, <1>5, <2>1
  <2>3. PICK n \in Members(left) : n.coord = m.coord
    BY <2>2 DEF Has, Members
  <2>4. n = m
    BY <1>3, <2>3, MembersAre
  <2>5. QED
    BY <2>3, <2>4
<1>6. Members(left) = {m \in Members(list) : m.coord # list[j].coord}
  BY <1>3, <1>4, <1>5
<1>7. QED
  BY <1>6 DEF left

\* If the sums of the open nodes are bound or bound + 2, then searchMinF(), which never
\* lowers its own bound, still finds one with the least.
LEMMA LeastOfTwo ==
    ASSUME NEW list \in Seq(Nodes), list # <<>>, NEW bound \in Nat,
           \A j \in DOMAIN list : getF(list[j]) \in {bound, bound + 2}
    PROVE  LET best == getF(list[searchMinF(list)])
           IN  best \in {bound, bound + 2} /\ \A j \in DOMAIN list : getF(list[j]) \in {best, best + 2}
<1> DEFINE less == {j \in DOMAIN list : getF(list[j]) < getF(list[1])}
           best == searchMinF(list)
<1>1. best = IF less = {} THEN 1 ELSE CHOOSE j \in less : \A k \in less : k <= j
  BY DEF searchMinF
<1>2. 1 \in DOMAIN list /\ best \in DOMAIN list /\ less \subseteq 1..Len(list) /\ Len(list) \in Nat
  BY SearchMinF
<1>3. getF(list[1]) \in {bound, bound + 2} /\ getF(list[best]) \in {bound, bound + 2}
  BY <1>2
<1> HIDE DEF best
<1>4. CASE less = {}
  <2>1. best = 1
    BY <1>1, <1>4
  <2>2. ASSUME NEW j \in DOMAIN list
        PROVE  getF(list[j]) \in {getF(list[1]), getF(list[1]) + 2}
    <3>1. ~(getF(list[j]) < getF(list[1])) /\ getF(list[j]) \in {bound, bound + 2}
      BY <1>4
    <3>2. QED
      BY <1>3, <3>1
  <2>3. QED
    BY <1>3, <2>1, <2>2 DEF best
<1>5. CASE less # {}
  <2>1. best \in less
    <3> HIDE DEF less
    <3>1. \E j \in less : \A k \in less : k <= j
      BY <1>2, <1>5, GreatestElement
    <3>2. QED
      BY <1>1, <1>5, <3>1
  <2>2. getF(list[best]) < getF(list[1])
    BY <2>1
  <2>3. getF(list[best]) = bound
    BY <1>3, <2>2
  <2>4. QED
    BY <2>3 DEF best
<1>6. QED
  BY <1>4, <1>5

\* Some node of the set is of cell d and costs n moves at most.
Costs(nodes, d, n) == \E m \in nodes : m.coord = d /\ m.g <= n

\* A node that is made from x, one move further.
Fresh(start, finish, x, node) ==
    /\ node.coord # start /\ Adjacent(x.coord, node.coord)
    /\ node.father = x.coord
    /\ node.g = x.g + 1
    /\ node.h = Estimate(node.coord, finish)

\* From the nodes before, nodes made from x are added, or take the place of dearer ones.
Improves(start, finish, x, before, after) ==
    /\ \A n \in after : n \in before \/ Fresh(start, finish, x, n)
    /\ \A n \in before : Costs(after, n.coord, n.g)

\* The start is closed, or open and costs nothing.
Rooted(start, closeList, list) ==
    /\ Has(closeList, start) \/ Has(list, start)
    /\ \A m \in Members(list) : m.coord = start => m.g = 0

\* Nodes that cost no more than what costs no more.
LEMMA CostsImproved ==
    ASSUME NEW start, NEW finish, NEW x, NEW before, NEW after, after \subseteq Nodes,
           before \subseteq Nodes, Improves(start, finish, x, before, after),
           NEW d, NEW n \in Int, Costs(before, d, n)
    PROVE  Costs(after, d, n)
<1>1. PICK m \in before : m.coord = d /\ m.g <= n
  BY DEF Costs
<1>2. PICK k \in after : k.coord = m.coord /\ k.g <= m.g
  BY <1>1 DEF Improves, Costs
<1>3. k.g \in Int /\ m.g \in Int
  BY <1>1, <1>2 DEF Nodes
<1>4. k.g <= n
  BY <1>1, <1>2, <1>3
<1>5. QED
  BY <1>1, <1>2, <1>4 DEF Costs

\* Improvements add up.
LEMMA ImprovesTwice ==
    ASSUME NEW start, NEW finish, NEW x, NEW a, NEW b, NEW c,
           a \subseteq Nodes, b \subseteq Nodes, c \subseteq Nodes,
           Improves(start, finish, x, a, b), Improves(start, finish, x, b, c)
    PROVE  Improves(start, finish, x, a, c)
<1>1. ASSUME NEW n \in c
      PROVE  n \in a \/ Fresh(start, finish, x, n)
  BY DEF Improves
<1>2. ASSUME NEW n \in a
      PROVE  Costs(c, n.coord, n.g)
  <2>1. Costs(b, n.coord, n.g) /\ n.g \in Int
    BY DEF Improves, Nodes
  <2>2. QED
    BY <2>1, CostsImproved
<1>3. QED
  BY <1>1, <1>2 DEF Improves

\* A neighbour costs one move more than the current node at most, unless it is closed.
LEMMA RelaxCosts ==
    ASSUME NEW plan, NEW start, NEW finish \in Cells, NEW s, NEW list \in Seq(Nodes),
           s.current \in Nodes, s.closeList \in Seq(Nodes), Rooted(start, s.closeList, list),
           NEW k \in 1..4
    PROVE  LET later == Relax(plan, finish, s, list, k)
           IN  /\ later \in Seq(Nodes) /\ Rooted(start, s.closeList, later)
               /\ Improves(start, finish, s.current, Members(list), Members(later))
               /\ \A d \in Cells : d = neighborCoord(s.current.coord, k) /\ isTransitable(plan, d)
                     => Has(s.closeList, d) \/ Costs(Members(later), d, s.current.g + 1)
<1> DEFINE later == Relax(plan, finish, s, list, k)
           here == s.current.coord
           c    == neighborCoord(here, k)
           m    == searchNode(list, c)
           node == Node(c, here, s.current.g + 1, finish)
           skip == c = Nowhere \/ searchNode(s.closeList, c) # 0 \/ ~isTransitable(plan, c)
           tries(nodes) == \A d \in Cells : d = c /\ isTransitable(plan, d)
                              => Has(s.closeList, d) \/ Costs(nodes, d, s.current.g + 1)
           good == /\ later \in Seq(Nodes) /\ Rooted(start, s.closeList, later)
                   /\ Improves(start, finish, s.current, Members(list), Members(later))
                   /\ tries(Members(later))
<1>1. later = IF skip THEN list
              ELSE IF m = 0 THEN Append(list, node)
              ELSE IF node.g < list[m].g THEN ReplaceAt(list, m, node) ELSE list
  BY DEF Relax
<1>2. here \in Cells /\ s.current.g + 1 \in Nat /\ s.current.g \in Nat
  BY DEF Nodes
<1>3. \A n \in Members(list) : n \in Nodes /\ n.g \in Int /\ Costs(Members(list), n.coord, n.g)
  <2>1. SUFFICES ASSUME NEW n \in Members(list)
                 PROVE  n \in Nodes /\ n.g \in Int /\ Costs(Members(list), n.coord, n.g)
    OBVIOUS
  <2>2. n \in Nodes
    BY MembersAre
  <2>3. n.g \in Int /\ n.g <= n.g
    BY <2>2 DEF Nodes
  <2>4. QED
    BY <2>2, <2>3 DEF Costs
<1> HIDE DEF here, later
<1>4. CASE skip
  <2>1. later = list
    BY <1>1, <1>4
  <2>2. tries(Members(later))
    BY <1>4, NowhereIsNone, SearchNode
  <2>3. QED
    BY <1>3, <2>1, <2>2 DEF Improves, here, later
<1>5. CASE ~skip
  <2>1. c \in Cells /\ Adjacent(here, c) /\ ~Has(s.closeList, c)
    BY <1>2, <1>5, NeighborIsNext, SearchNode
  <2> HIDE DEF c
  <2>2. /\ node \in Nodes /\ node.coord = c /\ node.father = here
        /\ node.g = s.current.g + 1 /\ node.h = Estimate(c, finish)
    <3>1. node.g = s.current.g + 1 /\ node.h = Estimate(c, finish)
      BY DEF Node, Estimate
    <3> HIDE DEF skip
    <3>2. QED
      BY ONLY <1>2, <2>1, <3>1, finish \in Cells, NodeTyped
  <2>3. c # start => Fresh(start, finish, s.current, node)
    BY <2>1, <2>2 DEF Fresh, here
  <2> HIDE DEF node
  <2>4. m \in 0..Len(list) /\ (m # 0 <=> Has(list, c)) /\ (m # 0 => list[m].coord = c)
    BY SearchNode
  <2> HIDE DEF m
  <2>5. CASE m = 0
    <3>1. later = Append(list, node)
      BY <1>1, <1>5, <2>5
    <3>2. c # start
      BY <2>1, <2>4, <2>5 DEF Rooted
    <3>3. later \in Seq(Nodes) /\ \A e : Has(list, e) => Has(later, e)
      BY <2>2, <3>1, AppendNode
    <3>4. Members(later) = Members(list) \cup {node}
      BY <2>2, <3>1, MembersAppend
    <3>5. Improves(start, finish, s.current, Members(list), Members(later))
      BY <1>3, <2>3, <3>2, <3>4 DEF Improves, Costs
    <3>6. tries(Members(later))
      BY <1>2, <2>2, <3>4 DEF Costs
    <3>7. Rooted(start, s.closeList, later)
      BY <2>2, <3>2, <3>3, <3>4 DEF Rooted
    <3>8. QED
      BY <3>3, <3>5, <3>6, <3>7 DEF here, c, later
  <2>6. CASE m # 0 /\ node.g < list[m].g
    <3>1. m \in DOMAIN list /\ list[m].coord = node.coord /\ list[m] \in Members(list)
      BY <2>2, <2>4, <2>6 DEF Members
    <3>2. later = ReplaceAt(list, m, node)
      BY <1>1, <1>5, <2>6
    <3>3. c # start
      <4>1. list[m].g # 0
        BY <1>2, <2>2, <2>6
      <4>2. QED
        BY <2>2, <3>1, <4>1 DEF Rooted
    <3>4. later \in Seq(Nodes) /\ \A e : Has(later, e) <=> Has(list, e)
      BY <2>2, <3>1, <3>2, ReplaceNode
    <3>5. /\ Members(later) \subseteq Members(list) \cup {node} /\ node \in Members(later)
          /\ \A n \in Members(list) : n = list[m] \/ n \in Members(later)
      BY <2>2, <3>1, <3>2, MembersReplace
    <3>6. ASSUME NEW n \in Members(list)
          PROVE  Costs(Members(later), n.coord, n.g)
      <4>1. CASE n = list[m]
        <5>1. node.coord = n.coord /\ node.g <= n.g
          BY <1>2, <1>3, <2>2, <2>6, <3>1, <4>1
        <5>2. QED
          BY <3>5, <5>1 DEF Costs
      <4>2. CASE n \in Members(later)
        <5>1. n.g <= n.g
          BY <1>3
        <5>2. QED
          BY <4>2, <5>1 DEF Costs
      <4>3. QED
        BY <3>5, <4>1, <4>2
    <3>7. Improves(start, finish, s.current, Members(list), Members(later))
      BY <2>3, <3>3, <3>5, <3>6 DEF Improves
    <3>8. tries(Members(later))
      BY <1>2, <2>2, <3>5 DEF Costs
    <3>9. Rooted(start, s.closeList, later)
      BY <2>2, <3>3, <3>4, <3>5 DEF Rooted
    <3>10. QED
      BY <3>4, <3>7, <3>8, <3>9 DEF here, c, later
  <2>7. CASE m # 0 /\ ~(node.g < list[m].g)
    <3>1. later = list
      BY <1>1, <1>5, <2>7
    <3>2. list[m] \in Members(list) /\ list[m].coord = c
      BY <2>4, <2>7 DEF Members
    <3>3. list[m].g <= s.current.g + 1
      BY <1>2, <1>3, <2>2, <2>7, <3>2
    <3>4. tries(Members(later))
      BY <3>1, <3>2, <3>3 DEF Costs
    <3>5. Improves(start, finish, s.current, Members(list), Members(later))
      BY <1>3, <3>1 DEF Improves
    <3>6. QED
      BY <3>1, <3>4, <3>5 DEF here, c, later
  <2>8. QED
    BY <2>5, <2>6, <2>7
<1>6. QED
  BY <1>4, <1>5

\* All four neighbours.
LEMMA OpenedCosts ==
    ASSUME NEW plan, NEW start, NEW finish \in Cells, NEW s,
           s.current \in Nodes, s.closeList \in Seq(Nodes), s.openList \in Seq(Nodes),
           Rooted(start, s.closeList, s.openList)
    PROVE  LET opened == Members(Opened(plan, finish, s))
           IN  /\ opened \subseteq Nodes
               /\ Improves(start, finish, s.current, Members(s.openList), opened)
               /\ \A d \in Cells : Adjacent(s.current.coord, d) /\ isTransitable(plan, d)
                     => Has(s.closeList, d) \/ Costs(opened, d, s.current.g + 1)
<1> DEFINE a == Relax(plan, finish, s, s.openList, 1)
           b == Relax(plan, finish, s, a, 2)
           c == Relax(plan, finish, s, b, 3)
           e == Relax(plan, finish, s, c, 4)
           good(list) == list \in Seq(Nodes) /\ Rooted(start, s.closeList, list)
           better(list, later) == Improves(start, finish, s.current, Members(list), Members(later))
           tries(list, k) == \A d \in Cells :
               d = neighborCoord(s.current.coord, k) /\ isTransitable(plan, d)
                  => Has(s.closeList, d) \/ Costs(Members(list), d, s.current.g + 1)
<1>1. Opened(plan, finish, s) = e
  BY OpenedSteps
<1>2. ASSUME NEW list, NEW k \in 1..4, good(list)
      PROVE  /\ good(Relax(plan, finish, s, list, k))
             /\ better(list, Relax(plan, finish, s, list, k))
             /\ tries(Relax(plan, finish, s, list, k), k)
  BY <1>2, RelaxCosts
<1>3. good(s.openList)
  OBVIOUS
<1>4. ASSUME NEW list, good(list)
      PROVE  Members(list) \subseteq Nodes
  BY <1>4, MembersAre
<1> HIDE DEF good, tries
<1>5. good(a) /\ better(s.openList, a) /\ tries(a, 1)
  BY <1>2, <1>3
<1> HIDE DEF a
<1>6. good(b) /\ better(a, b) /\ tries(b, 2)
  BY <1>2, <1>5
<1> HIDE DEF b
<1>7. good(c) /\ better(b, c) /\ tries(c, 3)
  BY <1>2, <1>6
<1> HIDE DEF c
<1>8. good(e) /\ better(c, e) /\ tries(e, 4)
  BY <1>2, <1>7
<1> HIDE DEF e
<1>9. /\ Members(s.openList) \subseteq Nodes /\ Members(a) \subseteq Nodes
      /\ Members(b) \subseteq Nodes /\ Members(c) \subseteq Nodes /\ Members(e) \subseteq Nodes
  BY <1>3, <1>4, <1>5, <1>6, <1>7, <1>8
<1>10. better(b, e) /\ better(a, e) /\ better(s.openList, e)
  <2>1. better(b, e)
    BY <1>7, <1>8, <1>9, ImprovesTwice
  <2>2. better(a, e)
    BY <1>6, <1>9, <2>1, ImprovesTwice
  <2>3. better(s.openList, e)
    BY <1>5, <1>9, <2>2, ImprovesTwice
  <2>4. QED
    BY <2>1, <2>2, <2>3
<1>11. ASSUME NEW list, Members(list) \subseteq Nodes, better(list, e), NEW k, tries(list, k)
       PROVE  tries(e, k)
  <2>1. s.current.g + 1 \in Int
    BY DEF Nodes
  <2>2. QED
    BY <1>9, <1>11, <2>1, CostsImproved DEF tries
<1>12. tries(e, 1) /\ tries(e, 2) /\ tries(e, 3) /\ tries(e, 4)
  BY <1>5, <1>6, <1>7, <1>8, <1>9, <1>10, <1>11
<1>13. ASSUME NEW d \in Cells, Adjacent(s.current.coord, d), isTransitable(plan, d)
       PROVE  Has(s.closeList, d) \/ Costs(Members(e), d, s.current.g + 1)
  <2>1. s.current.coord \in Cells
    BY DEF Nodes
  <2>2. PICK k \in 1..4 : neighborCoord(s.current.coord, k) = d
    BY <1>13, <2>1, NextIsNeighbor
  <2>3. tries(e, k)
    <3>1. k = 1 \/ k = 2 \/ k = 3 \/ k = 4
      OBVIOUS
    <3>2. QED
      BY <1>12, <3>1
  <2>4. QED
    BY <1>13, <2>2, <2>3 DEF tries
<1>14. QED
  BY <1>1, <1>9, <1>10, <1>13

\* The node costs one move more than its father, which is closed.
Settled(start, closed, node) ==
    IF node.coord = start THEN node.g = 0
    ELSE \E f \in closed : f.coord = node.father /\ node.g = f.g + 1

\* Of the closed and the open nodes: the open ones promise bound or bound + 2 moves, and
\* no closed one promised more; what is next to a closed cell costs one move more at most.
Tight(plan, start, finish, closed, open, bound) ==
    /\ \A n \in open : n.h = Estimate(n.coord, finish) /\ getF(n) \in {bound, bound + 2}
    /\ \A n \in closed : n.h = Estimate(n.coord, finish) /\ getF(n) <= bound
    /\ \A n \in closed \cup open : Settled(start, closed, n)
    /\ \A n \in closed, d \in Cells : Adjacent(n.coord, d) /\ isTransitable(plan, d)
                                         => Costs(closed \cup open, d, n.g + 1)
    /\ Costs(closed \cup open, start, 0)

\* The first node.
LEMMA FirstTight ==
    ASSUME NEW plan, NEW start \in Cells, NEW finish \in Cells
    PROVE  LET s == First(start, finish)
           IN  Tight(plan, start, finish, Members(s.closeList), Members(s.openList), getF(s.current))
<1> DEFINE node == Node(start, start, 0, finish)
           s == First(start, finish)
<1>1. node \in Nodes /\ node.coord = start
  BY NodeTyped
<1>2. node.g = 0 /\ node.h = Estimate(start, finish)
  BY DEF Node, Estimate
<1> HIDE DEF node
<1>3. s.openList = <<node>> /\ s.current = node /\ s.closeList = <<>>
  BY DEF First, node
<1> HIDE DEF s
<1>4. Members(s.closeList) = {} /\ Members(s.openList) = {node}
  BY <1>1, <1>3 DEF Members
<1>5. getF(node) \in {getF(node), getF(node) + 2}
  OBVIOUS
<1>6. Costs({} \cup {node}, start, 0)
  BY <1>1, <1>2 DEF Costs
<1>7. Tight(plan, start, finish, {}, {node}, getF(node))
  BY <1>1, <1>2, <1>5, <1>6 DEF Tight, Settled
<1>8. QED
  BY <1>3, <1>4, <1>7 DEF s

\* No other node of the set is of the cell of x.
Alone(x, nodes) == \A n \in nodes : n.coord = x.coord => n = x

\* The nodes of other cells.
Others(nodes, x) == {n \in nodes : n.coord # x.coord}

\* The current node is closed, its neighbours are opened: nothing costs more than before.
LEMMA ClosedCosts ==
    ASSUME NEW start, NEW finish, NEW closed, NEW open, NEW opened, NEW x \in open,
           closed \subseteq Nodes, open \subseteq Nodes, opened \subseteq Nodes,
           Alone(x, open),
           Improves(start, finish, x, open, opened),
           NEW rest, rest = Others(opened, x), NEW d, NEW k \in Int,
           Costs(closed \cup open, d, k) \/ (Costs(opened, d, k) /\ d # x.coord)
    PROVE  Costs((closed \cup {x}) \cup rest, d, k)
<1> DEFINE all == (closed \cup {x}) \cup rest
<1>1. CASE Costs(closed, d, k)
  <2>1. PICK n \in closed : n.coord = d /\ n.g <= k
    BY <1>1 DEF Costs
  <2>2. n \in all
    OBVIOUS
  <2>3. QED
    BY <2>1, <2>2 DEF Costs
<1>2. CASE Costs(open, d, k)
  <2>1. CASE d = x.coord
    <3>1. PICK n \in open : n.coord = d /\ n.g <= k
      BY <1>2 DEF Costs
    <3>2. n = x /\ n \in all
      BY <2>1, <3>1 DEF Alone
    <3>3. QED
      BY <3>1, <3>2 DEF Costs
  <2>2. CASE d # x.coord
    <3>1. Costs(opened, d, k)
      BY <1>2, CostsImproved
    <3>2. PICK n \in opened : n.coord = d /\ n.g <= k
      BY <3>1 DEF Costs
    <3>3. n \in all
      BY <2>2, <3>2 DEF Others
    <3>4. QED
      BY <3>2, <3>3 DEF Costs
  <2>3. QED
    BY <2>1, <2>2
<1>3. CASE Costs(opened, d, k) /\ d # x.coord
  <2>1. PICK n \in opened : n.coord = d /\ n.g <= k
    BY <1>3 DEF Costs
  <2>2. n \in all
    BY <1>3, <2>1 DEF Others
  <2>3. QED
    BY <2>1, <2>2 DEF Costs
<1>4. Costs(closed \cup open, d, k) => Costs(closed, d, k) \/ Costs(open, d, k)
  BY DEF Costs
<1>5. QED
  BY <1>1, <1>2, <1>3, <1>4

\* What is next to x is closed, or costs one move more at most.
Tried(plan, x, closed, opened) ==
    \A d \in Cells : Adjacent(x.coord, d) /\ isTransitable(plan, d)
                        => (\E n \in closed : n.coord = d) \/ Costs(opened, d, x.g + 1)

\* The nodes promise one of two sums.
Promises(nodes, bound) == \A n \in nodes : getF(n) \in {bound, bound + 2}

\* The parts of a node, and of its sum.
LEMMA NodeParts ==
    \A n \in Nodes : /\ n.coord \in Cells /\ n.g \in Nat /\ n.h \in Nat
                     /\ getF(n) = n.g + n.h /\ getF(n) \in Nat
BY DEF Nodes, getF

\* A node made from the current one promises as many moves, or two more.
LEMMA TwoSums ==
    ASSUME NEW plan, NEW start, NEW finish \in Cells, NEW closed, NEW open, NEW opened,
           NEW x \in open, open \subseteq Nodes, opened \subseteq Nodes,
           Tight(plan, start, finish, closed, open, getF(x)),
           Improves(start, finish, x, open, opened), NEW n \in opened
    PROVE  n.h = Estimate(n.coord, finish) /\ getF(n) \in {getF(x), getF(x) + 2}
<1>1. x.coord \in Cells /\ x.g \in Nat /\ x.h \in Nat /\ getF(x) = x.g + x.h
  BY NodeParts
<1>2. x.h = Estimate(x.coord, finish)
  BY DEF Tight
<1>3. n \in open \/ Fresh(start, finish, x, n)
  BY DEF Improves
<1>4. CASE n \in open
  BY <1>4 DEF Tight
<1>5. CASE Fresh(start, finish, x, n)
  <2>1. n.coord \in Cells /\ n.g \in Nat /\ n.h \in Nat /\ getF(n) = n.g + n.h
    BY NodeParts
  <2>2. Adjacent(x.coord, n.coord) /\ n.g = x.g + 1 /\ n.h = Estimate(n.coord, finish)
    BY <1>5 DEF Fresh
  <2>3. n.h = x.h + 1 \/ n.h = x.h - 1
    BY <1>1, <1>2, <2>1, <2>2, Estimates
  <2>4. getF(n) = getF(x) + 2 \/ getF(n) = getF(x)
    BY <1>1, <2>1, <2>2, <2>3
  <2>5. QED
    BY <2>2, <2>4
<1>6. QED
  BY <1>3, <1>4, <1>5

\* After the round the open nodes promise one of two sums again.
LEMMA TightAgain ==
    ASSUME NEW plan, NEW start, NEW finish \in Cells, NEW closed, NEW open, NEW opened,
           NEW x \in open, closed \subseteq Nodes, open \subseteq Nodes, opened \subseteq Nodes,
           Alone(x, open),
           Tight(plan, start, finish, closed, open, getF(x)),
           Improves(start, finish, x, open, opened),
           Tried(plan, x, closed, opened),
           NEW rest, rest = Others(opened, x),
           NEW best \in {getF(x), getF(x) + 2}, Promises(rest, best)
    PROVE  Tight(plan, start, finish, closed \cup {x}, rest, best)
<1>1. x.coord \in Cells /\ x.g \in Nat /\ x.h \in Nat /\ x.h = Estimate(x.coord, finish)
      /\ getF(x) = x.g + x.h /\ getF(x) \in Nat
  BY NodeParts DEF Tight
<1>2. \A n \in Nodes : n.coord \in Cells /\ n.g \in Nat /\ n.h \in Nat /\ getF(n) = n.g + n.h
  BY NodeParts
<1>3. \A d \in Cells : Adjacent(x.coord, d) =>
         \/ Estimate(d, finish) = x.h + 1
         \/ Estimate(d, finish) = x.h - 1
  BY <1>1, Estimates
<1>4. ASSUME NEW n \in rest
      PROVE  n.h = Estimate(n.coord, finish) /\ getF(n) \in {best, best + 2}
  BY TwoSums DEF Others, Promises
<1>5. ASSUME NEW n \in closed \cup {x}
      PROVE  n.h = Estimate(n.coord, finish) /\ getF(n) <= best
  <2>1. getF(x) <= best /\ best \in Nat
    BY <1>1
  <2>2. CASE n \in closed
    <3>1. n.h = Estimate(n.coord, finish) /\ getF(n) <= getF(x)
      BY <2>2 DEF Tight
    <3>2. getF(n) \in Nat
      BY <1>2, <2>2
    <3>3. QED
      BY <1>1, <2>1, <3>1, <3>2
  <2>3. CASE n = x
    BY <1>1, <2>1, <2>3
  <2>4. QED
    BY <2>2, <2>3
<1>6. ASSUME NEW n \in (closed \cup {x}) \cup rest
      PROVE  Settled(start, closed \cup {x}, n)
  <2>1. CASE n \in closed \cup open
    <3>1. Settled(start, closed, n)
      BY <2>1 DEF Tight
    <3>2. QED
      BY <3>1 DEF Settled
  <2>2. CASE n \in rest /\ n \notin open
    <3>1. Fresh(start, finish, x, n)
      BY <2>2 DEF Improves, Others
    <3>2. QED
      BY <3>1 DEF Fresh, Settled
  <2>3. QED
    BY <2>1, <2>2
<1>7. ASSUME NEW d, NEW k \in Int,
             Costs(closed \cup open, d, k) \/ (Costs(opened, d, k) /\ d # x.coord)
      PROVE  Costs((closed \cup {x}) \cup rest, d, k)
  BY <1>7, ClosedCosts
<1>8. ASSUME NEW n \in closed \cup {x}, NEW d \in Cells,
             Adjacent(n.coord, d), isTransitable(plan, d)
      PROVE  Costs((closed \cup {x}) \cup rest, d, n.g + 1)
  <2>1. CASE n \in closed
    <3>1. Costs(closed \cup open, d, n.g + 1)
      BY <1>8, <2>1 DEF Tight
    <3>2. n.g + 1 \in Int
      BY <1>2, <2>1
    <3>3. QED
      BY <1>7, <3>1, <3>2
  <2>2. CASE n = x
    <3>1. x.g + 1 \in Int
      BY <1>1
    <3>2. CASE \E m \in closed : m.coord = d
      <4>1. PICK m \in closed : m.coord = d
        BY <3>2
      <4>2. m.h = Estimate(d, finish) /\ getF(m) <= getF(x)
        BY <4>1 DEF Tight
      <4>3. m.h >= x.h - 1 /\ m.g \in Nat /\ m.h \in Nat /\ getF(m) = m.g + m.h
        BY <1>1, <1>2, <1>3, <1>8, <2>2, <4>2
      <4>4. m.g <= x.g + 1
        BY <1>1, <4>2, <4>3
      <4>5. Costs(closed \cup open, d, x.g + 1)
        BY <4>1, <4>4 DEF Costs
      <4>6. QED
        BY <1>7, <2>2, <3>1, <4>5
    <3>3. CASE Costs(opened, d, x.g + 1)
      <4>1. d # x.coord
        <5>1. \A c \in Cells : ~Adjacent(c, c)
          <6>1. \A a, b \in Int : AbsDiff(a, a) + AbsDiff(b, b) = 0
            BY DEF AbsDiff
          <6>2. \A c \in Cells : c[1] \in Int /\ c[2] \in Int
            BY CellParts, FloorAssumption DEF Coordinates
          <6>3. \A c \in Cells : AbsDiff(c[1], c[1]) + AbsDiff(c[2], c[2]) = 0
            BY <6>1, <6>2
          <6>4. QED
            BY <6>3 DEF Adjacent
        <5>2. QED
          BY <1>1, <1>8, <2>2, <5>1
      <4>2. QED
        BY <1>7, <2>2, <3>1, <3>3, <4>1
    <3>4. QED
      BY <1>8, <2>2, <3>2, <3>3 DEF Tried
  <2>3. QED
    BY <2>1, <2>2
<1>9. Costs((closed \cup {x}) \cup rest, start, 0)
  <2>1. Costs(closed \cup open, start, 0)
    BY DEF Tight
  <2>2. QED
    BY <1>7, <2>1
<1>10. QED
  BY <1>4, <1>5, <1>6, <1>8, <1>9 DEF Tight

\* A round of the search: the current node is closed, the costs are tight again; the
\* finish is closed when it becomes the current cell.
LEMMA RoundTight ==
    ASSUME NEW plan, NEW start, NEW finish \in Cells, NEW s,
           SearchOK(plan, start, finish, s), s.openList # <<>>, ~s.found,
           Tight(plan, start, finish, Members(s.closeList), Members(s.openList), getF(s.current))
    PROVE  LET t      == Round(plan, finish, s)
               closed == Members(s.closeList) \cup {s.current}
           IN  /\ closed \subseteq Nodes /\ \A n \in closed : n.coord # finish
               /\ t.found <=> t.openList # <<>> /\ t.current.coord = finish
               /\ Members(t.closeList) = IF t.found THEN closed \cup {t.current} ELSE closed
               /\ t.openList # <<>> =>
                     /\ t.current \in Members(t.openList) /\ Members(t.openList) \subseteq Nodes
                     /\ Tight(plan, start, finish, closed, Members(t.openList), getF(t.current))
<1> DEFINE t      == Round(plan, finish, s)
           x      == s.current
           list   == Append(s.closeList, x)
           closed == Members(s.closeList) \cup {x}
           opened == Opened(plan, finish, s)
           at     == searchNode(opened, x.coord)
           rest   == RemoveAt(opened, at)
           next   == IF rest = <<>> THEN x ELSE rest[searchMinF(rest)]
<1>1. t = [current |-> next, openList |-> rest, found |-> (next.coord = finish),
           closeList |-> IF next.coord = finish THEN Append(list, next) ELSE list]
  BY DEF Round
<1>2. /\ x \in Nodes /\ s.openList \in Seq(Nodes) /\ s.closeList \in Seq(Nodes)
      /\ Searching(plan, start, finish, s)
  BY DEF SearchOK, States
<1> HIDE DEF t
<1>3. /\ x \in Members(s.openList) /\ x.coord # finish
      /\ Has(s.openList, x.coord) /\ Alone(x, Members(s.openList))
  <2>1. PICK j \in DOMAIN s.openList : s.openList[j] = x
    BY <1>2 DEF Searching
  <2>2. x \in Members(s.openList) /\ x.coord # finish /\ Has(s.openList, x.coord)
    BY <1>2, <2>1 DEF Searching, Members, Has
  <2>3. Distinct(s.openList)
    BY <1>2 DEF Searching, OpenNodes
  <2>4. QED
    BY <1>2, <2>2, <2>3, MembersAre DEF Alone
<1>4. list \in Seq(Nodes) /\ Members(list) = closed
  BY <1>2, AppendNode, MembersAppend
<1>5. closed \subseteq Nodes /\ \A n \in closed : n.coord # finish
  <2>1. Members(s.closeList) \subseteq Nodes /\ ~Has(s.closeList, finish)
    BY <1>2, MembersAre DEF Searching
  <2>2. \A n \in Members(s.closeList) : Has(s.closeList, n.coord)
    BY <1>2, MembersAre
  <2>3. QED
    BY <1>2, <1>3, <2>1, <2>2
<1> HIDE DEF list
<1>6. opened \in Seq(Nodes) /\ Distinct(opened) /\ at \in DOMAIN opened /\ opened[at].coord = x.coord
  <2>1. /\ OpenNodes(plan, start, list, s.openList) /\ Has(list, x.coord)
        /\ Apart(s.openList, s.closeList)
    <3>1. \A c : Has(list, c) <=> Has(s.closeList, c) \/ c = x.coord
      BY <1>2, AppendNode DEF list
    <3>2. QED
      BY <1>2, <3>1, SiredMonotone DEF Searching, OpenNodes
  <2>2. opened \in Seq(Nodes) /\ Distinct(opened) /\ Has(opened, x.coord)
    <3>1. /\ OpenNodes(plan, start, list, opened)
          /\ \A c : Has(s.openList, c) => Has(opened, c)
      BY <1>2, <2>1, OpenedOK
    <3>2. QED
      BY <1>3, <3>1 DEF OpenNodes
  <2>3. QED
    BY <2>2, SearchNode
<1>7. /\ Members(opened) \subseteq Nodes
      /\ Improves(start, finish, x, Members(s.openList), Members(opened))
      /\ \A d \in Cells : Adjacent(x.coord, d) /\ isTransitable(plan, d)
            => Has(s.closeList, d) \/ Costs(Members(opened), d, x.g + 1)
  <2>1. Rooted(start, s.closeList, s.openList)
    <3>1. Has(s.closeList, start) \/ Has(s.openList, start)
      BY <1>2 DEF Searching
    <3>2. \A m \in Members(s.openList) : m.coord = start => m.g = 0
      BY DEF Tight, Settled
    <3>3. QED
      BY <3>1, <3>2 DEF Rooted
  <2>2. QED
    BY <1>2, <2>1, OpenedCosts
<1> HIDE DEF opened, at
<1>8. rest \in Seq(Nodes) /\ Members(rest) = Others(Members(opened), x)
  <2>1. rest \in Seq(Nodes)
    BY <1>6, RemoveNode
  <2>2. Members(rest) = {m \in Members(opened) : m.coord # x.coord}
    BY <1>6, MembersRemove
  <2>3. QED
    BY <2>1, <2>2 DEF Others
<1> HIDE DEF rest
<1>9. ASSUME rest # <<>>
      PROVE  /\ next \in Members(rest) /\ getF(next) \in {getF(x), getF(x) + 2}
             /\ Promises(Members(rest), getF(next))
  <2>1. next = rest[searchMinF(rest)] /\ searchMinF(rest) \in DOMAIN rest
    BY <1>8, <1>9, SearchMinF
  <2>2. \A n \in Members(rest) : getF(n) \in {getF(x), getF(x) + 2}
    <3>1. Members(s.openList) \subseteq Nodes /\ Members(rest) \subseteq Members(opened)
      BY <1>2, <1>8, MembersAre DEF Others
    <3>2. QED
      BY <1>3, <1>7, <3>1, TwoSums
  <2>3. \A j \in DOMAIN rest : getF(rest[j]) \in {getF(x), getF(x) + 2}
    BY <2>2 DEF Members
  <2>4. getF(x) \in Nat
    BY <1>2, NodeParts
  <2>5. /\ getF(next) \in {getF(x), getF(x) + 2}
        /\ \A j \in DOMAIN rest : getF(rest[j]) \in {getF(next), getF(next) + 2}
    BY <1>8, <1>9, <2>1, <2>3, <2>4, LeastOfTwo
  <2>6. QED
    BY <2>1, <2>5 DEF Members, Promises
<1>10. rest = <<>> => next = x
  OBVIOUS
<1> HIDE DEF next
<1>11. ASSUME rest # <<>>
       PROVE  Tight(plan, start, finish, closed, Members(rest), getF(next))
  <2>1. Members(s.closeList) \subseteq Nodes /\ Members(s.openList) \subseteq Nodes
    BY <1>2, MembersAre
  <2>2. Tried(plan, x, Members(s.closeList), Members(opened))
    BY <1>2, <1>7, MembersAre DEF Tried
  <2> HIDE DEF x
  <2>3. Tight(plan, start, finish, Members(s.closeList), Members(s.openList), getF(x))
    BY DEF x
  <2>4. /\ x \in Members(s.openList) /\ Alone(x, Members(s.openList))
        /\ Members(opened) \subseteq Nodes
        /\ Improves(start, finish, x, Members(s.openList), Members(opened))
    BY <1>3, <1>7 DEF x
  <2>5. Members(rest) = Others(Members(opened), x)
    BY <1>8
  <2>6. getF(next) \in {getF(x), getF(x) + 2} /\ Promises(Members(rest), getF(next))
    BY <1>9, <1>11
  <2>7. PICK shut, open, more, left, best :
           /\ shut = Members(s.closeList) /\ open = Members(s.openList)
           /\ more = Members(opened) /\ left = Members(rest) /\ best = getF(next)
    OBVIOUS
  <2>8. /\ finish \in Cells /\ x \in open /\ Alone(x, open)
        /\ shut \subseteq Nodes /\ open \subseteq Nodes /\ more \subseteq Nodes
        /\ Tight(plan, start, finish, shut, open, getF(x))
        /\ Improves(start, finish, x, open, more) /\ Tried(plan, x, shut, more)
        /\ left = Others(more, x) /\ best \in {getF(x), getF(x) + 2} /\ Promises(left, best)
    BY <2>1, <2>2, <2>3, <2>4, <2>5, <2>6, <2>7
  <2>9. Tight(plan, start, finish, shut \cup {x}, left, best)
    BY ONLY <2>8, TightAgain
  <2>10. QED
    BY <2>7, <2>9
<1>12. /\ t.found = (next.coord = finish) /\ t.openList = rest /\ t.current = next
       /\ t.closeList = IF next.coord = finish THEN Append(list, next) ELSE list
  BY <1>1
<1>13. t.found <=> t.openList # <<>> /\ t.current.coord = finish
  BY <1>3, <1>10, <1>12
<1>14. Members(t.closeList) = IF t.found THEN closed \cup {t.current} ELSE closed
  <2>1. CASE t.found
    <3>1. next \in Nodes
      BY <1>8, <1>9, <1>12, <1>13, <2>1, MembersAre
    <3>2. Members(Append(list, next)) = Members(list) \cup {next}
      BY <1>4, <3>1, MembersAppend
    <3>3. QED
      BY <1>4, <1>12, <2>1, <3>2
  <2>2. CASE ~t.found
    BY <1>4, <1>12, <2>2
  <2>3. QED
    BY <2>1, <2>2
<1>15. Members(rest) \subseteq Nodes
  BY <1>8, MembersAre
<1>16. QED
  BY <1>5, <1>9, <1>11, <1>12, <1>13, <1>14, <1>15 DEF t

\* The cells within a number of moves, and within one more.
LEMMA WithinSteps ==
    ASSUME NEW plan, NEW start \in Cells
    PROVE  /\ Within(plan, start, 0) = {start}
           /\ \A n \in Nat :
                 /\ Within(plan, start, n) \subseteq Cells
                 /\ \A d \in Cells :
                       d \in Within(plan, start, n + 1)
                          <=> \/ d \in Within(plan, start, n)
                              \/ /\ isTransitable(plan, d)
                                 /\ \E b \in Within(plan, start, n) : Adjacent(b, d)
<1> DEFINE more(near) == near \cup {d \in Cells : /\ isTransitable(plan, d)
                                                 /\ \E b \in near : Adjacent(b, d)}
           body(h) == [k \in Nat |-> IF k = 0 THEN {start}
                                     ELSE LET near == h[k - 1]
                                          IN  near \cup {d \in Cells : /\ isTransitable(plan, d)
                                                             /\ \E b \in near : Adjacent(b, d)}]
           S == SUBSET Cells
           g == [p \in Nat \X S |-> more(p[2])]
<1>1. g \in [Nat \X S -> S] /\ {start} \in S
  OBVIOUS
<1>2. \A n \in Nat, near \in S : g[<<n, near>>] = more(near)
  OBVIOUS
<1> HIDE DEF g, S
<1>3. PICK f : Unrolls(f, S, {start}, g)
  BY <1>1, Recursion
<1>4. /\ f \in [Nat -> S] /\ f[0] = {start}
      /\ \A n \in Nat : f[n + 1] = g[<<n, f[n]>>]
  BY <1>3 DEF Unrolls
<1>5. f = [k \in Nat |-> IF k = 0 THEN {start} ELSE more(f[k - 1])]
  <2>1. f = [n \in Nat |-> f[n]]
    BY <1>4
  <2>2. ASSUME NEW n \in Nat, n # 0
        PROVE  f[n] = more(f[n - 1])
    <3>1. n - 1 \in Nat /\ (n - 1) + 1 = n
      BY <2>2
    <3>2. f[n] = g[<<n - 1, f[n - 1]>>] /\ f[n - 1] \in S
      BY <1>4, <3>1
    <3>3. QED
      BY <1>2, <3>1, <3>2
  <2> HIDE DEF more
  <2>3. QED
    BY <1>4, <2>1, <2>2
<1> DEFINE within == CHOOSE h : h = body(h)
<1>6. within = body(within)
  <2>1. f = body(f)
    BY <1>5, Zenon
  <2> HIDE DEF body
  <2>2. QED
    BY <2>1
<1>7. \A n : Within(plan, start, n) = within[n]
  BY Zenon DEF Within
<1> HIDE DEF within
<1>8. within[0] = {start}
  BY <1>6
<1>9. ASSUME NEW n \in Nat
      PROVE  within[n + 1] = more(within[n])
  <2>1. n + 1 \in Nat /\ n + 1 # 0 /\ (n + 1) - 1 = n
    OBVIOUS
  <2>2. QED
    BY <1>6, <2>1, Zenon
<1> DEFINE T == {n \in Nat : within[n] \subseteq Cells}
<1>10. Nat \subseteq T
  <2>1. T \subseteq Nat /\ 0 \in T
    BY <1>8
  <2>2. \A n \in T : n + 1 \in T
    BY <1>9
  <2> HIDE DEF T
  <2>3. QED
    BY <2>1, <2>2, NatSetInduction
<1>11. QED
  BY <1>7, <1>8, <1>9, <1>10

\* When an open node of the finish is as good as any, no way there is shorter.
LEMMA NoShorter ==
    ASSUME NEW plan, NEW start \in Cells, NEW finish \in Cells, NEW closed, NEW open,
           closed \subseteq Nodes, open \subseteq Nodes, NEW y \in open, y.coord = finish,
           \A n \in closed : n.coord # finish,
           Tight(plan, start, finish, closed, open, getF(y)),
           NEW n \in Nat, finish \in Within(plan, start, n)
    PROVE  y.g <= n
<1> DEFINE shut(d, k) == Costs(closed, d, k)
           far(d, k)  == getF(y) <= k + Estimate(d, finish)
           T == {k \in Nat : \A d \in Within(plan, start, k) : shut(d, k) \/ far(d, k)}
<1>1. /\ y.g \in Nat /\ getF(y) = y.g /\ getF(y) \in Nat
      /\ Estimate(finish, finish) = 0 /\ \A d \in Cells : Estimate(d, finish) \in Nat
  <2>1. y.g \in Nat /\ y.h \in Nat /\ getF(y) = y.g + y.h
    BY NodeParts
  <2>2. y.h = 0
    BY Estimates DEF Tight
  <2>3. QED
    BY <2>1, <2>2, Estimates
<1>2. ASSUME NEW d \in Cells, NEW k \in Nat, Costs(closed \cup open, d, k)
      PROVE  shut(d, k) \/ far(d, k)
  <2>1. PICK m \in closed \cup open : m.coord = d /\ m.g <= k
    BY <1>2 DEF Costs
  <2>2. CASE m \in closed
    BY <2>1, <2>2 DEF Costs
  <2>3. CASE m \in open
    <3>1. m.h = Estimate(d, finish) /\ getF(m) \in {getF(y), getF(y) + 2}
      BY <2>1, <2>3 DEF Tight
    <3>2. m.g \in Nat /\ m.h \in Nat /\ getF(m) = m.g + m.h
      BY <2>3, NodeParts
    <3>3. far(d, k)
      BY <1>1, <2>1, <3>1, <3>2
    <3>4. QED
      BY <3>3
  <2>4. QED
    BY <2>2, <2>3
<1>3. 0 \in T
  <2>1. Within(plan, start, 0) = {start}
    BY WithinSteps
  <2>2. shut(start, 0) \/ far(start, 0)
    BY <1>2 DEF Tight
  <2>3. QED
    BY <2>1, <2>2
<1>4. ASSUME NEW k \in T
      PROVE  k + 1 \in T
  <2>1. k \in Nat /\ \A d \in Within(plan, start, k) : shut(d, k) \/ far(d, k)
    OBVIOUS
  <2>2. SUFFICES ASSUME NEW d \in Within(plan, start, k + 1)
                 PROVE  shut(d, k + 1) \/ far(d, k + 1)
    BY <2>1
  <2>3. /\ Within(plan, start, k) \subseteq Cells /\ d \in Cells
        /\ \/ d \in Within(plan, start, k)
           \/ isTransitable(plan, d) /\ \E b \in Within(plan, start, k) : Adjacent(b, d)
    <3>1. k + 1 \in Nat
      BY <2>1
    <3>2. Within(plan, start, k) \subseteq Cells /\ d \in Cells
      BY <2>1, <3>1, WithinSteps
    <3>3. QED
      BY <2>1, <3>2, WithinSteps
  <2>4. ASSUME NEW c \in Cells, shut(c, k)
        PROVE  \E m \in closed : m.coord = c /\ m.g <= k /\ m.g \in Nat
    BY <2>4, NodeParts DEF Costs
  <2>5. CASE d \in Within(plan, start, k)
    <3>1. CASE shut(d, k)
      <4>1. PICK m \in closed : m.coord = d /\ m.g <= k /\ m.g \in Nat
        BY <2>3, <2>4, <3>1
      <4>2. m.g <= k + 1
        BY <2>1, <4>1
      <4>3. QED
        BY <4>1, <4>2 DEF Costs
    <3>2. CASE far(d, k)
      BY <1>1, <2>1, <2>3, <3>2
    <3>3. QED
      BY <2>1, <2>5, <3>1, <3>2
  <2>6. ASSUME isTransitable(plan, d), NEW b \in Within(plan, start, k), Adjacent(b, d)
        PROVE  shut(d, k + 1) \/ far(d, k + 1)
    <3>1. b \in Cells
      BY <2>3
    <3>2. CASE shut(b, k)
      <4>1. PICK m \in closed : m.coord = b /\ m.g <= k /\ m.g \in Nat
        BY <2>4, <3>1, <3>2
      <4>2. Costs(closed \cup open, d, m.g + 1)
        BY <2>3, <2>6, <4>1 DEF Tight
      <4>3. PICK e \in closed \cup open : e.coord = d /\ e.g <= m.g + 1
        BY <4>2 DEF Costs
      <4>4. e.g \in Nat
        BY NodeParts
      <4>5. e.g <= k + 1
        BY <2>1, <4>1, <4>3, <4>4
      <4>6. Costs(closed \cup open, d, k + 1)
        BY <4>3, <4>5 DEF Costs
      <4>7. k + 1 \in Nat
        BY <2>1
      <4>8. QED
        BY <1>2, <2>3, <4>6, <4>7
    <3>3. CASE far(b, k)
      <4>1. Estimate(b, finish) <= Estimate(d, finish) + 1
        <5>1. Estimate(d, finish) = Estimate(b, finish) + 1 \/ Estimate(d, finish) = Estimate(b, finish) - 1
          BY <2>3, <2>6, <3>1, Estimates
        <5>2. QED
          BY <1>1, <2>3, <3>1, <5>1
      <4>2. QED
        BY <1>1, <2>1, <2>3, <3>1, <3>3, <4>1
    <3>4. QED
      BY <2>1, <3>2, <3>3
  <2>7. QED
    BY <2>3, <2>5, <2>6
<1>5. Nat \subseteq T
  <2>1. T \subseteq Nat
    OBVIOUS
  <2> HIDE DEF T
  <2>2. QED
    BY <1>3, <1>4, <2>1, NatSetInduction
<1>6. shut(finish, n) \/ far(finish, n)
  <2>1. n \in T
    BY <1>5, Zenon
  <2>2. QED
    BY <2>1
<1>7. ~shut(finish, n)
  BY DEF Costs
<1>8. QED
  BY <1>1, <1>6, <1>7

\* The closed nodes cost what their fathers say, and no way to the finish is shorter than
\* what its node costs.
Nearest(plan, start, finish, closed) ==
    /\ \A n \in closed : Settled(start, closed, n)
    /\ \A n \in closed : n.coord = finish =>
          \A k \in Nat : finish \in Within(plan, start, k) => n.g <= k

\* What holds of the costs after every round.
CostsOK(plan, start, finish, s) ==
    /\ ~s.found /\ s.openList # <<>> =>
          Tight(plan, start, finish, Members(s.closeList), Members(s.openList), getF(s.current))
    /\ s.found => Nearest(plan, start, finish, Members(s.closeList))

\* A round keeps it.
LEMMA RoundCosts ==
    ASSUME NEW plan, NEW start \in Cells, NEW finish \in Cells, NEW s,
           SearchOK(plan, start, finish, s), s.openList # <<>>, ~s.found,
           CostsOK(plan, start, finish, s)
    PROVE  CostsOK(plan, start, finish, Round(plan, finish, s))
<1> DEFINE t      == Round(plan, finish, s)
           y      == t.current
           closed == Members(s.closeList) \cup {s.current}
           open   == Members(t.openList)
<1>2. Tight(plan, start, finish, Members(s.closeList), Members(s.openList), getF(s.current))
  BY DEF CostsOK
<1>3. /\ closed \subseteq Nodes /\ \A n \in closed : n.coord # finish
      /\ t.found <=> t.openList # <<>> /\ y.coord = finish
      /\ Members(t.closeList) = IF t.found THEN closed \cup {y} ELSE closed
      /\ t.openList # <<>> => y \in open /\ open \subseteq Nodes
                              /\ Tight(plan, start, finish, closed, open, getF(y))
  BY <1>2, RoundTight
<1> HIDE DEF t, closed
<1>4. ASSUME ~t.found, t.openList # <<>>
      PROVE  Tight(plan, start, finish, Members(t.closeList), Members(t.openList), getF(t.current))
  BY <1>3, <1>4
<1>5. ASSUME t.found
      PROVE  Nearest(plan, start, finish, Members(t.closeList))
  <2>1. /\ y \in open /\ open \subseteq Nodes /\ y.coord = finish
        /\ Tight(plan, start, finish, closed, open, getF(y))
        /\ Members(t.closeList) = closed \cup {y}
    BY <1>3, <1>5
  <2>2. \A n \in closed \cup {y} : Settled(start, closed \cup {y}, n)
    BY <2>1 DEF Tight, Settled
  <2>3. \A k \in Nat : finish \in Within(plan, start, k) => y.g <= k
    BY <1>3, <2>1, NoShorter
  <2>4. QED
    BY <1>3, <2>1, <2>2, <2>3 DEF Nearest
<1>6. QED
  BY <1>4, <1>5 DEF CostsOK, t

\* The search that closes the finish has found what it costs.
LEMMA SearchNearest ==
    ASSUME NEW plan, NEW start \in Cells, NEW finish \in Cells, start # finish,
           isTransitable(plan, start), Has(Search(plan, start, finish), finish)
    PROVE  Nearest(plan, start, finish, Members(Search(plan, start, finish)))
<1>1. PICK round : /\ Rounds(plan, start, finish, round)
                   /\ Search(plan, start, finish) = round[Size * Size].closeList
  BY SearchIsRounds
<1>2. round[0] = First(start, finish)
  BY <1>1 DEF Rounds
<1>3. \A n \in Nat :
         round[n + 1] = IF Over(round[n]) THEN round[n] ELSE Round(plan, finish, round[n])
  <2>1. SUFFICES ASSUME NEW n \in Nat
                 PROVE  round[n + 1] = IF Over(round[n]) THEN round[n]
                                       ELSE Round(plan, finish, round[n])
    OBVIOUS
  <2>2. n + 1 \in Nat /\ n + 1 # 0 /\ (n + 1) - 1 = n
    OBVIOUS
  <2>3. QED
    BY <1>1, <2>2, Zenon DEF Rounds
<1> DEFINE T == {n \in Nat : CostsOK(plan, start, finish, round[n])}
<1>4. Nat \subseteq T
  <2>1. T \subseteq Nat
    OBVIOUS
  <2>2. 0 \in T
    <3>1. Tight(plan, start, finish, Members(round[0].closeList),
                Members(round[0].openList), getF(round[0].current))
      BY <1>2, FirstTight
    <3>2. round[0].found = FALSE
      BY <1>2 DEF First
    <3>3. QED
      BY <3>1, <3>2 DEF CostsOK
  <2>3. ASSUME NEW n \in T
        PROVE  n + 1 \in T
    <3>1. n \in Nat /\ CostsOK(plan, start, finish, round[n])
      OBVIOUS
    <3>2. SearchOK(plan, start, finish, round[n])
      BY <1>1, <3>1, RoundsOK
    <3>3. CostsOK(plan, start, finish, round[n + 1])
      <4>1. CASE Over(round[n])
        BY <1>3, <3>1, <4>1
      <4>2. CASE ~Over(round[n])
        BY <1>3, <3>1, <3>2, <4>2, RoundCosts DEF Over
      <4>3. QED
        BY <4>1, <4>2
    <3>4. QED
      BY <3>1, <3>3
  <2> HIDE DEF T
  <2>4. QED
    BY <2>1, <2>2, <2>3, NatSetInduction
<1>5. PICK s : s = round[Size * Size]
  OBVIOUS
<1>6. CostsOK(plan, start, finish, s) /\ SearchOK(plan, start, finish, s)
  <2>1. Size * Size \in Nat
    BY FloorAssumption
  <2>2. QED
    BY <1>1, <1>4, <1>5, <2>1, RoundsOK
<1>7. s.found
  BY <1>1, <1>5, <1>6 DEF SearchOK, Searching
<1>8. QED
  BY <1>1, <1>5, <1>6, <1>7 DEF CostsOK

-----------------------------------------------------------------------------
\* The way.

FatherOf(list, c) == list[searchNode(list, c)].father

\* c comes right before d on a way along the list.
Leads(list, c, d) ==
    /\ Has(list, c) /\ Has(list, d) /\ Adjacent(c, d) /\ searchNode(list, c) < searchNode(list, d)
    /\ c = FatherOf(list, d)

\* A part of the way, up to finish.
Partial(list, finish, w) ==
    /\ w \in Seq(Cells) /\ Len(w) >= 1 /\ w[Len(w)] = finish
    /\ Has(list, w[1]) /\ searchNode(list, w[1]) + Len(w) - 1 <= Len(list)
    /\ \A k \in 1..(Len(w) - 1) : Leads(list, w[k], w[k + 1])

\* The father of a closed node was closed before it.
LEMMA FatherLeads ==
    ASSUME NEW plan, NEW start, NEW list \in Seq(Nodes), Distinct(list),
           Descends(plan, start, list), NEW c, Has(list, c), c # start
    PROVE  FatherOf(list, c) \in Cells /\ Leads(list, FatherOf(list, c), c)
<1> DEFINE j == searchNode(list, c)
           f == list[j].father
<1>1. j \in DOMAIN list /\ list[j].coord = c
  BY SearchNode
<1>2. FatherOf(list, c) = f
  BY DEF FatherOf
<1>3. f \in Cells
  <2>1. list[j] \in Nodes
    BY <1>1
  <2>2. QED
    BY <2>1 DEF Nodes
<1> HIDE DEF j
<1>4. PICK m \in 1..(j - 1) : list[m].coord = f /\ Adjacent(f, c)
  BY <1>1 DEF Descends
<1>5. m \in DOMAIN list /\ m < j
  BY <1>1
<1>6. Has(list, f)
  BY <1>4, <1>5 DEF Has
<1>7. searchNode(list, f) = m
  BY <1>4, <1>5, SearchDistinct
<1>8. QED
  BY <1>2, <1>3, <1>4, <1>5, <1>6, <1>7 DEF Leads, j

\* One more cell at the head of a part.
LEMMA PartialLonger ==
    ASSUME NEW plan, NEW start, NEW finish, NEW list \in Seq(Nodes), Distinct(list),
           Descends(plan, start, list), NEW w, Partial(list, finish, w), Head(w) # start
    PROVE  /\ Partial(list, finish, <<FatherOf(list, Head(w))>> \o w)
           /\ Len(<<FatherOf(list, Head(w))>> \o w) = Len(w) + 1
<1> DEFINE f == FatherOf(list, Head(w))
           v == <<f>> \o w
<1>1. w \in Seq(Cells) /\ Len(w) \in Nat /\ Len(w) >= 1 /\ Head(w) = w[1]
  BY DEF Partial
<1>2. f \in Cells /\ Leads(list, f, w[1])
  BY <1>1, FatherLeads DEF Partial
<1> HIDE DEF f
<1>3. <<f>> \in Seq(Cells) /\ Len(<<f>>) = 1 /\ <<f>>[1] = f
  BY <1>2
<1>4. /\ v \in Seq(Cells) /\ Len(v) = Len(w) + 1
      /\ \A k \in 1..(1 + Len(w)) : v[k] = IF k <= 1 THEN <<f>>[k] ELSE w[k - 1]
  BY <1>1, <1>3, ConcatProperties
<1> HIDE DEF v
<1>5. v[1] = f /\ \A k \in 1..Len(w) : v[k + 1] = w[k]
  <2>1. 1 \in 1..(1 + Len(w))
    BY <1>1
  <2>2. ASSUME NEW k \in 1..Len(w)
        PROVE  v[k + 1] = w[k]
    <3>1. k + 1 \in 1..(1 + Len(w)) /\ ~(k + 1 <= 1) /\ (k + 1) - 1 = k
      BY <1>1
    <3>2. QED
      BY <1>4, <3>1
  <2>3. QED
    BY <1>3, <1>4, <2>1, <2>2
<1>6. v[Len(v)] = finish
  BY <1>1, <1>4, <1>5 DEF Partial
<1>7. searchNode(list, v[1]) + Len(v) - 1 <= Len(list) /\ Has(list, v[1])
  <2>1. searchNode(list, f) < searchNode(list, w[1]) /\ Has(list, f)
    BY <1>2 DEF Leads
  <2>2. searchNode(list, f) \in Int /\ searchNode(list, w[1]) \in Int
    BY SearchNode
  <2>3. searchNode(list, w[1]) + Len(w) - 1 <= Len(list)
    BY DEF Partial
  <2>4. Len(list) \in Nat
    OBVIOUS
  <2>5. QED
    BY <1>1, <1>4, <1>5, <2>1, <2>2, <2>3, <2>4
<1>8. ASSUME NEW k \in 1..(Len(v) - 1)
      PROVE  Leads(list, v[k], v[k + 1])
  <2>1. k \in 1..Len(w)
    BY <1>1, <1>4
  <2>2. CASE k = 1
    BY <1>2, <1>5, <2>1, <2>2
  <2>3. CASE k # 1
    <3>1. k - 1 \in 1..(Len(w) - 1) /\ k - 1 \in 1..Len(w) /\ (k - 1) + 1 = k
      BY <1>1, <2>1, <2>3
    <3>2. v[k] = w[k - 1] /\ v[k + 1] = w[k]
      BY <1>5, <2>1, <3>1
    <3>3. Leads(list, w[k - 1], w[(k - 1) + 1])
      BY <3>1 DEF Partial
    <3>4. QED
      BY <3>1, <3>2, <3>3
  <2>4. QED
    BY <2>2, <2>3
<1>9. Partial(list, finish, v)
  BY <1>1, <1>4, <1>6, <1>7, <1>8 DEF Partial
<1>10. QED
  BY <1>4, <1>9 DEF f, v

\* The way as a function on the numbers.
Backs(list, start, finish, way) ==
    way = [n \in Nat |-> IF n = 0 THEN <<finish>>
                         ELSE IF Head(way[n - 1]) = start THEN way[n - 1]
                         ELSE <<FatherOf(list, Head(way[n - 1]))>> \o way[n - 1]]

\* The way is such a function.
LEMMA WayBacks ==
    ASSUME NEW plan, NEW start \in Cells, NEW finish \in Cells, NEW list \in Seq(Nodes),
           Distinct(list), Descends(plan, start, list), Has(list, finish)
    PROVE  \E way : /\ Backs(list, start, finish, way)
                    /\ Way(list, start, finish) = Tail(way[Len(list)])
                    /\ Partial(list, finish, <<finish>>)
<1> DEFINE body(h) ==
               [n \in Nat |-> IF n = 0 THEN <<finish>>
                              ELSE IF Head(h[n - 1]) = start THEN h[n - 1]
                              ELSE <<FatherOf(list, Head(h[n - 1]))>> \o h[n - 1]]
           S == {w \in Seq(Cells) : Partial(list, finish, w)}
           on(w) == IF Head(w) = start THEN w ELSE <<FatherOf(list, Head(w))>> \o w
           g == [p \in Nat \X S |-> on(p[2])]
<1>1. Partial(list, finish, <<finish>>) /\ <<finish>> \in S
  <2>1. <<finish>> \in Seq(Cells) /\ Len(<<finish>>) = 1 /\ <<finish>>[1] = finish
    OBVIOUS
  <2>2. searchNode(list, finish) <= Len(list) /\ searchNode(list, finish) \in Int
    BY SearchNode
  <2>3. searchNode(list, finish) + Len(<<finish>>) - 1 <= Len(list)
    BY <2>1, <2>2
  <2>4. 1..(Len(<<finish>>) - 1) = {}
    BY <2>1
  <2>5. QED
    BY <2>1, <2>3, <2>4 DEF Partial
<1>2. g \in [Nat \X S -> S]
  <2>1. ASSUME NEW w \in S
        PROVE  on(w) \in S
    <3>1. Partial(list, finish, w)
      OBVIOUS
    <3>2. CASE Head(w) = start
      BY <3>2
    <3>3. CASE Head(w) # start
      <4>1. Partial(list, finish, on(w))
        BY <3>1, <3>3, PartialLonger
      <4>2. on(w) \in Seq(Cells)
        BY <4>1 DEF Partial
      <4>3. QED
        BY <4>1, <4>2
    <3>4. QED
      BY <3>2, <3>3
  <2>2. QED
    BY <2>1
<1>3. \A n \in Nat, w \in S : g[<<n, w>>] = on(w)
  OBVIOUS
<1> HIDE DEF g, S
<1>4. PICK f : Unrolls(f, S, <<finish>>, g)
  BY <1>1, <1>2, Recursion
<1>5. /\ f \in [Nat -> S] /\ f[0] = <<finish>>
      /\ \A n \in Nat : f[n + 1] = g[<<n, f[n]>>]
  BY <1>4 DEF Unrolls
<1>6. f = body(f)
  <2>1. f = [n \in Nat |-> f[n]]
    BY <1>5
  <2>2. ASSUME NEW n \in Nat, n # 0
        PROVE  f[n] = on(f[n - 1])
    <3>1. n - 1 \in Nat /\ (n - 1) + 1 = n
      BY <2>2
    <3>2. f[n] = g[<<n - 1, f[n - 1]>>] /\ f[n - 1] \in S
      BY <1>5, <3>1
    <3>3. QED
      BY <1>3, <3>1, <3>2
  <2>3. QED
    BY <1>5, <2>1, <2>2
<1> DEFINE way == CHOOSE h : h = body(h)
<1>7. way = body(way)
  <2> HIDE DEF body
  <2>1. QED
    BY <1>6
<1>8. Way(list, start, finish) = Tail(way[Len(list)])
  BY Zenon DEF Way, FatherOf
<1> HIDE DEF way
<1>9. Backs(list, start, finish, way)
  BY <1>7 DEF Backs
<1>10. QED
  BY <1>1, <1>8, <1>9

\* The cell that the way reaches with its kth step.
Stop(way, start, k) == IF k = 0 THEN start ELSE way[k]

\* A way over free cells, without a step back.
WayOK(plan, start, finish, way) ==
    /\ way \in Seq(Cells)
    /\ Stop(way, start, Len(way)) = finish
    /\ \A k \in 1..Len(way) : /\ Adjacent(Stop(way, start, k - 1), Stop(way, start, k))
                              /\ isTransitable(plan, way[k])
    /\ \A k \in 2..Len(way) : Stop(way, start, k - 2) # Stop(way, start, k)

\* The way from the start is one.
LEMMA WayIsOK ==
    ASSUME NEW plan, NEW start \in Cells, NEW finish \in Cells, NEW list \in Seq(Nodes),
           Distinct(list), Descends(plan, start, list), Has(list, finish)
    PROVE  LET steps == Way(list, start, finish)
           IN  /\ WayOK(plan, start, finish, steps)
               /\ Len(steps) < Len(list)
               /\ \A k \in 1..Len(steps) : Leads(list, Stop(steps, start, k - 1), Stop(steps, start, k))
<1>1. PICK way : /\ Backs(list, start, finish, way)
                 /\ Way(list, start, finish) = Tail(way[Len(list)])
                 /\ Partial(list, finish, <<finish>>)
  BY WayBacks
<1>2. way[0] = <<finish>>
  BY <1>1 DEF Backs
<1>3. \A n \in Nat :
         way[n + 1] = IF Head(way[n]) = start THEN way[n]
                      ELSE <<FatherOf(list, Head(way[n]))>> \o way[n]
  <2>1. SUFFICES ASSUME NEW n \in Nat
                 PROVE  way[n + 1] = IF Head(way[n]) = start THEN way[n]
                                     ELSE <<FatherOf(list, Head(way[n]))>> \o way[n]
    OBVIOUS
  <2>2. n + 1 \in Nat /\ n + 1 # 0 /\ (n + 1) - 1 = n
    OBVIOUS
  <2>3. QED
    BY <1>1, <2>2, Zenon DEF Backs
<1> DEFINE good(n) == Partial(list, finish, way[n]) /\ (Head(way[n]) = start \/ Len(way[n]) = n + 1)
           T == {n \in Nat : good(n)}
<1>4. 0 \in T
  BY <1>1, <1>2
<1>5. ASSUME NEW n \in T
      PROVE  n + 1 \in T
  <2>1. n \in Nat /\ Partial(list, finish, way[n]) /\ (Head(way[n]) = start \/ Len(way[n]) = n + 1)
    OBVIOUS
  <2>5. way[n + 1] = IF Head(way[n]) = start THEN way[n]
                     ELSE <<FatherOf(list, Head(way[n]))>> \o way[n]
    BY <1>3, <2>1, Zenon
  <2>6. n + 1 \in Nat
    OBVIOUS
  <2>2. CASE Head(way[n]) = start
    <3>1. way[n + 1] = way[n]
      BY <2>2, <2>5
    <3>2. QED
      BY <2>1, <2>2, <2>6, <3>1
  <2>3. CASE Head(way[n]) # start
    <3>1. way[n + 1] = <<FatherOf(list, Head(way[n]))>> \o way[n]
      BY <2>3, <2>5
    <3>2. Partial(list, finish, way[n + 1]) /\ Len(way[n + 1]) = Len(way[n]) + 1
      BY <2>1, <2>3, <3>1, PartialLonger
    <3>3. Len(way[n + 1]) = (n + 1) + 1
      BY <2>1, <2>3, <3>2
    <3>4. QED
      BY <2>6, <3>2, <3>3
  <2>4. QED
    BY <2>2, <2>3
<1>6. Nat \subseteq T
  <2>1. T \subseteq Nat
    OBVIOUS
  <2> HIDE DEF T
  <2>2. QED
    BY <1>4, <1>5, <2>1, NatSetInduction
<1>7. PICK w : w = way[Len(list)]
  OBVIOUS
<1>8. Partial(list, finish, w) /\ (Head(w) = start \/ Len(w) = Len(list) + 1)
  <2>1. Len(list) \in Nat
    OBVIOUS
  <2>2. Len(list) \in T
    BY <1>6, <2>1, Zenon
  <2>3. QED
    BY <1>7, <2>2
<1>9. w \in Seq(Cells) /\ Len(w) \in Nat /\ Len(w) >= 1 /\ Head(w) = w[1]
  BY <1>8 DEF Partial
<1>10. Head(w) = start
  <2>5. Has(list, w[1])
    BY <1>8 DEF Partial
  <2>1. searchNode(list, w[1]) # 0 /\ searchNode(list, w[1]) \in 0..Len(list) /\ Len(list) \in Nat
    BY <2>5, SearchNode
  <2>2. searchNode(list, w[1]) + Len(w) - 1 <= Len(list)
    BY <1>8 DEF Partial
  <2>3. Len(w) # Len(list) + 1
    BY <1>9, <2>1, <2>2
  <2>4. QED
    BY <1>8, <2>3
<1> DEFINE steps == Tail(w)
<1>11. Way(list, start, finish) = steps
  BY <1>1, <1>7
<1>12. /\ steps \in Seq(Cells) /\ Len(steps) = Len(w) - 1
       /\ \A k \in 1..(Len(w) - 1) : steps[k] = w[k + 1]
  BY <1>9
<1> HIDE DEF steps
<1>13. \A k \in 0..(Len(w) - 1) : Stop(steps, start, k) = w[k + 1]
  <2>1. ASSUME NEW k \in 0..(Len(w) - 1)
        PROVE  Stop(steps, start, k) = w[k + 1]
    <3>1. CASE k = 0
      BY <1>9, <1>10, <3>1 DEF Stop
    <3>2. CASE k # 0
      BY <1>12, <3>2 DEF Stop
    <3>3. QED
      BY <3>1, <3>2
  <2>2. QED
    BY <2>1
<1>14. Stop(steps, start, Len(steps)) = finish
  <2>1. Len(w) - 1 \in 0..(Len(w) - 1) /\ (Len(w) - 1) + 1 = Len(w)
    BY <1>9
  <2>2. QED
    BY <1>8, <1>12, <1>13, <2>1 DEF Partial
<1>15. ASSUME NEW k \in 1..Len(steps)
       PROVE  /\ Adjacent(Stop(steps, start, k - 1), Stop(steps, start, k))
              /\ isTransitable(plan, steps[k])
              /\ Leads(list, Stop(steps, start, k - 1), Stop(steps, start, k))
  <2>1. k \in 1..(Len(w) - 1) /\ k - 1 \in 0..(Len(w) - 1) /\ k \in 0..(Len(w) - 1) /\ (k - 1) + 1 = k
    BY <1>9, <1>12
  <2>2. Leads(list, w[k], w[k + 1])
    BY <1>8, <2>1 DEF Partial
  <2>3. Stop(steps, start, k - 1) = w[k] /\ Stop(steps, start, k) = w[k + 1] /\ steps[k] = w[k + 1]
    BY <1>12, <1>13, <2>1
  <2>4. isTransitable(plan, w[k + 1])
    BY <2>2 DEF Leads, Has, Descends
  <2>5. QED
    BY <2>2, <2>3, <2>4 DEF Leads
<1>16. ASSUME NEW k \in 2..Len(steps)
       PROVE  Stop(steps, start, k - 2) # Stop(steps, start, k)
  <2>1. /\ k \in 1..(Len(w) - 1) /\ k - 1 \in 1..(Len(w) - 1)
        /\ k - 2 \in 0..(Len(w) - 1) /\ k \in 0..(Len(w) - 1)
        /\ (k - 1) + 1 = k /\ (k - 2) + 1 = k - 1
    BY <1>9, <1>12
  <2>2. Leads(list, w[k], w[k + 1]) /\ Leads(list, w[k - 1], w[k])
    BY <1>8, <2>1 DEF Partial
  <2>3. Stop(steps, start, k - 2) = w[k - 1] /\ Stop(steps, start, k) = w[k + 1]
    BY <1>13, <2>1
  <2>4. /\ searchNode(list, w[k - 1]) < searchNode(list, w[k])
        /\ searchNode(list, w[k]) < searchNode(list, w[k + 1])
    BY <2>2 DEF Leads
  <2>5. searchNode(list, w[k - 1]) # searchNode(list, w[k + 1])
    <3>1. searchNode(list, w[k - 1]) \in Int /\ searchNode(list, w[k]) \in Int
          /\ searchNode(list, w[k + 1]) \in Int
      BY SearchNode
    <3>2. QED
      BY <2>4, <3>1
  <2>6. QED
    BY <2>3, <2>5
<1>17. Len(steps) < Len(list)
  <2>1. Has(list, w[1]) /\ searchNode(list, w[1]) + Len(w) - 1 <= Len(list)
    BY <1>8 DEF Partial
  <2>2. searchNode(list, w[1]) # 0 /\ searchNode(list, w[1]) \in 0..Len(list) /\ Len(list) \in Nat
    BY <2>1, SearchNode
  <2>3. QED
    BY <1>9, <1>12, <2>1, <2>2
<1>18. QED
  BY <1>11, <1>12, <1>14, <1>15, <1>16, <1>17 DEF WayOK

\* The way is as long as the node of the finish says.
LEMMA WayCost ==
    ASSUME NEW plan, NEW start \in Cells, NEW finish \in Cells, NEW list \in Seq(Nodes),
           Distinct(list), Descends(plan, start, list),
           \A n \in Members(list) : Settled(start, Members(list), n),
           NEW node \in Members(list), node.coord = finish
    PROVE  Len(Way(list, start, finish)) = node.g
<1> DEFINE cell(way, k) == Stop(way, start, k)
<1>1. PICK way : way = Way(list, start, finish)
  OBVIOUS
<1>2. Has(list, finish)
  BY MembersAre
<1>3. /\ WayOK(plan, start, finish, way)
      /\ \A k \in 1..Len(way) : Leads(list, cell(way, k - 1), cell(way, k))
  BY <1>1, <1>2, WayIsOK
<1>4. way \in Seq(Cells) /\ Len(way) \in Nat
      /\ cell(way, 0) = start /\ cell(way, Len(way)) = finish
  BY <1>3 DEF WayOK, Stop
<1> DEFINE at(c)   == searchNode(list, c)
           good(k) == \A m \in Members(list) : m.coord = cell(way, k) =>
                         m.g = k /\ at(m.coord) >= at(start) + k
           T == {k \in Nat : k <= Len(way) => good(k)}
<1>5. 0 \in T
  <2>1. \A m \in Members(list) : m.coord = start => m.g = 0
    BY DEF Settled
  <2>2. at(start) >= at(start) + 0
    <3>1. at(start) \in Int
      BY SearchNode
    <3>2. QED
      BY <3>1
  <2>3. QED
    BY <1>4, <2>1, <2>2
<1> HIDE DEF cell
<1>6. ASSUME NEW k \in T
      PROVE  k + 1 \in T
  <2>1. k \in Nat /\ (k <= Len(way) => good(k))
    OBVIOUS
  <2>2. SUFFICES ASSUME k + 1 <= Len(way), NEW m \in Members(list), m.coord = cell(way, k + 1)
                 PROVE  m.g = k + 1 /\ at(m.coord) >= at(start) + (k + 1)
    BY <2>1
  <2>3. good(k) /\ k + 1 \in 1..Len(way) /\ (k + 1) - 1 = k
    BY <1>4, <2>1, <2>2
  <2>4. Leads(list, cell(way, k), m.coord)
    BY <1>3, <2>2, <2>3
  <2>5. /\ at(start) \in Int /\ at(m.coord) \in 1..Len(list) /\ at(cell(way, k)) \in Int
        /\ at(cell(way, k)) < at(m.coord) /\ list[at(m.coord)] = m
    <3>1. at(m.coord) \in 0..Len(list) /\ at(m.coord) # 0 /\ list[at(m.coord)].coord = m.coord
      BY <2>4, SearchNode DEF Leads
    <3>2. at(m.coord) \in 1..Len(list) /\ list[at(m.coord)] \in Members(list)
      BY <3>1 DEF Members
    <3>3. list[at(m.coord)] = m
      BY <3>1, <3>2, MembersAre
    <3>4. QED
      BY <2>4, <3>2, <3>3, SearchNode DEF Leads
  <2>6. PICK f \in Members(list) : f.coord = cell(way, k)
    BY <2>4, MembersAre DEF Leads
  <2>7. f.g = k /\ at(cell(way, k)) >= at(start) + k
    BY <2>3, <2>6
  <2> HIDE DEF at
  <2>8. at(m.coord) >= at(start) + (k + 1)
    BY <2>1, <2>5, <2>7
  <2>9. m.coord # start
    BY <2>1, <2>5, <2>8
  <2>10. m.father = cell(way, k)
    BY <2>4, <2>5 DEF Leads, FatherOf, at
  <2>11. \E e \in Members(list) : e.coord = cell(way, k) /\ m.g = e.g + 1
    BY <2>9, <2>10 DEF Settled
  <2>12. m.g = k + 1
    BY <2>3, <2>11
  <2>13. QED
    BY <2>8, <2>12
<1>7. Nat \subseteq T
  <2>1. T \subseteq Nat
    OBVIOUS
  <2> HIDE DEF T
  <2>2. QED
    BY <1>5, <1>6, <2>1, NatSetInduction
<1>8. good(Len(way))
  <2>1. Len(way) \in T
    BY <1>4, <1>7, Zenon
  <2>2. QED
    BY <1>4, <2>1
<1>9. QED
  BY <1>1, <1>4, <1>8

\* A way of n moves leads to a cell within n moves, and within any more.
LEMMA WayIsWithin ==
    ASSUME NEW plan, NEW start \in Cells, NEW finish, NEW way, WayOK(plan, start, finish, way),
           NEW n \in Nat, Len(way) <= n
    PROVE  finish \in Within(plan, start, n)
<1> DEFINE m == Len(way)
           T == {k \in Nat : k <= m => Stop(way, start, k) \in Within(plan, start, k)}
           U == {k \in Nat : finish \in Within(plan, start, m + k)}
<1>1. way \in Seq(Cells) /\ m \in Nat /\ Stop(way, start, m) = finish
  BY DEF WayOK
<1> HIDE DEF m
<1>2. Nat \subseteq T
  <2>1. T \subseteq Nat
    OBVIOUS
  <2>2. 0 \in T
    BY WithinSteps DEF Stop
  <2>3. ASSUME NEW k \in T
        PROVE  k + 1 \in T
    <3>1. k \in Nat /\ k + 1 \in Nat
      OBVIOUS
    <3>2. SUFFICES ASSUME k + 1 <= m
                   PROVE  Stop(way, start, k + 1) \in Within(plan, start, k + 1)
      BY <3>1
    <3>3. k <= m /\ k + 1 \in 1..m /\ (k + 1) - 1 = k /\ k + 1 # 0
      BY <1>1, <3>1, <3>2
    <3>4. Stop(way, start, k) \in Within(plan, start, k)
      BY <3>3
    <3>5. /\ Adjacent(Stop(way, start, k), Stop(way, start, k + 1))
          /\ isTransitable(plan, Stop(way, start, k + 1)) /\ Stop(way, start, k + 1) \in Cells
      BY <1>1, <3>3 DEF WayOK, Stop, m
    <3>6. QED
      BY <3>1, <3>4, <3>5, WithinSteps
  <2> HIDE DEF T
  <2>4. QED
    BY <2>1, <2>2, <2>3, NatSetInduction
<1>3. Nat \subseteq U
  <2>1. U \subseteq Nat
    OBVIOUS
  <2>2. 0 \in U
    <3>1. m \in T
      BY <1>1, <1>2, Zenon
    <3>2. m + 0 = m
      BY <1>1
    <3>3. QED
      BY <1>1, <3>1, <3>2
  <2>3. ASSUME NEW k \in U
        PROVE  k + 1 \in U
    <3>1. k \in Nat /\ m + k \in Nat /\ m + (k + 1) = (m + k) + 1
      BY <1>1
    <3>2. finish \in Within(plan, start, m + k)
      OBVIOUS
    <3>3. finish \in Cells
      BY <3>1, <3>2, WithinSteps
    <3>4. finish \in Within(plan, start, (m + k) + 1)
      BY <3>1, <3>2, <3>3, WithinSteps
    <3>5. QED
      BY <3>1, <3>4
  <2> HIDE DEF U
  <2>4. QED
    BY <2>1, <2>2, <2>3, NatSetInduction
<1>4. n - m \in Nat /\ m + (n - m) = n
  BY <1>1 DEF m
<1>5. n - m \in U
  BY <1>3, <1>4, Zenon
<1>6. QED
  BY <1>4, <1>5

-----------------------------------------------------------------------------
\* The road.

Moves == {FORWARD, TURNRIGHT, TURNLEFT, SPIN}

\* A way without a step back has no reversal.
LEMMA NoReversal ==
    ASSUME NEW a \in Cells, NEW b \in Cells, NEW c \in Cells, Adjacent(a, b), Adjacent(b, c), a # c
    PROVE  (Direction(b, c) - Direction(a, b)) % 4 # 2
<1>1. PICK x \in Int, y \in Int, u \in Int, v \in Int, s \in Int, t \in Int :
         a = <<x, y>> /\ b = <<u, v>> /\ c = <<s, t>>
  BY CellParts, FloorAssumption DEF Coordinates
<1>2. /\ b = <<x, y - 1>> \/ b = <<x, y + 1>> \/ b = <<x - 1, y>> \/ b = <<x + 1, y>>
      /\ c = <<u, v - 1>> \/ c = <<u, v + 1>> \/ c = <<u - 1, v>> \/ c = <<u + 1, v>>
  <2>1. a[1] = x /\ a[2] = y /\ b[1] = u /\ b[2] = v
    BY <1>1
  <2>2. QED
    BY <2>1, AdjacentParts
<1> DEFINE d(x1, y1, x2, y2) == IF y2 > y1 THEN 2 ELSE IF y2 < y1 THEN 4 ELSE IF x2 > x1 THEN 3 ELSE 1
<1>3. Direction(a, b) = d(x, y, u, v) /\ Direction(b, c) = d(u, v, s, t)
  BY <1>1 DEF Direction, NORTH, EAST, SOUTH, WEST
<1>4. /\ (u = x /\ v = y - 1) \/ (u = x /\ v = y + 1) \/ (u = x - 1 /\ v = y) \/ (u = x + 1 /\ v = y)
      /\ (s = u /\ t = v - 1) \/ (s = u /\ t = v + 1) \/ (s = u - 1 /\ t = v) \/ (s = u + 1 /\ t = v)
      /\ ~(x = s /\ y = t)
  BY <1>1, <1>2
<1>5. d(u, v, s, t) - d(x, y, u, v) \notin {2, -2}
  BY <1>4
<1>6. d(u, v, s, t) \in 1..4 /\ d(x, y, u, v) \in 1..4
  OBVIOUS
<1> HIDE DEF d
<1>7. \A m, n \in 1..4 : (m - n) % 4 = 2 => m - n \in {2, -2}
  OBVIOUS
<1>8. QED
  BY <1>3, <1>5, <1>6, <1>7

\* A turn is a sequence of actions.
LEMMA TurnToMoves ==
    ASSUME NEW from, NEW to
    PROVE  TurnTo(from, to) \in Seq(Moves) /\ Len(TurnTo(from, to)) <= 1
<1>1. /\ <<>> \in Seq(Moves) /\ <<TURNRIGHT>> \in Seq(Moves)
      /\ <<TURNLEFT>> \in Seq(Moves) /\ <<SPIN>> \in Seq(Moves)
  BY DEF Moves
<1>2. \/ TurnTo(from, to) = <<>> \/ TurnTo(from, to) = <<TURNRIGHT>>
      \/ TurnTo(from, to) = <<TURNLEFT>> \/ TurnTo(from, to) = <<SPIN>>
  BY DEF TurnTo
<1>3. TurnTo(from, to) \in Seq(Moves)
  BY <1>1, <1>2
<1>4. TurnTo(from, to) = <<>> => Len(TurnTo(from, to)) = 0
  OBVIOUS
<1>5. \A a : TurnTo(from, to) = <<a>> => Len(TurnTo(from, to)) = 1
  OBVIOUS
<1>6. Len(TurnTo(from, to)) \in {0, 1}
  BY <1>2, <1>4, <1>5
<1>7. \A l \in {0, 1} : l <= 1
  OBVIOUS
<1>8. QED
  BY <1>3, <1>6, <1>7, Zenon

Heading(way, start, k) ==
    IF k = 0 THEN NORTH ELSE Direction(Stop(way, start, k - 1), Stop(way, start, k))

\* The road as a function on the numbers.
Grows(way, start, path) ==
    path = [n \in Nat |-> IF n = 0 THEN <<>>
                          ELSE path[n - 1] \o Actions(Heading(way, start, n - 1), Heading(way, start, n))]

\* No heading on the way is the reverse of the one before, except perhaps the first.
LEMMA NoStepBack ==
    ASSUME NEW plan, NEW start \in Cells, NEW finish, NEW way, WayOK(plan, start, finish, way),
           NEW k \in 1..Len(way)
    PROVE  \/ (Heading(way, start, k) - Heading(way, start, k - 1)) % 4 # 2
           \/ Heading(way, start, k - 1) = NORTH
<1> DEFINE cell(n) == Stop(way, start, n)
<1>1. way \in Seq(Cells) /\ Len(way) \in Nat
  BY DEF WayOK
<1>2. \A n \in 0..Len(way) : cell(n) \in Cells
  BY <1>1 DEF Stop
<1>3. CASE k = 1
  BY <1>3 DEF Heading
<1>4. CASE k # 1
  <2>1. /\ k \in 2..Len(way) /\ k - 1 \in 1..Len(way)
        /\ k \in 0..Len(way) /\ k - 1 \in 0..Len(way) /\ k - 2 \in 0..Len(way)
        /\ (k - 1) - 1 = k - 2 /\ k # 0 /\ k - 1 # 0
    BY <1>1, <1>4
  <2>2. /\ cell(k) \in Cells /\ cell(k - 1) \in Cells /\ cell(k - 2) \in Cells
        /\ Adjacent(cell(k - 2), cell(k - 1)) /\ Adjacent(cell(k - 1), cell(k))
        /\ cell(k - 2) # cell(k)
    BY <1>2, <2>1 DEF WayOK
  <2>3. /\ Heading(way, start, k) = Direction(cell(k - 1), cell(k))
        /\ Heading(way, start, k - 1) = Direction(cell(k - 2), cell(k - 1))
    BY <2>1 DEF Heading
  <2>4. QED
    BY <2>2, <2>3, NoReversal
<1>5. QED
  BY <1>3, <1>4

\* The road is such a function.
LEMMA RoadGrows ==
    ASSUME NEW way, NEW start
    PROVE  \E path : /\ Grows(way, start, path)
                     /\ RoadAlong(way, start) =
                           path[Len(way)] \o TurnTo(Heading(way, start, Len(way)), NORTH)
<1> DEFINE more(n) == Actions(Heading(way, start, n), Heading(way, start, n + 1))
           body(h) == [n \in Nat |-> IF n = 0 THEN <<>>
                                     ELSE h[n - 1] \o Actions(Heading(way, start, n - 1), Heading(way, start, n))]
           S == Seq(Moves)
           g == [p \in Nat \X S |-> p[2] \o more(p[1])]
<1>1. g \in [Nat \X S -> S]
  <2>1. \A from, to : Actions(from, to) \in S
    <3>1. \A from, to : TurnTo(from, to) \in Seq(Moves)
      BY TurnToMoves
    <3>2. <<>> \in Seq(Moves) /\ <<FORWARD>> \in Seq(Moves)
      BY DEF Moves
    <3>3. QED
      BY <3>1, <3>2, ConcatProperties DEF Actions
  <2>2. \A n \in Nat, w \in S : w \o more(n) \in S
    BY <2>1, ConcatProperties
  <2> HIDE DEF S, more
  <2>3. QED
    BY <2>2
<1>2. \A n \in Nat, w \in S : g[<<n, w>>] = w \o more(n)
  OBVIOUS
<1>3. <<>> \in S
  OBVIOUS
<1> HIDE DEF g, S
<1>4. PICK f : Unrolls(f, S, <<>>, g)
  BY <1>1, <1>3, Recursion
<1>5. /\ f \in [Nat -> S] /\ f[0] = <<>>
      /\ \A n \in Nat : f[n + 1] = g[<<n, f[n]>>]
  BY <1>4 DEF Unrolls
<1>6. f = body(f)
  <2>1. f = [n \in Nat |-> f[n]]
    BY <1>5
  <2>2. ASSUME NEW n \in Nat, n # 0
        PROVE  f[n] = f[n - 1] \o Actions(Heading(way, start, n - 1), Heading(way, start, n))
    <3>1. n - 1 \in Nat /\ (n - 1) + 1 = n
      BY <2>2
    <3>2. f[n] = g[<<n - 1, f[n - 1]>>] /\ f[n - 1] \in S
      BY <1>5, <3>1
    <3>3. QED
      BY <1>2, <3>1, <3>2
  <2>3. QED
    BY <1>5, <2>1, <2>2
<1> DEFINE path == CHOOSE h : h = body(h)
<1>7. path = body(path)
  <2> HIDE DEF body
  <2>1. QED
    BY <1>6
<1>8. RoadAlong(way, start) = path[Len(way)] \o TurnTo(Heading(way, start, Len(way)), NORTH)
  BY Zenon DEF RoadAlong, Heading, Stop
<1> HIDE DEF path
<1>9. Grows(way, start, path)
  BY <1>7 DEF Grows
<1>10. QED
  BY <1>8, <1>9

\* A step of the way takes a turn and a drive at most.
LEMMA TwoActions ==
    ASSUME NEW from, NEW to
    PROVE  Actions(from, to) \in Seq(Moves) /\ Len(Actions(from, to)) <= 2
<1>1. /\ TurnTo(from, to) \in Seq(Moves) /\ Len(TurnTo(from, to)) <= 1
      /\ Len(TurnTo(from, to)) \in Nat
  BY TurnToMoves
<1>2. <<FORWARD>> \in Seq(Moves) /\ Len(<<FORWARD>>) = 1 /\ <<>> \in Seq(Moves) /\ Len(<<>>) = 0
  BY DEF Moves
<1> DEFINE both == TurnTo(from, to) \o <<FORWARD>>
<1>3. both \in Seq(Moves) /\ Len(both) = Len(TurnTo(from, to)) + 1
  BY <1>1, <1>2, ConcatProperties
<1>4. Actions(from, to) = <<>> \/ Actions(from, to) = both
  BY DEF Actions
<1> HIDE DEF both
<1>5. CASE Actions(from, to) = <<>>
  <2>1. Len(Actions(from, to)) = 0
    BY <1>5
  <2>2. QED
    BY <1>2, <1>5, <2>1
<1>6. CASE Actions(from, to) = both
  <2>1. Len(Actions(from, to)) = Len(TurnTo(from, to)) + 1
    BY <1>3, <1>6
  <2>2. QED
    BY <1>1, <1>3, <1>6, <2>1
<1>7. QED
  BY <1>4, <1>5, <1>6

\* A road is no longer than two actions for each step, and the last turn.
LEMMA RoadLength ==
    ASSUME NEW way, NEW start, Len(way) \in Nat
    PROVE  Len(RoadAlong(way, start)) <= 2 * Len(way) + 1
<1> DEFINE towards(k) == Heading(way, start, k)
           last == TurnTo(towards(Len(way)), NORTH)
<1>1. PICK path : Grows(way, start, path) /\ RoadAlong(way, start) = path[Len(way)] \o last
  BY RoadGrows
<1>2. path[0] = <<>>
  BY <1>1 DEF Grows
<1>3. \A n \in Nat : path[n + 1] = path[n] \o Actions(towards(n), towards(n + 1))
  <2>1. SUFFICES ASSUME NEW n \in Nat
                 PROVE  path[n + 1] = path[n] \o Actions(towards(n), towards(n + 1))
    OBVIOUS
  <2>2. n + 1 \in Nat /\ n + 1 # 0 /\ (n + 1) - 1 = n
    OBVIOUS
  <2>3. QED
    BY <1>1, <2>2, Zenon DEF Grows
<1> HIDE DEF towards
<1> DEFINE T == {n \in Nat : path[n] \in Seq(Moves) /\ Len(path[n]) <= 2 * n}
<1>4. 0 \in T
  <2>1. path[0] \in Seq(Moves) /\ Len(path[0]) = 0
    BY <1>2
  <2>2. Len(path[0]) <= 2 * 0
    BY <2>1
  <2>3. QED
    BY <2>1, <2>2
<1>5. ASSUME NEW n \in T
      PROVE  n + 1 \in T
  <2>1. n \in Nat /\ path[n] \in Seq(Moves) /\ Len(path[n]) <= 2 * n /\ Len(path[n]) \in Nat
    OBVIOUS
  <2>2. PICK more : more = Actions(towards(n), towards(n + 1))
    OBVIOUS
  <2>3. more \in Seq(Moves) /\ Len(more) <= 2 /\ Len(more) \in Nat
    BY <2>2, TwoActions
  <2>4. path[n + 1] = path[n] \o more
    BY <1>3, <2>1, <2>2
  <2>5. path[n] \o more \in Seq(Moves) /\ Len(path[n] \o more) = Len(path[n]) + Len(more)
    BY <2>1, <2>3, ConcatProperties
  <2>6. Len(path[n]) + Len(more) <= 2 * (n + 1)
    BY <2>1, <2>3
  <2>7. Len(path[n + 1]) = Len(path[n]) + Len(more)
    BY <2>4, <2>5
  <2>8. path[n + 1] \in Seq(Moves) /\ Len(path[n + 1]) <= 2 * (n + 1)
    BY <2>4, <2>5, <2>6, <2>7
  <2>9. QED
    BY <2>1, <2>8
<1>6. Nat \subseteq T
  <2>1. T \subseteq Nat
    OBVIOUS
  <2> HIDE DEF T
  <2>2. QED
    BY <1>4, <1>5, <2>1, NatSetInduction
<1>7. path[Len(way)] \in Seq(Moves) /\ Len(path[Len(way)]) <= 2 * Len(way)
  <2>1. Len(way) \in T
    BY <1>6, Zenon
  <2>2. QED
    BY <2>1
<1>8. last \in Seq(Moves) /\ Len(last) <= 1
  BY TurnToMoves
<1> HIDE DEF last
<1>9. Len(path[Len(way)] \o last) = Len(path[Len(way)]) + Len(last)
  BY <1>7, <1>8, ConcatProperties
<1>10. Len(path[Len(way)]) \in Nat /\ Len(last) \in Nat
  BY <1>7, <1>8
<1>11. QED
  BY <1>1, <1>7, <1>8, <1>9, <1>10

\* The places of a road at which it drives to the next cell.
Forwards(path) == {k \in DOMAIN path : path[k] = FORWARD}

\* They are finitely many, and as many as in its parts.
LEMMA ForwardsConcat ==
    ASSUME NEW a \in Seq(Moves), NEW b \in Seq(Moves)
    PROVE  /\ Cardinality(Forwards(a)) \in Nat
           /\ Cardinality(Forwards(a \o b)) = Cardinality(Forwards(a)) + Cardinality(Forwards(b))
<1> DEFINE later == {Len(a) + k : k \in Forwards(b)}
           f == [k \in Forwards(b) |-> Len(a) + k]
<1>1. ASSUME NEW path \in Seq(Moves)
      PROVE  /\ Forwards(path) \subseteq 1..Len(path) /\ IsFiniteSet(Forwards(path))
             /\ Cardinality(Forwards(path)) \in Nat
  <2>1. Forwards(path) \subseteq 1..Len(path) /\ Len(path) \in Nat
    BY DEF Forwards
  <2>2. IsFiniteSet(1..Len(path))
    BY <2>1, FS_Interval
  <2>3. IsFiniteSet(Forwards(path))
    BY <2>1, <2>2, FS_Subset
  <2>4. QED
    BY <2>1, <2>3, FS_CardinalityType
<1>2. Len(a) \in Nat /\ Len(b) \in Nat /\ \A k \in Forwards(b) : k \in Nat /\ k >= 1
  BY <1>1
<1>3. IsFiniteSet(later) /\ Cardinality(later) = Cardinality(Forwards(b))
  <2>1. f \in Bijection(Forwards(b), later)
    BY <1>2 DEF Bijection, Injection, Surjection, IsInjective
  <2>2. ExistsBijection(Forwards(b), later)
    BY <2>1 DEF ExistsBijection
  <2>3. QED
    BY <1>1, <2>2, FS_Bijection
<1>4. Forwards(a \o b) = Forwards(a) \cup later
  <2>1. /\ a \o b \in Seq(Moves) /\ Len(a \o b) = Len(a) + Len(b)
        /\ \A k \in 1..(Len(a) + Len(b)) : (a \o b)[k] = IF k <= Len(a) THEN a[k] ELSE b[k - Len(a)]
    BY ConcatProperties
  <2>2. ASSUME NEW k \in Forwards(a \o b)
        PROVE  k \in Forwards(a) \cup later
    <3>1. k \in 1..(Len(a) + Len(b)) /\ (a \o b)[k] = FORWARD
      BY <2>1 DEF Forwards
    <3>2. CASE k <= Len(a)
      BY <1>2, <2>1, <3>1, <3>2 DEF Forwards
    <3>3. CASE ~(k <= Len(a))
      <4>1. k - Len(a) \in 1..Len(b) /\ Len(a) + (k - Len(a)) = k
        BY <1>2, <3>1, <3>3
      <4>2. k - Len(a) \in Forwards(b)
        BY <2>1, <3>1, <3>3, <4>1 DEF Forwards
      <4>3. QED
        BY <4>1, <4>2
    <3>4. QED
      BY <3>2, <3>3
  <2>3. ASSUME NEW k \in Forwards(a)
        PROVE  k \in Forwards(a \o b)
    <3>1. k \in 1..Len(a) /\ a[k] = FORWARD
      BY DEF Forwards
    <3>2. k \in 1..(Len(a) + Len(b)) /\ k <= Len(a)
      BY <1>2, <3>1
    <3>3. QED
      BY <2>1, <3>1, <3>2 DEF Forwards
  <2>4. ASSUME NEW k \in Forwards(b)
        PROVE  Len(a) + k \in Forwards(a \o b)
    <3>1. k \in 1..Len(b) /\ b[k] = FORWARD
      BY DEF Forwards
    <3>2. Len(a) + k \in 1..(Len(a) + Len(b)) /\ ~(Len(a) + k <= Len(a)) /\ (Len(a) + k) - Len(a) = k
      BY <1>2, <3>1
    <3>3. QED
      BY <2>1, <3>1, <3>2 DEF Forwards
  <2>5. QED
    BY <2>2, <2>3, <2>4
<1>5. Forwards(a) \cap later = {}
  <2>1. \A k \in later : k > Len(a)
    BY <1>2
  <2>2. \A k \in Forwards(a) : ~(k > Len(a))
    BY <1>1
  <2>3. QED
    BY <2>1, <2>2
<1> HIDE DEF later
<1>6. Cardinality(Forwards(a) \cup later)
         = Cardinality(Forwards(a)) + Cardinality(later) - Cardinality(Forwards(a) \cap later)
  BY <1>1, <1>3, FS_Union
<1>7. Cardinality(Forwards(a) \cap later) = 0
  BY <1>5, FS_EmptySet
<1>8. QED
  BY <1>1, <1>3, <1>4, <1>6, <1>7

\* A turn drives to no cell.
LEMMA TurnStays ==
    ASSUME NEW from, NEW to
    PROVE  Cardinality(Forwards(TurnTo(from, to))) = 0
<1>1. \/ TurnTo(from, to) = <<>> \/ TurnTo(from, to) = <<TURNRIGHT>>
      \/ TurnTo(from, to) = <<TURNLEFT>> \/ TurnTo(from, to) = <<SPIN>>
  BY DEF TurnTo
<1>2. Forwards(<<>>) = {}
  BY DEF Forwards
<1>3. Forwards(<<TURNRIGHT>>) = {} /\ Forwards(<<TURNLEFT>>) = {} /\ Forwards(<<SPIN>>) = {}
  BY DEF Forwards, FORWARD, TURNRIGHT, TURNLEFT, SPIN
<1>4. QED
  BY <1>1, <1>2, <1>3, FS_EmptySet

\* The road along a way drives to as many cells as the way has.
LEMMA RoadMoves ==
    ASSUME NEW plan, NEW start \in Cells, NEW finish, NEW way, WayOK(plan, start, finish, way)
    PROVE  /\ RoadAlong(way, start) \in Seq(Moves)
           /\ Cardinality(Forwards(RoadAlong(way, start))) = Len(way)
<1> DEFINE towards(k) == Heading(way, start, k)
           moves(path) == Cardinality(Forwards(path))
           last == TurnTo(towards(Len(way)), NORTH)
<1>1. PICK path : Grows(way, start, path) /\ RoadAlong(way, start) = path[Len(way)] \o last
  BY RoadGrows
<1>2. path[0] = <<>>
  BY <1>1 DEF Grows
<1>3. \A n \in Nat : path[n + 1] = path[n] \o Actions(towards(n), towards(n + 1))
  <2>1. SUFFICES ASSUME NEW n \in Nat
                 PROVE  path[n + 1] = path[n] \o Actions(towards(n), towards(n + 1))
    OBVIOUS
  <2>2. n + 1 \in Nat /\ n + 1 # 0 /\ (n + 1) - 1 = n
    OBVIOUS
  <2>3. QED
    BY <1>1, <2>2, Zenon DEF Grows
<1>4. Len(way) \in Nat
  BY DEF WayOK
<1> HIDE DEF moves
<1>5. ASSUME NEW n \in Nat, n + 1 <= Len(way)
      PROVE  LET more == Actions(towards(n), towards(n + 1))
             IN  more \in Seq(Moves) /\ moves(more) = 1
  <2>1. n + 1 \in 1..Len(way) /\ (n + 1) - 1 = n
    BY <1>4, <1>5
  <2>2. \/ (towards(n + 1) - towards(n)) % 4 # 2
        \/ towards(n) = NORTH
    BY <2>1, NoStepBack
  <2>3. PICK turn, drive : turn = TurnTo(towards(n), towards(n + 1)) /\ drive = <<FORWARD>>
    OBVIOUS
  <2>4. Actions(towards(n), towards(n + 1)) = turn \o drive
    BY <2>2, <2>3 DEF Actions
  <2>5. turn \in Seq(Moves) /\ moves(turn) = 0
    BY <2>3, TurnToMoves, TurnStays DEF moves
  <2>6. drive \in Seq(Moves) /\ moves(drive) = 1
    <3>1. Forwards(<<FORWARD>>) = {1} /\ <<FORWARD>> \in Seq(Moves)
      BY DEF Forwards, Moves
    <3>2. Cardinality(Forwards(<<FORWARD>>)) = 1
      BY <3>1, FS_Singleton
    <3>3. QED
      BY <2>3, <3>1, <3>2 DEF moves
  <2>7. moves(turn \o drive) = moves(turn) + moves(drive)
    BY <2>5, <2>6, ForwardsConcat DEF moves
  <2>8. moves(turn \o drive) = 1
    BY <2>5, <2>6, <2>7
  <2>9. QED
    BY <2>4, <2>8, TwoActions
<1> HIDE DEF towards
<1> DEFINE T == {n \in Nat : n <= Len(way) => path[n] \in Seq(Moves) /\ moves(path[n]) = n}
<1>6. 0 \in T
  <2>1. <<>> \in Seq(Moves) /\ Forwards(<<>>) = {}
    BY DEF Forwards
  <2>2. QED
    BY <1>2, <2>1, FS_EmptySet DEF moves
<1>7. ASSUME NEW n \in T
      PROVE  n + 1 \in T
  <2>1. n \in Nat /\ n + 1 \in Nat /\ (n + 1 <= Len(way) => n <= Len(way))
    BY <1>4
  <2>2. SUFFICES ASSUME n + 1 <= Len(way)
                 PROVE  path[n + 1] \in Seq(Moves) /\ moves(path[n + 1]) = n + 1
    BY <2>1
  <2>3. path[n] \in Seq(Moves) /\ moves(path[n]) = n
    BY <2>1, <2>2
  <2>4. PICK more \in Seq(Moves) : path[n + 1] = path[n] \o more /\ moves(more) = 1
    BY <1>3, <1>5, <2>1, <2>2
  <2>5. path[n] \o more \in Seq(Moves) /\ moves(path[n] \o more) = moves(path[n]) + moves(more)
    BY <2>3, ConcatProperties, ForwardsConcat DEF moves
  <2>6. QED
    BY <2>3, <2>4, <2>5
<1>8. Nat \subseteq T
  <2>1. T \subseteq Nat
    OBVIOUS
  <2> HIDE DEF T
  <2>2. QED
    BY <1>6, <1>7, <2>1, NatSetInduction
<1>9. path[Len(way)] \in Seq(Moves) /\ moves(path[Len(way)]) = Len(way)
  <2>1. Len(way) \in T
    BY <1>4, <1>8, Zenon
  <2>2. QED
    BY <1>4, <2>1
<1>10. last \in Seq(Moves) /\ moves(last) = 0
  BY TurnToMoves, TurnStays DEF moves
<1> HIDE DEF last
<1>11. path[Len(way)] \o last \in Seq(Moves)
       /\ moves(path[Len(way)] \o last) = moves(path[Len(way)]) + moves(last)
  BY <1>9, <1>10, ConcatProperties, ForwardsConcat DEF moves
<1>12. moves(path[Len(way)] \o last) = Len(way)
  BY <1>4, <1>9, <1>10, <1>11
<1>13. QED
  BY <1>1, <1>11, <1>12 DEF moves

\* No way is shorter (AstarImpl.java): the road drives to as many cells as the finish is
\* moves away from the start, over free cells, however the plan lies.
THEOREM ShortestWay ==
    ASSUME NEW plan, NEW start \in Cells, NEW finish \in Cells, start # finish,
           isTransitable(plan, start), Has(Search(plan, start, finish), finish)
    PROVE  LET way   == Way(Search(plan, start, finish), start, finish)
               moves == Cardinality(Forwards(RoadAlong(way, start)))
           IN  /\ moves \in Nat \ {0} /\ moves = Len(way)
               /\ \A n \in Nat : finish \in Within(plan, start, n) <=> moves <= n
<1> DEFINE list == Search(plan, start, finish)
           way  == Way(list, start, finish)
<1>1. list \in Seq(Nodes) /\ Distinct(list) /\ Descends(plan, start, list)
  BY SearchResult
<1>2. Nearest(plan, start, finish, Members(list))
  BY SearchNearest
<1> HIDE DEF list
<1>3. PICK node \in Members(list) : node.coord = finish
  BY <1>1, MembersAre DEF list
<1>4. WayOK(plan, start, finish, way)
  BY <1>1, WayIsOK DEF list
<1>5. Len(way) = node.g
  BY <1>1, <1>2, <1>3, WayCost DEF Nearest
<1> HIDE DEF way
<1>6. Len(way) \in Nat \ {0}
  BY <1>4 DEF WayOK, Stop
<1>7. Cardinality(Forwards(RoadAlong(way, start))) = Len(way)
  BY <1>4, RoadMoves
<1>8. ASSUME NEW n \in Nat
      PROVE  finish \in Within(plan, start, n) <=> Len(way) <= n
  <2>1. ASSUME finish \in Within(plan, start, n)
        PROVE  Len(way) <= n
    BY <1>2, <1>3, <1>5, <2>1 DEF Nearest
  <2>2. ASSUME Len(way) <= n
        PROVE  finish \in Within(plan, start, n)
    BY <1>4, <2>2, WayIsWithin
  <2>3. QED
    BY <2>1, <2>2
<1>9. QED
  BY <1>6, <1>7, <1>8 DEF way, list

-----------------------------------------------------------------------------
\* The streets.

\* Moves add up.
LEMMA WithinAdds ==
    ASSUME NEW plan, NEW a \in Cells, NEW m \in Nat, NEW b \in Within(plan, a, m),
           NEW n \in Nat, NEW c \in Within(plan, b, n)
    PROVE  c \in Within(plan, a, m + n)
<1> DEFINE T == {k \in Nat : Within(plan, b, k) \subseteq Within(plan, a, m + k)}
<1>1. b \in Cells
  BY WithinSteps
<1>2. 0 \in T
  <2>1. Within(plan, b, 0) = {b} /\ m + 0 = m
    BY <1>1, WithinSteps
  <2>2. QED
    BY <2>1
<1>3. ASSUME NEW k \in T
      PROVE  k + 1 \in T
  <2>1. k \in Nat /\ k + 1 \in Nat /\ m + k \in Nat /\ m + (k + 1) = (m + k) + 1
    OBVIOUS
  <2>2. Within(plan, b, k) \subseteq Within(plan, a, m + k)
    OBVIOUS
  <2>3. ASSUME NEW d \in Within(plan, b, k + 1)
        PROVE  d \in Within(plan, a, (m + k) + 1)
    <3>1. d \in Cells
      BY <1>1, <2>1, WithinSteps
    <3>2. \/ d \in Within(plan, b, k)
          \/ isTransitable(plan, d) /\ \E e \in Within(plan, b, k) : Adjacent(e, d)
      BY <1>1, <2>1, <3>1, WithinSteps
    <3>3. QED
      BY <2>1, <2>2, <3>1, <3>2, WithinSteps
  <2>4. QED
    BY <2>1, <2>3
<1>4. Nat \subseteq T
  <2>1. T \subseteq Nat
    OBVIOUS
  <2> HIDE DEF T
  <2>2. QED
    BY <1>2, <1>3, <2>1, NatSetInduction
<1>5. n \in T
  BY <1>4, Zenon
<1>6. QED
  BY <1>5

\* More moves lead no less far.
LEMMA WithinMore ==
    ASSUME NEW plan, NEW a \in Cells, NEW m \in Nat, NEW n \in Nat, m <= n,
           NEW b \in Within(plan, a, m)
    PROVE  b \in Within(plan, a, n)
<1> DEFINE T == {k \in Nat : b \in Within(plan, a, m + k)}
<1>1. b \in Cells
  BY WithinSteps
<1>2. 0 \in T
  <2>1. m + 0 = m
    OBVIOUS
  <2>2. QED
    BY <2>1
<1>3. ASSUME NEW k \in T
      PROVE  k + 1 \in T
  <2>1. k \in Nat /\ k + 1 \in Nat /\ m + k \in Nat /\ m + (k + 1) = (m + k) + 1
    OBVIOUS
  <2>2. b \in Within(plan, a, m + k)
    OBVIOUS
  <2>3. b \in Within(plan, a, (m + k) + 1)
    BY <1>1, <2>1, <2>2, WithinSteps
  <2>4. QED
    BY <2>1, <2>3
<1>4. Nat \subseteq T
  <2>1. T \subseteq Nat
    OBVIOUS
  <2> HIDE DEF T
  <2>2. QED
    BY <1>2, <1>3, <2>1, NatSetInduction
<1>5. n - m \in Nat /\ m + (n - m) = n
  OBVIOUS
<1>6. n - m \in T
  BY <1>4, <1>5, Zenon
<1>7. QED
  BY <1>5, <1>6

\* The rows and the columns without a blocked cell.
FreeRow(plan, x)    == \A y \in Coordinates : isTransitable(plan, <<x, y>>)
FreeColumn(plan, y) == \A x \in Coordinates : isTransitable(plan, <<x, y>>)

\* The coordinate before z, coming from x.
LEMMA Before ==
    ASSUME NEW x \in Coordinates, NEW z \in Coordinates, NEW k \in Nat, AbsDiff(x, z) = k + 1
    PROVE  \E w \in Coordinates : AbsDiff(x, w) = k /\ (z = w + 1 \/ z = w - 1)
<1>1. CASE x > z
  <2>1. z + 1 \in Coordinates /\ AbsDiff(x, z + 1) = k /\ z = (z + 1) - 1
    BY <1>1, FloorAssumption DEF Coordinates, AbsDiff
  <2>2. QED
    BY <2>1
<1>2. CASE ~(x > z)
  <2>1. z - 1 \in Coordinates /\ AbsDiff(x, z - 1) = k /\ z = (z - 1) + 1
    BY <1>2, FloorAssumption DEF Coordinates, AbsDiff
  <2>2. QED
    BY <2>1
<1>3. QED
  BY <1>1, <1>2

\* Two coordinates are a number apart, less than the size of the floor.
LEMMA ApartBy ==
    ASSUME NEW x \in Coordinates, NEW y \in Coordinates
    PROVE  /\ AbsDiff(x, y) \in Nat /\ AbsDiff(x, y) <= Size - 1
           /\ AbsDiff(x, y) = AbsDiff(y, x)
           /\ AbsDiff(x, y) = 0 <=> x = y
BY FloorAssumption DEF Coordinates, AbsDiff

\* Cells side by side in a row, or in a column.
LEMMA SideBySide ==
    ASSUME NEW x \in Coordinates, NEW w \in Coordinates, NEW z \in Coordinates,
           z = w + 1 \/ z = w - 1
    PROVE  Adjacent(<<x, w>>, <<x, z>>) /\ Adjacent(<<w, x>>, <<z, x>>)
BY FloorAssumption DEF Coordinates, AbsDiff, Adjacent

\* A vehicle drives along a free row as far as it is.
LEMMA AlongRow ==
    ASSUME NEW plan, NEW r \in Coordinates, FreeRow(plan, r),
           NEW x \in Coordinates, NEW y \in Coordinates
    PROVE  <<r, y>> \in Within(plan, <<r, x>>, AbsDiff(x, y))
<1> DEFINE T == {k \in Nat : \A z \in Coordinates :
                    AbsDiff(x, z) = k => <<r, z>> \in Within(plan, <<r, x>>, k)}
<1>1. \A z \in Coordinates : <<r, z>> \in Cells
  BY DEF Cells
<1>2. 0 \in T
  <2>1. <<r, x>> \in Within(plan, <<r, x>>, 0)
    BY <1>1, WithinSteps
  <2>2. QED
    BY <2>1, ApartBy
<1>3. ASSUME NEW k \in T
      PROVE  k + 1 \in T
  <2>1. k \in Nat /\ k + 1 \in Nat
    OBVIOUS
  <2>2. SUFFICES ASSUME NEW z \in Coordinates, AbsDiff(x, z) = k + 1
                 PROVE  <<r, z>> \in Within(plan, <<r, x>>, k + 1)
    BY <2>1
  <2>3. PICK w \in Coordinates : AbsDiff(x, w) = k /\ (z = w + 1 \/ z = w - 1)
    BY <2>1, <2>2, Before
  <2>4. <<r, w>> \in Within(plan, <<r, x>>, k)
    BY <2>3
  <2>5. Adjacent(<<r, w>>, <<r, z>>) /\ isTransitable(plan, <<r, z>>)
    BY <2>3, SideBySide DEF FreeRow
  <2>6. QED
    BY <1>1, <2>1, <2>4, <2>5, WithinSteps
<1>4. Nat \subseteq T
  <2>1. T \subseteq Nat
    OBVIOUS
  <2> HIDE DEF T
  <2>2. QED
    BY <1>2, <1>3, <2>1, NatSetInduction
<1>5. AbsDiff(x, y) \in T
  BY <1>4, ApartBy, Zenon
<1>6. QED
  BY <1>5

\* And along a free column.
LEMMA AlongColumn ==
    ASSUME NEW plan, NEW r \in Coordinates, FreeColumn(plan, r),
           NEW x \in Coordinates, NEW y \in Coordinates
    PROVE  <<y, r>> \in Within(plan, <<x, r>>, AbsDiff(x, y))
<1> DEFINE T == {k \in Nat : \A z \in Coordinates :
                    AbsDiff(x, z) = k => <<z, r>> \in Within(plan, <<x, r>>, k)}
<1>1. \A z \in Coordinates : <<z, r>> \in Cells
  BY DEF Cells
<1>2. 0 \in T
  <2>1. <<x, r>> \in Within(plan, <<x, r>>, 0)
    BY <1>1, WithinSteps
  <2>2. QED
    BY <2>1, ApartBy
<1>3. ASSUME NEW k \in T
      PROVE  k + 1 \in T
  <2>1. k \in Nat /\ k + 1 \in Nat
    OBVIOUS
  <2>2. SUFFICES ASSUME NEW z \in Coordinates, AbsDiff(x, z) = k + 1
                 PROVE  <<z, r>> \in Within(plan, <<x, r>>, k + 1)
    BY <2>1
  <2>3. PICK w \in Coordinates : AbsDiff(x, w) = k /\ (z = w + 1 \/ z = w - 1)
    BY <2>1, <2>2, Before
  <2>4. <<w, r>> \in Within(plan, <<x, r>>, k)
    BY <2>3
  <2>5. Adjacent(<<w, r>>, <<z, r>>) /\ isTransitable(plan, <<z, r>>)
    BY <2>3, SideBySide DEF FreeColumn
  <2>6. QED
    BY <1>1, <2>1, <2>4, <2>5, WithinSteps
<1>4. Nat \subseteq T
  <2>1. T \subseteq Nat
    OBVIOUS
  <2> HIDE DEF T
  <2>2. QED
    BY <1>2, <1>3, <2>1, NatSetInduction
<1>5. AbsDiff(x, y) \in T
  BY <1>4, ApartBy, Zenon
<1>6. QED
  BY <1>5

\* The way round bad coordinates, of which there are at most b.
Roundabout(b) == IF 2 * b > Size - 1 THEN 2 * b ELSE Size - 1

\* An interval of bad coordinates is no longer than they are many.
LEMMA BadInterval ==
    ASSUME NEW bad, bad \subseteq Coordinates, NEW b \in Nat, Cardinality(bad) <= b,
           NEW lo \in Int, NEW hi \in Int, \A w \in Coordinates : lo <= w /\ w <= hi => w \in bad,
           lo \in Coordinates \/ lo > hi, hi \in Coordinates \/ lo > hi
    PROVE  hi - lo < b
<1>1. IsFiniteSet(Coordinates) /\ Coordinates = 0..(Size - 1) /\ Size \in Nat
  BY FloorAssumption, FS_Interval DEF Coordinates
<1>2. IsFiniteSet(bad)
  BY <1>1, FS_Subset
<1>3. lo..hi \subseteq bad
  BY <1>1
<1>4. Cardinality(lo..hi) <= Cardinality(bad) /\ Cardinality(bad) \in Nat
  BY <1>2, <1>3, FS_Subset, FS_CardinalityType
<1>5. Cardinality(lo..hi) = IF lo > hi THEN 0 ELSE hi - lo + 1
  BY FS_Interval
<1>6. QED
  BY <1>4, <1>5

\* A set of numbers has a least one.
LEMMA LeastNumber ==
    ASSUME NEW S, S \subseteq Nat, S # {}
    PROVE  \E n \in S : \A m \in S : n <= m
<1>1. PICK n \in S : \A m \in S : <<m, n>> \notin OpToRel(<, Nat)
  BY WFMin, NatLessThanWellFounded, Zenon
<1>2. \A m \in S : ~(m < n)
  <2>1. \A m \in Nat : m < n => <<m, n>> \in OpToRel(<, Nat)
    BY DEF OpToRel
  <2>2. QED
    BY <1>1, <2>1
<1>3. QED
  BY <1>2

\* Between two coordinates the way by one that is not bad is short.
LEMMA ByTheWay ==
    ASSUME NEW bad, bad \subseteq Coordinates, NEW b \in Nat, Cardinality(bad) <= b, b < Size,
           NEW x \in Coordinates, NEW y \in Coordinates
    PROVE  \E z \in Coordinates \ bad : AbsDiff(x, z) + AbsDiff(z, y) <= Roundabout(b)
<1> DEFINE cost(z) == AbsDiff(x, z) + AbsDiff(z, y)
           lo == IF x <= y THEN x ELSE y
           hi == IF x <= y THEN y ELSE x
<1>1. x \in Int /\ y \in Int /\ 0 <= x /\ 0 <= y /\ x <= Size - 1 /\ y <= Size - 1
      /\ Coordinates = 0..(Size - 1) /\ Size \in Nat
  BY FloorAssumption DEF Coordinates
<1>2. \A z \in Coordinates : cost(z) \in Nat
  BY ApartBy
<1>3. \E z \in Coordinates : z \notin bad
  <2>1. SUFFICES ASSUME Coordinates \subseteq bad
                 PROVE  FALSE
    OBVIOUS
  <2>2. PICK first \in Coordinates, last \in Coordinates : first = 0 /\ last = Size - 1
    BY <1>1
  <2>3. first \in Int /\ last \in Int /\ \A w \in Coordinates : w \in bad
    BY <1>1, <2>1, <2>2
  <2>4. last - first < b
    BY <2>3, BadInterval
  <2>5. QED
    BY <1>1, <2>2, <2>4
<1> DEFINE costs == {cost(z) : z \in Coordinates \ bad}
<1>4. costs \subseteq Nat /\ costs # {}
  BY <1>2, <1>3
<1>5. PICK least \in costs : \A n \in costs : least <= n
  BY <1>4, LeastNumber, Zenon
<1>6. PICK z \in Coordinates \ bad : least = cost(z)
  BY <1>5
<1>7. \A w \in Coordinates : w \notin bad => cost(z) <= cost(w)
  BY <1>5, <1>6
<1>8. \A w \in Coordinates :
         cost(w) = IF w < lo THEN (lo - w) + (hi - w)
                   ELSE IF w > hi THEN (w - lo) + (w - hi)
                   ELSE hi - lo
  BY <1>1 DEF AbsDiff
<1>9. lo \in Coordinates /\ hi \in Coordinates /\ lo <= hi
  BY <1>1
<1> HIDE DEF cost, lo, hi
<1>10. CASE z < lo
  <2>1. PICK next \in Int : next = z + 1
    BY <1>1
  <2>2. ASSUME NEW w \in Coordinates, next <= w, w <= hi
        PROVE  w \in bad
    <3>1. cost(w) < cost(z)
      BY <1>1, <1>8, <1>9, <1>10, <2>1, <2>2
    <3>2. cost(w) \in Nat /\ cost(z) \in Nat
      BY <1>2
    <3>3. w \notin bad => cost(z) <= cost(w)
      BY <1>7
    <3>4. QED
      BY <3>1, <3>2, <3>3
  <2>3. hi - next < b
    <3>1. lo \in Int /\ hi \in Int /\ next \in Coordinates
      BY <1>1, <1>9, <1>10, <2>1
    <3>2. QED
      BY <1>9, <2>2, <3>1, BadInterval
  <2>4. cost(z) <= 2 * b
    BY <1>1, <1>8, <1>9, <1>10, <2>1, <2>3
  <2>5. QED
    BY <1>1, <1>2, <2>4 DEF Roundabout, cost
<1>11. CASE z > hi
  <2>1. PICK next \in Int : next = z - 1
    BY <1>1
  <2>2. ASSUME NEW w \in Coordinates, lo <= w, w <= next
        PROVE  w \in bad
    <3>1. cost(w) < cost(z)
      BY <1>1, <1>8, <1>9, <1>11, <2>1, <2>2
    <3>2. cost(w) \in Nat /\ cost(z) \in Nat
      BY <1>2
    <3>3. w \notin bad => cost(z) <= cost(w)
      BY <1>7
    <3>4. QED
      BY <3>1, <3>2, <3>3
  <2>3. next - lo < b
    <3>1. lo \in Int /\ hi \in Int /\ next \in Coordinates
      BY <1>1, <1>9, <1>11, <2>1
    <3>2. QED
      BY <1>9, <2>2, <3>1, BadInterval
  <2>4. cost(z) <= 2 * b
    BY <1>1, <1>8, <1>9, <1>11, <2>1, <2>3
  <2>5. QED
    BY <1>1, <1>2, <2>4 DEF Roundabout, cost
<1>12. CASE z >= lo /\ z <= hi
  <2>1. cost(z) <= Size - 1
    BY <1>1, <1>8, <1>9, <1>12
  <2>2. QED
    BY <1>1, <1>2, <2>1 DEF Roundabout, cost
<1>13. QED
  BY <1>1, <1>9, <1>10, <1>11, <1>12

\* The cells that a plan blocks, and what of the floor that spoils.
BlockedCells(plan) == {c \in Cells : ~isTransitable(plan, c)}
BadRows(plan)      == {x \in Coordinates : ~FreeRow(plan, x)}
BadColumns(plan)   == {y \in Coordinates : ~FreeColumn(plan, y)}

\* The cells of the free rows and columns.
Streets(plan) == {c \in Cells : FreeRow(plan, c[1]) \/ FreeColumn(plan, c[2])}

\* A blocked cell spoils one row and one column.
LEMMA FewBad ==
    ASSUME NEW plan
    PROVE  /\ IsFiniteSet(BlockedCells(plan))
           /\ IsFiniteSet(BadRows(plan)) /\ Cardinality(BadRows(plan)) <= Cardinality(BlockedCells(plan))
           /\ IsFiniteSet(BadColumns(plan)) /\ Cardinality(BadColumns(plan)) <= Cardinality(BlockedCells(plan))
<1> DEFINE rows == [c \in BlockedCells(plan) |-> c[1]]
           columns == [c \in BlockedCells(plan) |-> c[2]]
<1>1. IsFiniteSet(BlockedCells(plan))
  <2>1. BlockedCells(plan) \subseteq Cells
    BY DEF BlockedCells
  <2>2. QED
    BY <2>1, FloorIsFinite, FS_Subset
<1>2. \A c \in BlockedCells(plan) : c[1] \in BadRows(plan) /\ c[2] \in BadColumns(plan)
  BY CellParts DEF BlockedCells, BadRows, BadColumns, FreeRow, FreeColumn
<1>3. rows \in Surjection(BlockedCells(plan), BadRows(plan))
  <2>1. rows \in [BlockedCells(plan) -> BadRows(plan)]
    BY <1>2
  <2>2. ASSUME NEW x \in BadRows(plan)
        PROVE  \E c \in BlockedCells(plan) : rows[c] = x
    <3>1. PICK y \in Coordinates : ~isTransitable(plan, <<x, y>>) /\ x \in Coordinates
      BY DEF BadRows, FreeRow
    <3>2. <<x, y>> \in BlockedCells(plan)
      BY <3>1 DEF BlockedCells, Cells
    <3>3. QED
      BY <3>2
  <2> HIDE DEF rows
  <2>3. QED
    BY <2>1, <2>2 DEF Surjection
<1>4. columns \in Surjection(BlockedCells(plan), BadColumns(plan))
  <2>1. columns \in [BlockedCells(plan) -> BadColumns(plan)]
    BY <1>2
  <2>2. ASSUME NEW y \in BadColumns(plan)
        PROVE  \E c \in BlockedCells(plan) : columns[c] = y
    <3>1. PICK x \in Coordinates : ~isTransitable(plan, <<x, y>>) /\ y \in Coordinates
      BY DEF BadColumns, FreeColumn
    <3>2. <<x, y>> \in BlockedCells(plan)
      BY <3>1 DEF BlockedCells, Cells
    <3>3. QED
      BY <3>2
  <2> HIDE DEF columns
  <2>3. QED
    BY <2>1, <2>2 DEF Surjection
<1> HIDE DEF rows, columns
<1>5. QED
  BY <1>1, <1>3, <1>4, FS_Surjection

\* Three legs of a drive.
LEMMA ThreeLegs ==
    ASSUME NEW plan, NEW a \in Cells, NEW k \in Nat, NEW b \in Within(plan, a, k),
           NEW l \in Nat, NEW c \in Within(plan, b, l),
           NEW m \in Nat, NEW d \in Within(plan, c, m), NEW n \in Nat, k + l + m <= n
    PROVE  d \in Within(plan, a, n)
<1>1. c \in Within(plan, a, k + l) /\ k + l \in Nat
  BY WithinAdds
<1>2. d \in Within(plan, a, k + l + m) /\ k + l + m \in Nat
  BY <1>1, WithinAdds
<1>3. QED
  BY <1>2, WithinMore

\* From a cell of the streets to another one.
LEMMA AlongStreets ==
    ASSUME NEW plan, NEW b \in Nat, Cardinality(BadRows(plan)) <= b,
           Cardinality(BadColumns(plan)) <= b, b < Size,
           NEW p \in Streets(plan), NEW q \in Streets(plan)
    PROVE  q \in Within(plan, p, (Size - 1) + Roundabout(b))
<1> DEFINE far == (Size - 1) + Roundabout(b)
<1>1. PICK x \in Coordinates, y \in Coordinates :
         p = <<x, y>> /\ p \in Cells /\ (FreeRow(plan, x) \/ FreeColumn(plan, y))
  BY CellParts DEF Streets
<1>2. PICK v \in Coordinates, w \in Coordinates :
         q = <<v, w>> /\ q \in Cells /\ (FreeRow(plan, v) \/ FreeColumn(plan, w))
  BY CellParts DEF Streets
<1>3. far \in Nat /\ (Size - 1) + (Size - 1) <= far /\ Roundabout(b) \in Nat /\ Size - 1 \in Nat
  BY FloorAssumption DEF Roundabout
<1>4. \A s \in Coordinates, t \in Coordinates : <<s, t>> \in Cells
  BY DEF Cells
<1>5. AbsDiff(x, v) \in Nat /\ AbsDiff(x, v) <= Size - 1 /\ AbsDiff(y, w) \in Nat /\ AbsDiff(y, w) <= Size - 1
  BY ApartBy
<1>6. CASE FreeRow(plan, x) /\ FreeRow(plan, v)
  <2>1. PICK t \in Coordinates \ BadColumns(plan) : AbsDiff(y, t) + AbsDiff(t, w) <= Roundabout(b)
    BY ByTheWay DEF BadColumns
  <2>2. t \in Coordinates /\ FreeColumn(plan, t)
    BY DEF BadColumns
  <2>3. <<x, t>> \in Within(plan, <<x, y>>, AbsDiff(y, t))
    BY <1>6, <2>2, AlongRow
  <2>4. <<v, t>> \in Within(plan, <<x, t>>, AbsDiff(x, v))
    BY <2>2, AlongColumn
  <2>5. <<v, w>> \in Within(plan, <<v, t>>, AbsDiff(t, w))
    BY <1>6, <2>2, AlongRow
  <2>6. AbsDiff(y, t) \in Nat /\ AbsDiff(t, w) \in Nat
    BY <2>2, ApartBy
  <2>7. AbsDiff(y, t) + AbsDiff(x, v) + AbsDiff(t, w) <= far
    BY <1>3, <1>5, <2>1, <2>6
  <2> HIDE DEF far
  <2>8. q \in Within(plan, p, far)
    BY <1>1, <1>2, <1>3, <1>5, <2>3, <2>4, <2>5, <2>6, <2>7, ThreeLegs
  <2>9. QED
    BY <2>8 DEF far
<1>7. CASE FreeColumn(plan, y) /\ FreeColumn(plan, w)
  <2>1. PICK t \in Coordinates \ BadRows(plan) : AbsDiff(x, t) + AbsDiff(t, v) <= Roundabout(b)
    BY ByTheWay DEF BadRows
  <2>2. t \in Coordinates /\ FreeRow(plan, t)
    BY DEF BadRows
  <2>3. <<t, y>> \in Within(plan, <<x, y>>, AbsDiff(x, t))
    BY <1>7, <2>2, AlongColumn
  <2>4. <<t, w>> \in Within(plan, <<t, y>>, AbsDiff(y, w))
    BY <2>2, AlongRow
  <2>5. <<v, w>> \in Within(plan, <<t, w>>, AbsDiff(t, v))
    BY <1>7, <2>2, AlongColumn
  <2>6. AbsDiff(x, t) \in Nat /\ AbsDiff(t, v) \in Nat
    BY <2>2, ApartBy
  <2>7. AbsDiff(x, t) + AbsDiff(y, w) + AbsDiff(t, v) <= far
    BY <1>3, <1>5, <2>1, <2>6
  <2> HIDE DEF far
  <2>8. q \in Within(plan, p, far)
    BY <1>1, <1>2, <1>3, <1>5, <2>3, <2>4, <2>5, <2>6, <2>7, ThreeLegs
  <2>9. QED
    BY <2>8 DEF far
<1>8. CASE FreeRow(plan, x) /\ FreeColumn(plan, w)
  <2>1. <<x, w>> \in Within(plan, <<x, y>>, AbsDiff(y, w))
    BY <1>8, AlongRow
  <2>2. <<v, w>> \in Within(plan, <<x, w>>, AbsDiff(x, v))
    BY <1>8, AlongColumn
  <2>3. <<v, w>> \in Within(plan, <<x, y>>, AbsDiff(y, w) + AbsDiff(x, v))
    BY <1>4, <1>5, <2>1, <2>2, WithinAdds
  <2>4. AbsDiff(y, w) + AbsDiff(x, v) \in Nat /\ AbsDiff(y, w) + AbsDiff(x, v) <= far
    BY <1>3, <1>5
  <2> HIDE DEF far
  <2>5. q \in Within(plan, p, far)
    BY <1>1, <1>2, <1>3, <2>3, <2>4, WithinMore
  <2>6. QED
    BY <2>5 DEF far
<1>9. CASE FreeColumn(plan, y) /\ FreeRow(plan, v)
  <2>1. <<v, y>> \in Within(plan, <<x, y>>, AbsDiff(x, v))
    BY <1>9, AlongColumn
  <2>2. <<v, w>> \in Within(plan, <<v, y>>, AbsDiff(y, w))
    BY <1>9, AlongRow
  <2>3. <<v, w>> \in Within(plan, <<x, y>>, AbsDiff(x, v) + AbsDiff(y, w))
    BY <1>4, <1>5, <2>1, <2>2, WithinAdds
  <2>4. AbsDiff(x, v) + AbsDiff(y, w) \in Nat /\ AbsDiff(x, v) + AbsDiff(y, w) <= far
    BY <1>3, <1>5
  <2> HIDE DEF far
  <2>5. q \in Within(plan, p, far)
    BY <1>1, <1>2, <1>3, <2>3, <2>4, WithinMore
  <2>6. QED
    BY <2>5 DEF far
<1>10. QED
  BY <1>1, <1>2, <1>6, <1>7, <1>8, <1>9

\* The free cells that are not of the streets.
Corners(plan) == {c \in Cells : isTransitable(plan, c) /\ c \notin Streets(plan)}

\* There are few of them.
LEMMA FewCorners ==
    ASSUME NEW plan, NEW b, b = Cardinality(BlockedCells(plan))
    PROVE  /\ b \in Nat /\ IsFiniteSet(Corners(plan))
           /\ Cardinality(Corners(plan)) <= b * b - b
<1> DEFINE crossings == BadRows(plan) \X BadColumns(plan)
           rest == crossings \ BlockedCells(plan)
<1>1. /\ b \in Nat
      /\ IsFiniteSet(BadRows(plan)) /\ Cardinality(BadRows(plan)) \in Nat /\ Cardinality(BadRows(plan)) <= b
      /\ IsFiniteSet(BadColumns(plan)) /\ Cardinality(BadColumns(plan)) \in Nat /\ Cardinality(BadColumns(plan)) <= b
  BY FewBad, FS_CardinalityType
<1>2. IsFiniteSet(crossings) /\ Cardinality(crossings) = Cardinality(BadRows(plan)) * Cardinality(BadColumns(plan))
  BY <1>1, FS_Product
<1>3. Cardinality(crossings) <= b * b
  <2>1. \A m \in Nat, n \in Nat : m <= b /\ n <= b => m * n <= b * b
    <3>1. SUFFICES ASSUME NEW m \in Nat, NEW n \in Nat, m <= b, n <= b
                   PROVE  m * n <= b * b
      OBVIOUS
    <3>2. m * n <= b * n
      BY <1>1, <3>1
    <3>3. b * n <= b * b
      BY <1>1, <3>1
    <3>4. m * n \in Nat /\ b * n \in Nat /\ b * b \in Nat
      BY <1>1, <3>1
    <3>5. QED
      BY <3>2, <3>3, <3>4
  <2>2. QED
    BY <1>1, <1>2, <2>1
<1>4. \A c \in Cells : c \notin Streets(plan) => c \in crossings
  BY CellParts DEF Streets, BadRows, BadColumns
<1>5. BlockedCells(plan) \subseteq crossings
  BY CellParts DEF BlockedCells, BadRows, BadColumns, FreeRow, FreeColumn
<1>6. Corners(plan) \subseteq rest
  BY <1>4 DEF Corners, BlockedCells
<1> HIDE DEF crossings
<1>7. crossings \cap BlockedCells(plan) = BlockedCells(plan)
  BY <1>5
<1>8. IsFiniteSet(rest) /\ Cardinality(rest) = Cardinality(crossings) - b
  BY <1>2, <1>7, FS_Difference
<1> HIDE DEF rest
<1>9. IsFiniteSet(Corners(plan)) /\ Cardinality(Corners(plan)) <= Cardinality(rest)
  BY <1>6, <1>8, FS_Subset
<1>10. Cardinality(Corners(plan)) \in Nat /\ Cardinality(crossings) \in Nat /\ b * b \in Nat
  BY <1>1, <1>2, <1>9, FS_CardinalityType
<1>11. QED
  BY <1>1, <1>3, <1>8, <1>9, <1>10

\* The stops of a way are no further from each other than it takes.
LEMMA StopsWithin ==
    ASSUME NEW plan, NEW start \in Cells, NEW finish, NEW way, WayOK(plan, start, finish, way),
           NEW j \in 0..Len(way), NEW k \in 0..Len(way), j <= k
    PROVE  Stop(way, start, k) \in Within(plan, Stop(way, start, j), k - j)
<1> DEFINE m == Len(way)
           stop(n) == Stop(way, start, n)
           T == {n \in Nat : j + n <= m => stop(j + n) \in Within(plan, stop(j), n)}
<1>1. way \in Seq(Cells) /\ m \in Nat /\ \A n \in 0..m : stop(n) \in Cells
  BY DEF WayOK, Stop
<1>2. \A n \in 1..m : Adjacent(stop(n - 1), stop(n)) /\ isTransitable(plan, stop(n))
  BY DEF WayOK, Stop
<1> HIDE DEF m, stop
<1>3. j \in Nat /\ k - j \in Nat /\ j + (k - j) = k /\ k <= m /\ j \in 0..m
  BY <1>1 DEF m
<1>4. 0 \in T
  <2>1. j + 0 = j
    BY <1>3
  <2>2. QED
    BY <1>1, <1>3, <2>1, WithinSteps
<1>5. ASSUME NEW n \in T
      PROVE  n + 1 \in T
  <2>1. n \in Nat /\ n + 1 \in Nat /\ j + (n + 1) = (j + n) + 1
    BY <1>3
  <2>2. SUFFICES ASSUME (j + n) + 1 <= m
                 PROVE  stop((j + n) + 1) \in Within(plan, stop(j), n + 1)
    BY <2>1
  <2>3. PICK l \in 0..m : l = j + n /\ l + 1 \in 1..m /\ l + 1 \in 0..m /\ (l + 1) - 1 = l
    BY <1>1, <1>3, <2>1, <2>2
  <2>4. stop(l) \in Within(plan, stop(j), n)
    BY <2>3
  <2>5. Adjacent(stop(l), stop(l + 1)) /\ isTransitable(plan, stop(l + 1)) /\ stop(l + 1) \in Cells
    BY <1>1, <1>2, <2>3
  <2>6. stop(l + 1) \in Within(plan, stop(j), n + 1)
    BY <1>1, <1>3, <2>1, <2>4, <2>5, WithinSteps
  <2>7. QED
    BY <2>3, <2>6
<1>6. Nat \subseteq T
  <2>1. T \subseteq Nat
    OBVIOUS
  <2> HIDE DEF T
  <2>2. QED
    BY <1>4, <1>5, <2>1, NatSetInduction
<1>7. k - j \in T
  BY <1>3, <1>6, Zenon
<1>8. QED
  BY <1>3, <1>7 DEF stop

\* The way is as short as there is one.
Shortest(plan, start, finish, way) ==
    \A n \in Nat : finish \in Within(plan, start, n) => Len(way) <= n

\* No shortcut leads from one stop of such a way to another one.
LEMMA NoShortcut ==
    ASSUME NEW plan, NEW start \in Cells, NEW finish, NEW way, WayOK(plan, start, finish, way),
           Shortest(plan, start, finish, way),
           NEW j \in 0..Len(way), NEW k \in 0..Len(way), j <= k,
           NEW d \in Nat, Stop(way, start, k) \in Within(plan, Stop(way, start, j), d)
    PROVE  k - j <= d
<1>1. PICK m \in Nat : m = Len(way)
  BY DEF WayOK
<1>2. PICK a, b, n : a = Stop(way, start, j) /\ b = Stop(way, start, k) /\ n = j + d + (m - k)
  OBVIOUS
<1>3. /\ j \in Nat /\ m - k \in Nat /\ n \in Nat /\ j + d + (m - k) <= n
      /\ 0 \in 0..Len(way) /\ m \in 0..Len(way) /\ 0 <= j /\ k <= m /\ j - 0 = j
  BY <1>1, <1>2
<1>4. a \in Within(plan, start, j)
  <2>1. Stop(way, start, 0) = start
    BY DEF Stop
  <2>2. Stop(way, start, j) \in Within(plan, Stop(way, start, 0), j - 0)
    BY <1>3, StopsWithin
  <2>3. QED
    BY <1>2, <1>3, <2>1, <2>2
<1>5. finish \in Within(plan, b, m - k)
  <2>1. Stop(way, start, m) = finish
    BY <1>1 DEF WayOK
  <2>2. Stop(way, start, m) \in Within(plan, Stop(way, start, k), m - k)
    BY <1>3, StopsWithin
  <2>3. QED
    BY <1>2, <2>1, <2>2
<1>6. b \in Within(plan, a, d)
  BY <1>2
<1>7. finish \in Within(plan, start, n)
  BY <1>3, <1>4, <1>5, <1>6, ThreeLegs
<1>8. m <= n
  BY <1>1, <1>3, <1>7 DEF Shortest
<1>9. QED
  BY <1>1, <1>2, <1>3, <1>8

\* The bound of a way over a floor with b blocked cells: once over all the corners,
\* and once along the streets.
Longest(b) == (b * b - b) + ((Size - 1) + Roundabout(b))

\* More blocked cells, a greater bound.
LEMMA LongestGrows ==
    ASSUME NEW b \in Nat, NEW c \in Nat, b <= c
    PROVE  Longest(b) \in Int /\ Longest(c) \in Int /\ Longest(b) <= Longest(c)
<1>1. Size \in Nat
  BY FloorAssumption
<1>2. b * (b - 1) <= b * (c - 1)
  OBVIOUS
<1>3. b * (c - 1) <= c * (c - 1)
  <2>1. CASE c = 0
    BY <2>1
  <2>2. CASE c # 0
    BY <2>2
  <2>3. QED
    BY <2>1, <2>2
<1>4. b * b - b = b * (b - 1) /\ c * c - c = c * (c - 1)
  OBVIOUS
<1>5. b * (b - 1) \in Int /\ b * (c - 1) \in Int /\ c * (c - 1) \in Int
  OBVIOUS
<1>6. PICK u \in Int, v \in Int : u = b * b - b /\ v = c * c - c /\ u <= v
  BY <1>2, <1>3, <1>4, <1>5
<1>7. /\ Roundabout(b) \in Int /\ Roundabout(c) \in Int /\ Roundabout(b) <= Roundabout(c)
      /\ Size - 1 \in Int
  BY <1>1 DEF Roundabout
<1>8. Longest(b) = u + ((Size - 1) + Roundabout(b)) /\ Longest(c) = v + ((Size - 1) + Roundabout(c))
  BY <1>6 DEF Longest
<1>9. QED
  BY <1>6, <1>7, <1>8

\* A way as short as there is one is no longer than that.
LEMMA ShortWay ==
    ASSUME NEW plan, NEW start \in Cells, NEW finish \in Cells, NEW way,
           WayOK(plan, start, finish, way), Shortest(plan, start, finish, way),
           isTransitable(plan, start), NEW b, b = Cardinality(BlockedCells(plan)), b < Size
    PROVE  Len(way) <= Longest(b)
<1> DEFINE stop(n) == Stop(way, start, n)
           far == (Size - 1) + Roundabout(b)
           off == {k \in 0..Len(way) : stop(k) \in Corners(plan)}
           on  == {k \in 0..Len(way) : stop(k) \in Streets(plan)}
           f   == [k \in off |-> stop(k)]
<1>1. PICK m \in Nat : m = Len(way)
  BY DEF WayOK
<1>2. way \in Seq(Cells) /\ \A k \in 0..m : stop(k) \in Cells
  BY <1>1 DEF WayOK, Stop
<1>3. \A k \in 0..m : isTransitable(plan, stop(k))
  BY <1>1 DEF WayOK, Stop
<1>4. b \in Nat /\ far \in Nat
  BY FewCorners, FloorAssumption DEF Roundabout
<1>5. \A j \in 0..m, k \in 0..m, d \in Nat :
         j <= k /\ stop(k) \in Within(plan, stop(j), d) => k - j <= d
  BY <1>1, NoShortcut
<1> HIDE DEF stop, far
<1>6. 0..m = off \cup on /\ off \cap on = {}
  <2>1. \A k \in 0..m : stop(k) \in Corners(plan) <=> stop(k) \notin Streets(plan)
    BY <1>2, <1>3 DEF Corners
  <2>2. QED
    BY <1>1, <2>1
<1>7. IsFiniteSet(off) /\ Cardinality(off) <= b * b - b
  <2>1. f \in [off -> Corners(plan)]
    OBVIOUS
  <2>2. \A j \in 0..m, k \in 0..m : stop(j) = stop(k) => j = k
    <3>1. ASSUME NEW j \in 0..m, NEW k \in 0..m, stop(j) = stop(k), j <= k
          PROVE  j = k
      <4>1. stop(k) \in Within(plan, stop(j), 0)
        BY <1>2, <3>1, WithinSteps
      <4>2. k - j <= 0
        BY <1>5, <3>1, <4>1
      <4>3. QED
        BY <3>1, <4>2
    <3>2. \A j \in 0..m, k \in 0..m : j <= k \/ k <= j
      OBVIOUS
    <3>3. QED
      BY <3>1, <3>2
  <2>3. f \in Injection(off, Corners(plan))
    BY <1>1, <2>1, <2>2 DEF Injection, IsInjective
  <2> HIDE DEF f, off
  <2>4. IsFiniteSet(off) /\ Cardinality(off) <= Cardinality(Corners(plan))
    BY <2>3, FewCorners, FS_Injection
  <2>5. Cardinality(off) \in Nat /\ Cardinality(Corners(plan)) \in Nat
    BY <2>4, FewCorners, FS_CardinalityType
  <2>6. QED
    BY <1>4, <2>4, <2>5, FewCorners
<1>8. IsFiniteSet(on) /\ Cardinality(on) <= far + 1
  <2>1. CASE on = {}
    <3> HIDE DEF on
    <3>1. IsFiniteSet(on) /\ Cardinality(on) = 0
      BY <2>1, FS_EmptySet
    <3>2. QED
      BY <1>4, <3>1
  <2>2. CASE on # {}
    <3>1. on \subseteq Nat
      BY <1>1
    <3>2. PICK j \in on : \A k \in on : j <= k
      BY <2>2, <3>1, LeastNumber, Zenon
    <3>3. ASSUME NEW k \in on
          PROVE  k \in j..(j + far)
      <4>1. j \in 0..m /\ k \in 0..m /\ j <= k
        BY <1>1, <3>2
      <4>2. stop(k) \in Within(plan, stop(j), far)
        <5>1. stop(j) \in Streets(plan) /\ stop(k) \in Streets(plan)
          OBVIOUS
        <5>2. Cardinality(BadRows(plan)) <= b /\ Cardinality(BadColumns(plan)) <= b
          BY FewBad
        <5>3. QED
          BY <1>4, <5>1, <5>2, AlongStreets DEF far
      <4>3. k - j <= far
        BY <1>4, <1>5, <4>1, <4>2
      <4>4. QED
        BY <1>4, <4>1, <4>3
    <3>4. PICK k \in Int : k = j + far /\ j \in Int /\ ~(j > k) /\ k - j + 1 = far + 1
      BY <1>4, <3>1
    <3>5. IsFiniteSet(j..k) /\ Cardinality(j..k) = far + 1
      BY <3>4, FS_Interval
    <3>6. on \subseteq j..k
      BY <3>3, <3>4
    <3> HIDE DEF on
    <3>7. QED
      BY <3>5, <3>6, FS_Subset
  <2>3. QED
    BY <2>1, <2>2
<1> HIDE DEF off, on
<1>9. Cardinality(0..m) = Cardinality(off) + Cardinality(on)
  <2>1. Cardinality(off \cap on) = 0
    BY <1>6, FS_EmptySet
  <2>2. Cardinality(off \cup on) = Cardinality(off) + Cardinality(on) - Cardinality(off \cap on)
    BY <1>7, <1>8, FS_Union
  <2>3. Cardinality(off) \in Nat /\ Cardinality(on) \in Nat
    BY <1>7, <1>8, FS_CardinalityType
  <2>4. Cardinality(0..m) = Cardinality(off \cup on)
    BY <1>6, Zenon
  <2>5. QED
    BY <2>1, <2>2, <2>3, <2>4
<1>10. Cardinality(0..m) = m + 1
  BY FS_Interval
<1>11. Cardinality(off) \in Nat /\ Cardinality(on) \in Nat /\ b * b \in Nat
  BY <1>4, <1>7, <1>8, FS_CardinalityType
<1>12. m <= (b * b - b) + far
  <2>1. PICK square \in Nat, k \in Nat, l \in Nat :
           square = b * b /\ k = Cardinality(off) /\ l = Cardinality(on)
    BY <1>11
  <2>2. k <= square - b /\ l <= far + 1 /\ m + 1 = k + l
    BY <1>7, <1>8, <1>9, <1>10, <2>1
  <2>3. m <= (square - b) + far
    BY <1>4, <2>2
  <2>4. QED
    BY <2>1, <2>3
<1>13. QED
  BY <1>1, <1>12 DEF Longest, far

\* On a floor with fewer blocked cells than rows the road never outgrows this bound: at most
\* a turn and a move for each cell of the way, and the last turn.
THEOREM FewBlocked ==
    ASSUME NEW plan, NEW start \in Cells, NEW finish \in Cells, start # finish,
           isTransitable(plan, start), Has(Search(plan, start, finish), finish),
           NEW b, b = Cardinality(BlockedCells(plan)), b < Size
    PROVE  LET road == RoadAlong(Way(Search(plan, start, finish), start, finish), start)
           IN  Len(road) \in Nat /\ Len(road) <= 2 * Longest(b) + 1
<1> DEFINE list == Search(plan, start, finish)
           way == Way(list, start, finish)
           moves == Cardinality(Forwards(RoadAlong(way, start)))
<1>1. /\ moves = Len(way)
      /\ \A n \in Nat : finish \in Within(plan, start, n) <=> moves <= n
  BY ShortestWay
<1> HIDE DEF moves
<1>2. list \in Seq(Nodes) /\ Distinct(list) /\ Descends(plan, start, list)
  BY SearchResult
<1>3. WayOK(plan, start, finish, way)
  BY <1>2, WayIsOK
<1> HIDE DEF way
<1>4. Shortest(plan, start, finish, way)
  BY <1>1 DEF Shortest
<1>5. Len(way) \in Nat /\ Len(way) <= Longest(b)
  BY <1>3, <1>4, ShortWay DEF WayOK
<1>6. Longest(b) \in Int
  BY FewCorners, FloorAssumption DEF Longest, Roundabout
<1>7. Len(RoadAlong(way, start)) <= 2 * Len(way) + 1
  BY <1>5, RoadLength
<1>8. Len(RoadAlong(way, start)) \in Nat
  BY <1>3, RoadMoves
<1>9. QED
  BY <1>5, <1>6, <1>7, <1>8 DEF way, list
=============================================================================
