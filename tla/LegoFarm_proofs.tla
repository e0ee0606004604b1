-------------------------- MODULE LegoFarm_proofs --------------------------
(***************************************************************************)
(* Theorems about the vehicles of the LEGO farm, for a floor of any size,  *)
(* any number of vehicles and any tables in which no two cells are the     *)
(* same, with links that fail at any step: that a vehicle which takes the  *)
(* road of the search step by step stays on it.                            *)
(***************************************************************************)
EXTENDS LegoFarm, AStar_proofs

-----------------------------------------------------------------------------
\* The road.

Poses == Cells \X Orientations

\* The cell ahead of c.
NextCell(c, h) ==
    LET n == CASE h = NORTH -> <<c[1] - 1, c[2]>>
               [] h = SOUTH -> <<c[1] + 1, c[2]>>
               [] h = EAST  -> <<c[1], c[2] + 1>>
               [] h = WEST  -> <<c[1], c[2] - 1>>
    IN  IF n \in Cells THEN n ELSE c

\* The motors of a turn.
MotorOf(a) == IF a = TURNRIGHT THEN "right" ELSE IF a = TURNLEFT THEN "left" ELSE "spin"

\* Action a takes a vehicle from p to q.
Does(a, p, q) ==
    IF a = FORWARD THEN q[1] = NextCell(p[1], p[2]) /\ q[2] = p[2]
    ELSE q[1] = p[1] /\ q[2] = Turned(p[2], MotorOf(a))

\* pose is where the actions of the road take a vehicle, one after the other.
Traces(plan, way, p, q, pose) ==
    /\ pose \in [0..Len(way) -> Poses]
    /\ pose[0] = p /\ pose[Len(way)] = q
    /\ \A k \in 1..Len(way) : /\ Does(way[k], pose[k - 1], pose[k])
                              /\ way[k] = FORWARD => isTransitable(plan, pose[k][1])

\* The road takes a vehicle from p to q, over free cells.
Takes(plan, way, p, q) ==
    way \in Seq(Moves) /\ \E pose : Traces(plan, way, p, q, pose)

\* One action more.
LEMMA TakesMore ==
    ASSUME NEW plan, NEW way, NEW p, NEW q, Takes(plan, way, p, q), NEW a \in Moves,
           NEW r \in Poses, Does(a, q, r), a = FORWARD => isTransitable(plan, r[1])
    PROVE  Takes(plan, Append(way, a), p, r)
<1> DEFINE longer == Append(way, a)
<1>1. way \in Seq(Moves) /\ Len(way) \in Nat
  BY DEF Takes
<1>2. /\ longer \in Seq(Moves) /\ Len(longer) = Len(way) + 1
      /\ \A k \in 1..Len(way) : longer[k] = way[k]
      /\ longer[Len(way) + 1] = a
  BY <1>1, AppendProperties
<1> HIDE DEF longer
<1>3. PICK pose : Traces(plan, way, p, q, pose)
  BY DEF Takes
<1> DEFINE other == [k \in 0..Len(longer) |-> IF k = Len(longer) THEN r ELSE pose[k]]
<1>4. other \in [0..Len(longer) -> Poses]
  <2>1. \A k \in 0..Len(longer) : k # Len(longer) => k \in 0..Len(way)
    BY <1>1, <1>2
  <2>2. QED
    BY <1>3, <2>1 DEF Traces
<1>5. other[Len(longer)] = r /\ \A k \in 0..Len(way) : other[k] = pose[k]
  <2>1. Len(longer) \in 0..Len(longer)
    BY <1>1, <1>2
  <2>2. \A k \in 0..Len(way) : k \in 0..Len(longer) /\ k # Len(longer)
    BY <1>1, <1>2
  <2>3. QED
    BY <2>1, <2>2
<1> HIDE DEF other
<1>6. ASSUME NEW k \in 1..Len(longer)
      PROVE  /\ Does(longer[k], other[k - 1], other[k])
             /\ longer[k] = FORWARD => isTransitable(plan, other[k][1])
  <2>1. CASE k \in 1..Len(way)
    <3>1. k \in 0..Len(way) /\ k - 1 \in 0..Len(way)
      BY <1>1, <2>1
    <3>2. longer[k] = way[k] /\ other[k] = pose[k] /\ other[k - 1] = pose[k - 1]
      BY <1>2, <1>5, <2>1, <3>1
    <3>3. /\ Does(way[k], pose[k - 1], pose[k])
          /\ way[k] = FORWARD => isTransitable(plan, pose[k][1])
      BY <1>3, <2>1 DEF Traces
    <3>4. QED
      BY <3>2, <3>3
  <2>2. CASE k = Len(way) + 1
    <3>1. k = Len(longer) /\ k - 1 = Len(way) /\ Len(way) \in 0..Len(way)
      BY <1>1, <1>2, <2>2
    <3>2. longer[k] = a /\ other[k] = r /\ other[k - 1] = q
      BY <1>2, <1>3, <1>5, <2>2, <3>1 DEF Traces
    <3>3. QED
      BY <3>2
  <2>3. QED
    BY <1>1, <1>2, <2>1, <2>2
<1>7. other[0] = p
  <2>1. 0 \in 0..Len(way)
    BY <1>1
  <2>2. QED
    BY <1>3, <1>5, <2>1 DEF Traces
<1>8. Traces(plan, longer, p, r, other)
  BY <1>4, <1>5, <1>6, <1>7 DEF Traces
<1>9. QED
  BY <1>2, <1>8 DEF Takes, longer

\* TurnTo() is a turn from one orientation to the other.
LEMMA TurnToTurns ==
    ASSUME NEW from \in Orientations, NEW to \in Orientations
    PROVE  \/ TurnTo(from, to) = <<>> /\ from = to
           \/ \E a \in Moves \ {FORWARD} : /\ TurnTo(from, to) = <<a>>
                                           /\ Turned(from, MotorOf(a)) = to
<1>1. from \in 1..4 /\ to \in 1..4
  BY DEF Orientations, NORTH, EAST, SOUTH, WEST
<1>2. /\ (to - from) % 4 = IF to >= from THEN to - from ELSE to - from + 4
      /\ \A q \in 1..3 : ((from + q - 1) % 4) + 1 = IF from + q <= 4 THEN from + q ELSE from + q - 4
  BY <1>1
<1>3. CASE from = to
  BY <1>1, <1>2, <1>3 DEF TurnTo
<1>4. CASE (to - from) % 4 = 1
  <2>1. TurnTo(from, to) = <<TURNRIGHT>>
    BY <1>4 DEF TurnTo
  <2>2. Turned(from, "right") = to
    BY <1>1, <1>2, <1>4 DEF Turned, Quarter
  <2>3. QED
    BY <2>1, <2>2 DEF MotorOf, Moves, TURNRIGHT, FORWARD
<1>5. CASE (to - from) % 4 = 3
  <2>1. TurnTo(from, to) = <<TURNLEFT>>
    BY <1>5 DEF TurnTo
  <2>2. Turned(from, "left") = to
    BY <1>1, <1>2, <1>5 DEF Turned, Quarter
  <2>3. QED
    BY <2>1, <2>2 DEF MotorOf, Moves, TURNLEFT, TURNRIGHT, FORWARD
<1>6. CASE (to - from) % 4 = 2
  <2>1. TurnTo(from, to) = <<SPIN>>
    BY <1>6 DEF TurnTo
  <2>2. Turned(from, "spin") = to
    BY <1>1, <1>2, <1>6 DEF Turned, Quarter
  <2>3. QED
    BY <2>1, <2>2 DEF MotorOf, Moves, SPIN, TURNLEFT, TURNRIGHT, FORWARD
<1>7. QED
  BY <1>1, <1>2, <1>3, <1>4, <1>5, <1>6

\* A turn at the end of a road.
LEMMA TakesTurn ==
    ASSUME NEW plan, NEW way, NEW p, NEW c \in Cells, NEW from \in Orientations,
           NEW to \in Orientations, Takes(plan, way, p, <<c, from>>)
    PROVE  Takes(plan, way \o TurnTo(from, to), p, <<c, to>>)
<1>1. way \in Seq(Moves)
  BY DEF Takes
<1>2. CASE TurnTo(from, to) = <<>> /\ from = to
  BY <1>1, <1>2, ConcatEmptySeq
<1>3. CASE \E a \in Moves \ {FORWARD} : TurnTo(from, to) = <<a>> /\ Turned(from, MotorOf(a)) = to
  <2>1. PICK a \in Moves \ {FORWARD} : TurnTo(from, to) = <<a>> /\ Turned(from, MotorOf(a)) = to
    BY <1>3
  <2>2. Does(a, <<c, from>>, <<c, to>>)
    BY <2>1 DEF Does
  <2>3. way \o TurnTo(from, to) = Append(way, a)
    BY <1>1, <2>1, AppendIsConcat
  <2>4. PICK r \in Poses : r = <<c, to>>
    BY DEF Poses
  <2>5. Takes(plan, Append(way, a), p, r)
    BY <2>2, <2>4, TakesMore
  <2>6. QED
    BY <2>3, <2>4, <2>5
<1>4. QED
  BY <1>2, <1>3, TurnToTurns

\* The direction of a step leads there.
LEMMA DirectionLeads ==
    ASSUME NEW c \in Cells, NEW d \in Cells, Adjacent(c, d)
    PROVE  Direction(c, d) \in Orientations /\ NextCell(c, Direction(c, d)) = d
<1>1. PICK x \in Int, y \in Int : x = c[1] /\ y = c[2]
  BY CellParts, FloorAssumption DEF Coordinates
<1>2. d = <<x, y - 1>> \/ d = <<x, y + 1>> \/ d = <<x - 1, y>> \/ d = <<x + 1, y>>
  BY <1>1, AdjacentParts
<1>3. CASE d = <<x, y - 1>>
  <2>1. Direction(c, d) = WEST
    BY <1>1, <1>3 DEF Direction
  <2>2. QED
    BY <1>1, <1>3, <2>1 DEF NextCell, Orientations, NORTH, EAST, SOUTH, WEST
<1>4. CASE d = <<x, y + 1>>
  <2>1. Direction(c, d) = EAST
    BY <1>1, <1>4 DEF Direction
  <2>2. QED
    BY <1>1, <1>4, <2>1 DEF NextCell, Orientations, NORTH, EAST, SOUTH, WEST
<1>5. CASE d = <<x - 1, y>>
  <2>1. Direction(c, d) = NORTH
    BY <1>1, <1>5 DEF Direction
  <2>2. QED
    BY <1>1, <1>5, <2>1 DEF NextCell, Orientations, NORTH, EAST, SOUTH, WEST
<1>6. CASE d = <<x + 1, y>>
  <2>1. Direction(c, d) = SOUTH
    BY <1>1, <1>6 DEF Direction
  <2>2. QED
    BY <1>1, <1>6, <2>1 DEF NextCell, Orientations, NORTH, EAST, SOUTH, WEST
<1>7. QED
  BY <1>2, <1>3, <1>4, <1>5, <1>6

\* The actions of a step.
LEMMA TakesActions ==
    ASSUME NEW plan, NEW way, NEW p, NEW c \in Cells, NEW d \in Cells, Adjacent(c, d),
           isTransitable(plan, d), NEW from \in Orientations,
           (Direction(c, d) - from) % 4 # 2 \/ from = NORTH, Takes(plan, way, p, <<c, from>>)
    PROVE  Takes(plan, way \o Actions(from, Direction(c, d)), p, <<d, Direction(c, d)>>)
<1>1. PICK to \in Orientations : to = Direction(c, d) /\ NextCell(c, to) = d
  BY DirectionLeads
<1>2. Actions(from, to) = TurnTo(from, to) \o <<FORWARD>>
  BY <1>1 DEF Actions
<1> DEFINE turned == way \o TurnTo(from, to)
<1>3. Takes(plan, turned, p, <<c, to>>)
  BY TakesTurn
<1>4. turned \in Seq(Moves) /\ way \in Seq(Moves) /\ TurnTo(from, to) \in Seq(Moves)
  <2>1. turned \in Seq(Moves) /\ way \in Seq(Moves)
    BY <1>3 DEF Takes
  <2>2. TurnTo(from, to) \in Seq(Moves)
    BY TurnToMoves
  <2>3. QED
    BY <2>1, <2>2
<1>5. FORWARD \in Moves /\ <<FORWARD>> \in Seq(Moves)
  BY DEF Moves
<1>6. way \o Actions(from, to) = Append(turned, FORWARD)
  <2>1. way \o (TurnTo(from, to) \o <<FORWARD>>) = turned \o <<FORWARD>>
    BY <1>4, <1>5, ConcatAssociative
  <2>2. Append(turned, FORWARD) = turned \o <<FORWARD>>
    BY <1>4, <1>5, AppendIsConcat
  <2>3. QED
    BY <1>2, <2>1, <2>2
<1> HIDE DEF turned
<1>7. PICK r \in Poses : r = <<d, to>>
  BY DEF Poses
<1>8. Does(FORWARD, <<c, to>>, r)
  BY <1>1, <1>7 DEF Does
<1>9. Takes(plan, Append(turned, FORWARD), p, r)
  BY <1>3, <1>5, <1>7, <1>8, TakesMore
<1>10. QED
  BY <1>1, <1>6, <1>7, <1>9

\* The road along a way takes a vehicle from the start to the finish.
LEMMA RoadTakes ==
    ASSUME NEW plan, NEW start \in Cells, NEW finish, NEW way, WayOK(plan, start, finish, way)
    PROVE  Takes(plan, RoadAlong(way, start), <<start, NORTH>>, <<finish, NORTH>>)
<1> DEFINE cell(k) == Stop(way, start, k)
           towards(k) == Heading(way, start, k)
           p == <<start, NORTH>>
<1>1. PICK path : /\ Grows(way, start, path)
                  /\ RoadAlong(way, start) = path[Len(way)] \o TurnTo(towards(Len(way)), NORTH)
  BY RoadGrows
<1>2. path[0] = <<>>
  BY <1>1 DEF Grows
<1>3. \A n \in Nat : path[n + 1] = path[n] \o Actions(towards(n), towards(n + 1))
  <2>1. SUFFICES ASSUME NEW n \in Nat
                 PROVE  path[n + 1] = path[n] \o Actions(towards(n), towards(n + 1))
    OBVIOUS
  <2>2. n + 1 \in Nat /\ n + 1 # 0 /\ (n + 1) - 1 = n
    OBVIOUS
  <2>3. QED
    BY <1>1, <2>2, Zenon DEF Grows
<1>4. way \in Seq(Cells) /\ Len(way) \in Nat
  BY DEF WayOK
<1>5. \A k \in 0..Len(way) : cell(k) \in Cells
  BY <1>4 DEF Stop
<1>6. \A k \in 1..Len(way) : Adjacent(cell(k - 1), cell(k)) /\ isTransitable(plan, cell(k))
  BY DEF WayOK, Stop
<1>7. \A k \in 2..Len(way) : cell(k - 2) # cell(k)
  BY DEF WayOK
<1>8. towards(0) = NORTH /\ \A k \in 1..Len(way) : towards(k) = Direction(cell(k - 1), cell(k))
  BY DEF Heading
<1>9. cell(0) = start /\ cell(Len(way)) = finish
  BY DEF WayOK, Stop
<1> HIDE DEF cell, towards
<1>10. \A k \in 0..Len(way) : towards(k) \in Orientations
  <2>1. SUFFICES ASSUME NEW k \in 0..Len(way)
                 PROVE  towards(k) \in Orientations
    OBVIOUS
  <2>2. CASE k = 0
    BY <1>8, <2>2 DEF Orientations
  <2>3. CASE k # 0
    <3>1. k \in 1..Len(way) /\ k - 1 \in 0..Len(way)
      BY <1>4, <2>3
    <3>2. QED
      BY <1>5, <1>6, <1>8, <3>1, DirectionLeads
  <2>4. QED
    BY <2>2, <2>3
<1>11. \A k \in 1..Len(way) : (towards(k) - towards(k - 1)) % 4 # 2 \/ towards(k - 1) = NORTH
  BY NoStepBack DEF towards
<1> DEFINE T == {n \in Nat : n <= Len(way) => Takes(plan, path[n], p, <<cell(n), towards(n)>>)}
<1>12. 0 \in T
  <2>1. \E pose : Traces(plan, <<>>, p, p, pose)
    <3>1. p \in Poses
      BY DEF Poses, Orientations
    <3>2. Traces(plan, <<>>, p, p, [k \in 0..0 |-> p])
      BY <3>1 DEF Traces
    <3>3. QED
      BY <3>2
  <2>2. Takes(plan, <<>>, p, p)
    BY <2>1 DEF Takes
  <2>3. QED
    BY <1>2, <1>8, <1>9, <2>2
<1> HIDE DEF p
<1>13. ASSUME NEW n \in T
       PROVE  n + 1 \in T
  <2>1. n \in Nat /\ n + 1 \in Nat
    OBVIOUS
  <2>2. SUFFICES ASSUME n + 1 <= Len(way)
                 PROVE  Takes(plan, path[n + 1], p, <<cell(n + 1), towards(n + 1)>>)
    BY <2>1
  <2>3. /\ n <= Len(way) /\ n \in 0..Len(way) /\ n + 1 \in 1..Len(way) /\ (n + 1) - 1 = n
        /\ n + 1 \in 0..Len(way)
    BY <1>4, <2>1, <2>2
  <2>4. Takes(plan, path[n], p, <<cell(n), towards(n)>>)
    BY <2>3
  <2>5. /\ cell(n) \in Cells /\ cell(n + 1) \in Cells /\ Adjacent(cell(n), cell(n + 1))
        /\ isTransitable(plan, cell(n + 1)) /\ towards(n) \in Orientations
        /\ towards(n + 1) = Direction(cell(n), cell(n + 1))
        /\ (towards(n + 1) - towards(n)) % 4 # 2 \/ towards(n) = NORTH
    BY <1>5, <1>6, <1>8, <1>10, <1>11, <2>3
  <2>6. path[n + 1] = path[n] \o Actions(towards(n), towards(n + 1))
    BY <1>3, <2>1
  <2>7. QED
    BY <2>4, <2>5, <2>6, TakesActions
<1>14. Nat \subseteq T
  <2>1. T \subseteq Nat
    OBVIOUS
  <2> HIDE DEF T
  <2>2. QED
    BY <1>12, <1>13, <2>1, NatSetInduction
<1>15. Takes(plan, path[Len(way)], p, <<finish, towards(Len(way))>>)
  <2>1. Len(way) \in T
    BY <1>4, <1>14, Zenon
  <2>2. QED
    BY <1>4, <1>9, <2>1
<1>16. finish \in Cells /\ towards(Len(way)) \in Orientations /\ NORTH \in Orientations
  <2>1. Len(way) \in 0..Len(way)
    BY <1>4
  <2>2. QED
    BY <1>5, <1>9, <1>10, <2>1 DEF Orientations
<1>17. QED
  BY <1>1, <1>15, <1>16, TakesTurn DEF p

\* What the path search of a vehicle achieves.
LEMMA SolveOK ==
    ASSUME NEW plan, NEW start \in Cells, NEW finish \in Cells, start # finish,
           isTransitable(plan, start),
           LastMarked(plan, START) = start, LastMarked(plan, FINISH) = finish
    PROVE  /\ Solves(plan) => /\ Takes(plan, solveAlgorithm(plan), <<start, NORTH>>, <<finish, NORTH>>)
                              /\ Len(solveAlgorithm(plan)) <= MaxRoad
           /\ ~Solves(plan) => \/ WalledIn(plan, start, finish)
                               \/ /\ searchNode(Search(plan, start, finish), finish) # 0
                                  /\ Len(solveAlgorithm(plan)) > MaxRoad
<1> DEFINE list == Search(plan, start, finish)
<1>1. /\ list \in Seq(Nodes) /\ Distinct(list) /\ Descends(plan, start, list)
      /\ Has(list, finish) \/ WalledIn(plan, start, finish)
  BY SearchResult
<1>2. searchNode(list, finish) # 0 <=> Has(list, finish)
  BY <1>1, SearchNode
<1>3. solveAlgorithm(plan) = RoadAlong(Way(list, start, finish), start)
  BY DEF solveAlgorithm
<1>4. Solves(plan) <=> searchNode(list, finish) # 0 /\ Len(solveAlgorithm(plan)) <= MaxRoad
  BY DEF Solves, solveAlgorithm
<1> HIDE DEF list
<1>5. Has(list, finish) =>
         Takes(plan, solveAlgorithm(plan), <<start, NORTH>>, <<finish, NORTH>>)
  BY <1>1, <1>3, WayIsOK, RoadTakes
<1>6. Has(list, finish) => Len(solveAlgorithm(plan)) \in Nat
  BY <1>5 DEF Takes
<1>7. MaxRoad \in Nat
  BY FloorAssumption
<1>8. QED
  BY <1>1, <1>2, <1>4, <1>5, <1>6, <1>7 DEF list

-----------------------------------------------------------------------------
\* The plans.

Marks == {Blocked, Free, START, FINISH}

\* A robot alone in a set is the last one of it.
LEMMA LastOfOne ==
    ASSUME NEW k \in Robots, NEW S, S = {k}
    PROVE  (CHOOSE last \in S : \A other \in S : other <= last) = k
BY DEF Robots

\* What the plan of vehicle n says of the cells of the table.
LEMMA PlanAt ==
    ASSUME NEW table \in Tables, AllApart(table), NEW n \in Robots
    PROVE  /\ Plan(table, n) \in [Cells -> Marks]
           /\ \A k \in Robots : /\ Plan(table, n)[table[k].start] = MarkOfStart(n, k)
                                /\ Plan(table, n)[table[k].dest] = MarkOfDest(n, k)
           /\ \A c \in Cells : (\A k \in Robots : c # table[k].start /\ c # table[k].dest)
                                  => Plan(table, n)[c] = Free
<1> DEFINE ks(c) == {k \in Robots : c \in {table[k].start, table[k].dest}}
           last(c) == CHOOSE m \in ks(c) : \A other \in ks(c) : other <= m
           mark(c) == IF ks(c) = {} THEN Free
                      ELSE IF c = table[last(c)].dest THEN MarkOfDest(n, last(c))
                      ELSE MarkOfStart(n, last(c))
<1>1. table \in [Robots -> [start : Cells, dest : Cells]]
  BY FarmAssumption
<1>2. \A k \in Robots : table[k].start \in Cells /\ table[k].dest \in Cells
  BY <1>1
<1>3. \A c \in Cells : Plan(table, n)[c] = mark(c)
  BY DEF Plan
<1>4. \A k \in Robots : MarkOfStart(n, k) \in Marks /\ MarkOfDest(n, k) \in Marks
  BY DEF MarkOfStart, MarkOfDest, Marks
<1>5. ASSUME NEW k \in Robots, NEW c \in {table[k].start, table[k].dest}
      PROVE  ks(c) = {k} /\ last(c) = k
  <2>1. ks(c) = {k}
    BY <1>5 DEF AllApart
  <2> HIDE DEF ks
  <2>2. QED
    BY <2>1, LastOfOne
<1>6. \A c \in Cells : ks(c) # {} => \E k \in Robots : c \in {table[k].start, table[k].dest}
  OBVIOUS
<1>7. \A c \in Cells : (\A k \in Robots : c # table[k].start /\ c # table[k].dest) => ks(c) = {}
  OBVIOUS
<1>10. Free \in Marks
  BY DEF Marks
<1> HIDE DEF ks, last
<1>8. \A c \in Cells : mark(c) \in Marks
  BY <1>4, <1>5, <1>6, <1>10
<1>9. Plan(table, n) = [c \in Cells |-> Plan(table, n)[c]]
  BY DEF Plan
<1>11. Plan(table, n) \in [Cells -> Marks]
  BY <1>3, <1>8, <1>9
<1>12. ASSUME NEW k \in Robots
       PROVE  /\ Plan(table, n)[table[k].start] = MarkOfStart(n, k)
              /\ Plan(table, n)[table[k].dest] = MarkOfDest(n, k)
  <2>1. table[k].start # table[k].dest
    BY DEF AllApart
  <2>2. ks(table[k].start) # {} /\ last(table[k].start) = k
    BY <1>5
  <2>3. ks(table[k].dest) # {} /\ last(table[k].dest) = k
    BY <1>5
  <2>4. QED
    BY <1>2, <1>3, <2>1, <2>2, <2>3
<1>13. \A c \in Cells : ks(c) = {} => Plan(table, n)[c] = Free
  BY <1>3
<1>14. QED
  BY <1>7, <1>11, <1>12, <1>13

\* The cell of a mark that is there once.
LEMMA LastMarkedOne ==
    ASSUME NEW plan, NEW mark, NEW c \in Cells, \A d \in Cells : plan[d] = mark <=> d = c
    PROVE  LastMarked(plan, mark) = c
<1> DEFINE marked == {d \in Cells : plan[d] = mark}
<1>1. marked = {c}
  OBVIOUS
<1>2. c[1] * Size + c[2] <= c[1] * Size + c[2]
  <2>1. PICK x \in Int, y \in Int : x = c[1] /\ y = c[2]
    BY CellParts, FloorAssumption DEF Coordinates
  <2>2. x * Size + y \in Int
    BY FloorAssumption
  <2>3. QED
    BY <2>1, <2>2
<1>3. LastMarked(plan, mark) =
         IF marked = {} THEN <<0, 0>>
         ELSE CHOOSE b \in marked : \A d \in marked : d[1] * Size + d[2] <= b[1] * Size + b[2]
  BY DEF LastMarked
<1> HIDE DEF marked
<1>4. \A b \in marked : b = c
  BY <1>1
<1>5. \E b \in marked : \A d \in marked : d[1] * Size + d[2] <= b[1] * Size + b[2]
  BY <1>1, <1>2
<1>6. (CHOOSE b \in marked : \A d \in marked : d[1] * Size + d[2] <= b[1] * Size + b[2]) \in marked
  BY <1>5, Zenon
<1>7. QED
  BY <1>1, <1>3, <1>4, <1>6

\* The plan of vehicle n has its start and its end, and keeps it away from the others.
LEMMA PlanOK ==
    ASSUME NEW table \in Tables, AllApart(table), NEW n \in Robots
    PROVE  /\ Plan(table, n) \in [Cells -> Marks]
           /\ table[n].start \in Cells /\ table[n].dest \in Cells /\ table[n].start # table[n].dest
           /\ LastMarked(Plan(table, n), START) = table[n].start
           /\ LastMarked(Plan(table, n), FINISH) = table[n].dest
           /\ isTransitable(Plan(table, n), table[n].start)
           /\ \A k \in Robots : k < n => ~isTransitable(Plan(table, n), table[k].dest)
           /\ \A k \in Robots : k > n => ~isTransitable(Plan(table, n), table[k].start)
<1> DEFINE plan == Plan(table, n)
<1>1. \A k \in Robots : table[k].start \in Cells /\ table[k].dest \in Cells
  BY FarmAssumption
<1>2. /\ plan \in [Cells -> Marks]
      /\ \A k \in Robots : /\ plan[table[k].start] = MarkOfStart(n, k)
                           /\ plan[table[k].dest] = MarkOfDest(n, k)
      /\ \A c \in Cells : (\A k \in Robots : c # table[k].start /\ c # table[k].dest) => plan[c] = Free
  BY PlanAt
<1> HIDE DEF plan
<1>3. /\ \A k \in Robots : MarkOfStart(n, k) = START <=> k = n
      /\ \A k \in Robots : MarkOfDest(n, k) # START
      /\ \A k \in Robots : MarkOfDest(n, k) = FINISH <=> k = n
      /\ \A k \in Robots : MarkOfStart(n, k) # FINISH
      /\ \A k \in Robots : MarkOfStart(n, k) = Blocked <=> k > n
      /\ \A k \in Robots : MarkOfDest(n, k) = Blocked <=> k < n
  BY DEF MarkOfStart, MarkOfDest, Blocked, Free, START, FINISH, Robots
<1>4. Free # START /\ Free # FINISH
  BY DEF Free, START, FINISH
<1>5. \A d \in Cells : plan[d] = START <=> d = table[n].start
  BY <1>1, <1>2, <1>3, <1>4
<1>6. \A d \in Cells : plan[d] = FINISH <=> d = table[n].dest
  BY <1>1, <1>2, <1>3, <1>4
<1>7. LastMarked(plan, START) = table[n].start /\ LastMarked(plan, FINISH) = table[n].dest
  BY <1>1, <1>5, <1>6, LastMarkedOne
<1>8. table[n].start # table[n].dest
  BY DEF AllApart
<1>9. n \in Nat /\ ~(n > n)
  BY DEF Robots
<1>10. QED
  BY <1>1, <1>2, <1>3, <1>7, <1>8, <1>9 DEF isTransitable, plan

-----------------------------------------------------------------------------
\* The invariant of the farm.

\* The points of runVehicle() at which the vehicle has a road.
Driving == {"light", "action", "normalize", "drive", "look", "veer", "creep", "poll", "off", "dark"}

\* The vehicles that have not begun to drive.
Waiting == {r \in Robots : \/ client[1] \in {"instantiate", "objective"}
                           \/ client[1] = "run" /\ r > Running
                           \/ client[1] = "run" /\ r = Running /\ vpc \notin Driving}

\* The vehicle has not moved yet.
Parked(r) ==
    /\ motion[r] = "still" /\ line[r] = "none"
    /\ place[r] = positions[r].start /\ heading[r] = NORTH

\* The vehicle has arrived.
There(r) ==
    /\ place[r] = positions[r].dest /\ heading[r] = NORTH
    /\ motion[r] = "still" /\ r \notin lit

\* The client has handed out the plans.
Planned ==
    /\ client[1] = "objective" => \A r \in Robots : r < Running => grid[r] = Plan(positions, r)
    /\ client[1] \in {"run", "done"} => \A r \in Robots : grid[r] = Plan(positions, r)

\* The poses along the road of a vehicle.
Trace(table, n, way, pose) ==
    Traces(Plan(table, n), way, <<table[n].start, NORTH>>, <<table[n].dest, NORTH>>, pose)

RouteOf(table, n, way) == CHOOSE pose : Trace(table, n, way, pose)

\* The route of the vehicle that runs, and whether it is at its kth pose.
Route == RouteOf(positions, Running, road)

Spot(k) == place[Running] = Route[k][1] /\ heading[Running] = Route[k][2]

Quiet == motion[Running] = "still" /\ line[Running] = "none"

\* The end of the action at hand; the last creep does not leave the place.
After == Spot(IF i <= Len(road) THEN i ELSE Len(road))

\* The motors are still to stop by themselves.
Moving ==
    /\ Spot(i - 1)
    /\ \/ i <= Len(road) /\ road[i] = FORWARD /\ motion[Running] = "creep" /\ line[Running] = "both"
       \/ /\ i <= Len(road) /\ road[i] # FORWARD
          /\ motion[Running] = MotorOf(road[i]) /\ line[Running] = "none"
       \/ i = Len(road) + 1 /\ motion[Running] = "creep" /\ line[Running] = "none"

\* Where the vehicle is, at each call of the device, as long as its link holds.
OnRoad ==
    /\ vpc = "light" => i = 1 /\ Spot(0) /\ Quiet
    /\ vpc \in Driving \ {"light"} => Running \in lit
    /\ vpc \in {"action", "normalize", "drive", "look", "veer", "creep"} => Spot(i - 1)
    /\ vpc \in {"normalize", "drive", "look", "veer", "creep"} => i <= Len(road) /\ road[i] = FORWARD
    /\ vpc \in {"action", "normalize"} => Quiet
    /\ vpc = "drive" => \/ Quiet
                        \/ motion[Running] \in {"drive", "veer"}
    /\ vpc \in {"look", "veer", "creep"} => motion[Running] \in {"drive", "veer"}
    /\ vpc = "creep" => line[Running] = "both"
    /\ vpc = "poll" => Moving \/ (Quiet /\ After)
    /\ vpc = "off" => Quiet /\ After
    /\ vpc = "dark" => Quiet /\ Spot(Len(road))

\* The vehicle that runs has a road, and is on it.
OnTheWay ==
    vpc \in Driving =>
        /\ Trace(positions, Running, road, Route)
        /\ vpc # "dark" => i <= Len(road) + 1
        /\ link[Running] = "up" => OnRoad

\* The inductive invariant: the others are where they began or where they
\* belong, and the one that runs is on its route.
FarmInv ==
    /\ FarmTypeOK
    /\ AllApart(positions)
    /\ vpc # "idle" => client[1] = "run"
    /\ vpc = "threw" => ~Solves(grid[Running])
    /\ Planned
    /\ \A r \in Waiting : Parked(r)
    /\ \A r \in Done : link[r] = "up" => There(r)
    /\ OnTheWay

-----------------------------------------------------------------------------
\* The farm begins with the invariant.
LEMMA FarmInitOK == ASSUME ApartTables PROVE FarmInit => FarmInv
<1> SUFFICES ASSUME FarmInit
             PROVE  FarmInv
  OBVIOUS
<1>1. positions \in Tables /\ positions \in [Robots -> [start : Cells, dest : Cells]]
  BY FarmAssumption DEF FarmInit
<1>2. 1 \in Robots
  BY FarmAssumption DEF Robots
<1>3. FarmTypeOK
  <2>1. road \in Seq({FORWARD, TURNRIGHT, TURNLEFT, SPIN}) /\ Len(road) = 0 /\ i \in 1..(Len(road) + 2)
    BY DEF FarmInit
  <2>2. Len(road) <= MaxRoad
    BY <2>1, FloorAssumption
  <2>3. /\ client \in {"instantiate", "objective", "run", "done"} \X Robots
        /\ grid \in [Robots -> [Cells -> {Blocked, Free, START, FINISH}]]
        /\ place \in [Robots -> Cells] /\ heading \in [Robots -> Orientations]
    BY <1>1, <1>2 DEF FarmInit, Orientations
  <2>4. QED
    BY <1>1, <2>1, <2>2, <2>3 DEF FarmInit, FarmTypeOK
<1>4. Waiting = Robots /\ Done = {}
  BY DEF FarmInit, Waiting, Done
<1>5. \A r \in Robots : Parked(r)
  BY DEF FarmInit, Parked
<1>6. Planned
  BY DEF FarmInit, Planned
<1>7. OnTheWay
  BY DEF FarmInit, OnTheWay, Driving
<1>8. QED
  BY <1>1, <1>3, <1>4, <1>5, <1>6, <1>7 DEF FarmInit, FarmInv, ApartTables

\* The next vehicle, or the next phase.
LEMMA NextOfIs ==
    ASSUME Running \in Robots, NEW phase, NEW after
    PROVE  \/ Running + 1 \in Robots /\ NextOf(phase, after) = <<phase, Running + 1>>
           \/ Running = NRobots /\ NextOf(phase, after) = <<after, 1>> /\ 1 \in Robots
BY FarmAssumption DEF NextOf, Robots

\* An instantiation moves nothing.
LEMMA InstantiateOK == ASSUME FarmInv, Instantiate PROVE FarmInv'
<1>1. /\ client[1] = "instantiate" /\ Running \in Robots /\ vpc = "idle"
      /\ UNCHANGED <<positions, grid, vpc, road, i, lit, motion, line, place, heading>>
  BY DEF Instantiate, FarmInv, FarmTypeOK, world, Running
<1>2. client' \in {"instantiate", "objective"} \X Robots /\ (client'[1] = "objective" => client'[2] = 1)
  BY <1>1, NextOfIs DEF Instantiate
<1>3. FarmTypeOK'
  <2>1. link' \in [Robots -> {"new", "absent", "none", "up", "down"}]
    BY <1>1 DEF Instantiate, FarmInv, FarmTypeOK
  <2>2. QED
    BY <1>1, <1>2, <2>1 DEF FarmInv, FarmTypeOK
<1>4. Waiting = Robots /\ Waiting' = Robots /\ Done' = {}
  BY <1>1, <1>2 DEF Waiting, Done
<1>5. \A r \in Robots : Parked(r)'
  BY <1>1, <1>4 DEF FarmInv, Parked
<1>6. Planned'
  <2>1. ASSUME client'[1] = "objective", NEW r \in Robots
        PROVE  ~(r < client'[2])
    BY <1>2, <2>1 DEF Robots
  <2>2. QED
    BY <1>2, <2>1 DEF Planned, Running
<1>7. OnTheWay'
  BY <1>1 DEF OnTheWay, Driving
<1>8. QED
  BY <1>1, <1>3, <1>4, <1>5, <1>6, <1>7 DEF FarmInv

\* Each vehicle has its plan when they begin to run.
LEMMA SetObjectiveOK == ASSUME FarmInv, SetObjective PROVE FarmInv'
<1>1. /\ client[1] = "objective" /\ Running \in Robots /\ vpc = "idle"
      /\ UNCHANGED <<positions, vpc, road, i, link, lit, motion, line, place, heading>>
      /\ grid' = [grid EXCEPT ![Running] = Plan(positions, Running)]
      /\ client' = NextOf("objective", "run")
  BY DEF SetObjective, FarmInv, FarmTypeOK, world, Running
<1>2. \/ client' = <<"objective", Running + 1>> /\ Running + 1 \in Robots
      \/ client' = <<"run", 1>> /\ Running = NRobots /\ 1 \in Robots
  BY <1>1, NextOfIs
<1>3. positions \in Tables /\ AllApart(positions) /\ grid \in [Robots -> [Cells -> Marks]]
  BY DEF FarmInv, FarmTypeOK, Marks
<1>4. grid' \in [Robots -> [Cells -> Marks]]
  BY <1>1, <1>3, PlanOK
<1>5. client' \in {"instantiate", "objective", "run", "done"} \X Robots
  BY <1>2
<1>6. FarmTypeOK'
  BY <1>1, <1>4, <1>5 DEF FarmInv, FarmTypeOK, Marks
<1>7. Waiting = Robots /\ Waiting' = Robots /\ Done' = {}
  <2>1. Waiting = Robots
    BY <1>1 DEF Waiting
  <2>2. Waiting' = Robots
    BY <1>1, <1>2 DEF Waiting, Driving, Robots, Running
  <2>3. Done' = {}
    BY <1>1, <1>2 DEF Done, Robots, Running
  <2>4. QED
    BY <2>1, <2>2, <2>3
<1>8. \A r \in Robots : Parked(r)'
  BY <1>1, <1>7 DEF FarmInv, Parked
<1>9. \A r \in Robots : r <= Running => grid'[r] = Plan(positions, r)
  <2>1. \A r \in Robots : r < Running => grid[r] = Plan(positions, r)
    BY <1>1 DEF FarmInv, Planned
  <2>2. \A r \in Robots : r <= Running => r < Running \/ r = Running
    BY <1>1 DEF Robots
  <2>3. QED
    BY <1>1, <1>3, <2>1, <2>2
<1>10. Planned'
  <2>1. \A r \in Robots : r < Running + 1 => r <= Running
    BY <1>1 DEF Robots
  <2>2. \A r \in Robots : Running = NRobots => r <= Running
    BY <1>1 DEF Robots
  <2>3. CASE client' = <<"objective", Running + 1>>
    <3>1. client'[1] = "objective" /\ Running' = Running + 1
      BY <2>3 DEF Running
    <3>2. QED
      BY <1>1, <1>9, <2>1, <3>1 DEF Planned
  <2>4. CASE client' = <<"run", 1>> /\ Running = NRobots
    <3>1. client'[1] = "run"
      BY <2>4
    <3>2. QED
      BY <1>1, <1>9, <2>2, <2>4, <3>1 DEF Planned
  <2>5. QED
    BY <1>2, <2>3, <2>4
<1>11. OnTheWay'
  BY <1>1 DEF OnTheWay, Driving
<1>12. QED
  BY <1>1, <1>3, <1>6, <1>7, <1>8, <1>10, <1>11 DEF FarmInv

\* A step in which the vehicle that runs goes on with its road leaves the others.
LEMMA GoesOn ==
    ASSUME FarmInv, vpc \in Driving, vpc' \in Driving,
           UNCHANGED <<positions, client, grid, road, link>>,
           NEW m \in {"still", "drive", "veer", "creep", "right", "left", "spin"},
           NEW l \in {"none", "left", "right", "both"}, NEW c \in Cells, NEW h \in Orientations,
           motion' = [motion EXCEPT ![Running] = m], line' = [line EXCEPT ![Running] = l],
           place' = [place EXCEPT ![Running] = c], heading' = [heading EXCEPT ![Running] = h],
           lit' \in {lit, lit \cup {Running}, lit \ {Running}},
           i' \in 1..(Len(road) + 2), vpc' # "dark" => i' <= Len(road) + 1,
           link[Running] = "up" => OnRoad'
    PROVE  FarmInv'
<1>1. client[1] = "run" /\ Running \in Robots
  BY DEF FarmInv, FarmTypeOK, Driving, Running
<1>2. FarmTypeOK'
  <2>1. /\ vpc' \in {"idle", "road", "threw", "light", "action", "normalize", "drive",
                     "look", "veer", "creep", "poll", "off", "dark"}
        /\ lit' \subseteq Robots
    BY <1>1 DEF FarmInv, FarmTypeOK, Driving
  <2>2. /\ motion' \in [Robots -> {"still", "drive", "veer", "creep", "right", "left", "spin"}]
        /\ line' \in [Robots -> {"none", "left", "right", "both"}]
        /\ place' \in [Robots -> Cells] /\ heading' \in [Robots -> Orientations]
    BY DEF FarmInv, FarmTypeOK
  <2>3. QED
    BY <2>1, <2>2 DEF FarmInv, FarmTypeOK
<1>3. Waiting' = Waiting /\ Done' = Done /\ Running' = Running
      /\ Running \notin Waiting /\ Running \notin Done
  BY <1>1 DEF Waiting, Done, Running, Robots
<1>4. \A r \in Robots : r # Running =>
         /\ motion'[r] = motion[r] /\ line'[r] = line[r] /\ place'[r] = place[r]
         /\ heading'[r] = heading[r] /\ (r \in lit' <=> r \in lit)
  BY DEF FarmInv, FarmTypeOK
<1>5. \A r \in Waiting' : Parked(r)'
  BY <1>3, <1>4 DEF FarmInv, Parked, Waiting
<1>6. \A r \in Done' : link'[r] = "up" => There(r)'
  BY <1>3, <1>4 DEF FarmInv, There, Done
<1>7. Route' = Route
  BY <1>3 DEF Route
<1>8. OnTheWay'
  BY <1>3, <1>7 DEF FarmInv, OnTheWay
<1>9. vpc' # "idle" /\ vpc' # "threw" /\ client'[1] = "run" /\ Planned' /\ AllApart(positions')
  BY <1>1 DEF Driving, FarmInv, Planned, Running
<1>10. QED
  BY <1>2, <1>5, <1>6, <1>8, <1>9 DEF FarmInv

\* A step that moves nothing, or only the vehicle in the brick of which something
\* happens.
LEMMA VehicleSteps ==
    ASSUME FarmInv, vpc \in Driving, vpc' \in Driving,
           UNCHANGED <<positions, client, grid, road, link, line, place, heading>>,
           \/ motion' = motion
           \/ \E m \in {"still", "drive", "veer", "creep", "right", "left", "spin"} :
                 motion' = [motion EXCEPT ![Running] = m],
           lit' \in {lit, lit \cup {Running}, lit \ {Running}},
           i' \in 1..(Len(road) + 2), vpc' # "dark" => i' <= Len(road) + 1,
           link[Running] = "up" => OnRoad'
    PROVE  FarmInv'
<1>1. Running \in Robots
  BY DEF FarmInv, FarmTypeOK, Running
<1>2. PICK m \in {"still", "drive", "veer", "creep", "right", "left", "spin"} :
         motion' = [motion EXCEPT ![Running] = m]
  <2>1. /\ motion[Running] \in {"still", "drive", "veer", "creep", "right", "left", "spin"}
        /\ motion = [motion EXCEPT ![Running] = motion[Running]]
    BY <1>1 DEF FarmInv, FarmTypeOK
  <2>2. QED
    BY <2>1
<1>3. PICK l \in {"none", "left", "right", "both"} : line' = [line EXCEPT ![Running] = l]
  <2>1. line[Running] \in {"none", "left", "right", "both"} /\ line' = [line EXCEPT ![Running] = line[Running]]
    BY <1>1 DEF FarmInv, FarmTypeOK
  <2>2. QED
    BY <2>1
<1>4. PICK c \in Cells : place' = [place EXCEPT ![Running] = c]
  <2>1. place[Running] \in Cells /\ place' = [place EXCEPT ![Running] = place[Running]]
    BY <1>1 DEF FarmInv, FarmTypeOK
  <2>2. QED
    BY <2>1
<1>5. PICK h \in Orientations : heading' = [heading EXCEPT ![Running] = h]
  <2>1. /\ heading[Running] \in Orientations
        /\ heading' = [heading EXCEPT ![Running] = heading[Running]]
    BY <1>1 DEF FarmInv, FarmTypeOK
  <2>2. QED
    BY <2>1
<1>6. UNCHANGED <<positions, client, grid, road, link>>
  OBVIOUS
<1>7. QED
  BY ONLY FarmInv, vpc \in Driving, vpc' \in Driving, <1>2, <1>3, <1>4, <1>5, <1>6,
     lit' \in {lit, lit \cup {Running}, lit \ {Running}}, i' \in 1..(Len(road) + 2),
     vpc' # "dark" => i' <= Len(road) + 1, link[Running] = "up" => OnRoad', GoesOn

\* A command to the motors arrives, unless the link does not hold.
LEMMA MotorStates ==
    ASSUME NEW m, setMotorState(Running, m)
    PROVE  /\ motion' = motion \/ motion' = [motion EXCEPT ![Running] = m]
           /\ link[Running] = "up" => motion' = [motion EXCEPT ![Running] = m]
BY DEF setMotorState, setOutputState, connectedToLego, Exchanges

\* So does one to the sensors.
LEMMA SensorStates ==
    ASSUME NEW on \in BOOLEAN, setSensorState(Running, on)
    PROVE  /\ lit' \in {lit, lit \cup {Running}, lit \ {Running}}
           /\ link[Running] = "up" =>
                 lit' = IF on THEN lit \cup {Running} ELSE lit \ {Running}
BY DEF setSensorState, setInputMode, connectedToLego, Exchanges

\* The facts that the steps along a road need.
LEMMA OnTheRoad ==
    ASSUME FarmInv, vpc \in Driving
    PROVE  /\ Running \in Robots /\ client[1] = "run"
           /\ Len(road) \in Nat /\ i \in 1..(Len(road) + 2)
           /\ vpc # "dark" => i <= Len(road) + 1
           /\ link[Running] = "up" => OnRoad
           /\ \A k \in 1..Len(road) : road[k] \in Moves
           /\ motion \in [Robots -> {"still", "drive", "veer", "creep", "right", "left", "spin"}]
           /\ line \in [Robots -> {"none", "left", "right", "both"}]
           /\ place \in [Robots -> Cells] /\ heading \in [Robots -> Orientations]
           /\ lit \subseteq Robots
<1>1. Running \in Robots /\ road \in Seq(Moves) /\ client[1] = "run"
  BY DEF FarmInv, FarmTypeOK, Running, Moves, Driving
<1>2. Len(road) \in Nat /\ \A k \in 1..Len(road) : road[k] \in Moves
  BY <1>1
<1>3. QED
  BY <1>1, <1>2 DEF FarmInv, FarmTypeOK, OnTheWay

\* A vehicle that has not been moved is where it was.
LEMMA SameSpot ==
    ASSUME UNCHANGED <<positions, client, road, place, heading>>
    PROVE  Running' = Running /\ Route' = Route /\ \A k : Spot(k)' = Spot(k)
<1>1. Running' = Running
  BY DEF Running
<1>2. Route' = Route
  BY <1>1 DEF Route
<1>3. QED
  BY <1>1, <1>2 DEF Spot

\* The light is switched on.
LEMMA SensorsOnOK == ASSUME FarmInv, SensorsOn PROVE FarmInv'
<1>1. /\ vpc = "light" /\ vpc \in Driving /\ vpc' = "action" /\ vpc' \in Driving
      /\ UNCHANGED <<positions, client, grid, road, i, link, motion, line, place, heading>>
      /\ setSensorState(Running, TRUE)
  BY DEF SensorsOn, Driving
<1>2. ASSUME link[Running] = "up"
      PROVE  OnRoad'
  <2>1. OnRoad /\ i = 1 /\ Spot(i - 1) /\ Quiet
    BY <1>1, <1>2, OnTheRoad DEF OnRoad
  <2>2. Running \in lit'
    BY <1>1, <1>2, SensorStates
  <2>3. Spot(i - 1)' /\ Quiet' /\ Running' = Running
    BY <1>1, <2>1, SameSpot DEF Quiet, Spot
  <2>4. QED
    BY <1>1, <2>2, <2>3 DEF OnRoad
<1>3. i' \in 1..(Len(road) + 2) /\ i' <= Len(road) + 1
  BY <1>1, OnTheRoad
<1>4. QED
  BY <1>1, <1>2, <1>3, SensorStates, VehicleSteps

\* A turn is begun.
LEMMA TurnsBegin ==
    ASSUME FarmInv, NEW a \in Moves \ {FORWARD}, At(a), Motors(MotorOf(a), "action", "poll"),
           UNCHANGED i
    PROVE  FarmInv'
<1>1. /\ vpc = "action" /\ vpc \in Driving /\ vpc' = "poll" /\ vpc' \in Driving
      /\ UNCHANGED <<positions, client, grid, road, i, link, lit, line, place, heading>>
      /\ setMotorState(Running, MotorOf(a)) /\ i <= Len(road) /\ road[i] = a
  BY DEF Motors, At, Driving
<1>2. ASSUME link[Running] = "up"
      PROVE  OnRoad'
  <2>1. OnRoad /\ Spot(i - 1) /\ Quiet /\ Running \in lit
    BY <1>1, <1>2, OnTheRoad DEF OnRoad
  <2>2. motion' = [motion EXCEPT ![Running] = MotorOf(a)]
    BY <1>1, <1>2, MotorStates
  <2>3. motion'[Running] = MotorOf(a) /\ line'[Running] = "none"
    BY <1>1, <2>1, <2>2, OnTheRoad DEF Quiet
  <2>4. Spot(i - 1)' /\ Running' = Running
    BY <1>1, <2>1, SameSpot DEF Spot
  <2>5. Moving'
    BY <1>1, <2>3, <2>4 DEF Moving
  <2>6. QED
    BY <1>1, <2>1, <2>4, <2>5 DEF OnRoad
<1>3. MotorOf(a) \in {"still", "drive", "veer", "creep", "right", "left", "spin"}
  BY DEF MotorOf
<1>4. i' \in 1..(Len(road) + 2) /\ i' <= Len(road) + 1
  BY <1>1, OnTheRoad
<1>5. QED
  BY <1>1, <1>2, <1>3, <1>4, MotorStates, VehicleSteps

\* The last movement of the vehicle is begun.
LEMMA LastCreepOK == ASSUME FarmInv, LastCreep PROVE FarmInv'
<1>1. /\ vpc = "action" /\ vpc \in Driving /\ vpc' = "poll" /\ vpc' \in Driving
      /\ UNCHANGED <<positions, client, grid, road, i, link, lit, line, place, heading>>
      /\ setMotorState(Running, "creep") /\ i > Len(road)
  BY DEF LastCreep, Motors, Driving
<1>2. ASSUME link[Running] = "up"
      PROVE  OnRoad'
  <2>1. OnRoad /\ Spot(i - 1) /\ Quiet /\ Running \in lit /\ i = Len(road) + 1
    BY <1>1, <1>2, OnTheRoad DEF OnRoad
  <2>2. motion' = [motion EXCEPT ![Running] = "creep"]
    BY <1>1, <1>2, MotorStates
  <2>3. motion'[Running] = "creep" /\ line'[Running] = "none"
    BY <1>1, <2>1, <2>2, OnTheRoad DEF Quiet
  <2>4. Spot(i - 1)' /\ Running' = Running
    BY <1>1, <2>1, SameSpot DEF Spot
  <2>5. Moving'
    BY <1>1, <2>1, <2>3, <2>4 DEF Moving
  <2>6. QED
    BY <1>1, <2>1, <2>4, <2>5 DEF OnRoad
<1>3. i' \in 1..(Len(road) + 2) /\ i' <= Len(road) + 1
  BY <1>1, OnTheRoad
<1>4. QED
  BY <1>1, <1>2, <1>3, MotorStates, VehicleSteps

\* A step that only looks, or goes on to the next call, moves nothing.
LEMMA LooksOn ==
    ASSUME FarmInv, vpc \in Driving, vpc' \in Driving, vpc # "dark", vpc' # "dark",
           UNCHANGED <<positions, client, grid, road, i, link, world>>,
           link[Running] = "up" => OnRoad'
    PROVE  FarmInv'
<1>1. UNCHANGED <<positions, client, grid, road, i, link, lit, motion, line, place, heading>>
  BY DEF world
<1>2. i' \in 1..(Len(road) + 2) /\ i' <= Len(road) + 1
  BY <1>1, OnTheRoad
<1>3. QED
  BY <1>1, <1>2, VehicleSteps

\* A drive is to begin.
LEMMA ForwardOK == ASSUME FarmInv, Forward PROVE FarmInv'
<1>1. /\ vpc = "action" /\ vpc \in Driving /\ vpc' = "normalize" /\ vpc' \in Driving
      /\ UNCHANGED <<positions, client, grid, road, i, link, world>>
      /\ UNCHANGED <<lit, motion, line, place, heading>>
      /\ i <= Len(road) /\ road[i] = FORWARD
  BY DEF Forward, At, Driving, world
<1>2. ASSUME link[Running] = "up"
      PROVE  OnRoad'
  <2>1. Spot(i - 1) /\ Quiet /\ Running \in lit
    BY <1>1, <1>2, OnTheRoad DEF OnRoad
  <2>2. Spot(i - 1)' /\ Quiet' /\ Running' = Running
    BY <1>1, <2>1, SameSpot DEF Spot, Quiet
  <2>3. QED
    BY <1>1, <2>1, <2>2 DEF OnRoad
<1>3. QED
  BY <1>1, <1>2, LooksOn

\* The light is on, and no line is in sight yet.
LEMMA NormalizeOK == ASSUME FarmInv, Normalize PROVE FarmInv'
<1>1. /\ vpc = "normalize" /\ vpc \in Driving /\ vpc' \in {"creep", "drive"} /\ vpc' \in Driving
      /\ UNCHANGED <<positions, client, grid, road, i, link, world>>
      /\ UNCHANGED <<lit, motion, line, place, heading>>
      /\ vpc' = IF getSensorState(Running) = "both" THEN "creep" ELSE "drive"
  BY DEF Normalize, Driving, world
<1>2. ASSUME link[Running] = "up"
      PROVE  OnRoad'
  <2>1. Spot(i - 1) /\ Quiet /\ Running \in lit /\ i <= Len(road) /\ road[i] = FORWARD
    BY <1>1, <1>2, OnTheRoad DEF OnRoad
  <2>2. getSensorState(Running) = "none"
    BY <1>2, <2>1 DEF getSensorState, getInputValues, connectedToLego, Exchanges, Quiet
  <2>3. vpc' = "drive"
    BY <1>1, <2>2
  <2>4. Spot(i - 1)' /\ Quiet' /\ Running' = Running
    BY <1>1, <2>1, SameSpot DEF Spot, Quiet
  <2>5. QED
    BY <1>1, <2>1, <2>3, <2>4 DEF OnRoad
<1>3. QED
  BY <1>1, <1>2, LooksOn

\* The motors drive on, straight or with a correction.
LEMMA DriveVeerOK ==
    ASSUME FarmInv, NEW m \in {"drive", "veer"}, Motors(m, m, "look"), UNCHANGED i
    PROVE  FarmInv'
<1>1. /\ vpc = m /\ vpc \in Driving /\ vpc' = "look" /\ vpc' \in Driving
      /\ UNCHANGED <<positions, client, grid, road, i, link, lit, line, place, heading>>
      /\ setMotorState(Running, m)
  BY DEF Motors, Driving
<1>2. ASSUME link[Running] = "up"
      PROVE  OnRoad'
  <2>1. Spot(i - 1) /\ Running \in lit /\ i <= Len(road) /\ road[i] = FORWARD
    BY <1>1, <1>2, OnTheRoad DEF OnRoad
  <2>2. motion' = [motion EXCEPT ![Running] = m]
    BY <1>1, <1>2, MotorStates
  <2>3. motion'[Running] = m
    BY <1>1, <2>2, OnTheRoad
  <2>4. Spot(i - 1)' /\ Running' = Running
    BY <1>1, <2>1, SameSpot DEF Spot
  <2>5. QED
    BY <1>1, <2>1, <2>3, <2>4 DEF OnRoad
<1>3. i' \in 1..(Len(road) + 2) /\ i' <= Len(road) + 1
  BY <1>1, OnTheRoad
<1>4. QED
  BY <1>1, <1>2, <1>3, MotorStates, VehicleSteps

\* Both sensors see the line when the drive ends.
LEMMA LookOK == ASSUME FarmInv, Look PROVE FarmInv'
<1>1. /\ vpc = "look" /\ vpc \in Driving /\ vpc' \in {"drive", "veer", "creep"} /\ vpc' \in Driving
      /\ UNCHANGED <<positions, client, grid, road, i, link, world>>
      /\ UNCHANGED <<lit, motion, line, place, heading>>
      /\ vpc' = CASE getSensorState(Running) = "none"              -> "drive"
                  [] getSensorState(Running) \in {"left", "right"} -> "veer"
                  [] OTHER                                         -> "creep"
  BY DEF Look, Driving, world
<1>2. ASSUME link[Running] = "up"
      PROVE  OnRoad'
  <2>1. /\ Spot(i - 1) /\ Running \in lit /\ i <= Len(road) /\ road[i] = FORWARD
        /\ motion[Running] \in {"drive", "veer"}
    BY <1>1, <1>2, OnTheRoad DEF OnRoad
  <2>2. getSensorState(Running) = line[Running] /\ line[Running] \in {"none", "left", "right", "both"}
    BY <1>1, <1>2, <2>1, OnTheRoad DEF getSensorState, getInputValues, connectedToLego, Exchanges
  <2>3. vpc' = "creep" => line[Running] = "both"
    BY <1>1, <2>2
  <2>4. Spot(i - 1)' /\ Running' = Running
    BY <1>1, <2>1, SameSpot DEF Spot
  <2>5. QED
    BY <1>1, <2>1, <2>3, <2>4 DEF OnRoad
<1>3. QED
  BY <1>1, <1>2, LooksOn

\* The movement that takes the vehicle over the line.
LEMMA CreepOK == ASSUME FarmInv, Creep PROVE FarmInv'
<1>1. /\ vpc = "creep" /\ vpc \in Driving /\ vpc' = "poll" /\ vpc' \in Driving
      /\ UNCHANGED <<positions, client, grid, road, i, link, lit, line, place, heading>>
      /\ setMotorState(Running, "creep")
  BY DEF Creep, Motors, Driving
<1>2. ASSUME link[Running] = "up"
      PROVE  OnRoad'
  <2>1. /\ Spot(i - 1) /\ Running \in lit /\ i <= Len(road) /\ road[i] = FORWARD
        /\ line[Running] = "both"
    BY <1>1, <1>2, OnTheRoad DEF OnRoad
  <2>2. motion' = [motion EXCEPT ![Running] = "creep"]
    BY <1>1, <1>2, MotorStates
  <2>3. motion'[Running] = "creep"
    BY <1>1, <2>2, OnTheRoad
  <2>4. Spot(i - 1)' /\ Running' = Running
    BY <1>1, <2>1, SameSpot DEF Spot
  <2>5. Moving'
    BY <1>1, <2>1, <2>3, <2>4 DEF Moving
  <2>6. QED
    BY <1>1, <2>1, <2>4, <2>5 DEF OnRoad
<1>3. i' \in 1..(Len(road) + 2) /\ i' <= Len(road) + 1
  BY <1>1, OnTheRoad
<1>4. QED
  BY <1>1, <1>2, <1>3, MotorStates, VehicleSteps

\* The motors have stopped by themselves.
LEMMA PollOK == ASSUME FarmInv, Poll PROVE FarmInv'
<1>1. /\ vpc = "poll" /\ vpc \in Driving /\ vpc' = "off" /\ vpc' \in Driving
      /\ UNCHANGED <<positions, client, grid, road, i, link, world>>
      /\ UNCHANGED <<lit, motion, line, place, heading>>
      /\ 0 \in getMotorState(Running)
  BY DEF Poll, Driving, world
<1>2. ASSUME link[Running] = "up"
      PROVE  OnRoad'
  <2>1. Running \in lit /\ (Moving \/ (Quiet /\ After))
    BY <1>1, <1>2, OnTheRoad DEF OnRoad
  <2>2. motion[Running] = "still"
    BY <1>1, <1>2 DEF getMotorState, getOutputState, connectedToLego, Exchanges
  <2>3. Quiet /\ After
    BY <2>1, <2>2 DEF Moving, MotorOf
  <2>4. Quiet' /\ After' /\ Running' = Running
    BY <1>1, <2>3, SameSpot DEF Quiet, After, Spot
  <2>5. QED
    BY <1>1, <2>1, <2>4 DEF OnRoad
<1>3. QED
  BY <1>1, <1>2, LooksOn

\* The next action, or the end of the road.
LEMMA MotorsOffOK == ASSUME FarmInv, MotorsOff PROVE FarmInv'
<1>1. /\ vpc = "off" /\ vpc \in Driving /\ vpc' = IF i > Len(road) THEN "dark" ELSE "action"
      /\ vpc' \in Driving
      /\ UNCHANGED <<positions, client, grid, road, link, lit, line, place, heading>>
      /\ setMotorState(Running, "still") /\ i' = i + 1
  BY DEF MotorsOff, Motors, Driving
<1>2. i \in 1..(Len(road) + 1) /\ Len(road) \in Nat
  BY <1>1, OnTheRoad
<1>3. ASSUME link[Running] = "up"
      PROVE  OnRoad'
  <2>1. Running \in lit /\ Quiet /\ After
    BY <1>1, <1>3, OnTheRoad DEF OnRoad
  <2>2. motion' = [motion EXCEPT ![Running] = "still"]
    BY <1>1, <1>3, MotorStates
  <2>3. Quiet' /\ Running' = Running
    BY <1>1, <2>1, <2>2, OnTheRoad, SameSpot DEF Quiet
  <2>4. CASE i <= Len(road)
    <3>1. Spot(i) /\ vpc' = "action" /\ i' - 1 = i
      BY <1>1, <1>2, <2>1, <2>4 DEF After
    <3>2. place'[Running'] = Route'[i' - 1][1] /\ heading'[Running'] = Route'[i' - 1][2]
      BY <1>1, <3>1, SameSpot DEF Spot
    <3>3. QED
      BY <1>1, <2>1, <2>3, <3>1, <3>2 DEF OnRoad, Spot
  <2>5. CASE ~(i <= Len(road))
    <3>1. Spot(Len(road)) /\ vpc' = "dark"
      BY <1>1, <1>2, <2>1, <2>5 DEF After
    <3>2. Spot(Len(road))'
      BY <1>1, <3>1, SameSpot DEF Spot
    <3>3. QED
      BY <1>1, <2>1, <2>3, <3>1, <3>2 DEF OnRoad
  <2>6. QED
    BY <2>4, <2>5
<1>4. i' \in 1..(Len(road) + 2) /\ (vpc' # "dark" => i' <= Len(road) + 1)
  BY <1>1, <1>2
<1>5. QED
  BY <1>1, <1>3, <1>4, MotorStates, VehicleSteps

\* A vehicle that returns lets the next one begin.
LEMMA ReturnsOK ==
    ASSUME FarmInv, client[1] = "run", Returns, FarmTypeOK',
           UNCHANGED <<positions, grid, link, motion, line, place, heading>>,
           NEW n \in Robots, n = Running,
           \A r \in Robots : r # n => (r \in lit' <=> r \in lit),
           link[n] = "up" => There(n)'
    PROVE  FarmInv'
<1>1. Running \in Robots /\ vpc' = "idle" /\ client' = NextOf("run", "done")
  BY DEF FarmInv, FarmTypeOK, Running, Returns
<1>2. \/ client' = <<"run", Running + 1>> /\ Running + 1 \in Robots
      \/ client' = <<"done", 1>> /\ Running = NRobots
  BY <1>1, NextOfIs
<1>3. Done' = Done \cup {Running}
  <2>1. CASE client' = <<"run", Running + 1>>
    BY <1>1, <2>1 DEF Done, Running, Robots
  <2>2. CASE client' = <<"done", 1>> /\ Running = NRobots
    <3>1. Done' = Robots
      BY <2>2 DEF Done
    <3>2. \A r \in Robots : r < Running \/ r = Running
      BY <1>1, <2>2 DEF Robots
    <3>3. QED
      BY <1>1, <3>1, <3>2 DEF Done
  <2>3. QED
    BY <1>2, <2>1, <2>2
<1>4. \A r \in Waiting' : r \in Waiting /\ r # Running
  <2>1. CASE client' = <<"run", Running + 1>>
    <3>1. client'[1] = "run" /\ Running' = Running + 1
      BY <2>1 DEF Running
    <3>2. \A r \in Waiting' : r \in Robots /\ (r > Running + 1 \/ r = Running + 1)
      BY <3>1 DEF Waiting
    <3>3. \A r \in Robots : r > Running + 1 \/ r = Running + 1 => r > Running /\ r # Running
      BY <1>1 DEF Robots
    <3>4. QED
      BY <3>2, <3>3 DEF Waiting
  <2>2. CASE client' = <<"done", 1>>
    BY <2>2 DEF Waiting
  <2>3. QED
    BY <1>2, <2>1, <2>2
<1>5. \A r \in Waiting' : Parked(r)'
  BY <1>4 DEF FarmInv, Parked
<1>6. \A r \in Done' : link'[r] = "up" => There(r)'
  <2>1. \A r \in Done : r \in Robots /\ r # n
    BY <1>1 DEF Done, Robots
  <2>2. ASSUME NEW r \in Done, link[r] = "up"
        PROVE  There(r)'
    BY <2>1, <2>2 DEF FarmInv, There
  <2>3. QED
    BY <1>3, <2>2
<1>7. client'[1] \in {"run", "done"}
  BY <1>2
<1>8. Planned'
  BY <1>7 DEF FarmInv, Planned
<1>9. OnTheWay'
  BY <1>1 DEF OnTheWay, Driving
<1>10. QED
  BY <1>1, <1>5, <1>6, <1>8, <1>9 DEF FarmInv

\* The end of a road is where the vehicle should be.
LEMMA SensorsOffOK == ASSUME FarmInv, SensorsOff PROVE FarmInv'
<1>1. /\ vpc = "dark" /\ vpc \in Driving /\ Returns /\ setSensorState(Running, FALSE)
      /\ UNCHANGED <<positions, grid, road, i, link, motion, line, place, heading>>
  BY DEF SensorsOff, Driving
<1>2. /\ Running \in Robots /\ client[1] = "run"
      /\ lit' \in {lit, lit \cup {Running}, lit \ {Running}}
  BY <1>1, OnTheRoad, SensorStates
<1>3. FarmTypeOK'
  <2>1. client' \in {"instantiate", "objective", "run", "done"} \X Robots /\ vpc' = "idle"
    BY <1>1, <1>2, NextOfIs DEF Returns
  <2>2. lit' \subseteq Robots
    BY <1>1, <1>2, OnTheRoad
  <2>3. QED
    BY <1>1, <2>1, <2>2 DEF FarmInv, FarmTypeOK
<1>4. ASSUME link[Running] = "up"
      PROVE  /\ place[Running] = positions[Running].dest /\ heading[Running] = NORTH
             /\ motion[Running] = "still" /\ Running \notin lit'
  <2>1. Quiet /\ Spot(Len(road))
    BY <1>1, <1>4, OnTheRoad DEF OnRoad
  <2>2. Trace(positions, Running, road, Route)
    BY <1>1 DEF FarmInv, OnTheWay
  <2>3. Route[Len(road)] = <<positions[Running].dest, NORTH>>
    BY <2>2 DEF Trace, Traces
  <2>4. lit' = lit \ {Running}
    BY <1>1, <1>4, SensorStates
  <2>5. QED
    BY <2>1, <2>3, <2>4 DEF Quiet, Spot
<1>5. \A r \in Robots : r # Running => (r \in lit' <=> r \in lit)
  BY <1>2
<1>6. PICK n \in Robots : n = Running
  BY <1>2
<1>7. link[n] = "up" => There(n)'
  BY <1>1, <1>4, <1>6 DEF There
<1>8. \A r \in Robots : r # n => (r \in lit' <=> r \in lit)
  BY <1>5, <1>6
<1>9. UNCHANGED <<positions, grid, link, motion, line, place, heading>>
  BY <1>1
<1>10. QED
  BY ONLY FarmInv, <1>1, <1>2, <1>3, <1>6, <1>7, <1>8, <1>9, ReturnsOK

\* The call of the client begins.
LEMMA RunVehicleOK == ASSUME FarmInv, RunVehicle PROVE FarmInv'
<1>1. /\ client[1] = "run" /\ vpc = "idle" /\ vpc' = "road"
      /\ UNCHANGED <<positions, client, grid, road, i, link, lit, motion, line, place, heading>>
  BY DEF RunVehicle, world
<1>2. FarmTypeOK'
  BY <1>1 DEF FarmInv, FarmTypeOK
<1>3. Waiting' = Waiting /\ Done' = Done
  BY <1>1 DEF Waiting, Done, Running, Driving
<1>4. \A r \in Waiting' : Parked(r)'
  BY <1>1, <1>3 DEF FarmInv, Parked
<1>5. \A r \in Done' : link'[r] = "up" => There(r)'
  BY <1>1, <1>3 DEF FarmInv, There
<1>6. Planned' /\ OnTheWay'
  BY <1>1 DEF FarmInv, Planned, Running, OnTheWay, Driving
<1>7. QED
  BY <1>1, <1>2, <1>4, <1>5, <1>6 DEF FarmInv

\* The exception of the search ends the client.
LEMMA NoRoadOK == ASSUME FarmInv, NoRoad PROVE FarmInv'
<1>1. /\ client[1] = "run" /\ vpc = "road" /\ vpc' = "threw" /\ ~Solves(grid[Running])
      /\ UNCHANGED <<positions, client, grid, road, i, link, lit, motion, line, place, heading>>
  BY DEF FarmInv, NoRoad, world
<1>2. FarmTypeOK'
  BY <1>1 DEF FarmInv, FarmTypeOK
<1>3. Waiting' = Waiting /\ Done' = Done /\ Running' = Running
  BY <1>1 DEF Waiting, Done, Running, Driving
<1>4. \A r \in Waiting' : Parked(r)'
  BY <1>1, <1>3 DEF FarmInv, Parked
<1>5. \A r \in Done' : link'[r] = "up" => There(r)'
  BY <1>1, <1>3 DEF FarmInv, There
<1>6. Planned' /\ OnTheWay'
  BY <1>1 DEF FarmInv, Planned, Running, OnTheWay, Driving
<1>7. ~Solves(grid'[Running'])
  BY <1>1, <1>3
<1>8. QED
  BY <1>1, <1>2, <1>4, <1>5, <1>6, <1>7 DEF FarmInv

\* The search of the vehicle that runs: a road that leads to its end.
LEMMA RoadFound ==
    ASSUME FarmInv, client[1] = "run", Solves(grid[Running])
    PROVE  /\ solveAlgorithm(grid[Running]) \in Seq(Moves)
           /\ Len(solveAlgorithm(grid[Running])) <= MaxRoad
           /\ Trace(positions, Running, solveAlgorithm(grid[Running]),
                    RouteOf(positions, Running, solveAlgorithm(grid[Running])))
<1>1. /\ Running \in Robots /\ positions \in Tables /\ AllApart(positions)
      /\ grid[Running] = Plan(positions, Running)
  BY DEF FarmInv, FarmTypeOK, Running, Planned
<1> DEFINE n == Running
           plan == Plan(positions, n)
           way == solveAlgorithm(plan)
<1>2. /\ positions[n].start \in Cells /\ positions[n].dest \in Cells
      /\ positions[n].start # positions[n].dest
      /\ LastMarked(plan, START) = positions[n].start
      /\ LastMarked(plan, FINISH) = positions[n].dest
      /\ isTransitable(plan, positions[n].start)
  BY <1>1, PlanOK
<1>3. Solves(plan)
  BY <1>1
<1> HIDE DEF plan, n
<1>4. /\ Takes(plan, way, <<positions[n].start, NORTH>>, <<positions[n].dest, NORTH>>)
      /\ Len(way) <= MaxRoad
  BY <1>2, <1>3, SolveOK
<1> HIDE DEF way
<1>5. way \in Seq(Moves)
  BY <1>4 DEF Takes
<1>6. \E pose : Trace(positions, n, way, pose)
  BY <1>4 DEF Takes, Trace, plan
<1>7. Trace(positions, n, way, RouteOf(positions, n, way))
  BY <1>6, Zenon DEF RouteOf
<1>8. way = solveAlgorithm(grid[Running]) /\ n = Running
  BY <1>1 DEF way, plan, n
<1>9. QED
  BY <1>4, <1>5, <1>7, <1>8

\* The vehicle begins with its road, or returns when it has no device.
LEMMA GetRoadOK == ASSUME FarmInv, GetRoad PROVE FarmInv'
<1>1. /\ client[1] = "run" /\ vpc = "road" /\ Solves(grid[Running])
      /\ road' = solveAlgorithm(grid[Running]) /\ i' = 1
      /\ IF link[Running] = "absent" THEN Returns ELSE vpc' = "light" /\ client' = client
      /\ UNCHANGED <<positions, grid, link, lit, motion, line, place, heading>>
  BY DEF FarmInv, GetRoad, world
<1>2. /\ road' \in Seq(Moves) /\ Len(road') <= MaxRoad /\ Len(road') \in Nat
      /\ Trace(positions, Running, road', RouteOf(positions, Running, road'))
  BY <1>1, RoadFound
<1>3. Running \in Robots
  BY DEF FarmInv, FarmTypeOK, Running
<1>4. /\ vpc' \in {"idle", "light"}
      /\ client' \in {"instantiate", "objective", "run", "done"} \X Robots
  BY <1>1, <1>3, NextOfIs DEF Returns, FarmInv, FarmTypeOK
<1>5. FarmTypeOK'
  BY <1>1, <1>2, <1>4 DEF FarmInv, FarmTypeOK, Moves
<1>6. CASE link[Running] = "absent"
  <2>1. Returns
    BY <1>1, <1>6
  <2>2. PICK n \in Robots : n = Running
    BY <1>3
  <2>3. link[n] # "up"
    BY <1>6, <2>2
  <2>4. QED
    BY ONLY FarmInv, <1>1, <1>5, <2>1, <2>2, <2>3, ReturnsOK
<1>7. CASE link[Running] # "absent"
  <2>1. vpc' = "light" /\ client' = client /\ Running' = Running
    BY <1>1, <1>7 DEF Running
  <2>2. Done' = Done /\ Running \in Waiting /\ \A r \in Waiting' : r \in Waiting
    BY <1>1, <1>3, <2>1 DEF Done, Waiting, Driving
  <2>3. \A r \in Waiting' : Parked(r)'
    BY <1>1, <2>2 DEF FarmInv, Parked
  <2>4. \A r \in Done' : link'[r] = "up" => There(r)'
    BY <1>1, <2>2 DEF FarmInv, There
  <2>5. Planned'
    BY <1>1, <2>1 DEF FarmInv, Planned
  <2>6. Route' = RouteOf(positions, Running, road')
    BY <1>1, <2>1 DEF Route
  <2>7. Trace(positions', Running', road', Route')
    BY <1>1, <1>2, <2>1, <2>6
  <2>8. Route'[0] = <<positions[Running].start, NORTH>>
    BY <1>2, <2>6 DEF Trace, Traces
  <2>9. Parked(Running)
    BY <2>2 DEF FarmInv
  <2>10. Spot(0)' /\ Quiet'
    BY <1>1, <2>1, <2>8, <2>9 DEF Parked, Spot, Quiet
  <2>11. OnRoad'
    BY <1>1, <2>1, <2>10 DEF OnRoad
  <2>12. OnTheWay'
    BY <1>1, <1>2, <2>7, <2>11 DEF OnTheWay
  <2>13. QED
    BY <1>1, <1>5, <2>1, <2>3, <2>4, <2>5, <2>12 DEF FarmInv
<1>8. QED
  BY <1>6, <1>7

\* Which vehicles there are.
LEMMA WaitingOrDone ==
    ASSUME FarmTypeOK, NEW r \in Robots
    PROVE  \/ r \in Waiting
           \/ r \in Done
           \/ r = Running /\ client[1] = "run" /\ vpc \in Driving
<1>1. client[1] \in {"instantiate", "objective", "run", "done"} /\ Running \in Robots
  BY DEF FarmTypeOK, Running
<1>2. r < Running \/ r = Running \/ r > Running
  BY <1>1 DEF Robots
<1>3. QED
  BY <1>1, <1>2 DEF Waiting, Done

\* What a step of a brick may set.
BrickSets(r, m, l, c, h) ==
    /\ motion' = [motion EXCEPT ![r] = m] /\ line' = [line EXCEPT ![r] = l]
    /\ place' = [place EXCEPT ![r] = c] /\ heading' = [heading EXCEPT ![r] = h]
    /\ UNCHANGED <<positions, client, grid, vpc, road, i, link, lit>>

\* A brick moves: the one of the vehicle that drives, or one without a link.
LEMMA BrickMoves ==
    ASSUME FarmInv, NEW r \in Robots, motion[r] # "still",
           NEW m \in {"still", "drive", "veer", "creep", "right", "left", "spin"},
           NEW l \in {"none", "left", "right", "both"}, NEW c \in Cells, NEW h \in Orientations,
           BrickSets(r, m, l, c, h),
           link[r] = "up" /\ r = Running /\ vpc \in Driving => OnRoad'
    PROVE  FarmInv'
<1> USE DEF BrickSets
<1>1. FarmTypeOK'
  <2>1. /\ motion' \in [Robots -> {"still", "drive", "veer", "creep", "right", "left", "spin"}]
        /\ line' \in [Robots -> {"none", "left", "right", "both"}]
        /\ place' \in [Robots -> Cells] /\ heading' \in [Robots -> Orientations]
    BY DEF FarmInv, FarmTypeOK
  <2>2. QED
    BY <2>1 DEF FarmInv, FarmTypeOK
<1>2. Waiting' = Waiting /\ Done' = Done /\ Running' = Running
  BY DEF Waiting, Done, Running
<1>3. r \notin Waiting /\ (r \in Done => link[r] # "up")
  BY DEF FarmInv, Parked, There
<1>4. \A s \in Robots : s # r =>
         /\ motion'[s] = motion[s] /\ line'[s] = line[s] /\ place'[s] = place[s]
         /\ heading'[s] = heading[s]
  BY DEF FarmInv, FarmTypeOK
<1>5. \A s \in Waiting' : Parked(s)'
  BY <1>2, <1>3, <1>4 DEF FarmInv, Parked, Waiting
<1>6. \A s \in Done' : link'[s] = "up" => There(s)'
  BY <1>2, <1>3, <1>4 DEF FarmInv, There, Done
<1>7. Route' = Route
  BY <1>2 DEF Route
<1>8. ASSUME vpc \in Driving, link[Running] = "up"
      PROVE  OnRoad'
  <2>1. CASE r = Running
    BY <1>8, <2>1
  <2>2. CASE r # Running
    <3>1. OnRoad /\ Running \in Robots
      BY <1>8, OnTheRoad
    <3>2. /\ place'[Running'] = place[Running] /\ heading'[Running'] = heading[Running]
          /\ motion'[Running'] = motion[Running] /\ line'[Running'] = line[Running]
      BY <1>2, <1>4, <2>2, <3>1
    <3>3. (\A k : Spot(k)' = Spot(k)) /\ Quiet' = Quiet
      BY <1>7, <3>2 DEF Spot, Quiet
    <3>4. (After' <=> After) /\ (Moving' <=> Moving)
      BY <3>2, <3>3 DEF After, Moving
    <3>5. QED
      BY <1>2, <3>1, <3>2, <3>3, <3>4 DEF OnRoad
  <2>3. QED
    BY <2>1, <2>2
<1>9. OnTheWay'
  BY <1>2, <1>7, <1>8 DEF FarmInv, OnTheWay
<1>10. Planned' /\ (vpc' # "idle" => client'[1] = "run") /\ (vpc' = "threw" => ~Solves(grid'[Running']))
       /\ AllApart(positions')
  BY <1>2 DEF FarmInv, Planned
<1>11. QED
  BY <1>1, <1>5, <1>6, <1>9, <1>10 DEF FarmInv

\* What a brick does not change may be said to be set again.
LEMMA SetAgain ==
    ASSUME FarmInv, NEW r \in Robots
    PROVE  /\ motion[r] \in {"still", "drive", "veer", "creep", "right", "left", "spin"}
           /\ line[r] \in {"none", "left", "right", "both"}
           /\ place[r] \in Cells /\ heading[r] \in Orientations
           /\ motion = [motion EXCEPT ![r] = motion[r]] /\ line = [line EXCEPT ![r] = line[r]]
           /\ place = [place EXCEPT ![r] = place[r]]
           /\ heading = [heading EXCEPT ![r] = heading[r]]
BY DEF FarmInv, FarmTypeOK

\* A vehicle goes to a cell, and no further than the edge of the floor.
LEMMA NextCellOK ==
    ASSUME NEW c \in Cells, NEW h \in Orientations
    PROVE  NextCell(c, h) \in Cells
BY DEF NextCell

\* The cell ahead of a vehicle.
LEMMA AheadOK ==
    ASSUME NEW r
    PROVE  Ahead(r) = NextCell(place[r], heading[r])
BY Zenon DEF Ahead, NextCell

\* A quarter turn or two.
LEMMA TurnedOK ==
    ASSUME NEW h \in Orientations, NEW m \in {"right", "spin", "left"}
    PROVE  Turned(h, m) \in Orientations
<1>1. Quarter[m] \in 1..3
  BY DEF Quarter
<1>2. (h + Quarter[m] - 1) % 4 \in 0..3
  BY <1>1 DEF Orientations, NORTH, EAST, SOUTH, WEST
<1>3. QED
  BY <1>2 DEF Turned, Orientations, NORTH, EAST, SOUTH, WEST

\* The sensors come over a line.
LEMMA SensesLineOK == ASSUME FarmInv, NEW r \in Robots, SensesLine(r) PROVE FarmInv'
<1>1. /\ motion[r] \in {"drive", "veer"} /\ motion[r] # "still" /\ line[r] # "both"
      /\ UNCHANGED <<positions, client, grid, vpc, road, i, link, lit, motion, place, heading>>
  BY DEF SensesLine
<1>2. PICK l \in {"left", "right", "both"} : line' = [line EXCEPT ![r] = l]
  BY DEF SensesLine
<1>3. ASSUME link[r] = "up", r = Running, vpc \in Driving
      PROVE  OnRoad'
  <2>1. OnRoad /\ vpc \notin {"light", "action", "normalize", "creep", "poll", "off", "dark"}
    BY <1>1, <1>3, OnTheRoad DEF OnRoad, Quiet, Moving, MotorOf
  <2>2. (\A k : Spot(k)' = Spot(k)) /\ Running' = Running
    BY <1>1, SameSpot
  <2>3. vpc \in {"drive", "look", "veer"}
    BY <1>3, <2>1 DEF Driving
  <2>4. QED
    BY <1>1, <1>3, <2>1, <2>2, <2>3 DEF OnRoad, Driving
<1>4. PICK m \in {"still", "drive", "veer", "creep", "right", "left", "spin"} :
         motion' = [motion EXCEPT ![r] = m]
  BY <1>1, SetAgain
<1>5. PICK c \in Cells : place' = [place EXCEPT ![r] = c]
  BY <1>1, SetAgain
<1>6. PICK h \in Orientations : heading' = [heading EXCEPT ![r] = h]
  BY <1>1, SetAgain
<1>7. BrickSets(r, m, l, c, h) /\ motion[r] # "still"
  BY <1>1, <1>2, <1>4, <1>5, <1>6 DEF BrickSets
<1>8. l \in {"none", "left", "right", "both"}
  OBVIOUS
<1>9. link[r] = "up" /\ r = Running /\ vpc \in Driving => OnRoad'
  BY <1>3
<1>10. QED
  BY <1>7, <1>8, <1>9, BrickMoves, Zenon

\* A vehicle that cannot be reached runs on.
LEMMA RunsOverLineOK == ASSUME FarmInv, NEW r \in Robots, RunsOverLine(r) PROVE FarmInv'
<1>1. /\ motion[r] # "still" /\ link[r] # "up"
      /\ line' = [line EXCEPT ![r] = "none"] /\ place' = [place EXCEPT ![r] = Ahead(r)]
      /\ UNCHANGED <<positions, client, grid, vpc, road, i, link, lit, motion, heading>>
  BY DEF RunsOverLine, Exchanges
<1>2. PICK m \in {"still", "drive", "veer", "creep", "right", "left", "spin"} :
         motion' = [motion EXCEPT ![r] = m]
  BY <1>1, SetAgain
<1>3. PICK h \in Orientations : heading' = [heading EXCEPT ![r] = h]
  BY <1>1, SetAgain
<1>4. PICK c \in Cells : place' = [place EXCEPT ![r] = c]
  BY <1>1, SetAgain, AheadOK, NextCellOK
<1>5. BrickSets(r, m, "none", c, h) /\ motion[r] # "still" /\ link[r] # "up"
  BY <1>1, <1>2, <1>3, <1>4 DEF BrickSets
<1>6. "none" \in {"none", "left", "right", "both"}
  OBVIOUS
<1>7. QED
  BY <1>5, <1>6, BrickMoves, Zenon

\* A limited movement ends: over the line, if it began at one.
LEMMA CreepsOK == ASSUME FarmInv, NEW r \in Robots, Creeps(r) PROVE FarmInv'
<1> DEFINE c == IF line[r] = "both" THEN Ahead(r) ELSE place[r]
<1>1. /\ motion[r] = "creep" /\ motion[r] # "still"
      /\ motion' = [motion EXCEPT ![r] = "still"] /\ line' = [line EXCEPT ![r] = "none"]
      /\ UNCHANGED <<positions, client, grid, vpc, road, i, link, lit, heading>>
  BY DEF Creeps
<1>2. /\ place[r] \in Cells /\ heading[r] \in Orientations
      /\ place = [place EXCEPT ![r] = place[r]]
      /\ heading' = [heading EXCEPT ![r] = heading[r]]
  BY <1>1, SetAgain
<1>3. c \in Cells
  BY <1>2, AheadOK, NextCellOK
<1>4. place' = [place EXCEPT ![r] = c]
  BY <1>2 DEF Creeps
<1>5. ASSUME link[r] = "up", r = Running, vpc \in Driving
      PROVE  OnRoad'
  <2>1. /\ OnRoad /\ i \in 1..(Len(road) + 2) /\ Len(road) \in Nat
        /\ motion \in [Robots -> {"still", "drive", "veer", "creep", "right", "left", "spin"}]
        /\ line \in [Robots -> {"none", "left", "right", "both"}]
        /\ place \in [Robots -> Cells]
    BY <1>5, OnTheRoad
  <2>2. vpc = "poll" /\ Moving /\ Running \in lit
    BY <1>1, <1>5, <2>1 DEF OnRoad, Quiet, Driving
  <2>3. Running' = Running /\ Route' = Route
    BY <1>1 DEF Running, Route, RouteOf
  <2>4. Quiet'
    BY <1>1, <1>5, <2>1, <2>3 DEF Quiet
  <2>5. place'[Running] = c /\ heading'[Running] = heading[Running]
    BY <1>1, <1>4, <1>5, <2>1
  <2>6. Trace(positions, Running, road, Route)
    BY <1>5 DEF FarmInv, OnTheWay
  <2>7. CASE i <= Len(road)
    <3>1. road[i] = FORWARD /\ line[Running] = "both" /\ Spot(i - 1)
      BY <1>1, <1>5, <2>2, <2>7 DEF Moving, MotorOf
    <3>2. Does(FORWARD, Route[i - 1], Route[i]) /\ Route[i] \in Poses
      BY <2>1, <2>6, <2>7, <3>1 DEF Trace, Traces
    <3>3. Route[i][1] = NextCell(place[Running], heading[Running]) /\ Route[i][2] = heading[Running]
      BY <3>1, <3>2 DEF Does, Spot
    <3>4. c = NextCell(place[Running], heading[Running])
      BY <1>5, <3>1, AheadOK
    <3>5. Spot(i)'
      BY <1>1, <2>3, <2>5, <3>3, <3>4 DEF Spot
    <3>6. After'
      BY <1>1, <2>7, <3>5 DEF After, Spot
    <3>7. QED
      BY <1>1, <2>2, <2>3, <2>4, <3>6 DEF OnRoad
  <2>8. CASE ~(i <= Len(road))
    <3>1. i - 1 = Len(road) /\ line[Running] = "none" /\ Spot(Len(road))
      BY <1>1, <1>5, <2>1, <2>2, <2>8 DEF Moving
    <3>2. c = place[Running]
      BY <1>5, <3>1
    <3>3. Spot(Len(road))'
      BY <1>1, <2>3, <2>5, <3>1, <3>2 DEF Spot
    <3>4. After'
      BY <1>1, <2>8, <3>3 DEF After, Spot
    <3>5. QED
      BY <1>1, <2>2, <2>3, <2>4, <3>4 DEF OnRoad
  <2>9. QED
    BY <2>7, <2>8
<1>6. /\ "none" \in {"none", "left", "right", "both"}
      /\ "still" \in {"still", "drive", "veer", "creep", "right", "left", "spin"}
  OBVIOUS
<1> HIDE DEF c
<1>7. BrickSets(r, "still", "none", c, heading[r])
  BY <1>1, <1>2, <1>4 DEF BrickSets
<1>8. link[r] = "up" /\ r = Running /\ vpc \in Driving => OnRoad'
  BY <1>5
<1>9. motion[r] # "still" /\ heading[r] \in Orientations
  BY <1>1, <1>2
<1>10. QED
  BY <1>3, <1>6, <1>7, <1>8, <1>9, BrickMoves, Zenon

\* A turn ends.
LEMMA TurnsOK == ASSUME FarmInv, NEW r \in Robots, Turns(r) PROVE FarmInv'
<1> DEFINE h == Turned(heading[r], motion[r])
<1>1. /\ motion[r] \in {"right", "spin", "left"} /\ motion[r] # "still"
      /\ motion' = [motion EXCEPT ![r] = "still"] /\ heading' = [heading EXCEPT ![r] = h]
      /\ UNCHANGED <<positions, client, grid, vpc, road, i, link, lit, line, place>>
  BY DEF Turns, Quarter
<1>2. /\ place[r] \in Cells /\ heading[r] \in Orientations
      /\ line[r] \in {"none", "left", "right", "both"}
      /\ place' = [place EXCEPT ![r] = place[r]]
      /\ line' = [line EXCEPT ![r] = line[r]]
  BY <1>1, SetAgain
<1>3. h \in Orientations
  BY <1>1, <1>2, TurnedOK
<1>4. ASSUME link[r] = "up", r = Running, vpc \in Driving
      PROVE  OnRoad'
  <2>1. /\ OnRoad /\ i \in 1..(Len(road) + 2) /\ Len(road) \in Nat
        /\ motion \in [Robots -> {"still", "drive", "veer", "creep", "right", "left", "spin"}]
        /\ heading \in [Robots -> Orientations]
    BY <1>4, OnTheRoad
  <2>2. vpc = "poll" /\ Moving /\ Running \in lit
    BY <1>1, <1>4, <2>1 DEF OnRoad, Quiet, Driving
  <2>3. Running' = Running /\ Route' = Route
    BY <1>1 DEF Running, Route, RouteOf
  <2>4. /\ Spot(i - 1) /\ i <= Len(road) /\ road[i] # FORWARD
        /\ motion[Running] = MotorOf(road[i]) /\ line[Running] = "none"
    BY <1>1, <1>4, <2>2 DEF Moving
  <2>5. heading'[Running] = h /\ place'[Running] = place[Running] /\ motion'[Running] = "still"
    BY <1>1, <1>4, <2>1
  <2>6. Quiet'
    BY <1>1, <2>3, <2>4, <2>5 DEF Quiet
  <2>7. Does(road[i], Route[i - 1], Route[i])
    BY <1>4, <2>1, <2>4 DEF FarmInv, OnTheWay, Trace, Traces
  <2>8. Route[i][1] = place[Running] /\ Route[i][2] = h
    BY <1>4, <2>4, <2>7 DEF Does, Spot
  <2>9. Spot(i)'
    BY <1>1, <2>3, <2>5, <2>8 DEF Spot
  <2>10. After'
    BY <1>1, <2>4, <2>9 DEF After, Spot
  <2>11. QED
    BY <1>1, <2>2, <2>3, <2>6, <2>10 DEF OnRoad
<1>5. "still" \in {"still", "drive", "veer", "creep", "right", "left", "spin"}
  OBVIOUS
<1> HIDE DEF h
<1>6. BrickSets(r, "still", line[r], place[r], h)
  BY <1>1, <1>2 DEF BrickSets
<1>7. link[r] = "up" /\ r = Running /\ vpc \in Driving => OnRoad'
  BY <1>4
<1>8. /\ motion[r] # "still" /\ line[r] \in {"none", "left", "right", "both"}
      /\ place[r] \in Cells
  BY <1>1, <1>2
<1>9. QED
  BY <1>3, <1>5, <1>6, <1>7, <1>8, BrickMoves, Zenon

\* A link that fails promises nothing more.
LEMMA LinkFailsOK == ASSUME FarmInv, NEW r \in Robots, LinkFails(r) PROVE FarmInv'
<1>1. /\ link' = [link EXCEPT ![r] = "down"]
      /\ UNCHANGED <<positions, client, grid, vpc, road, i, lit, motion, line, place, heading>>
  BY DEF LinkFails, world
<1>2. FarmTypeOK'
  BY <1>1 DEF FarmInv, FarmTypeOK
<1>3. \A s \in Robots : link'[s] = "up" => link[s] = "up"
  BY <1>1 DEF FarmInv, FarmTypeOK
<1>4. Waiting' = Waiting /\ Done' = Done /\ Running' = Running
  BY <1>1 DEF Waiting, Done, Running
<1>5. \A s \in Waiting' : Parked(s)'
  BY <1>1, <1>4 DEF FarmInv, Parked
<1>6. \A s \in Done' : link'[s] = "up" => There(s)'
  BY <1>1, <1>3, <1>4 DEF FarmInv, There, Done
<1>7. OnTheWay'
  <2>1. Running \in Robots
    BY DEF FarmInv, FarmTypeOK, Running
  <2>2. (\A k : Spot(k)' = Spot(k)) /\ Route' = Route
    BY <1>1, SameSpot
  <2>3. Quiet' = Quiet /\ After' = After /\ Moving' = Moving
    BY <1>1, <1>4, <2>2 DEF Quiet, After, Moving
  <2>4. OnRoad => OnRoad'
    BY <1>1, <1>4, <2>2, <2>3 DEF OnRoad
  <2>5. QED
    BY <1>1, <1>3, <1>4, <2>1, <2>2, <2>4 DEF FarmInv, OnTheWay
<1>8. Planned'
  BY <1>1, <1>4 DEF FarmInv, Planned
<1>9. QED
  BY <1>1, <1>2, <1>4, <1>5, <1>6, <1>7, <1>8 DEF FarmInv

\* A step that changes nothing keeps the invariant.
LEMMA FarmStutters == ASSUME FarmInv, UNCHANGED farmVars PROVE FarmInv'
<1>1. UNCHANGED <<positions, client, grid, vpc, road, i, link, lit, motion, line, place, heading>>
  BY DEF farmVars
<1>2. Waiting' = Waiting /\ Done' = Done /\ Running' = Running
  BY <1>1 DEF Waiting, Done, Running
<1>3. FarmTypeOK' /\ Planned'
  BY <1>1, <1>2 DEF FarmInv, FarmTypeOK, Planned
<1>4. \A s \in Waiting' : Parked(s)'
  BY <1>1, <1>2 DEF FarmInv, Parked
<1>5. \A s \in Done' : link'[s] = "up" => There(s)'
  BY <1>1, <1>2 DEF FarmInv, There
<1>6. OnTheWay'
  <2>1. (\A k : Spot(k)' = Spot(k)) /\ Route' = Route
    BY <1>1, SameSpot
  <2>2. Quiet' = Quiet /\ After' = After /\ Moving' = Moving
    BY <1>1, <1>2, <2>1 DEF Quiet, After, Moving
  <2>3. OnRoad => OnRoad'
    BY <1>1, <1>2, <2>1, <2>2 DEF OnRoad
  <2>4. QED
    BY <1>1, <1>2, <2>1, <2>3 DEF FarmInv, OnTheWay
<1>7. QED
  BY <1>1, <1>2, <1>3, <1>4, <1>5, <1>6 DEF FarmInv

\* The turns of the road are those of TurnsBegin.
LEMMA TurnActionsOK == ASSUME FarmInv, TurnRight \/ TurnLeft \/ Spin PROVE FarmInv'
<1>1. CASE TurnRight
  <2>1. /\ TURNRIGHT \in Moves \ {FORWARD} /\ At(TURNRIGHT)
        /\ Motors(MotorOf(TURNRIGHT), "action", "poll") /\ UNCHANGED i
    BY <1>1 DEF TurnRight, Moves, MotorOf, TURNRIGHT, FORWARD
  <2>2. QED
    BY <2>1, TurnsBegin
<1>2. CASE TurnLeft
  <2>1. /\ TURNLEFT \in Moves \ {FORWARD} /\ At(TURNLEFT)
        /\ Motors(MotorOf(TURNLEFT), "action", "poll") /\ UNCHANGED i
    BY <1>2 DEF TurnLeft, Moves, MotorOf, TURNLEFT, TURNRIGHT, FORWARD
  <2>2. QED
    BY <2>1, TurnsBegin
<1>3. CASE Spin
  <2>1. /\ SPIN \in Moves \ {FORWARD} /\ At(SPIN)
        /\ Motors(MotorOf(SPIN), "action", "poll") /\ UNCHANGED i
    BY <1>3 DEF Spin, Moves, MotorOf, SPIN, TURNLEFT, TURNRIGHT, FORWARD
  <2>2. QED
    BY <2>1, TurnsBegin
<1>4. QED
  BY <1>1, <1>2, <1>3

\* Every step of the farm keeps the invariant.
LEMMA FarmStepOK == ASSUME FarmInv, [FarmNext]_farmVars PROVE FarmInv'
<1>1. CASE ClientStep
  BY <1>1, InstantiateOK, SetObjectiveOK, RunVehicleOK DEF ClientStep
<1>2. CASE GetRoad \/ NoRoad
  BY <1>2, GetRoadOK, NoRoadOK
<1>3. CASE Drives
  <2>1. CASE Drive
    BY <2>1, DriveVeerOK DEF Drive
  <2>2. CASE Veer
    BY <2>2, DriveVeerOK DEF Veer
  <2>3. CASE TurnRight \/ TurnLeft \/ Spin
    BY <2>3, TurnActionsOK
  <2>4. CASE SensorsOn \/ Forward \/ LastCreep \/ Normalize \/ Look
    BY <2>4, SensorsOnOK, ForwardOK, LastCreepOK, NormalizeOK, LookOK
  <2>5. CASE Creep \/ Poll \/ MotorsOff \/ SensorsOff
    BY <2>5, CreepOK, PollOK, MotorsOffOK, SensorsOffOK
  <2>6. QED
    BY <1>3, <2>1, <2>2, <2>3, <2>4, <2>5, Zenon DEF Drives
<1>4. ASSUME NEW r \in Robots, Brick(r) \/ LinkFails(r)
      PROVE  FarmInv'
  BY <1>4, SensesLineOK, RunsOverLineOK, CreepsOK, TurnsOK, LinkFailsOK DEF Brick
<1>5. CASE UNCHANGED farmVars
  BY <1>5, FarmStutters
<1>6. QED
  BY <1>1, <1>2, <1>3, <1>4, <1>5, Zenon DEF FarmNext, Vehicle

-----------------------------------------------------------------------------
\* The invariant of the farm, when the client hands out cells of which no two
\* are the same.
THEOREM FarmInvariance == ASSUME ApartTables PROVE FarmSpec => []FarmInv
<1>1. FarmInit => FarmInv
  BY FarmInitOK
<1>2. FarmInv /\ [FarmNext]_farmVars => FarmInv'
  BY FarmStepOK
<1>3. QED
  BY <1>1, <1>2, PTL DEF FarmSpec

\* The state of the farm stays well-formed, and no road outgrows its array.
THEOREM FarmTypesOK == ASSUME ApartTables PROVE FarmSpec => []FarmTypeOK
<1>1. FarmInv => FarmTypeOK
  BY DEF FarmInv
<1>2. QED
  BY <1>1, FarmInvariance, PTL

\* A vehicle whose link holds is at its destination when runVehicle() returns.
THEOREM EveryoneArrives == ASSUME ApartTables PROVE FarmSpec => []ArrivesThere
<1>1. FarmInv => ArrivesThere
  BY DEF FarmInv, ArrivesThere, There
<1>2. QED
  BY <1>1, FarmInvariance, PTL

-----------------------------------------------------------------------------
\* A road leads from its start over free cells.
LEMMA RouteIsFree ==
    ASSUME NEW plan, NEW way, NEW p, NEW q, NEW pose, Traces(plan, way, p, q, pose),
           Len(way) \in Nat, isTransitable(plan, p[1]), NEW k \in 0..Len(way)
    PROVE  isTransitable(plan, pose[k][1])
<1> DEFINE T == {n \in Nat : n <= Len(way) => isTransitable(plan, pose[n][1])}
<1>1. 0 \in T
  BY DEF Traces
<1>2. ASSUME NEW n \in T
      PROVE  n + 1 \in T
  <2>1. SUFFICES ASSUME n + 1 <= Len(way)
                 PROVE  isTransitable(plan, pose[n + 1][1])
    OBVIOUS
  <2>2. n + 1 \in 1..Len(way) /\ (n + 1) - 1 = n /\ isTransitable(plan, pose[n][1])
    BY <2>1
  <2>3. CASE way[n + 1] = FORWARD
    BY <2>2, <2>3 DEF Traces
  <2>4. CASE way[n + 1] # FORWARD
    <3>1. Does(way[n + 1], pose[n], pose[n + 1])
      BY <2>2 DEF Traces
    <3>2. pose[n + 1][1] = pose[n][1]
      BY <2>4, <3>1 DEF Does
    <3>3. QED
      BY <2>2, <3>2
  <2>5. QED
    BY <2>3, <2>4
<1>3. Nat \subseteq T
  <2>1. T \subseteq Nat
    OBVIOUS
  <2> HIDE DEF T
  <2>2. QED
    BY <1>1, <1>2, <2>1, NatSetInduction
<1>4. QED
  BY <1>3

\* The vehicle that drives is on its route.
LEMMA OnRoute ==
    ASSUME FarmInv, vpc \in Driving, link[Running] = "up"
    PROVE  \E k \in 0..Len(road) : Spot(k)
<1>1. /\ OnRoad /\ Len(road) \in Nat /\ i \in 1..(Len(road) + 2)
      /\ vpc # "dark" => i <= Len(road) + 1
  BY OnTheRoad
<1>2. 0 \in 0..Len(road) /\ Len(road) \in 0..Len(road) /\ (vpc # "dark" => i - 1 \in 0..Len(road))
  BY <1>1
<1>3. CASE vpc = "light"
  BY <1>1, <1>2, <1>3 DEF OnRoad
<1>4. CASE vpc = "dark"
  BY <1>1, <1>2, <1>4 DEF OnRoad
<1>5. CASE vpc \in {"action", "normalize", "drive", "look", "veer", "creep"}
  <2>1. Spot(i - 1) /\ i - 1 \in 0..Len(road)
    BY <1>1, <1>2, <1>5 DEF OnRoad
  <2>2. QED
    BY <2>1
<1>6. CASE vpc \in {"poll", "off"}
  <2>1. (Spot(i - 1) /\ i - 1 \in 0..Len(road)) \/ After
    BY <1>1, <1>2, <1>6 DEF OnRoad, Moving
  <2>2. (IF i <= Len(road) THEN i ELSE Len(road)) \in 0..Len(road)
    BY <1>1
  <2>3. QED
    BY <2>1, <2>2 DEF After
<1>7. QED
  BY <1>3, <1>4, <1>5, <1>6 DEF Driving

\* The plan of the vehicle that drives has its place for a free cell.
LEMMA DriverOnFreeCell ==
    ASSUME FarmInv, vpc \in Driving, link[Running] = "up"
    PROVE  isTransitable(Plan(positions, Running), place[Running])
<1>1. PICK k \in 0..Len(road) : Spot(k)
  BY OnRoute
<1>2. Running \in Robots /\ Len(road) \in Nat
  BY OnTheRoad
<1>3. isTransitable(Plan(positions, Running), positions[Running].start)
  BY <1>2, PlanOK DEF FarmInv, FarmTypeOK
<1>4. Trace(positions, Running, road, Route)
  BY DEF FarmInv, OnTheWay
<1>5. isTransitable(Plan(positions, Running), <<positions[Running].start, NORTH>>[1])
  BY <1>3
<1>6. isTransitable(Plan(positions, Running), Route[k][1])
  BY <1>2, <1>4, <1>5, RouteIsFree DEF Trace
<1>7. QED
  BY <1>1, <1>6 DEF Spot

\* No two vehicles are in a cell while all links hold.
LEMMA ApartOnTheFloor == ASSUME FarmInv PROVE NoCollision
<1> SUFFICES ASSUME \A r \in Robots : link[r] = "up",
                    NEW r \in Robots, NEW s \in Robots, r # s
             PROVE  place[r] # place[s]
  BY DEF NoCollision
<1>1. FarmTypeOK /\ AllApart(positions) /\ positions \in Tables
  BY DEF FarmInv, FarmTypeOK
<1>2. \A x \in Waiting : place[x] = positions[x].start
  BY DEF FarmInv, Parked
<1>3. \A x \in Done : place[x] = positions[x].dest
  BY DEF FarmInv, There, Done
<1>4. ASSUME NEW x \in Robots, x = Running, client[1] = "run", vpc \in Driving, NEW y \in Robots, x # y
      PROVE  place[x] # place[y]
  <2>1. isTransitable(Plan(positions, x), place[x])
    BY <1>4, DriverOnFreeCell
  <2>2. /\ \A k \in Robots : k < x => ~isTransitable(Plan(positions, x), positions[k].dest)
        /\ \A k \in Robots : k > x => ~isTransitable(Plan(positions, x), positions[k].start)
    BY <1>1, <1>4, PlanOK
  <2>3. y \in Waiting \/ y \in Done
    BY <1>1, <1>4, WaitingOrDone
  <2>4. ASSUME y \in Waiting
        PROVE  y > x /\ place[y] = positions[y].start
    BY <1>2, <1>4, <2>4 DEF Waiting
  <2>5. ASSUME y \in Done
        PROVE  y < x /\ place[y] = positions[y].dest
    BY <1>3, <1>4, <2>5 DEF Done
  <2>6. QED
    BY <2>1, <2>2, <2>3, <2>4, <2>5
<1>5. CASE r = Running /\ client[1] = "run" /\ vpc \in Driving
  BY <1>4, <1>5
<1>6. CASE s = Running /\ client[1] = "run" /\ vpc \in Driving
  BY <1>4, <1>6
<1>7. CASE /\ r \in Waiting \/ r \in Done
           /\ s \in Waiting \/ s \in Done
  BY <1>1, <1>2, <1>3, <1>7 DEF AllApart
<1>8. QED
  BY <1>1, <1>5, <1>6, <1>7, WaitingOrDone

\* Vehicles never meet in a cell, as long as all their links hold.
THEOREM NobodyCollides == ASSUME ApartTables PROVE FarmSpec => []NoCollision
<1>1. FarmInv => NoCollision
  BY ApartOnTheFloor
<1>2. QED
  BY <1>1, FarmInvariance, PTL

\* The search throws only if there is no way to the destination.
THEOREM ThrowsOnlyWalledIn ==
    ASSUME ApartTables, RoadsFit
    PROVE  FarmSpec => []GivesUpOnlyWalledIn
<1>1. FarmInv => GivesUpOnlyWalledIn
  <2>1. SUFFICES ASSUME FarmInv, vpc = "threw"
                 PROVE  WalledIn(grid[Running], positions[Running].start, positions[Running].dest)
    BY DEF GivesUpOnlyWalledIn
  <2>2. /\ Running \in Robots /\ positions \in Tables /\ AllApart(positions)
        /\ grid[Running] = Plan(positions, Running) /\ ~Solves(grid[Running])
    BY <2>1 DEF FarmInv, FarmTypeOK, Running, Planned
  <2> DEFINE plan == Plan(positions, Running)
             start == positions[Running].start
             dest == positions[Running].dest
  <2>3. /\ start \in Cells /\ dest \in Cells /\ start # dest
        /\ LastMarked(plan, START) = start /\ LastMarked(plan, FINISH) = dest
        /\ isTransitable(plan, start)
    BY <2>2, PlanOK
  <2>4. searchNode(Search(plan, start, dest), dest) # 0 => Len(solveAlgorithm(plan)) <= MaxRoad
    BY <2>2 DEF RoadsFit
  <2>5. ~Solves(plan) /\ grid[Running] = plan
    BY <2>2
  <2> HIDE DEF plan, start, dest
  <2>6. \/ WalledIn(plan, start, dest)
        \/ /\ searchNode(Search(plan, start, dest), dest) # 0
           /\ Len(solveAlgorithm(plan)) > MaxRoad
    BY <2>3, <2>5, SolveOK
  <2>7. searchNode(Search(plan, start, dest), dest) = 0
    BY <2>3, <2>4, <2>5 DEF Solves, solveAlgorithm
  <2>8. QED
    BY <2>5, <2>6, <2>7 DEF start, dest
<1>2. QED
  BY <1>1, FarmInvariance, PTL

\* The roads fit an array with room for two actions in each cell of the floor.
THEOREM LongArraysFit ==
    ASSUME ApartTables, MaxRoad >= 2 * (Size * Size)
    PROVE  RoadsFit
<1> SUFFICES ASSUME NEW table \in Tables, NEW n \in Robots,
                    searchNode(Search(Plan(table, n), table[n].start, table[n].dest), table[n].dest) # 0
             PROVE  Len(solveAlgorithm(Plan(table, n))) <= MaxRoad
  BY DEF RoadsFit
<1> DEFINE plan == Plan(table, n)
           start == table[n].start
           dest == table[n].dest
           list == Search(plan, start, dest)
           way == Way(list, start, dest)
<1>1. AllApart(table)
  BY DEF ApartTables
<1>2. /\ start \in Cells /\ dest \in Cells /\ start # dest
      /\ LastMarked(plan, START) = start /\ LastMarked(plan, FINISH) = dest
      /\ isTransitable(plan, start)
  BY <1>1, PlanOK
<1>3. solveAlgorithm(plan) = RoadAlong(way, start)
  BY <1>2 DEF solveAlgorithm
<1>4. searchNode(list, dest) # 0
  OBVIOUS
<1> HIDE DEF plan, start, dest
<1>5. list \in Seq(Nodes) /\ Distinct(list) /\ Descends(plan, start, list)
  BY <1>2, SearchResult
<1> HIDE DEF list
<1>6. Has(list, dest)
  BY <1>4, <1>5, SearchNode
<1>7. WayOK(plan, start, dest, way) /\ Len(way) < Len(list)
  BY <1>2, <1>5, <1>6, WayIsOK
<1> HIDE DEF way
<1>8. Len(way) \in Nat
  BY <1>7 DEF WayOK
<1>9. Len(RoadAlong(way, start)) <= 2 * Len(way) + 1
  BY <1>8, RoadLength
<1>10. Len(list) <= Size * Size /\ Len(list) \in Nat
  BY <1>5, DistinctIsShort
<1>11. Size * Size \in Nat /\ MaxRoad \in Nat
  BY FloorAssumption
<1> DEFINE area == Size * Size
<1>12. area \in Nat /\ MaxRoad >= 2 * area /\ Len(list) <= area
  BY <1>10, <1>11
<1> HIDE DEF area
<1>13. 2 * Len(way) + 1 <= MaxRoad /\ 2 * Len(way) + 1 \in Nat
  BY <1>7, <1>8, <1>10, <1>11, <1>12
<1>14. Len(RoadAlong(way, start)) \in Int
  BY <1>2, <1>7, RoadTakes DEF Takes
<1>15. QED
  BY <1>3, <1>9, <1>11, <1>13, <1>14 DEF plan
-----------------------------------------------------------------------------
\* The road that the vehicle is about to drive is the one the search found.
Fetched ==
    vpc = "light" => /\ road = solveAlgorithm(Plan(positions, Running))
                     /\ Solves(Plan(positions, Running))

\* The road stays what it is until the vehicle has begun.
LEMMA FetchedOK == ASSUME FarmInv, Fetched, [FarmNext]_farmVars PROVE Fetched'
<1>1. ASSUME UNCHANGED <<positions, client, road, vpc>>
      PROVE  Fetched'
  BY <1>1 DEF Fetched, Running
<1>2. vpc # "light" /\ UNCHANGED vpc => Fetched'
  BY DEF Fetched
<1>3. vpc' # "light" => Fetched'
  BY DEF Fetched
<1> USE <1>3
<1>4. CASE ClientStep
  <2>1. client[1] \in {"instantiate", "objective"} => vpc = "idle"
    BY DEF FarmInv
  <2>2. QED
    BY <1>2, <1>4, <2>1 DEF ClientStep, Instantiate, SetObjective, RunVehicle
<1>5. CASE GetRoad
  <2>1. client[1] = "run" /\ Running \in Robots
    BY <1>5 DEF GetRoad, FarmInv, FarmTypeOK, Running
  <2>2. grid[Running] = Plan(positions, Running)
    BY <2>1 DEF FarmInv, Planned
  <2>3. CASE client' = client
    BY <1>5, <2>2, <2>3 DEF GetRoad, Fetched, Running
  <2>4. QED
    BY <1>5, <2>3 DEF GetRoad, Returns
<1>6. CASE NoRoad
  BY <1>6 DEF NoRoad
<1>7. CASE Drives
  <2>1. ASSUME NEW m, NEW from, NEW to, to # "light", Motors(m, from, to)
        PROVE  Fetched'
    BY <2>1 DEF Motors
  <2>2. CASE SensorsOn \/ Forward \/ Normalize \/ Look \/ Poll \/ SensorsOff
    BY <2>2 DEF SensorsOn, Forward, Normalize, Look, Poll, SensorsOff, Returns
  <2>3. CASE TurnRight \/ TurnLeft \/ Spin \/ LastCreep
    BY <2>1, <2>3 DEF TurnRight, TurnLeft, Spin, LastCreep
  <2>4. CASE Drive \/ Veer \/ Creep \/ MotorsOff
    BY <2>1, <2>4 DEF Drive, Veer, Creep, MotorsOff
  <2>5. QED
    BY <1>7, <2>2, <2>3, <2>4 DEF Drives
<1>8. ASSUME NEW r \in Robots, Brick(r) \/ LinkFails(r)
      PROVE  Fetched'
  BY <1>1, <1>8 DEF Brick, SensesLine, RunsOverLine, Creeps, Turns, LinkFails
<1>9. CASE UNCHANGED farmVars
  BY <1>1, <1>9 DEF farmVars
<1>10. QED
  BY <1>4, <1>5, <1>6, <1>7, <1>8, <1>9 DEF FarmNext, Vehicle

\* The road of a plan that is solved has as many moves as its destination is away.
LEMMA SolvedShortest ==
    ASSUME NEW table \in Tables, AllApart(table), NEW n \in Robots, Solves(Plan(table, n))
    PROVE  LET plan  == Plan(table, n)
               moves == Cardinality(Forwards(solveAlgorithm(plan)))
           IN  /\ moves \in Nat \ {0}
               /\ \A k \in Nat : table[n].dest \in Within(plan, table[n].start, k) <=> moves <= k
<1> DEFINE plan == Plan(table, n)
           start == table[n].start
           dest == table[n].dest
           list == Search(plan, start, dest)
           way == Way(list, start, dest)
           moves == Cardinality(Forwards(solveAlgorithm(plan)))
<1>1. /\ start \in Cells /\ dest \in Cells /\ start # dest
      /\ LastMarked(plan, START) = start /\ LastMarked(plan, FINISH) = dest
      /\ isTransitable(plan, start)
  BY PlanOK
<1>2. Solves(plan)
  OBVIOUS
<1>3. SUFFICES /\ moves \in Nat \ {0}
               /\ \A k \in Nat : dest \in Within(plan, start, k) <=> moves <= k
  OBVIOUS
<1> HIDE DEF plan, start, dest
<1>4. searchNode(list, dest) # 0 /\ solveAlgorithm(plan) = RoadAlong(way, start)
  BY <1>1, <1>2 DEF Solves, solveAlgorithm
<1>5. list \in Seq(Nodes) /\ Has(list, dest)
  <2>1. list \in Seq(Nodes) /\ Distinct(list)
    BY <1>1, SearchResult
  <2>2. QED
    BY <1>4, <2>1, SearchNode
<1>6. QED
  BY <1>1, <1>4, <1>5, ShortestWay

\* A vehicle never drives to more cells than it must.
THEOREM RoadsAreShortest == ASSUME ApartTables PROVE FarmSpec => []ShortestRoad
<1>1. FarmInit => Fetched
  BY DEF FarmInit, Fetched
<1>2. FarmInv /\ Fetched /\ [FarmNext]_farmVars => Fetched'
  BY FetchedOK
<1>3. FarmInv /\ Fetched => ShortestRoad
  <2>1. SUFFICES ASSUME FarmInv, Fetched, vpc = "light"
                 PROVE  LET moves == Cardinality(Forwards(road))
                        IN  positions[Running].dest \notin
                               Within(grid[Running], positions[Running].start, moves - 1)
    BY DEF ShortestRoad, Forwards
  <2>2. client[1] = "run" /\ Running \in Robots /\ positions \in Tables /\ AllApart(positions)
    BY <2>1 DEF FarmInv, FarmTypeOK, Running
  <2>3. grid[Running] = Plan(positions, Running)
    BY <2>1, <2>2 DEF FarmInv, Planned
  <2>4. Solves(Plan(positions, Running)) /\ road = solveAlgorithm(Plan(positions, Running))
    BY <2>1 DEF Fetched
  <2> DEFINE moves == Cardinality(Forwards(solveAlgorithm(Plan(positions, Running))))
  <2>5. /\ moves \in Nat \ {0}
        /\ \A k \in Nat : positions[Running].dest \in
                            Within(Plan(positions, Running), positions[Running].start, k) <=> moves <= k
    BY <2>2, <2>4, SolvedShortest
  <2> HIDE DEF moves
  <2>6. moves - 1 \in Nat /\ ~(moves <= moves - 1)
    BY <2>5
  <2>7. positions[Running].dest \notin
           Within(Plan(positions, Running), positions[Running].start, moves - 1)
    BY <2>5, <2>6
  <2>8. QED
    BY <2>3, <2>4, <2>7 DEF moves
<1>4. QED
  BY <1>1, <1>2, <1>3, FarmInvariance, PTL DEF FarmSpec

-----------------------------------------------------------------------------
\* The plan of a vehicle blocks a cell for each of the others: the end of who
\* goes earlier, the start of who goes later.
LEMMA OneBlockedEach ==
    ASSUME NEW table \in Tables, AllApart(table), NEW n \in Robots
    PROVE  Cardinality(BlockedCells(Plan(table, n))) <= NRobots - 1
<1> DEFINE plan == Plan(table, n)
           others == Robots \ {n}
           spot == [k \in others |-> IF k < n THEN table[k].dest ELSE table[k].start]
<1>1. \A k \in Robots : table[k].start \in Cells /\ table[k].dest \in Cells
  BY FarmAssumption
<1>2. /\ \A k \in Robots : /\ plan[table[k].start] = MarkOfStart(n, k)
                           /\ plan[table[k].dest] = MarkOfDest(n, k)
      /\ \A c \in Cells : (\A k \in Robots : c # table[k].start /\ c # table[k].dest) => plan[c] = Free
  BY PlanAt
<1> HIDE DEF plan
<1>3. /\ \A k \in Robots : MarkOfStart(n, k) = Blocked <=> k > n
      /\ \A k \in Robots : MarkOfDest(n, k) = Blocked <=> k < n
      /\ \A k \in others : k > n \/ k < n
      /\ \A k \in Robots : k > n \/ k < n => k \in others /\ (k > n => ~(k < n))
      /\ Free # Blocked
  BY DEF MarkOfStart, MarkOfDest, Blocked, Free, START, FINISH, Robots
<1>4. spot \in [others -> BlockedCells(plan)]
  <2>1. ASSUME NEW k \in others
        PROVE  (IF k < n THEN table[k].dest ELSE table[k].start) \in BlockedCells(plan)
    BY <1>1, <1>2, <1>3 DEF BlockedCells, isTransitable
  <2>2. QED
    BY <2>1
<1>5. ASSUME NEW c \in BlockedCells(plan)
      PROVE  \E k \in others : spot[k] = c
  <2>1. c \in Cells /\ plan[c] = Blocked
    BY DEF BlockedCells, isTransitable
  <2>2. PICK k \in Robots : c = table[k].start \/ c = table[k].dest
    BY <1>2, <1>3, <2>1
  <2>3. CASE c = table[k].start
    BY <1>2, <1>3, <2>1, <2>3
  <2>4. CASE c = table[k].dest
    BY <1>2, <1>3, <2>1, <2>4
  <2>5. QED
    BY <2>2, <2>3, <2>4
<1>6. spot \in Surjection(others, BlockedCells(plan))
  BY <1>4, <1>5, Zenon DEF Surjection
<1>7. IsFiniteSet(others) /\ Cardinality(others) = NRobots - 1
  <2>1. IsFiniteSet(Robots) /\ Cardinality(Robots) = NRobots
    BY FarmAssumption, FS_Interval DEF Robots
  <2>2. QED
    BY <2>1, FS_RemoveElement
<1> HIDE DEF spot, others
<1>8. Cardinality(BlockedCells(plan)) <= Cardinality(others)
  BY <1>6, <1>7, FS_Surjection
<1>9. QED
  BY <1>7, <1>8 DEF plan

\* The array of a road has room enough where the vehicles are no more than the rows of
\* the floor: for the 4 vehicles on 6 rows of the code it needs 35 of its 36 places.
THEOREM ArraysFit ==
    ASSUME ApartTables, NRobots <= Size, 2 * Longest(NRobots - 1) + 1 <= MaxRoad
    PROVE  RoadsFit
<1> SUFFICES ASSUME NEW table \in Tables, NEW n \in Robots,
                    searchNode(Search(Plan(table, n), table[n].start, table[n].dest), table[n].dest) # 0
             PROVE  Len(solveAlgorithm(Plan(table, n))) <= MaxRoad
  BY DEF RoadsFit
<1> DEFINE plan == Plan(table, n)
           start == table[n].start
           dest == table[n].dest
           list == Search(plan, start, dest)
           way == Way(list, start, dest)
<1>1. AllApart(table)
  BY DEF ApartTables
<1>2. /\ start \in Cells /\ dest \in Cells /\ start # dest
      /\ LastMarked(plan, START) = start /\ LastMarked(plan, FINISH) = dest
      /\ isTransitable(plan, start)
  BY <1>1, PlanOK
<1>3. solveAlgorithm(plan) = RoadAlong(way, start)
  BY <1>2 DEF solveAlgorithm
<1>4. searchNode(list, dest) # 0
  OBVIOUS
<1>5. PICK b : b = Cardinality(BlockedCells(plan)) /\ b <= NRobots - 1
  BY <1>1, OneBlockedEach
<1> HIDE DEF plan, start, dest
<1>6. Has(list, dest)
  <2>1. list \in Seq(Nodes) /\ Distinct(list)
    BY <1>2, SearchResult
  <2>2. QED
    BY <1>4, <2>1, SearchNode
<1>7. b \in Nat /\ NRobots - 1 \in Nat /\ b < Size
  BY <1>5, FewCorners, FloorAssumption, FarmAssumption
<1>8. Len(RoadAlong(way, start)) \in Nat /\ Len(RoadAlong(way, start)) <= 2 * Longest(b) + 1
  BY <1>2, <1>5, <1>6, <1>7, FewBlocked
<1>9. Longest(b) \in Int /\ Longest(NRobots - 1) \in Int /\ Longest(b) <= Longest(NRobots - 1)
  BY <1>5, <1>7, LongestGrows
<1> HIDE DEF way
<1>10. Len(RoadAlong(way, start)) <= MaxRoad
  BY <1>8, <1>9, FloorAssumption
<1>11. QED
  BY <1>3, <1>10 DEF plan

\* With the numbers of the code (Graph.java:6, :72 and NXTImpl.cpp:108) the search throws
\* only at a vehicle that is walled in.
THEOREM ThrowsOnlyWalledInHere ==
    ASSUME ApartTables, Size = 6, NRobots = 4, MaxRoad = 36
    PROVE  FarmSpec => []GivesUpOnlyWalledIn
<1>1. 2 * Longest(NRobots - 1) + 1 = 35
  <2>1. NRobots - 1 = 3 /\ Size - 1 = 5
    OBVIOUS
  <2>2. Roundabout(3) = 6
    BY <2>1 DEF Roundabout
  <2>3. Longest(3) = 17
    BY <2>1, <2>2 DEF Longest
  <2>4. QED
    BY <2>1, <2>3
<1>2. RoadsFit
  BY <1>1, ArraysFit
<1>3. QED
  BY <1>2, ThrowsOnlyWalledIn
=============================================================================
