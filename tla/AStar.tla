--------------------------------- MODULE AStar ---------------------------------
(***************************************************************************)
(* The path search of the LEGO farm (AstarImpl.java, Graph.java, List.java *)
(* and Node.java): from a plan of the floor to the road of a vehicle.  A   *)
(* cell is <<row, column>>; the rows are counted from the north.           *)
(***************************************************************************)
EXTENDS Integers, SequencesExt, FiniteSetsExt

CONSTANTS Size,     \* rows and columns of the floor, 6 in the code
          MaxRoad   \* actions in the array of a road, 36 in the code

ASSUME FloorAssumption == Size \in Nat \ {0} /\ MaxRoad \in Nat \ {0}

Coordinates == 0..(Size - 1)
Cells == Coordinates \X Coordinates

\* What a plan says of a cell.
Blocked == 0
Free    == 1
START   == 2
FINISH  == 3

\* The orientations, each a quarter turn to the right of the one before it.
NORTH == 1
EAST  == 2
SOUTH == 3
WEST  == 4
Orientations == {NORTH, EAST, SOUTH, WEST}

FORWARD   == 1
TURNRIGHT == 2
TURNLEFT  == 3
SPIN      == 4

-----------------------------------------------------------------------------
\* searchStart() and searchFinish() keep the last match; cell 0, 0 without one.
LastMarked(plan, mark) ==
    LET marked == {c \in Cells : plan[c] = mark}
    IN  IF marked = {} THEN <<0, 0>>
        ELSE CHOOSE c \in marked :
                \A d \in marked : d[1] * Size + d[2] <= c[1] * Size + c[2]

isTransitable(plan, c) == plan[c] # Blocked

AbsDiff(a, b) == IF a > b THEN a - b ELSE b - a

Node(c, father, g, finish) ==
    [coord |-> c, father |-> father, g |-> g,
     h |-> AbsDiff(c[1], finish[1]) + AbsDiff(c[2], finish[2])]

getF(node) == node.g + node.h

Nowhere == <<-1, 0>>

\* Mutant: the last column is taken for the edge.
neighborCoord_OffByOne(c, k) ==
    LET n == <<  <<c[1], c[2] - 1>>, <<c[1], c[2] + 1>>, <<c[1] - 1, c[2]>>, <<c[1] + 1, c[2]>> >>[k]
    IN  IF n \in Cells /\ n[2] # Size - 1 THEN n ELSE Nowhere

\* The neighbours, 0 to 3 in the code, if they are on the floor.
neighborCoord(c, k) ==
    LET n == << <<c[1], c[2] - 1>>, <<c[1], c[2] + 1>>, <<c[1] - 1, c[2]>>, <<c[1] + 1, c[2]>> >>[k]
    IN  IF n \in Cells THEN n ELSE Nowhere

searchNode(list, c) == SelectInSeq(list, LAMBDA node : node.coord = c)

\* Mutant: the comparison the other way round.
searchMinF_Reversed(list) ==
    LET less == {i \in DOMAIN list : getF(list[i]) > getF(list[1])}
    IN  IF less = {} THEN 1 ELSE CHOOSE i \in less : \A j \in less : j <= i

\* The bound is never lowered: the last node below the first.  For the lists of the
\* search it has the least estimate, for others it need not.
searchMinF(list) ==
    LET less == {i \in DOMAIN list : getF(list[i]) < getF(list[1])}
    IN  IF less = {} THEN 1 ELSE CHOOSE i \in less : \A j \in less : j <= i

\* One neighbour of the current node: opened, or reached on a shorter way.
Relax(plan, finish, s, openList, k) ==
    LET c    == neighborCoord(s.current.coord, k)
        m    == searchNode(openList, c)
        node == Node(c, s.current.coord, s.current.g + 1, finish)
    IN  IF c = Nowhere \/ searchNode(s.closeList, c) # 0 \/ ~isTransitable(plan, c) THEN openList
        ELSE IF m = 0 THEN Append(openList, node)
        ELSE IF node.g < openList[m].g THEN ReplaceAt(openList, m, node)
        ELSE openList

\* The open list after the four of them.
Opened(plan, finish, s) ==
    LET list[k \in 0..4] ==
            IF k = 0 THEN s.openList ELSE Relax(plan, finish, s, list[k - 1], k)
    IN  list[4]

\* One round of the do loop.
Round(plan, finish, s) ==
    LET opened == Opened(plan, finish, s)
        rest   == RemoveAt(opened, searchNode(opened, s.current.coord))
        next   == IF rest = <<>> THEN s.current ELSE rest[searchMinF(rest)]
        found  == next.coord = finish
        closed == Append(s.closeList, s.current)
    IN  [current |-> next, openList |-> rest, found |-> found,
         closeList |-> IF found THEN Append(closed, next) ELSE closed]

\* The list of closed nodes when the loop is left; a round closes a cell.
Search(plan, start, finish) ==
    LET first == Node(start, start, 0, finish)
        round[n \in Nat] ==
            IF n = 0
            THEN [current |-> first, openList |-> <<first>>,
                  closeList |-> <<>>, found |-> FALSE]
            ELSE LET s == round[n - 1]
                 IN  IF s.openList = <<>> \/ s.found THEN s
                     ELSE Round(plan, finish, s)
    IN  round[Size * Size].closeList

-----------------------------------------------------------------------------
\* The cells from the start, which is left out, to c: from each cell back to its
\* father, until that is the start.
Way(closeList, start, c) ==
    LET father(cell) == closeList[searchNode(closeList, cell)].father
        way[n \in Nat] ==
            IF n = 0 THEN <<c>>
            ELSE LET last == way[n - 1]
                 IN  IF Head(last) = start THEN last ELSE <<father(Head(last))>> \o last
    IN  Tail(way[Len(closeList)])

\* to east, to west, to south, to north
Direction(from, to) ==
    IF to[2] > from[2] THEN EAST ELSE IF to[2] < from[2] THEN WEST
    ELSE IF to[1] > from[1] THEN SOUTH ELSE NORTH

\* The turn between two orientations.
TurnTo(from, to) ==
    CASE (to - from) % 4 = 0 -> <<>>
      [] (to - from) % 4 = 1 -> <<TURNRIGHT>>
      [] (to - from) % 4 = 3 -> <<TURNLEFT>>
      [] OTHER               -> <<SPIN>>

\* A step of the way; of the reversals only the one from north has a case.
Actions(from, to) ==
    IF (to - from) % 4 = 2 /\ from # NORTH THEN <<>>
    ELSE TurnTo(from, to) \o <<FORWARD>>

\* The actions along the way, and the turn back to the north.
RoadAlong(way, start) ==
    LET cell(i) == IF i = 0 THEN start ELSE way[i]
        heading(i) == IF i = 0 THEN NORTH ELSE Direction(cell(i - 1), cell(i))
        road[i \in Nat] ==
            IF i = 0 THEN <<>>
            ELSE road[i - 1] \o Actions(heading(i - 1), heading(i))
    IN  road[Len(way)] \o TurnTo(heading(Len(way)), NORTH)

\* solveAlgorithm() returns with a road: the finish was closed, the road fits.
\* Otherwise an unchecked exception leaves it.
Solves(plan) ==
    LET start     == LastMarked(plan, START)
        finish    == LastMarked(plan, FINISH)
        closeList == Search(plan, start, finish)
    IN  /\ searchNode(closeList, finish) # 0
        /\ Len(RoadAlong(Way(closeList, start, finish), start)) <= MaxRoad

solveAlgorithm(plan) ==
    LET start     == LastMarked(plan, START)
        finish    == LastMarked(plan, FINISH)
    IN  RoadAlong(Way(Search(plan, start, finish), start, finish), start)

-----------------------------------------------------------------------------
Adjacent(c, d) == AbsDiff(c[1], d[1]) + AbsDiff(c[2], d[2]) = 1

\* Reference: blocked cells and the edge of the floor part finish from start.
WalledIn(plan, start, finish) ==
    \E room \in SUBSET Cells :
        /\ start \in room /\ finish \notin room
        /\ \A c \in room, d \in Cells :
              Adjacent(c, d) /\ isTransitable(plan, d) => d \in room

\* Reference: the cells at most n moves away from c.
Within(plan, c, n) ==
    LET within[k \in Nat] ==
            IF k = 0 THEN {c}
            ELSE LET near == within[k - 1]
                 IN  near \cup {d \in Cells : /\ isTransitable(plan, d)
                                             /\ \E b \in near : Adjacent(b, d)}
    IN  within[n]
=============================================================================
