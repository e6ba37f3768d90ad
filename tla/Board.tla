-------------------------------- MODULE Board --------------------------------
(* The order of cards on the Board: services/boardOrder.service.ts, the       *)
(* BOARD_SORT of repositories/response.repository.ts, and the changes of      *)
(* stage that take a card's place away.                                       *)
(*                                                                            *)
(* A place is a number between the neighbours' numbers. When there is none,   *)
(* or no room, the whole column is numbered first. Requests that place cards  *)
(* do so on a column they read before.                                        *)
EXTENDS Integers, FiniteSets

CONSTANTS
  Cards,        \* the form's responses, numbered in the order they came in
  Columns,      \* stages
  Spacing,      \* the distance of fresh numbers
  MinGap,       \* the least distance two numbers are halved at
  Hands,        \* requests that place cards at the same time
  None,
  MaxRequests   \* bound: requests

\* What is assumed of the constants.
BoardAssumption ==
  /\ Cards \subseteq Nat /\ IsFiniteSet(Cards) /\ Spacing \in Nat /\ MinGap \in 2..Spacing
  /\ None \notin Int \cup Hands /\ MaxRequests \in Nat

VARIABLES
  stage,    \* Response.stageId
  rank,     \* Response.boardRank, or None
  placing,  \* the placement in each hand: the column it read, where to
  dirty,    \* history: has anything but its own steps changed its column since?
  started

boardVars == <<stage, rank, placing, dirty, started>>

NoPlace == [card |-> None, from |-> None, column |-> {}, ranks |-> <<>>,
            above |-> None, below |-> None, at |-> "idle"]

Init ==
  /\ stage \in [Cards -> Columns]
  /\ rank = [c \in Cards |-> None]
  /\ placing = [h \in Hands |-> NoPlace]
  /\ dirty = [h \in Hands |-> FALSE]
  /\ started = 0

\* BOARD_SORT: no number first, then by number, the newest first among equals.
Above(ranks, c, d) ==
  \/ ranks[c] = None /\ ranks[d] # None
  \/ ranks[c] = ranks[d] /\ c > d
  \/ ranks[c] # None /\ ranks[d] # None /\ ranks[c] < ranks[d]

Column(s) == {c \in Cards : stage[c] = s}

\* Two cards of a column with nothing between them; None stands for its ends.
Neighbours(ranks, column, c, d) ==
  /\ c # None \/ d # None
  /\ c # None /\ d # None => Above(ranks, c, d)
  /\ \A e \in column :
       \/ c # None /\ (e = c \/ Above(ranks, e, c))
       \/ d # None /\ (e = d \/ Above(ranks, d, e))

\* A change to cards of these columns is news to the other hands that hold one.
Touched(h, columns) ==
  dirty' = [j \in Hands |-> dirty[j] \/ (j # h /\ placing[j].card # None
                                          /\ placing[j].from \in columns)]

------------------------------------------------------------------------------
\* placeOnBoard reads the column without the card. The caller names the card
\* above or below the new place, or neither: the top.
Place(h, c) ==
  LET column == Column(stage[c]) \ {c}
      placed(at, above, below) ==
        [card |-> c, from |-> stage[c], column |-> column, ranks |-> [d \in column |-> rank[d]],
         above |-> above, below |-> below, at |-> at]
  IN /\ placing[h] = NoPlace /\ started < MaxRequests
     /\ started' = started + 1
     /\ \/ placing' = [placing EXCEPT ![h] = placed("top", None, None)]
        \/ \E above, below \in column \cup {None} :
             /\ Neighbours(rank, column, above, below)
             /\ placing' = [placing EXCEPT ![h] = placed("between", above, below)]
     /\ dirty' = [dirty EXCEPT ![h] = FALSE]
     /\ UNCHANGED <<stage, rank>>

\* The top: the card's number is taken away.
Top(h) ==
  LET p == placing[h]
  IN /\ p.at = "top"
     /\ rank' = [rank EXCEPT ![p.card] = None]
     /\ placing' = [placing EXCEPT ![h] = NoPlace]
     /\ Touched(h, {stage[p.card]})
     /\ UNCHANGED <<stage, started>>

Prev(p) == IF p.above = None THEN None ELSE p.ranks[p.above]
After(p) == IF p.below = None THEN None ELSE p.ranks[p.below]

Unplaced(p) ==
  \/ p.above # None /\ Prev(p) = None
  \/ p.below # None /\ After(p) = None
\* Variant: the room between the neighbours is not looked at.
CrowdedUnplaced(p) == Unplaced(p)
\* A neighbour has no number, or there is no room between the two.
Crowded(p) ==
  \/ Unplaced(p)
  \/ Prev(p) # None /\ After(p) # None /\ After(p) - Prev(p) < MinGap

\* Variant: the column is numbered in the order the cards came in.
FreshByAge(column, ranks) ==
  [c \in column |-> Spacing * Cardinality({d \in column : d >= c})]
\* The column is numbered in the order it was read in.
Fresh(column, ranks) ==
  [c \in column |-> Spacing * Cardinality({d \in column : d = c \/ Above(ranks, d, c)})]

Number(h) ==
  LET p == placing[h]
      fresh == Fresh(p.column, p.ranks)
  IN /\ p.at = "between" /\ Crowded(p)
     /\ rank' = [c \in Cards |-> IF c \in p.column THEN fresh[c] ELSE rank[c]]
     /\ placing' = [placing EXCEPT ![h].ranks = fresh]
     /\ Touched(h, {stage[c] : c \in p.column})
     /\ UNCHANGED <<stage, started>>

RankBetween(above, below) ==
  IF above = None /\ below = None THEN 0
  ELSE IF above = None THEN below - Spacing
  ELSE IF below = None THEN above + Spacing
  ELSE (above + below) \div 2

Settle(h) ==
  LET p == placing[h]
  IN /\ p.at = "between" /\ ~Crowded(p)
     /\ rank' = [rank EXCEPT ![p.card] = RankBetween(Prev(p), After(p))]
     /\ placing' = [placing EXCEPT ![h] = NoPlace]
     /\ Touched(h, {stage[p.card]})
     /\ UNCHANGED <<stage, started>>

\* updateResponseStage, alone or in bulk: the card leaves its place behind.
Move(c, s) ==
  /\ started < MaxRequests
  /\ started' = started + 1
  /\ stage' = [stage EXCEPT ![c] = s]
  /\ rank' = [rank EXCEPT ![c] = None]
  /\ Touched(None, {stage[c], s})
  /\ UNCHANGED placing

Next ==
  \/ \E h \in Hands : Top(h) \/ Number(h) \/ Settle(h) \/ \E c \in Cards : Place(h, c)
  \/ \E c \in Cards, s \in Columns : Move(c, s)

Spec == Init /\ [][Next]_boardVars

------------------------------------------------------------------------------
\* The placement of h takes a step on a column that has not changed since it
\* was read.
Fair(h) == placing[h].card # None /\ placing'[h] # placing[h] /\ ~dirty[h]

\* "so nothing visibly moves": placing a card on a column nobody else has
\* changed leaves the other cards in their order, numbered or not.
OthersStay ==
  [][\A h \in Hands : Fair(h) =>
       \A c, d \in placing[h].column : Above(rank, c, d) <=> Above(rank', c, d)]_boardVars

\* A card that is placed is the only one that comes to its column, and ends up
\* directly between the cards it was dropped between; one dropped at the top
\* ends up above every card that has been placed.
Between(p) ==
  /\ {c \in Cards : stage'[c] = p.from} = p.column \cup {p.card}
  /\ Neighbours(rank', p.column \cup {p.card}, p.above, p.card)
  /\ Neighbours(rank', p.column \cup {p.card}, p.card, p.below)
PlacedAsAsked ==
  [][\A h \in Hands : Fair(h) /\ placing'[h] = NoPlace =>
       LET p == placing[h]
       IN IF p.at = "between" THEN Between(p)
          ELSE \A d \in p.column : rank[d] # None => Above(rank', p.card, d)]_boardVars

\* "Neither = the top of the column."
TopIsTop ==
  [][\A h \in Hands : Fair(h) /\ placing[h].at = "top" =>
       \A d \in placing[h].column : Above(rank', placing[h].card, d)]_boardVars
==============================================================================
