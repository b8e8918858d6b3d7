------------------------------ MODULE MCBoard ------------------------------
(* Boards for TLC to look at.                                              *)
EXTENDS BoardChecks, TLC

\* A board without a line and without a hand.
Background == [p \in Points |-> IF (p[1] + p[2]) % 2 = 0 THEN "RED" ELSE "BLUE"]

\* One line of a hand on the background, and one more cube somewhere.
LineBoards ==
    {[q \in Points |-> IF q \in line THEN hand
                       ELSE IF q = p THEN type ELSE Background[q]] :
        line \in Triples, hand \in Hands, p \in Points,
        type \in Hands \cup {"BOMB", "EMPTY"}}

\* Anything that ROCK with another hand, or with empty slots, makes of the
\* 4x3 corner at the origin.
Corner == (0 .. 3) \X (0 .. 2)
CornerBoards ==
    {[q \in Points |-> IF q \in Corner THEN corner[q] ELSE Background[q]] :
        corner \in [Corner -> {"ROCK", "PAPER"}] \cup [Corner -> {"ROCK", "EMPTY"}]}

\* Two rows of two types at the top: lines of up to five.
Strip == Coordinates \X (GRID_SIZE - 2 .. GRID_SIZE - 1)
StripBoards ==
    {[q \in Points |-> IF q \in Strip THEN strip[q] ELSE Background[q]] :
        strip \in [Strip -> {"ROCK", "SCISSOR"}]}

ManyBoards == LineBoards \cup CornerBoards \cup StripBoards
=============================================================================
