------------------------------- MODULE Board -------------------------------
(***************************************************************************)
(* The board of computer-graphics/assignment_1 and what is computed on it: *)
(* which cubes explode, how cubes drop, and how a cube is named in the     *)
(* stencil buffer.  A board is a function from points to cube types.       *)
(***************************************************************************)
EXTENDS Integers, FiniteSets, Folds

CONSTANT GRID_SIZE

ASSUME GridAssumption == GRID_SIZE \in 1 .. 15

Coordinates == 0 .. GRID_SIZE - 1
Points == Coordinates \X Coordinates      \* <<x, y>>, y upwards

SelectableTypes == {"RED", "BLUE", "ROCK", "PAPER", "SCISSOR", "BOMB"}
Types == SelectableTypes \cup {"INITAL", "EMPTY"}
Hands == {"ROCK", "PAPER", "SCISSOR"}
-----------------------------------------------------------------------------
(* What explodes.                                                          *)

\* type_to_beat_type: what beats a hand.  type_to_beaten_type: what it beats.
BeatenBy(hand) == CASE hand = "ROCK" -> "PAPER"
                    [] hand = "PAPER" -> "SCISSOR"
                    [] hand = "SCISSOR" -> "ROCK"
Beats(hand) == CASE hand = "ROCK" -> "SCISSOR"
                 [] hand = "PAPER" -> "ROCK"
                 [] hand = "SCISSOR" -> "PAPER"

\* The cubes of p's type that the scan reaches from p to the left and right,
\* or up and down, before it meets another type or the border.
Between(i, j) == (i .. j) \cup (j .. i)
Horizontal(b, p) ==
    {<<x, p[2]>> : x \in {i \in Coordinates :
                            \A j \in Between(i, p[1]) : b[<<j, p[2]>>] = b[p]}}
Vertical(b, p) ==
    {<<p[1], y>> : y \in {i \in Coordinates :
                            \A j \in Between(i, p[2]) : b[<<p[1], j>>] = b[p]}}

Long(run) == IF Cardinality(run) >= 3 THEN run ELSE {}

\* A plausible slip: lines of empty slots count too.
Lines_OfEmpty(b) ==
    UNION {Long(Horizontal(b, p)) \cup Long(Vertical(b, p)) : p \in Points}

\* getDestructibleCubePoints for the replacement: the cubes in lines.
Lines(b) ==
    UNION {Long(Horizontal(b, p)) \cup Long(Vertical(b, p))
             : p \in {q \in Points : b[q] # "EMPTY"}}

\* The points n steps away in the eight directions of struct Point.
Compass(p, n) ==
    ({<<p[1] + dx, p[2] + dy>> : dx \in {-n, 0, n}, dy \in {-n, 0, n}} \cap Points) \ {p}

\* A plausible slip: the two tables of the game are exchanged.
BlastAt_Exchanged(b, p) ==
    {q \in Compass(p, 1) : b[q] # Beats(b[p])}
    \cup {q \in Compass(p, 2) \cup Compass(p, 3) : b[q] = BeatenBy(b[p])}

\* What the explosion of the hand at p takes with it.
BlastAt(b, p) ==
    {q \in Compass(p, 1) : b[q] # BeatenBy(b[p])}
    \cup {q \in Compass(p, 2) \cup Compass(p, 3) : b[q] = Beats(b[p])}

\* getDestructibleCubePoints for an explosion.
Destructible(b) ==
    Lines(b) \cup UNION {BlastAt(b, p) : p \in {q \in Lines(b) : b[q] \in Hands}}
-----------------------------------------------------------------------------
(* How cubes drop.                                                         *)

\* The order of Point::operator<.
Before(p, q) == p[2] < q[2] \/ (p[2] = q[2] /\ p[1] < q[1])

\* A plausible slip: the loop stops one swap too early.
Lift_Short(b, p) ==
    [q \in Points |->
        IF q[1] # p[1] \/ q[2] < p[2] THEN b[q]
        ELSE IF q[2] < GRID_SIZE - 1 THEN b[<<q[1], q[2] + 1>>]
        ELSE b[q]]

\* The swaps that carry the cube at p to the top of its column; each cube
\* above it comes down by one.
Lift(b, p) ==
    [q \in Points |->
        IF q[1] # p[1] \/ q[2] < p[2] THEN b[q]
        ELSE IF q[2] < GRID_SIZE - 1 THEN b[<<q[1], q[2] + 1>>]
        ELSE b[p]]

\* The loop over the sorted points: the last one is lifted on the board that
\* lifting all the others leaves.
dropCubesToEmptySlots(b, points) ==
    MapThenFoldSet(LAMBDA p, lifted : Lift(lifted, p), b,
                   LAMBDA p : p,
                   LAMBDA rest : CHOOSE p \in rest : \A q \in rest \ {p} : Before(q, p),
                   points)
-----------------------------------------------------------------------------
(* How a cube is named in the stencil buffer, a byte a pixel.              *)

\* A plausible slip: no + 1, so that the first cube looks like background.
StencilId_Zero(p) == (p[2] + p[1] * 16) % 256

\* drawCube's argument, a std::uint8_t.
StencilId(p) == (p[2] + p[1] * 16 + 1) % 256

\* What the mouse handlers make of a byte that is not 0.
Decode(id) == <<id \div 16, GRID_SIZE - (id % 16)>>

\* glReadPixels counts lines from the bottom, GLUT from the top: a click on p
\* reads the pixel of its mirror image.
Mirror(p) == <<p[1], GRID_SIZE - 1 - p[2]>>
=============================================================================
