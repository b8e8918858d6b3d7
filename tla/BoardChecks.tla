----------------------------- MODULE BoardChecks -----------------------------
(***************************************************************************)
(* What Board computes, compared with what computer-graphics/assignment_1/ *)
(* README.md says: one behaviour per board, in which the board explodes.   *)
(***************************************************************************)
EXTENDS Board

CONSTANT Boards       \* the boards to look at

ASSUME BoardsAssumption == Boards \subseteq [Points -> Types]

VARIABLES board,      \* the board
          exploded    \* what destroyCubes empties on it, once that is known

Init == board \in Boards /\ exploded = {}

Explode ==
    /\ exploded = {}
    /\ exploded' = Destructible(board)
    /\ UNCHANGED board

Spec == Init /\ [][Explode]_<<board, exploded>>
-----------------------------------------------------------------------------
(* The README's rules.                                                     *)

\* "When 3 or more of these cubes align either vertically or horizontally".
Triples ==
    {{<<x, y>>, <<x + 1, y>>, <<x + 2, y>>} : x \in 0 .. GRID_SIZE - 3, y \in Coordinates}
    \cup
    {{<<x, y>>, <<x, y + 1>>, <<x, y + 2>>} : x \in Coordinates, y \in 0 .. GRID_SIZE - 3}

Aligned(b) ==
    UNION {t \in Triples : \E type \in Types \ {"EMPTY"} : \A p \in t : b[p] = type}

\* "The diagonal cube neighbors distance is the same as the horizontal or
\* vertical".
Distance(p, q) ==
    LET span(i) == IF p[i] > q[i] THEN p[i] - q[i] ELSE q[i] - p[i]
    IN IF span(1) > span(2) THEN span(1) ELSE span(2)

\* "For an explosion of either rock/paper/scissor.  All level 1 neighbors are
\* destroyed except its weakness ...  At level 2 and 3 only the cubes it beats
\* are destroyed."
Rules(b, p, q) ==
    \/ Distance(p, q) = 1 /\ b[q] # BeatenBy(b[p])
    \/ Distance(p, q) \in {2, 3} /\ b[q] = Beats(b[p])
-----------------------------------------------------------------------------
\* The two-way scan from every cube (GameManagement.cpp:119-211) finds the
\* cubes of every line of three or more, crossing and overlapping lines
\* included, and no other cube; nothing explodes without a line.
ScanFindsLines ==
    /\ Lines(board) = Aligned(board)
    /\ exploded # {} => Lines(board) # {}

\* No cube explodes that the rules spare: each is in a line, or a hand in a
\* line destroys it at its distance (GameManagement.cpp:43-117).
OnlyRulesExplode ==
    \A q \in exploded \ Aligned(board) :
        \E p \in Aligned(board) : board[p] \in Hands /\ Rules(board, p, q)

\* Every cube explodes that the rules destroy at level 1, where the eight
\* directions are all there is: the weakness of the exploding hand is the one
\* thing that survives next to it (GameManagement.cpp:81-107).
FirstLevelExplodes ==
    exploded # {} =>
        \A p \in Aligned(board), q \in Points :
            /\ board[p] \in Hands
            /\ Distance(p, q) = 1
            /\ Rules(board, p, q)
            => q \in exploded

\* Dropping (Effects.cpp:20-41) moves cubes within their column only, loses
\* and duplicates none, and leaves a column without an exploded cube alone,
\* and so everything below the lowest exploded cube of a column.
DropKeepsColumns ==
    LET dropped == dropCubesToEmptySlots(board, exploded)
        count(b, x, type) == Cardinality({y \in Coordinates : b[<<x, y>>] = type})
    IN  /\ \A x \in Coordinates, type \in Types :
              count(dropped, x, type) = count(board, x, type)
        /\ \A q \in Points :
              (\A p \in exploded : p[1] = q[1] => p[2] > q[2]) => dropped[q] = board[q]

\* A click on a cube that is drawn selects that cube: reading the pixel of the
\* mirror image and decoding the mirrored row cancel out, no id is taken for
\* the background, and none needs more than a byte (Display.cpp:72,
\* Mouse.cpp:47-72).
ClickSelectsCube ==
    \A p \in Points : board[Mirror(p)] # "EMPTY" =>
        LET id == StencilId(Mirror(p)) IN id # 0 /\ Decode(id) = p
=============================================================================
