-------------------------------- MODULE Game --------------------------------
(***************************************************************************)
(* The event loop of computer-graphics/assignment_1: GLUT calls back for   *)
(* the display, the mouse, the menu, the keyboard and two timers, one at a *)
(* time but in any order, and the callbacks share the board, the state of  *)
(* the game, the list of exploded cubes and the stencil buffer.            *)
(*                                                                         *)
(* The loop that replaces cubes until no line is left is run in steps of   *)
(* one replacement each, during which no other callback runs.              *)
(***************************************************************************)
EXTENDS Board

CONSTANTS Selectable,       \* the types in play, among SelectableTypes
          NUMBER_OF_MOVES,  \* 20 in the game
          MaxMoves,         \* bound: how often cubes are swapped, in all games,
                            \* and less often by one from each later game on
          MaxGames,         \* bound: how often "Start Game" is chosen
          Rolls,            \* bound: what the generator deals, a board at a time
          Exposures,        \* may the window be redrawn unasked?
          Exits,            \* bound: after how many games the program is left
          NoPoint

ASSUME GameAssumption ==
    /\ Selectable \subseteq SelectableTypes
    /\ Cardinality(Selectable) >= 3
    /\ NUMBER_OF_MOVES \in Nat \ {0}
    /\ MaxMoves \in Nat /\ MaxGames \in Nat
    /\ Rolls \subseteq [Points -> Selectable]
    /\ \A p \in Points : Cardinality({roll[p] : roll \in Rolls}) >= 2
    /\ Exposures \in BOOLEAN /\ Exits \subseteq 0 .. MaxGames
    /\ NoPoint \notin Points

VARIABLES
    cubes2dArr,        \* the type of every cube
    gameState,
    numberOfMovesLeft,
    first,             \* s_g_firstClickedCube while the second is awaited
    clicked,           \* cubes whose isClicked is set
    handler,           \* the mouse handler that is registered
    exploded,          \* s_g_destructiblePoints
    effects, resets,   \* pending timers: destroyCubesEffect, doBoardSoftRest
    replacing,         \* is a callback inside replaceEmptyCubesWithOutScoring?
    redisplay,         \* has a redisplay been posted?
    stencil,           \* cubes whose id is in the stencil buffer
    stencilMask,       \* is the stencil buffer writable?
    running,           \* has the program not called exit?
    games, moves       \* history: games started, moves made in all

selection == <<first, clicked, handler>>
timers == <<exploded, effects, resets>>
picture == <<redisplay, stencil, stencilMask>>
counts == <<numberOfMovesLeft, moves, games>>
vars == <<cubes2dArr, gameState, selection, timers, replacing, picture,
          running, counts>>

TypeOK ==
    /\ cubes2dArr \in [Points -> Selectable \cup {"INITAL", "EMPTY"}]
    /\ gameState \in {"DEFAULT", "NEW_GAME", "EFFECT_IS_APPLIED", "GAME_OVER",
                      "END_GAME"}
    /\ numberOfMovesLeft \in NUMBER_OF_MOVES - MaxMoves .. NUMBER_OF_MOVES
    /\ first \in Points \cup {NoPoint}
    /\ clicked \subseteq Points
    /\ handler \in {"first", "second"}
    /\ exploded \subseteq Points
    /\ effects \in 0 .. MaxMoves /\ resets \in 0 .. MaxMoves
    /\ {replacing, redisplay, stencilMask, running} \subseteq BOOLEAN
    /\ stencil \subseteq Points
    /\ games \in 0 .. MaxGames /\ moves \in 0 .. MaxMoves

\* Before glutMainLoop; GLUT shows a new window by itself.
Init ==
    /\ cubes2dArr = [p \in Points |-> "INITAL"]
    /\ gameState = "DEFAULT"
    /\ numberOfMovesLeft = NUMBER_OF_MOVES
    /\ first = NoPoint
    /\ clicked = {}
    /\ handler = "first"
    /\ exploded = {}
    /\ effects = 0
    /\ resets = 0
    /\ replacing = FALSE
    /\ redisplay = TRUE
    /\ stencil = {}
    /\ stencilMask = TRUE
    /\ running = TRUE
    /\ games = 0
    /\ moves = 0

\* The event loop may call back.
Ready == running /\ ~replacing
-----------------------------------------------------------------------------
(* Display                                                                 *)

Visible(p) == cubes2dArr[p] \notin {"INITAL", "EMPTY"}

\* glClear leaves a stencil buffer alone that is masked.
Cleared == IF stencilMask THEN {} ELSE stencil

\* Drawing a cube writes its id, unless it is empty; the mask stays as the
\* cube drawn last has set it.
DrawBoard ==
    /\ stencil' = Cleared \cup {p \in Points : Visible(p)}
    /\ stencilMask' = Visible(<<GRID_SIZE - 1, GRID_SIZE - 1>>)

displayEventHandler ==
    /\ Ready
    /\ redisplay
    /\ redisplay' = FALSE
    /\ \/ /\ gameState = "GAME_OVER"
          /\ stencil' = Cleared
          /\ UNCHANGED <<gameState, stencilMask>>
       \/ /\ gameState = "EFFECT_IS_APPLIED"
          /\ gameState' = "NEW_GAME"
          /\ stencil' = Cleared
          /\ UNCHANGED stencilMask
       \/ /\ gameState \notin {"GAME_OVER", "EFFECT_IS_APPLIED"}
          /\ DrawBoard
          /\ UNCHANGED gameState
    /\ UNCHANGED <<cubes2dArr, selection, timers, replacing, running, counts>>

\* The window is uncovered or reshaped.
Expose ==
    /\ Ready
    /\ Exposures
    /\ ~redisplay
    /\ redisplay' = TRUE
    /\ UNCHANGED <<cubes2dArr, gameState, selection, timers, replacing,
                   stencil, stencilMask, running, counts>>
-----------------------------------------------------------------------------
(* The mouse                                                               *)

arePointsNeighbor(p, q) ==
    \/ p[1] - q[1] \in {-1, 1} /\ p[2] = q[2]
    \/ p[1] = q[1] /\ p[2] - q[2] \in {-1, 1}

\* A plausible slip: the swap's own result is written first, and the explosion
\* overwrites it.
destroyCubes_StateLast(b) ==
    \E points \in {Destructible(b)} :
    /\ exploded' = points
    /\ cubes2dArr' = [p \in Points |-> IF p \in points THEN "EMPTY" ELSE b[p]]
    /\ effects' = IF points = {} THEN effects ELSE effects + 1
    /\ gameState' = IF points # {} THEN "EFFECT_IS_APPLIED"
                    ELSE IF numberOfMovesLeft - 1 <= 0 THEN "GAME_OVER"
                    ELSE gameState

\* destroyCubes on the board b, which a swap has just left.
destroyCubes(b) ==
    \E points \in {Destructible(b)} :
    /\ exploded' = points
    /\ cubes2dArr' = [p \in Points |-> IF p \in points THEN "EMPTY" ELSE b[p]]
    /\ effects' = IF points = {} THEN effects ELSE effects + 1
    /\ gameState' = IF numberOfMovesLeft - 1 <= 0 THEN "GAME_OVER"
                    ELSE IF points # {} THEN "EFFECT_IS_APPLIED"
                    ELSE gameState

swapNeighborCubes(p, q) ==
    IF arePointsNeighbor(p, q)
    THEN /\ moves < MaxMoves /\ moves + games <= MaxMoves
         /\ destroyCubes([cubes2dArr EXCEPT ![p] = cubes2dArr[q], ![q] = cubes2dArr[p]])
         /\ numberOfMovesLeft' = numberOfMovesLeft - 1
         /\ moves' = moves + 1
    ELSE UNCHANGED <<cubes2dArr, exploded, effects, gameState, numberOfMovesLeft, moves>>

\* A plausible slip: the row is off by one.
Read_NextRow(p) ==
    IF Mirror(p) \in stencil
    THEN <<p[1], GRID_SIZE + 1 - (StencilId(Mirror(p)) % 16)>>
    ELSE NoPoint

\* The cube the handler takes a click on p for: the byte read is 0 or an id.
Read(p) == IF Mirror(p) \in stencil THEN Decode(StencilId(Mirror(p))) ELSE NoPoint

\* Either handler, on the background, which shows between the cubes of a full
\* board too (Cube.hpp:18, Display.cpp:73-75): the marks go, the handler stays.
ClickBackground ==
    /\ Ready
    /\ clicked # {}
    /\ clicked' = {}
    /\ UNCHANGED <<cubes2dArr, gameState, first, handler, timers, replacing,
                   picture, running, counts>>

firstMouseEventHandler(p) ==
    /\ Ready
    /\ handler = "first"
    /\ Read(p) # NoPoint
    /\ first' = Read(p)
    /\ clicked' = clicked \cup {Read(p)}
    /\ handler' = "second"
    /\ redisplay' = TRUE
    /\ UNCHANGED <<cubes2dArr, gameState, timers, replacing, stencil,
                   stencilMask, running, counts>>

\* A plausible slip: the handler forgets clearClickStatus.
secondMouseEventHandler_Marked(p) ==
    /\ Ready
    /\ handler = "second"
    /\ Read(p) # NoPoint
    /\ swapNeighborCubes(first, Read(p))
    /\ first' = NoPoint
    /\ clicked' = clicked \cup {Read(p)}
    /\ handler' = "first"
    /\ redisplay' = TRUE
    /\ UNCHANGED <<resets, replacing, stencil, stencilMask, running, games>>

\* clearClickStatus takes the marks from the first and the second cube.
secondMouseEventHandler(p) ==
    /\ Ready
    /\ handler = "second"
    /\ Read(p) # NoPoint
    /\ swapNeighborCubes(first, Read(p))
    /\ first' = NoPoint
    /\ clicked' = clicked \ {first, Read(p)}
    /\ handler' = "first"
    /\ redisplay' = TRUE
    /\ UNCHANGED <<resets, replacing, stencil, stencilMask, running, games>>

Click ==
    \/ ClickBackground
    \/ \E p \in Points : firstMouseEventHandler(p) \/ secondMouseEventHandler(p)
-----------------------------------------------------------------------------
(* The timers                                                              *)

\* A plausible slip: the second timer is not set.
destroyCubesEffect_NoReset ==
    /\ Ready
    /\ effects > 0
    /\ effects' = effects - 1
    /\ \E new \in Rolls :
          cubes2dArr' = dropCubesToEmptySlots(
                            [p \in Points |-> IF p \in exploded THEN new[p]
                                              ELSE cubes2dArr[p]],
                            exploded)
    /\ UNCHANGED <<gameState, selection, exploded, resets, replacing, picture,
                   running, counts>>

\* destroyCubesEffect: new cubes for the exploded ones, then they drop.
destroyCubesEffect ==
    /\ Ready
    /\ effects > 0
    /\ effects' = effects - 1
    /\ resets' = resets + 1
    /\ \E new \in Rolls :
          cubes2dArr' = dropCubesToEmptySlots(
                            [p \in Points |-> IF p \in exploded THEN new[p]
                                              ELSE cubes2dArr[p]],
                            exploded)
    /\ UNCHANGED <<gameState, selection, exploded, replacing, picture, running,
                   counts>>

doBoardSoftRest ==
    /\ Ready
    /\ resets > 0
    /\ resets' = resets - 1
    /\ replacing' = TRUE
    /\ UNCHANGED <<cubes2dArr, gameState, selection, exploded, effects, picture,
                   running, counts>>

\* One round of the loop: every cube in a line changes its type; without a
\* line the callback ends with its glutPostRedisplay.
replaceEmptyCubesWithOutScoring ==
    /\ running
    /\ replacing
    /\ \E points \in {Lines(cubes2dArr)} :
       \/ /\ points # {}
          /\ \E dealt \in [points -> Rolls] :
                /\ \A p \in points : dealt[p][p] # cubes2dArr[p]
                /\ cubes2dArr' = [p \in Points |-> IF p \in points THEN dealt[p][p]
                                                   ELSE cubes2dArr[p]]
          /\ UNCHANGED <<replacing, redisplay>>
       \/ /\ points = {}
          /\ replacing' = FALSE
          /\ redisplay' = TRUE
          /\ UNCHANGED cubes2dArr
    /\ UNCHANGED <<gameState, selection, timers, stencil, stencilMask, running,
                   counts>>
-----------------------------------------------------------------------------
(* The menu and the keyboard                                               *)

\* "Start Game": createNewGame.
StartGame ==
    /\ Ready
    /\ games < MaxGames
    /\ games' = games + 1
    /\ gameState' = "NEW_GAME"
    /\ cubes2dArr' \in Rolls
    /\ replacing' = TRUE
    /\ UNCHANGED <<numberOfMovesLeft, moves, selection, timers, picture, running>>

Leave(state) ==
    /\ Ready
    /\ games \in Exits
    /\ running' = FALSE
    /\ gameState' = state
    /\ UNCHANGED <<cubes2dArr, selection, timers, replacing, picture, counts>>

\* "Exit" in the menu.
ExitGame == Leave("END_GAME")

\* The escape key.
keyboardEventHandler == Leave(gameState)
-----------------------------------------------------------------------------
Next ==
    \/ displayEventHandler \/ Expose
    \/ Click
    \/ destroyCubesEffect \/ doBoardSoftRest \/ replaceEmptyCubesWithOutScoring
    \/ StartGame \/ ExitGame \/ keyboardEventHandler

Spec == Init /\ [][Next]_vars
-----------------------------------------------------------------------------
\* Three cubes of one type in a row are never left standing: they exist only
\* while a soft reset is pending or at work, whatever the player clicks and
\* however the timers interleave (Effects.cpp:43-77, GameManagement.cpp:236-248).
LinesOnlyDuringReset ==
    running /\ games > 0 /\ resets = 0 /\ ~replacing => Lines(cubes2dArr) = {}

\* The first game is over exactly when its moves have been made, no game
\* before as many were, and stays over although explosions and timers also
\* write the game's state (Logic.cpp:35-52, Effects.cpp:65-76).
GameOverAfterMoves ==
    games > 0 /\ running =>
        /\ gameState = "GAME_OVER" => moves >= NUMBER_OF_MOVES
        /\ games = 1 /\ moves >= NUMBER_OF_MOVES => gameState = "GAME_OVER"

\* No cube stays marked once its selection is over: while the first click is
\* awaited nothing is marked, later at most the first cube.
MarksFollowSelection == clicked \subseteq (IF handler = "second" THEN {first} ELSE {})

\* Every exploded slot is known to the timer that will refill it.
EmptySlotsAreRefilled ==
    \A p \in Points : cubes2dArr[p] = "EMPTY" => effects > 0 /\ p \in exploded
=============================================================================
