----------------------------- MODULE GameProofs -----------------------------
(* What Game keeps whatever is clicked and however the timers interleave,  *)
(* for every size of the board, every number of moves and every generator. *)
EXTENDS Game, BoardLemmas

\* The timers that are pending were all set by a move, and the counter on the
\* screen counts the moves.
Counted ==
    /\ numberOfMovesLeft = NUMBER_OF_MOVES - moves
    /\ effects + resets <= moves

\* A selection is the first cube, marked or no more, or nothing at all.
Selected ==
    IF handler = "first" THEN first = NoPoint /\ clicked = {}
    ELSE first \in Points /\ clicked \subseteq {first}

\* Before the first game there is nothing to click on, so no move is made.
Idle ==
    games = 0 =>
        /\ stencil = {} /\ moves = 0 /\ ~replacing /\ gameState # "GAME_OVER"
        /\ \A p \in Points : cubes2dArr[p] = "INITAL"

\* GameOverAfterMoves without its condition games > 0.
Over ==
    /\ gameState = "GAME_OVER" => moves >= NUMBER_OF_MOVES
    /\ running /\ games = 1 /\ moves >= NUMBER_OF_MOVES => gameState = "GAME_OVER"

IInv == TypeOK /\ Counted /\ Selected /\ Idle /\ Over /\ LinesOnlyDuringReset

\* Facts about the constants.
LEMMA Constants ==
    /\ NUMBER_OF_MOVES \in Nat /\ NUMBER_OF_MOVES > 0
    /\ MaxMoves \in Nat /\ MaxGames \in Nat
    /\ NoPoint \notin Points
    /\ \A roll \in Rolls, p \in Points : roll[p] \in Selectable
    /\ Rolls \subseteq [Points -> Selectable \cup {"INITAL", "EMPTY"}]
  BY GameAssumption
-----------------------------------------------------------------------------
(* What the handlers have in common.                                       *)

\* A click is taken for the cube clicked on, or for the background.
LEMMA ReadIs ==
    ASSUME NEW p \in Points, Read(p) # NoPoint
    PROVE  Read(p) = p /\ Mirror(p) \in stencil
  BY ClickDecodes DEF Read

\* A swap that is a move counts as one, starts at most one timer, and leaves
\* a board without lines; any other changes nothing.
Swapped ==
    \/ /\ moves < MaxMoves /\ moves' = moves + 1
       /\ numberOfMovesLeft' = numberOfMovesLeft - 1
       /\ effects' \in {effects, effects + 1}
       /\ exploded' \in SUBSET Points
       /\ cubes2dArr' \in [Points -> Selectable \cup {"INITAL", "EMPTY"}]
       /\ Lines(cubes2dArr)' = {}
       /\ gameState' \in {"GAME_OVER", "EFFECT_IS_APPLIED", gameState}
       /\ numberOfMovesLeft - 1 <= 0 => gameState' = "GAME_OVER"
       /\ numberOfMovesLeft - 1 > 0 => gameState' \in {"EFFECT_IS_APPLIED", gameState}
    \/ UNCHANGED <<cubes2dArr, exploded, effects, gameState, numberOfMovesLeft, moves>>

LEMMA SwapIs ==
    ASSUME IInv, NEW p \in Points, NEW q \in Points, swapNeighborCubes(p, q)
    PROVE  Swapped
  <1>1. CASE ~arePointsNeighbor(p, q)
    BY <1>1 DEF swapNeighborCubes, Swapped
  <1>2. CASE arePointsNeighbor(p, q)
    <2> DEFINE b == [cubes2dArr EXCEPT ![p] = cubes2dArr[q], ![q] = cubes2dArr[p]]
               points == Destructible(b)
               c == [r \in Points |-> IF r \in points THEN "EMPTY" ELSE b[r]]
    <2>1. b \in [Points -> Selectable \cup {"INITAL", "EMPTY"}]
      BY DEF IInv, TypeOK
    <2>2. points \in SUBSET Points /\ Lines(b) \subseteq points
      <3> HIDE DEF b
      <3> QED  BY LinesType DEF Destructible, BlastAt, Compass
    <2>3. c \in [Points -> Selectable \cup {"INITAL", "EMPTY"}]
      <3> HIDE DEF b, points
      <3> QED  BY <2>1
    <2>4. Lines(c) = {}
      <3> HIDE DEF b, points
      <3> QED  BY <2>2, EmptyingEndsLines
    <2>5. /\ moves < MaxMoves /\ moves' = moves + 1
          /\ numberOfMovesLeft' = numberOfMovesLeft - 1
          /\ destroyCubes(b)
      BY <1>2 DEF swapNeighborCubes
    <2>6. /\ exploded' = points
          /\ cubes2dArr' = c
          /\ effects' = IF points = {} THEN effects ELSE effects + 1
          /\ gameState' = IF numberOfMovesLeft - 1 <= 0 THEN "GAME_OVER"
                          ELSE IF points # {} THEN "EFFECT_IS_APPLIED"
                          ELSE gameState
      <3> HIDE DEF b
      <3> QED  BY <2>5 DEF destroyCubes
    <2>7. Lines(cubes2dArr)' = {}
      <3> HIDE DEF c
      <3>1. Lines(cubes2dArr)' = Lines(cubes2dArr')
        OBVIOUS
      <3> QED  BY <2>4, <2>6, <3>1
    <2>8. numberOfMovesLeft \in Int
      BY Constants DEF IInv, TypeOK
    <2> HIDE DEF b, points, c
    <2> QED  BY <2>2, <2>3, <2>5, <2>6, <2>7, <2>8 DEF Swapped
  <1> QED  BY <1>1, <1>2

\* What the second click does, with its swap.
LEMMA Moving ==
    ASSUME IInv, NEW p \in Points, secondMouseEventHandler(p)
    PROVE  /\ Ready /\ stencil # {} /\ games # 0
           /\ clicked' = {} /\ first' = NoPoint /\ handler' = "first" /\ redisplay' = TRUE
           /\ UNCHANGED <<resets, replacing, stencil, stencilMask, running, games>>
           /\ Swapped
  <1>1. Read(p) = p /\ stencil # {}
    BY ReadIs DEF secondMouseEventHandler
  <1>2. first \in Points /\ clicked \subseteq {first} /\ games # 0
    BY <1>1 DEF secondMouseEventHandler, IInv, Selected, Idle
  <1>3. swapNeighborCubes(first, p)
    BY <1>1 DEF secondMouseEventHandler
  <1>4. /\ Ready /\ first' = NoPoint /\ handler' = "first" /\ redisplay' = TRUE
        /\ clicked' = clicked \ {first, p}
        /\ UNCHANGED <<resets, replacing, stencil, stencilMask, running, games>>
    BY <1>1 DEF secondMouseEventHandler
  <1>5. clicked' = {}
    BY <1>2, <1>4
  <1> QED  BY <1>1, <1>2, <1>3, <1>4, <1>5, SwapIs

\* What one round of the replacement does: it deals cubes, or ends because no
\* line is left.
LEMMA Replacing ==
    ASSUME IInv, replaceEmptyCubesWithOutScoring
    PROVE  \/ /\ cubes2dArr' \in [Points -> Selectable \cup {"INITAL", "EMPTY"}]
              /\ UNCHANGED <<replacing, redisplay>>
           \/ /\ Lines(cubes2dArr) = {} /\ UNCHANGED cubes2dArr
              /\ replacing' = FALSE /\ redisplay' = TRUE
  <1>1. PICK points \in {Lines(cubes2dArr)} :
           \/ /\ points # {}
              /\ \E dealt \in [points -> Rolls] :
                    cubes2dArr' = [p \in Points |-> IF p \in points THEN dealt[p][p]
                                                    ELSE cubes2dArr[p]]
              /\ UNCHANGED <<replacing, redisplay>>
           \/ /\ points = {}
              /\ replacing' = FALSE
              /\ redisplay' = TRUE
              /\ UNCHANGED cubes2dArr
    BY Zenon DEF replaceEmptyCubesWithOutScoring
  <1>2. CASE points = {}
    BY <1>1, <1>2
  <1>3. CASE points # {}
    <2>1. PICK dealt \in [points -> Rolls] :
             cubes2dArr' = [p \in Points |-> IF p \in points THEN dealt[p][p]
                                             ELSE cubes2dArr[p]]
      BY <1>1, <1>3
    <2>2. cubes2dArr \in [Points -> Selectable \cup {"INITAL", "EMPTY"}]
      BY DEF IInv, TypeOK
    <2>3. cubes2dArr' \in [Points -> Selectable \cup {"INITAL", "EMPTY"}]
      BY <2>1, <2>2, Constants
    <2> QED  BY <1>1, <1>3, <2>3
  <1> QED  BY <1>2, <1>3
-----------------------------------------------------------------------------
(* Every step keeps every part of the invariant.                           *)

\* TypeOK: a timer that is set counts a move that was made.
LEMMA TypeStep ==
    ASSUME IInv, [Next]_vars
    PROVE  TypeOK'
  <1>0. TypeOK /\ Counted /\ Selected
    BY DEF IInv
  <1>1. CASE displayEventHandler
    BY <1>1, <1>0
       DEF displayEventHandler, DrawBoard, Cleared, Visible, selection, timers, counts,
           TypeOK
  <1>2. CASE Expose
    BY <1>2, <1>0 DEF Expose, selection, timers, counts, TypeOK
  <1>3. CASE ClickBackground
    BY <1>3, <1>0 DEF ClickBackground, timers, picture, counts, TypeOK
  <1>4. ASSUME NEW p \in Points, firstMouseEventHandler(p) PROVE TypeOK'
    BY <1>4, <1>0, ReadIs
       DEF firstMouseEventHandler, picture, timers, counts, TypeOK
  <1>5. ASSUME NEW p \in Points, secondMouseEventHandler(p) PROVE TypeOK'
    <2>1. /\ numberOfMovesLeft' \in NUMBER_OF_MOVES - MaxMoves .. NUMBER_OF_MOVES
          /\ effects' \in 0 .. MaxMoves /\ moves' \in 0 .. MaxMoves
      <3>1. \/ /\ moves < MaxMoves /\ moves' = moves + 1
               /\ numberOfMovesLeft' = numberOfMovesLeft - 1
               /\ effects' \in {effects, effects + 1}
            \/ UNCHANGED <<effects, numberOfMovesLeft, moves>>
        BY <1>5, Moving DEF Swapped
      <3>2. /\ moves \in 0 .. MaxMoves /\ effects \in 0 .. MaxMoves /\ resets \in 0 .. MaxMoves
            /\ numberOfMovesLeft = NUMBER_OF_MOVES - moves /\ effects + resets <= moves
        BY <1>0 DEF TypeOK, Counted
      <3> QED  BY <3>1, <3>2, Constants
    <2>2. /\ gameState' \in {"DEFAULT", "NEW_GAME", "EFFECT_IS_APPLIED", "GAME_OVER", "END_GAME"}
          /\ exploded' \subseteq Points
          /\ cubes2dArr' \in [Points -> Selectable \cup {"INITAL", "EMPTY"}]
      BY <1>5, <1>0, Moving DEF Swapped, TypeOK
    <2> QED  BY <1>5, <1>0, <2>1, <2>2, Moving DEF Swapped, TypeOK
  <1>6. CASE destroyCubesEffect
    <2>1. cubes2dArr' \in [Points -> Selectable \cup {"INITAL", "EMPTY"}]
      <3>1. PICK new \in Rolls :
               cubes2dArr' = dropCubesToEmptySlots(
                                 [p \in Points |-> IF p \in exploded THEN new[p]
                                                   ELSE cubes2dArr[p]], exploded)
        BY <1>6 DEF destroyCubesEffect
      <3> DEFINE b == [p \in Points |-> IF p \in exploded THEN new[p] ELSE cubes2dArr[p]]
      <3>2. b \in [Points -> Selectable \cup {"INITAL", "EMPTY"}]
        BY <1>0, Constants DEF TypeOK
      <3>3. exploded \in SUBSET Points
        BY <1>0 DEF TypeOK
      <3>4. cubes2dArr' = dropCubesToEmptySlots(b, exploded)
        BY <3>1
      <3> HIDE DEF b
      <3> QED  BY <3>2, <3>3, <3>4, DropType
    <2>2. effects' \in 0 .. MaxMoves /\ resets' \in 0 .. MaxMoves
      BY <1>6, <1>0, Constants DEF destroyCubesEffect, TypeOK, Counted
    <2> QED  BY <1>6, <1>0, <2>1, <2>2
             DEF destroyCubesEffect, selection, picture, counts, TypeOK
  <1>7. CASE doBoardSoftRest
    BY <1>7, <1>0, Constants DEF doBoardSoftRest, selection, picture, counts, TypeOK
  <1>8. CASE replaceEmptyCubesWithOutScoring
    BY <1>8, <1>0, Replacing
       DEF replaceEmptyCubesWithOutScoring, selection, timers, counts, TypeOK
  <1>9. CASE StartGame
    BY <1>9, <1>0, Constants DEF StartGame, selection, timers, picture, TypeOK
  <1>10. CASE ExitGame
    BY <1>10, <1>0 DEF ExitGame, Leave, selection, timers, picture, counts, TypeOK
  <1>11. CASE keyboardEventHandler
    BY <1>11, <1>0
       DEF keyboardEventHandler, Leave, selection, timers, picture, counts, TypeOK
  <1>12. CASE UNCHANGED vars
    BY <1>12, <1>0 DEF selection, timers, picture, counts, vars, TypeOK
  <1> QED
    BY <1>1, <1>2, <1>3, <1>4, <1>5, <1>6, <1>7, <1>8, <1>9, <1>10, <1>11, <1>12
       DEF Next, Click

\* A timer is pending for some move, and the counter counts the moves.
LEMMA CountedStep ==
    ASSUME IInv, [Next]_vars
    PROVE  Counted'
  <1>0. /\ Counted
        /\ moves \in Nat /\ effects \in Nat /\ resets \in Nat /\ NUMBER_OF_MOVES \in Nat
    BY Constants DEF IInv, TypeOK
  <1>1. CASE displayEventHandler
    BY <1>1, <1>0
       DEF displayEventHandler, DrawBoard, Cleared, Visible, selection, timers, counts, Counted
  <1>2. CASE Expose
    BY <1>2, <1>0 DEF Expose, selection, timers, counts, Counted
  <1>3. CASE ClickBackground
    BY <1>3, <1>0 DEF ClickBackground, timers, picture, counts, Counted
  <1>4. ASSUME NEW p \in Points, firstMouseEventHandler(p) PROVE Counted'
    BY <1>4, <1>0, ReadIs
       DEF firstMouseEventHandler, picture, timers, counts, Counted
  <1>5. ASSUME NEW p \in Points, secondMouseEventHandler(p) PROVE Counted'
    <2>1. /\ \/ /\ moves' = moves + 1
                /\ numberOfMovesLeft' = numberOfMovesLeft - 1
                /\ effects' \in {effects, effects + 1}
             \/ UNCHANGED <<effects, numberOfMovesLeft, moves>>
          /\ resets' = resets
      BY <1>5, Moving DEF Swapped
    <2> QED  BY <1>0, <2>1 DEF Counted
  <1>6. CASE destroyCubesEffect
    BY <1>6, <1>0 DEF destroyCubesEffect, selection, picture, counts, Counted
  <1>7. CASE doBoardSoftRest
    BY <1>7, <1>0 DEF doBoardSoftRest, selection, picture, counts, Counted
  <1>8. CASE replaceEmptyCubesWithOutScoring
    BY <1>8, <1>0
       DEF replaceEmptyCubesWithOutScoring, selection, timers, counts, Counted
  <1>9. CASE StartGame
    BY <1>9, <1>0 DEF StartGame, selection, timers, picture, Counted
  <1>10. CASE ExitGame
    BY <1>10, <1>0 DEF ExitGame, Leave, selection, timers, picture, counts, Counted
  <1>11. CASE keyboardEventHandler
    BY <1>11, <1>0
       DEF keyboardEventHandler, Leave, selection, timers, picture, counts, Counted
  <1>12. CASE UNCHANGED vars
    BY <1>12, <1>0 DEF selection, timers, picture, counts, vars, Counted
  <1> QED
    BY <1>1, <1>2, <1>3, <1>4, <1>5, <1>6, <1>7, <1>8, <1>9, <1>10, <1>11, <1>12
       DEF Next, Click

\* The marks go with the selection.
LEMMA SelectedStep ==
    ASSUME IInv, [Next]_vars
    PROVE  Selected'
  <1>0. Selected /\ handler \in {"first", "second"} /\ NoPoint \notin Points
    BY Constants DEF IInv, TypeOK
  <1>1. CASE displayEventHandler
    BY <1>1, <1>0
       DEF displayEventHandler, DrawBoard, Cleared, Visible, selection, timers, counts, Selected
  <1>2. CASE Expose
    BY <1>2, <1>0 DEF Expose, selection, timers, counts, Selected
  <1>3. CASE ClickBackground
    BY <1>3, <1>0 DEF ClickBackground, timers, picture, counts, Selected
  <1>4. ASSUME NEW p \in Points, firstMouseEventHandler(p) PROVE Selected'
    BY <1>4, <1>0, ReadIs
       DEF firstMouseEventHandler, picture, timers, counts, Selected
  <1>5. ASSUME NEW p \in Points, secondMouseEventHandler(p) PROVE Selected'
    BY <1>5, <1>0, Moving DEF Swapped, Selected
  <1>6. CASE destroyCubesEffect
    BY <1>6, <1>0 DEF destroyCubesEffect, selection, picture, counts, Selected
  <1>7. CASE doBoardSoftRest
    BY <1>7, <1>0 DEF doBoardSoftRest, selection, picture, counts, Selected
  <1>8. CASE replaceEmptyCubesWithOutScoring
    BY <1>8, <1>0
       DEF replaceEmptyCubesWithOutScoring, selection, timers, counts, Selected
  <1>9. CASE StartGame
    BY <1>9, <1>0 DEF StartGame, selection, timers, picture, Selected
  <1>10. CASE ExitGame
    BY <1>10, <1>0 DEF ExitGame, Leave, selection, timers, picture, counts, Selected
  <1>11. CASE keyboardEventHandler
    BY <1>11, <1>0
       DEF keyboardEventHandler, Leave, selection, timers, picture, counts, Selected
  <1>12. CASE UNCHANGED vars
    BY <1>12, <1>0 DEF selection, timers, picture, counts, vars, Selected
  <1> QED
    BY <1>1, <1>2, <1>3, <1>4, <1>5, <1>6, <1>7, <1>8, <1>9, <1>10, <1>11, <1>12
       DEF Next, Click

\* Nothing can be clicked on before the first game starts.
LEMMA IdleStep ==
    ASSUME IInv, [Next]_vars
    PROVE  Idle'
  <1>0. Idle /\ games \in Nat /\ effects \in Nat /\ resets \in Nat /\ effects + resets <= moves
    BY DEF IInv, TypeOK, Counted
  <1>1. CASE displayEventHandler
    BY <1>1, <1>0
       DEF displayEventHandler, DrawBoard, Cleared, Visible, selection, timers, counts, Idle
  <1>2. CASE Expose
    BY <1>2, <1>0 DEF Expose, selection, timers, counts, Idle
  <1>3. CASE ClickBackground
    BY <1>3, <1>0 DEF ClickBackground, timers, picture, counts, Idle
  <1>4. ASSUME NEW p \in Points, firstMouseEventHandler(p) PROVE Idle'
    BY <1>4, <1>0, ReadIs DEF firstMouseEventHandler, picture, timers, counts, Idle
  <1>5. ASSUME NEW p \in Points, secondMouseEventHandler(p) PROVE Idle'
    BY <1>5, <1>0, Moving DEF Swapped, Idle
  <1>6. CASE destroyCubesEffect
    BY <1>6, <1>0 DEF destroyCubesEffect, selection, picture, counts, Idle
  <1>7. CASE doBoardSoftRest
    BY <1>7, <1>0 DEF doBoardSoftRest, selection, picture, counts, Idle
  <1>8. CASE replaceEmptyCubesWithOutScoring
    BY <1>8, <1>0
       DEF replaceEmptyCubesWithOutScoring, selection, timers, counts, Idle
  <1>9. CASE StartGame
    BY <1>9, <1>0 DEF StartGame, selection, timers, picture, Idle
  <1>10. CASE ExitGame
    BY <1>10, <1>0 DEF ExitGame, Leave, selection, timers, picture, counts, Idle
  <1>11. CASE keyboardEventHandler
    BY <1>11, <1>0
       DEF keyboardEventHandler, Leave, selection, timers, picture, counts, Idle
  <1>12. CASE UNCHANGED vars
    BY <1>12, <1>0 DEF selection, timers, picture, counts, vars, Idle
  <1> QED
    BY <1>1, <1>2, <1>3, <1>4, <1>5, <1>6, <1>7, <1>8, <1>9, <1>10, <1>11, <1>12
       DEF Next, Click

\* The game is over as soon as its last move is made, and not before.
LEMMA OverStep ==
    ASSUME IInv, [Next]_vars
    PROVE  Over'
  <1>0. /\ Over /\ Idle /\ Counted /\ games \in Nat /\ moves \in Nat
        /\ NUMBER_OF_MOVES \in Nat /\ NUMBER_OF_MOVES > 0
    BY Constants DEF IInv, TypeOK
  <1>1. CASE displayEventHandler
    BY <1>1, <1>0
       DEF displayEventHandler, DrawBoard, Cleared, Visible, selection, timers, counts, Over
  <1>2. CASE Expose
    BY <1>2, <1>0 DEF Expose, selection, timers, counts, Over
  <1>3. CASE ClickBackground
    BY <1>3, <1>0 DEF ClickBackground, timers, picture, counts, Over
  <1>4. ASSUME NEW p \in Points, firstMouseEventHandler(p) PROVE Over'
    BY <1>4, <1>0, ReadIs DEF firstMouseEventHandler, picture, timers, counts, Over
  <1>5. ASSUME NEW p \in Points, secondMouseEventHandler(p) PROVE Over'
    <2>1. /\ games' = games /\ running' = running
          /\ \/ /\ moves' = moves + 1
                /\ gameState' \in {"GAME_OVER", "EFFECT_IS_APPLIED", gameState}
                /\ numberOfMovesLeft - 1 <= 0 => gameState' = "GAME_OVER"
                /\ numberOfMovesLeft - 1 > 0 => gameState' \in {"EFFECT_IS_APPLIED", gameState}
             \/ UNCHANGED <<gameState, moves>>
      BY <1>5, Moving DEF Swapped
    <2>2. numberOfMovesLeft - 1 <= 0 <=> moves + 1 >= NUMBER_OF_MOVES
      BY <1>0 DEF Counted
    <2>3. numberOfMovesLeft - 1 <= 0 \/ numberOfMovesLeft - 1 > 0
      BY <1>0 DEF Counted
    <2> QED  BY <1>0, <2>1, <2>2, <2>3 DEF Over
  <1>6. CASE destroyCubesEffect
    BY <1>6, <1>0 DEF destroyCubesEffect, selection, picture, counts, Over
  <1>7. CASE doBoardSoftRest
    BY <1>7, <1>0 DEF doBoardSoftRest, selection, picture, counts, Over
  <1>8. CASE replaceEmptyCubesWithOutScoring
    BY <1>8, <1>0
       DEF replaceEmptyCubesWithOutScoring, selection, timers, counts, Over
  <1>9. CASE StartGame
    BY <1>9, <1>0 DEF StartGame, Idle, Over
  <1>10. CASE ExitGame
    BY <1>10, <1>0 DEF ExitGame, Leave, selection, timers, picture, counts, Over
  <1>11. CASE keyboardEventHandler
    BY <1>11, <1>0
       DEF keyboardEventHandler, Leave, selection, timers, picture, counts, Over
  <1>12. CASE UNCHANGED vars
    BY <1>12, <1>0 DEF selection, timers, picture, counts, vars, Over
  <1> QED
    BY <1>1, <1>2, <1>3, <1>4, <1>5, <1>6, <1>7, <1>8, <1>9, <1>10, <1>11, <1>12
       DEF Next, Click

\* A move leaves no line; dropping may make some, and sets the timer of the
\* reset, which ends only when none is left.
LEMMA LinesStep ==
    ASSUME IInv, [Next]_vars
    PROVE  LinesOnlyDuringReset'
  <1>0. /\ LinesOnlyDuringReset /\ resets \in Nat /\ games \in Nat
        /\ UNCHANGED cubes2dArr => Lines(cubes2dArr)' = Lines(cubes2dArr)
    <2>1. UNCHANGED cubes2dArr => Lines(cubes2dArr)' = Lines(cubes2dArr)
      OBVIOUS
    <2> QED  BY <2>1 DEF IInv, TypeOK
  <1>1. CASE displayEventHandler
    BY <1>1, <1>0
       DEF displayEventHandler, DrawBoard, Cleared, Visible, selection, timers, counts, LinesOnlyDuringReset
  <1>2. CASE Expose
    BY <1>2, <1>0 DEF Expose, selection, timers, counts, LinesOnlyDuringReset
  <1>3. CASE ClickBackground
    BY <1>3, <1>0 DEF ClickBackground, timers, picture, counts, LinesOnlyDuringReset
  <1>4. ASSUME NEW p \in Points, firstMouseEventHandler(p) PROVE LinesOnlyDuringReset'
    BY <1>4, <1>0, ReadIs
       DEF firstMouseEventHandler, picture, timers, counts, LinesOnlyDuringReset
  <1>5. ASSUME NEW p \in Points, secondMouseEventHandler(p) PROVE LinesOnlyDuringReset'
    BY <1>5, <1>0, Moving DEF Swapped, LinesOnlyDuringReset
  <1>6. CASE destroyCubesEffect
    BY <1>6, <1>0
       DEF destroyCubesEffect, selection, picture, counts, LinesOnlyDuringReset
  <1>7. CASE doBoardSoftRest
    BY <1>7, <1>0
       DEF doBoardSoftRest, selection, picture, counts, LinesOnlyDuringReset
  <1>8. CASE replaceEmptyCubesWithOutScoring
    BY <1>8, <1>0
       DEF replaceEmptyCubesWithOutScoring, selection, timers, counts, LinesOnlyDuringReset
  <1>9. CASE StartGame
    BY <1>9, <1>0 DEF StartGame, selection, timers, picture, LinesOnlyDuringReset
  <1>10. CASE ExitGame
    BY <1>10, <1>0
       DEF ExitGame, Leave, selection, timers, picture, counts, LinesOnlyDuringReset
  <1>11. CASE keyboardEventHandler
    BY <1>11, <1>0
       DEF keyboardEventHandler, Leave, selection, timers, picture, counts, LinesOnlyDuringReset
  <1>12. CASE UNCHANGED vars
    BY <1>12, <1>0
       DEF selection, timers, picture, counts, vars, LinesOnlyDuringReset
  <1> QED
    BY <1>1, <1>2, <1>3, <1>4, <1>5, <1>6, <1>7, <1>8, <1>9, <1>10, <1>11, <1>12
       DEF Next, Click
-----------------------------------------------------------------------------
(* The theorems.                                                           *)

LEMMA InitInvariant == Init => IInv
  <1> SUFFICES ASSUME Init PROVE IInv
    OBVIOUS
  <1>1. TypeOK
    <2>1. /\ numberOfMovesLeft \in NUMBER_OF_MOVES - MaxMoves .. NUMBER_OF_MOVES
          /\ effects \in 0 .. MaxMoves /\ resets \in 0 .. MaxMoves
          /\ games \in 0 .. MaxGames /\ moves \in 0 .. MaxMoves
      BY Constants DEF Init
    <2>2. cubes2dArr \in [Points -> Selectable \cup {"INITAL", "EMPTY"}]
      BY DEF Init
    <2> QED  BY <2>1, <2>2 DEF Init, TypeOK
  <1>2. Counted /\ Over
    <2>1. /\ NUMBER_OF_MOVES \in Nat /\ NUMBER_OF_MOVES > 0 /\ moves = 0 /\ games = 0
          /\ numberOfMovesLeft = NUMBER_OF_MOVES /\ effects = 0 /\ resets = 0
          /\ gameState = "DEFAULT"
      BY Constants DEF Init
    <2>2. Counted
      BY <2>1 DEF Counted
    <2>3. Over
      BY <2>1 DEF Over
    <2> QED  BY <2>2, <2>3
  <1>3. Selected /\ Idle /\ LinesOnlyDuringReset
    BY DEF Init, Selected, Idle, LinesOnlyDuringReset
  <1> QED  BY <1>1, <1>2, <1>3 DEF IInv

\* The inductive invariant holds in every state the program reaches.
THEOREM Invariance == Spec => []IInv
  <1>1. IInv /\ [Next]_vars => IInv'
    BY TypeStep, CountedStep, SelectedStep, IdleStep, OverStep, LinesStep DEF IInv
  <1> QED  BY <1>1, InitInvariant, PTL DEF Spec

\* The variables keep their types: the board stays a board while it drops, a
\* click is only ever taken for a cube of the board, and no more timers are
\* pending than moves were made.
THEOREM TypeCorrect == Spec => []TypeOK
  <1>1. IInv => TypeOK
    BY DEF IInv
  <1> QED  BY <1>1, Invariance, PTL

\* Three cubes of one type in a row are never left standing, whatever is
\* clicked and however the timers interleave (Effects.cpp:43-77,
\* GameManagement.cpp:236-248).
THEOREM NoLineIsLeft == Spec => []LinesOnlyDuringReset
  <1>1. IInv => LinesOnlyDuringReset
    BY DEF IInv
  <1> QED  BY <1>1, Invariance, PTL

\* The first game is over exactly when its moves have been made
\* (Logic.cpp:35-52, Effects.cpp:65-76).
THEOREM GameEnds == Spec => []GameOverAfterMoves
  <1>1. IInv => GameOverAfterMoves
    BY DEF IInv, Over, GameOverAfterMoves
  <1> QED  BY <1>1, Invariance, PTL

\* No cube stays marked once its selection is over (Mouse.cpp:25-125).
THEOREM MarksGo == Spec => []MarksFollowSelection
  <1>1. IInv => MarksFollowSelection
    BY DEF IInv, TypeOK, Selected, MarksFollowSelection
  <1> QED  BY <1>1, Invariance, PTL
=============================================================================
