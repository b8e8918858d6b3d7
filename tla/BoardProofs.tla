---------------------------- MODULE BoardProofs ----------------------------
(* What README.md says of explosions, dropping and clicks holds on every   *)
(* board the stencil byte has room for, the game's 15 by 15 included.      *)
EXTENDS BoardChecks, BoardLemmas

\* The board is a board, and what explodes is what getDestructibleCubePoints
\* says.
Shape ==
    /\ board \in [Points -> Types]
    /\ exploded \in {{}, Destructible(board)}

LEMMA ShapeHolds == Spec => []Shape
  <1>1. Init => Shape
    BY BoardsAssumption DEF Init, Shape
  <1>2. Shape /\ [Explode]_<<board, exploded>> => Shape'
    BY DEF Shape, Explode
  <1> QED  BY <1>1, <1>2, PTL DEF Spec

\* Only points explode.
LEMMA DestructibleType ==
    ASSUME NEW b
    PROVE  Destructible(b) \in SUBSET Points
  BY LinesType DEF Destructible, BlastAt, Compass

-----------------------------------------------------------------------------
(* The scan.                                                               *)

\* Every number of a gapless set of three or more is one of three neighbours.
LEMMA ThreeInARow ==
    ASSUME NEW X \in SUBSET Int, IsFiniteSet(X), Cardinality(X) >= 3,
           \A i, k \in X, j \in Int : i <= j /\ j <= k => j \in X,
           NEW n \in X
    PROVE  \E i \in X : i + 1 \in X /\ i + 2 \in X /\ n \in {i, i + 1, i + 2}
  <1>1. /\ IsFiniteSet(X \ {n}) /\ Cardinality(X \ {n}) = Cardinality(X) - 1
        /\ Cardinality(X) \in Nat
    BY FS_RemoveElement, FS_CardinalityType
  <1>2. PICK a \in X \ {n} : TRUE
    <2>1. Cardinality(X \ {n}) # 0
      BY <1>1
    <2>2. X \ {n} # {}
      BY <2>1, FS_EmptySet
    <2> QED  BY <2>2
  <1>3. /\ IsFiniteSet((X \ {n}) \ {a})
        /\ Cardinality((X \ {n}) \ {a}) = Cardinality(X \ {n}) - 1
    BY <1>1, <1>2, FS_RemoveElement
  <1>4. PICK c \in (X \ {n}) \ {a} : TRUE
    <2>1. Cardinality((X \ {n}) \ {a}) # 0
      BY <1>1, <1>3
    <2>2. (X \ {n}) \ {a} # {}
      BY <2>1, FS_EmptySet
    <2> QED  BY <2>2
  <1>5. a \in Int /\ c \in Int /\ n \in Int /\ a # n /\ c # n /\ a # c
    BY <1>2, <1>4
  <1>6. CASE a > n /\ c > n
    <2>1. n + 2 <= a \/ n + 2 <= c
      BY <1>5, <1>6
    <2>2. n + 1 \in X /\ n + 2 \in X
      BY <2>1, <1>2, <1>4, <1>5
    <2> QED  BY <2>2
  <1>7. CASE a < n /\ c < n
    <2>1. n - 2 >= a \/ n - 2 >= c
      BY <1>5, <1>7
    <2>2. n - 1 \in X /\ n - 2 \in X /\ (n - 2) + 1 = n - 1 /\ (n - 2) + 2 = n
      BY <2>1, <1>2, <1>4, <1>5
    <2> QED  BY <2>2
  <1>8. CASE (a < n /\ c > n) \/ (a > n /\ c < n)
    <2>1. n - 1 \in X /\ n + 1 \in X /\ (n - 1) + 1 = n /\ (n - 1) + 2 = n + 1
      BY <1>2, <1>4, <1>5, <1>8
    <2> QED  BY <2>1
  <1> QED  BY <1>5, <1>6, <1>7, <1>8

\* Three different things are three.
LEMMA ThreeAreThree ==
    ASSUME NEW x, NEW y, NEW z, x # y, y # z, x # z
    PROVE  IsFiniteSet({x, y, z}) /\ Cardinality({x, y, z}) = 3
  <1>1. IsFiniteSet({x}) /\ Cardinality({x}) = 1
    BY FS_Singleton
  <1>2. IsFiniteSet({x} \cup {y}) /\ Cardinality({x} \cup {y}) = 2
    BY <1>1, FS_AddElement
  <1>3. {x} \cup {y} = {x, y} /\ {x, y} \cup {z} = {x, y, z}
    OBVIOUS
  <1> QED  BY <1>2, <1>3, FS_AddElement

\* A run of three or more in a row or column is made of aligned threes.
LEMMA LongRunsAreAligned ==
    ASSUME NEW b \in [Points -> Types], NEW p \in Points, b[p] # "EMPTY"
    PROVE  /\ Cardinality(Horizontal(b, p)) >= 3 => Horizontal(b, p) \subseteq Aligned(b)
           /\ Cardinality(Vertical(b, p)) >= 3 => Vertical(b, p) \subseteq Aligned(b)
  <1>0. /\ p = <<p[1], p[2]>> /\ p[1] \in Coordinates /\ p[2] \in Coordinates
        /\ Coordinates \subseteq Int /\ GRID_SIZE \in Nat
        /\ \A i \in Int : i \in Coordinates <=> 0 <= i /\ i <= GRID_SIZE - 1
        /\ b[p] \in Types \ {"EMPTY"}
    BY PointParts, GridAssumption DEF Coordinates
  <1>1. ASSUME Cardinality(Horizontal(b, p)) >= 3, NEW q \in Horizontal(b, p)
        PROVE  q \in Aligned(b)
    <2> DEFINE X == {x \in Coordinates : \A j \in Between(x, p[1]) : b[<<j, p[2]>>] = b[p]}
               f == [x \in X |-> <<x, p[2]>>]
    <2>1. IsFiniteSet(X) /\ X \in SUBSET Int
      BY <1>0, PointParts, FS_Subset
    <2>2. f \in Surjection(X, Horizontal(b, p))
      BY Zenon DEF Surjection, Horizontal
    <2>3. Cardinality(X) >= 3
      <3>1. /\ IsFiniteSet(Horizontal(b, p))
            /\ Cardinality(Horizontal(b, p)) <= Cardinality(X)
        <4> HIDE DEF X, f
        <4> QED  BY <2>1, <2>2, FS_Surjection
      <3>2. Cardinality(Horizontal(b, p)) \in Nat /\ Cardinality(X) \in Nat
        <4> HIDE DEF X
        <4> QED  BY <2>1, <3>1, FS_CardinalityType
      <3> QED  BY <1>1, <3>1, <3>2
    <2>4. \A i, k \in X, j \in Int : i <= j /\ j <= k => j \in X
      <3> SUFFICES ASSUME NEW i \in X, NEW k \in X, NEW j \in Int, i <= j, j <= k
                   PROVE  j \in Coordinates /\ Between(j, p[1]) \subseteq
                                               Between(i, p[1]) \cup Between(k, p[1])
        OBVIOUS
      <3> QED  BY <1>0 DEF Between
    <2>5. PICK n \in X : q = <<n, p[2]>>
      BY DEF Horizontal
    <2>6. PICK i \in X : i + 1 \in X /\ i + 2 \in X /\ n \in {i, i + 1, i + 2}
      <3> HIDE DEF X
      <3> QED  BY <2>1, <2>3, <2>4, ThreeInARow
    <2> DEFINE t == {<<i, p[2]>>, <<i + 1, p[2]>>, <<i + 2, p[2]>>}
    <2>7. \A x \in X : b[<<x, p[2]>>] = b[p]
      BY <1>0 DEF Between
    <2>8. t \in Triples
      <3>1. i \in 0 .. GRID_SIZE - 3
        BY <1>0, <2>6
      <3> QED  BY <1>0, <3>1 DEF Triples
    <2>9. q \in t /\ \A r \in t : b[r] = b[p]
      <3> HIDE DEF X
      <3> QED  BY <2>5, <2>6, <2>7
    <2> HIDE DEF t
    <2> QED  BY <1>0, <2>8, <2>9 DEF Aligned
  <1>2. ASSUME Cardinality(Vertical(b, p)) >= 3, NEW q \in Vertical(b, p)
        PROVE  q \in Aligned(b)
    <2> DEFINE X == {y \in Coordinates : \A j \in Between(y, p[2]) : b[<<p[1], j>>] = b[p]}
               f == [y \in X |-> <<p[1], y>>]
    <2>1. IsFiniteSet(X) /\ X \in SUBSET Int
      BY <1>0, PointParts, FS_Subset
    <2>2. f \in Surjection(X, Vertical(b, p))
      BY Zenon DEF Surjection, Vertical
    <2>3. Cardinality(X) >= 3
      <3>1. /\ IsFiniteSet(Vertical(b, p))
            /\ Cardinality(Vertical(b, p)) <= Cardinality(X)
        <4> HIDE DEF X, f
        <4> QED  BY <2>1, <2>2, FS_Surjection
      <3>2. Cardinality(Vertical(b, p)) \in Nat /\ Cardinality(X) \in Nat
        <4> HIDE DEF X
        <4> QED  BY <2>1, <3>1, FS_CardinalityType
      <3> QED  BY <1>2, <3>1, <3>2
    <2>4. \A i, k \in X, j \in Int : i <= j /\ j <= k => j \in X
      <3> SUFFICES ASSUME NEW i \in X, NEW k \in X, NEW j \in Int, i <= j, j <= k
                   PROVE  j \in Coordinates /\ Between(j, p[2]) \subseteq
                                               Between(i, p[2]) \cup Between(k, p[2])
        OBVIOUS
      <3> QED  BY <1>0 DEF Between
    <2>5. PICK n \in X : q = <<p[1], n>>
      BY DEF Vertical
    <2>6. PICK i \in X : i + 1 \in X /\ i + 2 \in X /\ n \in {i, i + 1, i + 2}
      <3> HIDE DEF X
      <3> QED  BY <2>1, <2>3, <2>4, ThreeInARow
    <2> DEFINE t == {<<p[1], i>>, <<p[1], i + 1>>, <<p[1], i + 2>>}
    <2>7. \A y \in X : b[<<p[1], y>>] = b[p]
      BY <1>0 DEF Between
    <2>8. t \in Triples
      <3>1. i \in 0 .. GRID_SIZE - 3
        BY <1>0, <2>6
      <3> QED  BY <1>0, <3>1 DEF Triples
    <2>9. q \in t /\ \A r \in t : b[r] = b[p]
      <3> HIDE DEF X
      <3> QED  BY <2>5, <2>6, <2>7
    <2> HIDE DEF t
    <2> QED  BY <1>0, <2>8, <2>9 DEF Aligned
  <1> QED  BY <1>1, <1>2

\* A point in an aligned three is in the run that the scan finds from it.
LEMMA AlignedAreLong ==
    ASSUME NEW b, NEW q \in Aligned(b)
    PROVE  q \in Lines(b)
  <1>1. PICK t \in Triples, type \in Types \ {"EMPTY"} : q \in t /\ \A r \in t : b[r] = type
    BY DEF Aligned
  <1>0. GRID_SIZE \in Nat /\ Coordinates \subseteq Int
        /\ \A i \in Int : i \in Coordinates <=> 0 <= i /\ i <= GRID_SIZE - 1
    BY GridAssumption DEF Coordinates
  <1> SUFFICES /\ q \in Points
               /\ \/ Cardinality(Horizontal(b, q)) >= 3
                  \/ Cardinality(Vertical(b, q)) >= 3
    BY <1>1, RunType, LinesAre
  <1>2. \A S, U : U \in SUBSET Points /\ S \subseteq U /\ Cardinality(S) = 3
                    => Cardinality(U) >= 3
    <2> SUFFICES ASSUME NEW U \in SUBSET Points, NEW S \in SUBSET U, Cardinality(S) = 3
                 PROVE  Cardinality(U) >= 3
      OBVIOUS
    <2>1. IsFiniteSet(U)
      BY PointParts, FS_Subset
    <2> QED  BY <2>1, FS_Subset, FS_CardinalityType
  <1>3. CASE \E x \in 0 .. GRID_SIZE - 3, y \in Coordinates :
               t = {<<x, y>>, <<x + 1, y>>, <<x + 2, y>>}
    <2>1. PICK x \in 0 .. GRID_SIZE - 3, y \in Coordinates :
             t = {<<x, y>>, <<x + 1, y>>, <<x + 2, y>>}
      BY <1>3
    <2>2. x \in Coordinates /\ x + 1 \in Coordinates /\ x + 2 \in Coordinates
      BY <1>0
    <2>3. t \in SUBSET Points /\ Cardinality(t) = 3
      <3>1. <<x, y>> # <<x + 1, y>> /\ <<x, y>> # <<x + 2, y>> /\ <<x + 1, y>> # <<x + 2, y>>
        BY <2>2, <1>0
      <3>2. Cardinality(t) = 3
        BY <2>1, <3>1, ThreeAreThree
      <3>3. t \in SUBSET Points
        BY <2>1, <2>2 DEF Points
      <3> QED  BY <3>2, <3>3
    <2>4. PICK m \in {x, x + 1, x + 2} : q = <<m, y>>
      BY <1>1, <2>1
    <2>5. \A i \in {x, x + 1, x + 2} : Between(i, m) \subseteq {x, x + 1, x + 2}
      BY <2>2, <1>0 DEF Between
    <2>6. \A j \in {x, x + 1, x + 2} : b[<<j, y>>] = b[q]
      BY <1>1, <2>1
    <2>7. t \subseteq Horizontal(b, q)
      BY <2>1, <2>2, <2>4, <2>5, <2>6 DEF Horizontal
    <2>8. q \in Points
      BY <2>3, <1>1
    <2> QED  BY <2>3, <2>7, <2>8, <1>2, RunType
  <1>4. CASE \E x \in Coordinates, y \in 0 .. GRID_SIZE - 3 :
               t = {<<x, y>>, <<x, y + 1>>, <<x, y + 2>>}
    <2>1. PICK x \in Coordinates, y \in 0 .. GRID_SIZE - 3 :
             t = {<<x, y>>, <<x, y + 1>>, <<x, y + 2>>}
      BY <1>4
    <2>2. y \in Coordinates /\ y + 1 \in Coordinates /\ y + 2 \in Coordinates
      BY <1>0
    <2>3. t \in SUBSET Points /\ Cardinality(t) = 3
      <3>1. <<x, y>> # <<x, y + 1>> /\ <<x, y>> # <<x, y + 2>> /\ <<x, y + 1>> # <<x, y + 2>>
        BY <2>2, <1>0
      <3>2. Cardinality(t) = 3
        BY <2>1, <3>1, ThreeAreThree
      <3>3. t \in SUBSET Points
        BY <2>1, <2>2 DEF Points
      <3> QED  BY <3>2, <3>3
    <2>4. PICK m \in {y, y + 1, y + 2} : q = <<x, m>>
      BY <1>1, <2>1
    <2>5. \A i \in {y, y + 1, y + 2} : Between(i, m) \subseteq {y, y + 1, y + 2}
      BY <2>2, <1>0 DEF Between
    <2>6. \A j \in {y, y + 1, y + 2} : b[<<x, j>>] = b[q]
      BY <1>1, <2>1
    <2>7. t \subseteq Vertical(b, q)
      BY <2>1, <2>2, <2>4, <2>5, <2>6 DEF Vertical
    <2>8. q \in Points
      BY <2>3, <1>1
    <2> QED  BY <2>3, <2>7, <2>8, <1>2, RunType
  <1> QED  BY <1>1, <1>3, <1>4 DEF Triples

LEMMA LinesAreAligned ==
    ASSUME NEW b \in [Points -> Types]
    PROVE  Lines(b) = Aligned(b)
  <1>1. ASSUME NEW q \in Lines(b) PROVE q \in Aligned(b)
    BY LinesAre, LongRunsAreAligned
  <1>2. ASSUME NEW q \in Aligned(b) PROVE q \in Lines(b)
    BY AlignedAreLong
  <1> QED  BY <1>1, <1>2

\* The two-way scan from every cube (GameManagement.cpp:119-211) finds the
\* cubes of every line of three or more and no other cube, and nothing explodes
\* without a line.
THEOREM ScanIsRight == Spec => []ScanFindsLines
  <1>1. Shape => ScanFindsLines
    <2> SUFFICES ASSUME Shape PROVE ScanFindsLines
      OBVIOUS
    <2>1. Lines(board) = Aligned(board)
      BY LinesAreAligned DEF Shape
    <2>2. exploded # {} => Lines(board) # {}
      BY DEF Shape, Destructible
    <2> QED  BY <2>1, <2>2 DEF ScanFindsLines
  <1> QED  BY <1>1, ShapeHolds, PTL
-----------------------------------------------------------------------------
(* Explosions.                                                             *)

\* The n-th point of a compass direction is n away.
LEMMA CompassDistance ==
    ASSUME NEW p \in Points, NEW n \in {1, 2, 3}, NEW q \in Compass(p, n)
    PROVE  Distance(p, q) = n /\ q \in Points
  <1>0. q \in Points /\ q # p
    BY DEF Compass
  <1>1. /\ p = <<p[1], p[2]>> /\ p[1] \in Int /\ p[2] \in Int
        /\ q = <<q[1], q[2]>> /\ q[1] \in Int /\ q[2] \in Int
    BY <1>0, PointParts
  <1>2. PICK dx \in {-n, 0, n}, dy \in {-n, 0, n} : q = <<p[1] + dx, p[2] + dy>>
    BY DEF Compass
  <1>3. q[1] = p[1] + dx /\ q[2] = p[2] + dy
    BY <1>2
  <1>4. dx # 0 \/ dy # 0
    BY <1>0, <1>1, <1>3
  <1> QED  BY <1>0, <1>1, <1>3, <1>4 DEF Distance

\* The eight directions reach all there is at distance 1.
LEMMA FirstLevelIsCompass ==
    ASSUME NEW p \in Points, NEW q \in Points, Distance(p, q) = 1
    PROVE  q \in Compass(p, 1)
  <1>1. /\ p = <<p[1], p[2]>> /\ p[1] \in Int /\ p[2] \in Int
        /\ q = <<q[1], q[2]>> /\ q[1] \in Int /\ q[2] \in Int
    BY PointParts
  <1> DEFINE dx == q[1] - p[1]
             dy == q[2] - p[2]
  <1>2. dx \in {-1, 0, 1} /\ dy \in {-1, 0, 1} /\ (dx # 0 \/ dy # 0)
    BY <1>1 DEF Distance
  <1>3. q = <<p[1] + dx, p[2] + dy>> /\ q # p
    BY <1>1, <1>2
  <1> QED
    <2> HIDE DEF dx, dy
    <2> QED  BY <1>2, <1>3 DEF Compass

\* No cube explodes that the rules spare (GameManagement.cpp:43-117).
THEOREM ExplosionsFollowRules == Spec => []OnlyRulesExplode
  <1>1. Shape => OnlyRulesExplode
    <2> SUFFICES ASSUME Shape, NEW q \in exploded \ Aligned(board)
                 PROVE  \E p \in Aligned(board) : board[p] \in Hands /\ Rules(board, p, q)
      BY DEF OnlyRulesExplode
    <2>1. q \in Destructible(board) /\ Lines(board) = Aligned(board)
      BY LinesAreAligned DEF Shape
    <2>2. PICK p \in Lines(board) : board[p] \in Hands /\ q \in BlastAt(board, p)
      BY <2>1 DEF Destructible
    <2>3. p \in Points
      BY LinesType
    <2>4. Rules(board, p, q)
      BY <2>2, <2>3, CompassDistance DEF BlastAt, Rules
    <2> QED  BY <2>1, <2>2, <2>4
  <1> QED  BY <1>1, ShapeHolds, PTL

\* Next to an exploding hand only its weakness survives
\* (GameManagement.cpp:81-107).
THEOREM NeighboursExplode == Spec => []FirstLevelExplodes
  <1>1. Shape => FirstLevelExplodes
    <2> SUFFICES ASSUME Shape, exploded # {},
                        NEW p \in Aligned(board), NEW q \in Points,
                        board[p] \in Hands, Distance(p, q) = 1, Rules(board, p, q)
                 PROVE  q \in exploded
      BY DEF FirstLevelExplodes
    <2>1. exploded = Destructible(board) /\ Lines(board) = Aligned(board)
      BY LinesAreAligned DEF Shape
    <2>2. p \in Points /\ p \in Lines(board)
      BY <2>1, LinesType
    <2>3. q \in BlastAt(board, p)
      BY <2>2, FirstLevelIsCompass DEF Rules, BlastAt
    <2> QED  BY <2>1, <2>2, <2>3 DEF Destructible
  <1> QED  BY <1>1, ShapeHolds, PTL
-----------------------------------------------------------------------------
(* Dropping and clicking.                                                  *)

\* Dropping (Effects.cpp:20-41) moves cubes within their column only, loses
\* and duplicates none, and spares what is below.
THEOREM DroppingIsSafe == Spec => []DropKeepsColumns
  <1>1. Shape => DropKeepsColumns
    <2> SUFFICES ASSUME Shape PROVE DropKeepsColumns
      OBVIOUS
    <2>1. board \in [Points -> Types] /\ exploded \in SUBSET Points
      BY DestructibleType DEF Shape
    <2> QED  BY <2>1, DropTurns DEF DropKeepsColumns, Rows
  <1> QED  BY <1>1, ShapeHolds, PTL

\* What Mouse.cpp:47-72 makes of the byte at the mirrored pixel is the point
\* that was clicked, whatever the board.
THEOREM ClickSelects == Spec => []ClickSelectsCube
  <1>1. ClickSelectsCube
    BY ClickDecodes DEF ClickSelectsCube
  <1> QED  BY <1>1, PTL
=============================================================================
