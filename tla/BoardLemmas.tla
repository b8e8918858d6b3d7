---------------------------- MODULE BoardLemmas ----------------------------
(* Facts about the operators of Board, for every board and every GRID_SIZE *)
(* that the stencil byte has room for.                                     *)
EXTENDS Board, FiniteSetTheorems, WellFoundedInduction, TLAPS

\* A point is its two coordinates, and there are finitely many.
LEMMA PointParts ==
    /\ IsFiniteSet(Coordinates) /\ IsFiniteSet(Points)
    /\ \A p \in Points : /\ p = <<p[1], p[2]>>
                         /\ p[1] \in Coordinates /\ p[2] \in Coordinates
    /\ Coordinates \subseteq Nat
  <1>1. IsFiniteSet(Coordinates) /\ Coordinates \subseteq Nat
    BY FS_Interval, GridAssumption DEF Coordinates
  <1>2. IsFiniteSet(Points)
    BY <1>1, FS_Product DEF Points
  <1> QED  BY <1>1, <1>2 DEF Points

\* Every set of numbers above an index has a smallest.
LEMMA Smallest ==
    ASSUME NEW S \in SUBSET Nat, S # {}
    PROVE  \E n \in S : \A m \in S : n <= m
  <1> DEFINE T == {1 .. n : n \in S}
  <1>1. \A n \in Nat : 1 .. n \in SUBSET Nat /\ IsFiniteSet(1 .. n)
    BY FS_Interval
  <1>2. T \subseteq FiniteSubsetsOf(Nat) /\ T # {}
    BY <1>1 DEF FiniteSubsetsOf
  <1>3. \E s \in T : \A r \in T : ~ (<<r, s>> \in StrictSubsetOrdering(Nat))
    <2> HIDE DEF T
    <2> QED  BY <1>2, FS_StrictSubsetOrderingWellFounded, WFMin
  <1>4. PICK n \in S : \A m \in S : ~ (<<1 .. m, 1 .. n>> \in StrictSubsetOrdering(Nat))
    BY <1>3
  <1>5. ASSUME NEW m \in S, m < n PROVE FALSE
    <2>1. n \in 1 .. n /\ n \notin 1 .. m /\ 1 .. m \subseteq 1 .. n
      BY <1>5
    <2>2. 1 .. m # 1 .. n /\ 1 .. m \in SUBSET Nat /\ 1 .. n \in SUBSET Nat
      BY <2>1
    <2>3. <<1 .. m, 1 .. n>> \in StrictSubsetOrdering(Nat)
      BY <2>1, <2>2, Zenon DEF StrictSubsetOrdering
    <2> QED  BY <1>4, <1>5, <2>3
  <1> QED  BY <1>5

\* Every family of sets of points has a minimal set.
LEMMA Minimal ==
    ASSUME NEW T \in SUBSET SUBSET Points, T # {}
    PROVE  \E s \in T : \A r \in T : r \subseteq s => r = s
  <1>1. FiniteSubsetsOf(Points) = SUBSET Points
    BY PointParts, FS_FiniteSubsetsOfFinite
  <1>2. \E s \in T : \A r \in T : <<r, s>> \notin StrictSubsetOrdering(Points)
    BY <1>1, FS_StrictSubsetOrderingWellFounded, WFMin
  <1> QED  BY <1>2 DEF StrictSubsetOrdering
-----------------------------------------------------------------------------
(* The order of dropping: the fold that dropCubesToEmptySlots is takes the *)
(* last point of a set off first.                                          *)

Last(s) == CHOOSE p \in s : \A q \in s \ {p} : Before(q, p)

\* f is what dropping makes of b for each part of S.
Falls(b, S, f) ==
    f = [s \in SUBSET S |->
           IF s = {} THEN b ELSE Lift(f[s \ {Last(s)}], Last(s))]

LEMMA DropIsFall ==
    ASSUME NEW b, NEW S
    PROVE  dropCubesToEmptySlots(b, S) = (CHOOSE f : Falls(b, S, f))[S]
  BY DEF dropCubesToEmptySlots, MapThenFoldSet, Falls, Last

\* Point::operator< orders the points of every set, so one of them is last.
LEMMA LastIsIn ==
    ASSUME NEW s \in SUBSET Points, s # {}
    PROVE  Last(s) \in s /\ \A q \in s \ {Last(s)} : Before(q, Last(s))
  <1>1. \A q \in s : /\ q = <<q[1], q[2]>>
                     /\ q[1] \in 0 .. GRID_SIZE - 1 /\ q[2] \in 0 .. GRID_SIZE - 1
    BY PointParts DEF Coordinates
  <1>2. PICK p \in s : \A q \in s : q[2] <= p[2]
    <2> DEFINE D == {GRID_SIZE - q[2] : q \in s}
    <2>1. D \in SUBSET Nat /\ D # {}
      BY <1>1, GridAssumption
    <2>2. PICK n \in D : \A m \in D : n <= m
      <3> HIDE DEF D
      <3> QED  BY <2>1, Smallest
    <2>3. PICK p \in s : n = GRID_SIZE - p[2]
      BY <2>2
    <2>4. ASSUME NEW q \in s PROVE q[2] <= p[2]
      <3>1. n <= GRID_SIZE - q[2]
        BY <2>2
      <3>2. q[2] \in 0 .. GRID_SIZE - 1 /\ p[2] \in 0 .. GRID_SIZE - 1
        BY <1>1, <2>3
      <3> QED  BY <2>3, <3>1, <3>2, GridAssumption
    <2> QED  BY <2>3, <2>4
  <1>3. PICK l \in s : l[2] = p[2] /\ \A q \in s : q[2] = p[2] => q[1] <= l[1]
    <2> DEFINE D == {GRID_SIZE - q[1] : q \in {r \in s : r[2] = p[2]}}
    <2>1. D \in SUBSET Nat /\ D # {}
      BY <1>1, <1>2, GridAssumption
    <2>2. PICK n \in D : \A m \in D : n <= m
      <3> HIDE DEF D
      <3> QED  BY <2>1, Smallest
    <2>3. PICK l \in s : l[2] = p[2] /\ n = GRID_SIZE - l[1]
      BY <2>2
    <2>4. ASSUME NEW q \in s, q[2] = p[2] PROVE q[1] <= l[1]
      <3>1. n <= GRID_SIZE - q[1]
        BY <2>2, <2>4
      <3>2. q[1] \in 0 .. GRID_SIZE - 1 /\ l[1] \in 0 .. GRID_SIZE - 1
        BY <1>1, <2>3
      <3> QED  BY <2>3, <3>1, <3>2, GridAssumption
    <2> QED  BY <2>3, <2>4
  <1>4. ASSUME NEW q \in s \ {l} PROVE Before(q, l)
    <2>1. q[2] <= l[2] /\ (q[2] = l[2] => q[1] <= l[1])
      BY <1>2, <1>3
    <2>2. q[1] # l[1] \/ q[2] # l[2]
      BY <1>1, <1>3, <1>4
    <2> QED  BY <1>1, <1>3, <2>1, <2>2 DEF Before
  <1> QED  BY <1>3, <1>4 DEF Last

\* Two such functions agree where both are defined.
LEMMA FallsAgree ==
    ASSUME NEW b, NEW S \in SUBSET Points, NEW R \in SUBSET Points,
           NEW f, Falls(b, S, f), NEW g, Falls(b, R, g),
           NEW s \in SUBSET S, s \in SUBSET R
    PROVE  f[s] = g[s]
  <1> DEFINE Bad == {t \in SUBSET S : t \in SUBSET R /\ f[t] # g[t]}
  <1> SUFFICES ASSUME Bad # {} PROVE FALSE
    OBVIOUS
  <1>1. PICK t \in Bad : \A r \in Bad : r \subseteq t => r = t
    <2>1. Bad \in SUBSET SUBSET Points
      OBVIOUS
    <2> HIDE DEF Bad
    <2> QED  BY <2>1, Minimal
  <1>2. f[t] = IF t = {} THEN b ELSE Lift(f[t \ {Last(t)}], Last(t))
    BY <1>1 DEF Falls
  <1>3. g[t] = IF t = {} THEN b ELSE Lift(g[t \ {Last(t)}], Last(t))
    BY <1>1 DEF Falls
  <1>4. t # {} /\ f[t \ {Last(t)}] # g[t \ {Last(t)}]
    BY <1>1, <1>2, <1>3
  <1>5. Last(t) \in t
    BY <1>1, <1>4, LastIsIn
  <1>6. t \ {Last(t)} \in Bad
    BY <1>1, <1>4
  <1> QED  BY <1>1, <1>5, <1>6

\* There is such a function for every set of points.
LEMMA FallsExist ==
    ASSUME NEW b, NEW S \in SUBSET Points
    PROVE  \E f : Falls(b, S, f)
  <1> DEFINE Bad == {s \in SUBSET Points : ~ \E f : Falls(b, s, f)}
  <1> SUFFICES ASSUME Bad # {} PROVE FALSE
    OBVIOUS
  <1>1. PICK s \in Bad : \A r \in Bad : r \subseteq s => r = s
    <2>1. Bad \in SUBSET SUBSET Points
      OBVIOUS
    <2> HIDE DEF Bad
    <2> QED  BY <2>1, Minimal
  <1> DEFINE F(r) == CHOOSE f : Falls(b, r, f)
             Step(r, f) == IF r = {} THEN b ELSE Lift(f[r \ {Last(r)}], Last(r))
             g == [r \in SUBSET s |-> IF r = s THEN Step(s, F(s \ {Last(s)}))
                                               ELSE F(r)[r]]
  <1>2. s \in SUBSET Points
    BY <1>1
  <1>3. ASSUME NEW r \in SUBSET s, r # s PROVE Falls(b, r, F(r))
    <2>1. r \notin Bad /\ r \in SUBSET Points
      BY <1>1, <1>2, <1>3
    <2>2. \E f : Falls(b, r, f)
      BY <2>1
    <2> QED  BY <2>2
  <1>4. ASSUME NEW r \in SUBSET s PROVE g[r] = Step(r, g)
    <2>1. CASE r = {}
      <3>1. CASE s = {}
        BY <2>1, <3>1
      <3>2. CASE s # {}
        <4>1. Falls(b, r, F(r))
          BY <2>1, <3>2, <1>3
        <4>2. F(r)[r] = b
          BY <2>1, <4>1 DEF Falls
        <4> QED  BY <2>1, <3>2, <4>2
      <3> QED  BY <3>1, <3>2
    <2>2. CASE r # {}
      <3> DEFINE t == r \ {Last(r)}
      <3>1. Last(r) \in r /\ r \in SUBSET Points
        BY <2>2, <1>2, LastIsIn
      <3>2. t \in SUBSET s /\ t # s /\ t # r
        BY <3>1
      <3>3. g[t] = F(t)[t]
        BY <3>2
      <3>4. CASE r = s
        BY <2>2, <3>3, <3>4
      <3>5. CASE r # s
        <4>1. Falls(b, r, F(r)) /\ Falls(b, t, F(t))
          BY <1>3, <3>2, <3>5
        <4>2. F(r)[t] = F(t)[t]
          <5> HIDE DEF F
          <5> QED  BY <4>1, <3>1, FallsAgree
        <4>3. F(r)[r] = Lift(F(r)[t], Last(r))
          <5> HIDE DEF F
          <5> QED  BY <4>1, <2>2 DEF Falls
        <4>4. g[r] = F(r)[r]
          BY <3>5
        <4> QED  BY <2>2, <3>3, <4>2, <4>3, <4>4
      <3> QED  BY <3>4, <3>5
    <2> QED  BY <2>1, <2>2
  <1>5. g = [r \in SUBSET s |-> Step(r, g)]
    <2>1. g = [r \in SUBSET s |-> g[r]]
      OBVIOUS
    <2> HIDE DEF g, Step
    <2> QED  BY <2>1, <1>4
  <1>6. Falls(b, s, g)
    <2> HIDE DEF g
    <2> QED  BY <1>5 DEF Falls
  <1> QED  BY <1>1, <1>6

\* Dropping, unrolled once (Effects.cpp:20-41).
LEMMA DropUnrolled ==
    ASSUME NEW b, NEW S \in SUBSET Points
    PROVE  dropCubesToEmptySlots(b, S) =
             IF S = {} THEN b
             ELSE Lift(dropCubesToEmptySlots(b, S \ {Last(S)}), Last(S))
  <1> DEFINE F(r) == CHOOSE f : Falls(b, r, f)
             t == S \ {Last(S)}
  <1>1. Falls(b, S, F(S)) /\ Falls(b, t, F(t))
    <2>1. t \in SUBSET Points
      OBVIOUS
    <2> HIDE DEF t
    <2> QED  BY <2>1, FallsExist
  <1>2. F(S)[S] = IF S = {} THEN b ELSE Lift(F(S)[t], Last(S))
    <2> HIDE DEF F
    <2> QED  BY <1>1 DEF Falls
  <1>3. F(S)[t] = F(t)[t]
    <2>1. t \in SUBSET S /\ t \in SUBSET Points
      OBVIOUS
    <2> HIDE DEF F, t
    <2> QED  BY <1>1, <2>1, FallsAgree
  <1>4. dropCubesToEmptySlots(b, S) = F(S)[S] /\ dropCubesToEmptySlots(b, t) = F(t)[t]
    BY DropIsFall
  <1> HIDE DEF F
  <1> QED  BY <1>2, <1>3, <1>4

\* What holds of a board and is kept by lifting one of the points holds when
\* all have been dropped.
LEMMA DropKeeps ==
    ASSUME NEW Good, NEW b \in Good, NEW S \in SUBSET Points,
           \A c \in Good, p \in S : Lift(c, p) \in Good
    PROVE  dropCubesToEmptySlots(b, S) \in Good
  <1> DEFINE Bad == {s \in SUBSET S : dropCubesToEmptySlots(b, s) \notin Good}
  <1> SUFFICES ASSUME Bad # {} PROVE FALSE
    OBVIOUS
  <1>1. PICK s \in Bad : \A r \in Bad : r \subseteq s => r = s
    <2>1. Bad \in SUBSET SUBSET Points
      OBVIOUS
    <2> HIDE DEF Bad
    <2> QED  BY <2>1, Minimal
  <1>2. s \in SUBSET S /\ s \in SUBSET Points /\ dropCubesToEmptySlots(b, s) \notin Good
    BY <1>1
  <1>3. s # {}
    BY <1>2, DropUnrolled
  <1>4. Last(s) \in s
    BY <1>2, <1>3, LastIsIn
  <1>5. s \ {Last(s)} \notin Bad
    BY <1>1, <1>4
  <1>6. dropCubesToEmptySlots(b, s \ {Last(s)}) \in Good
    BY <1>2, <1>5
  <1> QED  BY <1>2, <1>3, <1>4, <1>6, DropUnrolled

\* Lifting keeps a board a board.
LEMMA LiftType ==
    ASSUME NEW T, NEW b \in [Points -> T], NEW p \in Points
    PROVE  Lift(b, p) \in [Points -> T]
  <1>1. ASSUME NEW q \in Points, q[2] < GRID_SIZE - 1, q[1] = p[1]
        PROVE  <<q[1], q[2] + 1>> \in Points
    <2>1. q[1] \in Coordinates /\ q[2] \in Coordinates
      BY PointParts
    <2>2. q[2] + 1 \in Coordinates
      BY <2>1, <1>1, GridAssumption DEF Coordinates
    <2> QED  BY <2>1, <2>2 DEF Points
  <1> QED  BY <1>1 DEF Lift

\* Dropping keeps a board a board.
LEMMA DropType ==
    ASSUME NEW T, NEW b \in [Points -> T], NEW S \in SUBSET Points
    PROVE  dropCubesToEmptySlots(b, S) \in [Points -> T]
  BY LiftType, DropKeeps

\* The rows of column x that hold a cube of that type.
Rows(b, x, type) == {y \in Coordinates : b[<<x, y>>] = type}

\* Lifting turns a column, from the lifted cube upwards, by one row.
LEMMA LiftTurns ==
    ASSUME NEW b, NEW p \in Points, NEW x \in Coordinates, NEW type
    PROVE  Cardinality(Rows(Lift(b, p), x, type)) = Cardinality(Rows(b, x, type))
  <1> DEFINE g == GRID_SIZE - 1
             turn(y) == IF x # p[1] \/ y < p[2] THEN y
                        ELSE IF y < g THEN y + 1 ELSE p[2]
             L == Rows(Lift(b, p), x, type)
             R == Rows(b, x, type)
             h == [y \in L |-> turn(y)]
             back(y) == IF x # p[1] \/ y < p[2] THEN y
                        ELSE IF y = p[2] THEN g ELSE y - 1
  <1>0. /\ p = <<p[1], p[2]>> /\ p[1] \in 0 .. g /\ p[2] \in 0 .. g
        /\ Coordinates = 0 .. g /\ g \in Nat
    BY PointParts, GridAssumption DEF Coordinates
  <1>1. ASSUME NEW y \in Coordinates
        PROVE  turn(y) \in Coordinates /\ Lift(b, p)[<<x, y>>] = b[<<x, turn(y)>>]
    <2>1. turn(y) \in Coordinates
      <3> HIDE DEF g
      <3> QED  BY <1>0
    <2>2. <<x, y>> \in Points /\ <<x, y>>[1] = x /\ <<x, y>>[2] = y
      BY DEF Points
    <2>3. Lift(b, p)[<<x, y>>] = IF x # p[1] \/ y < p[2] THEN b[<<x, y>>]
                                 ELSE IF y < g THEN b[<<x, y + 1>>]
                                 ELSE b[p]
      BY <2>2 DEF Lift
    <2>4. CASE x # p[1] \/ y < p[2]
      BY <2>3, <2>4, <2>1
    <2>5. CASE ~ (x # p[1] \/ y < p[2]) /\ y < g
      BY <2>3, <2>5, <2>1
    <2>6. CASE ~ (x # p[1] \/ y < p[2]) /\ ~ (y < g)
      <3>1. p = <<x, turn(y)>>
        BY <2>6, <1>0
      <3> QED  BY <2>3, <2>6, <2>1, <3>1
    <2> QED  BY <2>4, <2>5, <2>6
  <1>2. ASSUME NEW y \in Coordinates
        PROVE  back(y) \in Coordinates /\ turn(back(y)) = y
    <2> HIDE DEF g
    <2> QED  BY <1>0
  <1>3. ASSUME NEW y \in Coordinates, NEW z \in Coordinates, turn(y) = turn(z)
        PROVE  y = z
    <2> HIDE DEF g
    <2> QED  BY <1>0, <1>3
  <1>4. h \in [L -> R]
    <2> SUFFICES ASSUME NEW y \in L PROVE turn(y) \in R
      OBVIOUS
    <2>1. y \in Coordinates /\ Lift(b, p)[<<x, y>>] = type
      BY DEF Rows
    <2> HIDE DEF turn
    <2> QED  BY <2>1, <1>1 DEF Rows
  <1>5. \A y, z \in L : h[y] = h[z] => y = z
    <2> SUFFICES ASSUME NEW y \in L, NEW z \in L, turn(y) = turn(z) PROVE y = z
      OBVIOUS
    <2>1. y \in Coordinates /\ z \in Coordinates
      BY DEF Rows
    <2> HIDE DEF turn
    <2> QED  BY <2>1, <1>3
  <1>6. \A z \in R : \E y \in L : h[y] = z
    <2> SUFFICES ASSUME NEW z \in R PROVE back(z) \in L /\ turn(back(z)) = z
      OBVIOUS
    <2>1. z \in Coordinates /\ b[<<x, z>>] = type
      BY DEF Rows
    <2> HIDE DEF turn, back
    <2> QED  BY <2>1, <1>1, <1>2 DEF Rows
  <1>7. ExistsBijection(L, R)
    <2> HIDE DEF h, L, R
    <2> QED  BY <1>4, <1>5, <1>6, Zenon
             DEF ExistsBijection, Bijection, Injection, Surjection, IsInjective
  <1>8. IsFiniteSet(L)
    <2>1. L \in SUBSET Coordinates
      BY DEF Rows
    <2> QED  BY <2>1, PointParts, FS_Subset
  <1>9. Cardinality(L) = Cardinality(R)
    <2> HIDE DEF L, R
    <2> QED  BY <1>7, <1>8, FS_Bijection
  <1> QED  BY <1>9

\* Dropping moves cubes within their columns, loses and duplicates none, and
\* leaves alone what no point below or at it in its column lets fall.
LEMMA DropTurns ==
    ASSUME NEW T, NEW b \in [Points -> T], NEW S \in SUBSET Points
    PROVE  /\ \A x \in Coordinates, type \in T :
                 Cardinality(Rows(dropCubesToEmptySlots(b, S), x, type))
                   = Cardinality(Rows(b, x, type))
           /\ \A q \in Points :
                 (\A p \in S : p[1] = q[1] => p[2] > q[2])
                   => dropCubesToEmptySlots(b, S)[q] = b[q]
  <1> DEFINE Turned(c) == \A x \in Coordinates, type \in T :
                             Cardinality(Rows(c, x, type)) = Cardinality(Rows(b, x, type))
             Spared(c) == \A q \in Points :
                             (\A p \in S : p[1] = q[1] => p[2] > q[2]) => c[q] = b[q]
             Good == {c \in [Points -> T] : Turned(c) /\ Spared(c)}
  <1>1. b \in Good
    OBVIOUS
  <1>2. ASSUME NEW c \in Good, NEW p \in S
        PROVE  Lift(c, p) \in Good
    <2>1. p \in Points /\ c \in [Points -> T] /\ Turned(c) /\ Spared(c)
      OBVIOUS
    <2>2. Lift(c, p) \in [Points -> T]
      BY <2>1, LiftType
    <2>3. Turned(Lift(c, p))
      BY <2>1, LiftTurns
    <2>4. ASSUME NEW q \in Points, \A r \in S : r[1] = q[1] => r[2] > q[2]
          PROVE  Lift(c, p)[q] = b[q]
      <3>1. q[1] # p[1] \/ q[2] < p[2]
        <4>1. p[2] \in Int /\ q[2] \in Int
          BY <2>1, PointParts
        <4> QED  BY <2>4, <4>1
      <3>2. c[q] = b[q]
        BY <2>1, <2>4
      <3> QED  BY <3>1, <3>2 DEF Lift
    <2> HIDE DEF Turned
    <2> QED  BY <2>2, <2>3, <2>4
  <1>3. dropCubesToEmptySlots(b, S) \in Good
    <2> HIDE DEF Good
    <2> QED  BY <1>1, <1>2, DropKeeps
  <1> QED  BY <1>3
-----------------------------------------------------------------------------
(* The stencil buffer.                                                     *)

\* The mirror image of a point is a point.
LEMMA MirrorType ==
    ASSUME NEW p \in Points
    PROVE  /\ Mirror(p) \in Points
           /\ p = <<p[1], p[2]>>
           /\ p[1] \in 0 .. GRID_SIZE - 1
           /\ p[2] \in 0 .. GRID_SIZE - 1
  BY GridAssumption DEF Points, Coordinates, Mirror

\* The id that drawCube gets for a point needs no more than a byte, is not
\* that of the background, and has the column in its upper four bits and the
\* row plus one in its lower four (Display.cpp:72).
LEMMA StencilIdParts ==
    ASSUME NEW x \in 0 .. GRID_SIZE - 1, NEW y \in 0 .. GRID_SIZE - 1
    PROVE  /\ StencilId(<<x, y>>) = 16 * x + (y + 1)
           /\ StencilId(<<x, y>>) # 0
           /\ StencilId(<<x, y>>) \div 16 = x
           /\ StencilId(<<x, y>>) % 16 = y + 1
<1>1. x \in 0 .. 14 /\ y \in 0 .. 14
  BY GridAssumption
<1>2. StencilId(<<x, y>>) = 16 * x + (y + 1)
  <2>1. y + x * 16 + 1 \in 0 .. 255
    BY <1>1
  <2> QED  BY <1>1, <2>1 DEF StencilId
<1>3. (16 * x + (y + 1)) \div 16 = x /\ (16 * x + (y + 1)) % 16 = y + 1
  BY <1>1
<1> QED  BY <1>1, <1>2, <1>3

\* What Mouse.cpp:47-72 makes of the byte at the mirrored pixel is the point
\* that was clicked.
LEMMA ClickDecodes ==
    ASSUME NEW p \in Points
    PROVE  /\ StencilId(Mirror(p)) # 0
           /\ Decode(StencilId(Mirror(p))) = p
  <1>1. /\ p = <<p[1], p[2]>>
        /\ p[1] \in 0 .. GRID_SIZE - 1
        /\ p[2] \in 0 .. GRID_SIZE - 1
    BY MirrorType
  <1> DEFINE y == GRID_SIZE - 1 - p[2]
  <1>2. y \in 0 .. GRID_SIZE - 1 /\ GRID_SIZE - (y + 1) = p[2]
    BY <1>1, GridAssumption
  <1>3. Mirror(p) = <<p[1], y>>
    BY DEF Mirror
  <1>4. /\ StencilId(<<p[1], y>>) # 0
        /\ StencilId(<<p[1], y>>) \div 16 = p[1]
        /\ StencilId(<<p[1], y>>) % 16 = y + 1
    <2> HIDE DEF y
    <2> QED  BY <1>1, <1>2, StencilIdParts
  <1> HIDE DEF y
  <1> QED  BY <1>1, <1>2, <1>3, <1>4 DEF Decode
-----------------------------------------------------------------------------
(* Lines.                                                                  *)

\* The two scans from a point find points of its type, itself among them.
LEMMA RunType ==
    ASSUME NEW b, NEW p \in Points
    PROVE  /\ Horizontal(b, p) \in SUBSET Points
           /\ Vertical(b, p) \in SUBSET Points
           /\ p \in Horizontal(b, p) /\ p \in Vertical(b, p)
           /\ \A q \in Horizontal(b, p) \cup Vertical(b, p) : b[q] = b[p]
  <1>1. p = <<p[1], p[2]>> /\ p[1] \in Coordinates /\ p[2] \in Coordinates
    BY PointParts
  <1>2. \A i \in Coordinates : /\ Between(i, i) = {i}
                               /\ \A j \in Coordinates : i \in Between(i, j)
    BY DEF Between, Coordinates
  <1>3. Horizontal(b, p) \in SUBSET Points /\ Vertical(b, p) \in SUBSET Points
    BY <1>1 DEF Horizontal, Vertical, Points
  <1>4. \A j \in Between(p[1], p[1]) : b[<<j, p[2]>>] = b[p]
    BY <1>1, <1>2
  <1>5. \A j \in Between(p[2], p[2]) : b[<<p[1], j>>] = b[p]
    BY <1>1, <1>2
  <1>6. p \in Horizontal(b, p)
    BY <1>1, <1>4 DEF Horizontal
  <1>7. p \in Vertical(b, p)
    BY <1>1, <1>5 DEF Vertical
  <1>8. ASSUME NEW q \in Horizontal(b, p) PROVE b[q] = b[p]
    <2>1. PICK x \in Coordinates :
             q = <<x, p[2]>> /\ \A j \in Between(x, p[1]) : b[<<j, p[2]>>] = b[p]
      BY DEF Horizontal
    <2> QED  BY <2>1, <1>1, <1>2
  <1>9. ASSUME NEW q \in Vertical(b, p) PROVE b[q] = b[p]
    <2>1. PICK y \in Coordinates :
             q = <<p[1], y>> /\ \A j \in Between(y, p[2]) : b[<<p[1], j>>] = b[p]
      BY DEF Vertical
    <2> QED  BY <2>1, <1>1, <1>2
  <1> QED  BY <1>3, <1>6, <1>7, <1>8, <1>9

\* A point is in a line exactly when a long run passes through it.
LEMMA LinesAre ==
    ASSUME NEW b, NEW q
    PROVE  q \in Lines(b) <=>
             \E p \in Points : /\ b[p] # "EMPTY"
                               /\ \/ q \in Horizontal(b, p) /\ Cardinality(Horizontal(b, p)) >= 3
                                  \/ q \in Vertical(b, p) /\ Cardinality(Vertical(b, p)) >= 3
  BY DEF Lines, Long

\* Lines are made of points with a cube.
LEMMA LinesType ==
    ASSUME NEW b
    PROVE  /\ Lines(b) \in SUBSET Points
           /\ \A q \in Lines(b) : b[q] # "EMPTY"
  <1> SUFFICES ASSUME NEW q \in Lines(b) PROVE q \in Points /\ b[q] # "EMPTY"
    OBVIOUS
  <1>1. PICK p \in Points : /\ b[p] # "EMPTY"
                            /\ q \in Horizontal(b, p) \cup Vertical(b, p)
    BY LinesAre
  <1> QED  BY <1>1, RunType

\* When the cubes of all lines are taken off a board, and perhaps others, no
\* line is left and none is new (GameManagement.cpp:43-117).
LEMMA EmptyingEndsLines ==
    ASSUME NEW b, NEW S, Lines(b) \subseteq S
    PROVE  Lines([p \in Points |-> IF p \in S THEN "EMPTY" ELSE b[p]]) = {}
  <1> DEFINE c == [p \in Points |-> IF p \in S THEN "EMPTY" ELSE b[p]]
  <1> SUFFICES ASSUME NEW q \in Lines(c) PROVE FALSE
    OBVIOUS
  <1>1. PICK p \in Points :
           /\ c[p] # "EMPTY"
           /\ \/ Cardinality(Horizontal(c, p)) >= 3
              \/ Cardinality(Vertical(c, p)) >= 3
    <2> HIDE DEF c
    <2> QED  BY LinesAre
  <1>2. p \notin S /\ c[p] = b[p] /\ \A r \in Points : c[r] = c[p] => b[r] = b[p]
    BY <1>1
  <1>3. /\ p[1] \in Coordinates /\ p[2] \in Coordinates
        /\ \A i, j \in Coordinates : Between(i, j) \subseteq Coordinates
    <2>1. \A i, j \in Coordinates : Between(i, j) \subseteq Coordinates
      BY GridAssumption DEF Coordinates, Between
    <2> QED  BY <2>1, PointParts
  <1>4. Horizontal(c, p) \subseteq Horizontal(b, p)
    <2> SUFFICES ASSUME NEW x \in Coordinates,
                        \A j \in Between(x, p[1]) : c[<<j, p[2]>>] = c[p]
                 PROVE  \A j \in Between(x, p[1]) : b[<<j, p[2]>>] = b[p]
      BY DEF Horizontal
    <2>1. \A j \in Between(x, p[1]) : <<j, p[2]>> \in Points
      BY <1>3 DEF Points
    <2> QED  BY <2>1, <1>2
  <1>5. Vertical(c, p) \subseteq Vertical(b, p)
    <2> SUFFICES ASSUME NEW y \in Coordinates,
                        \A j \in Between(y, p[2]) : c[<<p[1], j>>] = c[p]
                 PROVE  \A j \in Between(y, p[2]) : b[<<p[1], j>>] = b[p]
      BY DEF Vertical
    <2>1. \A j \in Between(y, p[2]) : <<p[1], j>> \in Points
      BY <1>3 DEF Points
    <2> QED  BY <2>1, <1>2
  <1>6. \A X, Y \in SUBSET Points :
           X \subseteq Y /\ Cardinality(X) >= 3 => Cardinality(Y) >= 3
    <2> SUFFICES ASSUME NEW X \in SUBSET Points, NEW Y \in SUBSET Points,
                        X \subseteq Y, Cardinality(X) >= 3
                 PROVE  Cardinality(Y) >= 3
      OBVIOUS
    <2>1. IsFiniteSet(Y)
      BY PointParts, FS_Subset
    <2>2. Cardinality(X) <= Cardinality(Y) /\ IsFiniteSet(X)
      BY <2>1, FS_Subset
    <2>3. Cardinality(X) \in Nat /\ Cardinality(Y) \in Nat
      BY <2>1, <2>2, FS_CardinalityType
    <2> QED  BY <2>2, <2>3
  <1>7. \/ Cardinality(Horizontal(b, p)) >= 3
        \/ Cardinality(Vertical(b, p)) >= 3
    <2>1. /\ Horizontal(c, p) \in SUBSET Points /\ Vertical(c, p) \in SUBSET Points
          /\ Horizontal(b, p) \in SUBSET Points /\ Vertical(b, p) \in SUBSET Points
      BY RunType
    <2> HIDE DEF c
    <2> QED  BY <2>1, <1>1, <1>4, <1>5, <1>6
  <1>8. p \in Lines(b)
    <2> HIDE DEF c
    <2> QED  BY <1>1, <1>2, <1>7, RunType, LinesAre
  <1> QED  BY <1>2, <1>8
=============================================================================
