----------------------------- MODULE PipeProofs -----------------------------
(* Proofs that the labs with pipes keep, add and report what was sent,     *)
(* for every set of numbers, width of an int and capacity of a pipe, and   *)
(* however long the user goes on.                                          *)
EXTENDS PipeLabs, SequenceTheorems, FiniteSetTheorems, WellFoundedInduction, TLAPS

\* The first n of the numbers scanned.
Entries(t, n) == [i \in 1 .. n |-> t[i]]

\* What the reader has taken out of the pipe.
Taken == Entries(scanned, sent - Len(pipe))
-----------------------------------------------------------------------------
(* Induction by least counterexample.                                      *)

\* Every set of natural numbers that is not empty has a smallest.
LEMMA Smallest ==
    ASSUME NEW S \in SUBSET Nat, S # {}
    PROVE  \E n \in S : \A m \in S : n <= m
  <1> DEFINE T == {1 .. n : n \in S}
  <1>1. \A n \in Nat : 1 .. n \in SUBSET Nat /\ IsFiniteSet(1 .. n)
    BY FS_Interval
  <1>2. T \subseteq FiniteSubsetsOf(Nat) /\ T # {}
    BY <1>1 DEF FiniteSubsetsOf
  <1>3. \E s \in T : \A r \in T : ~ (<<r, s>> \in StrictSubsetOrdering(Nat))
    <2> HIDE DEF T
    <2> QED  BY <1>2, FS_StrictSubsetOrderingWellFounded, WFMin
  <1>4. PICK n \in S : \A m \in S : ~ (<<1 .. m, 1 .. n>> \in StrictSubsetOrdering(Nat))
    BY <1>3
  <1>5. ASSUME NEW m \in S, m < n PROVE FALSE
    <2>1. n \in 1 .. n /\ n \notin 1 .. m /\ 1 .. m \subseteq 1 .. n
      BY <1>5
    <2>2. 1 .. m # 1 .. n /\ 1 .. m \in SUBSET Nat /\ 1 .. n \in SUBSET Nat
      BY <2>1
    <2>3. <<1 .. m, 1 .. n>> \in StrictSubsetOrdering(Nat)
      BY <2>1, <2>2, Zenon DEF StrictSubsetOrdering
    <2> QED  BY <1>4, <1>5, <2>3
  <1> QED  BY <1>5

\* A set of natural numbers that holds 0, and with each number the next, holds
\* them all.
LEMMA NatInduct ==
    ASSUME NEW P \in SUBSET Nat, 0 \in P, \A n \in P : n + 1 \in P
    PROVE  P = Nat
  <1> SUFFICES ASSUME Nat \ P # {} PROVE FALSE
    OBVIOUS
  <1>1. PICK n \in Nat \ P : \A m \in Nat \ P : n <= m
    BY Smallest
  <1>2. n - 1 \in Nat /\ n - 1 \notin Nat \ P
    BY <1>1
  <1>3. n - 1 \in P
    BY <1>2
  <1>4. (n - 1) + 1 \in P
    BY <1>3
  <1> QED  BY <1>1, <1>4
-----------------------------------------------------------------------------
(* What Tally computes.                                                    *)

Nothing == [positives |-> <<>>, total |-> 0]

\* The tally after x, from the one before it.
Counted(before, x) ==
    [positives |-> IF x > 0 THEN Append(before.positives, x) ELSE before.positives,
     total |-> before.total + x]

\* f is the tally of each of the first n prefixes of s.
Tallies(s, n, f) ==
    f = [k \in 0 .. n |-> IF k = 0 THEN Nothing ELSE Counted(f[k - 1], s[k])]

LEMMA TallyIsTallies ==
    ASSUME NEW s
    PROVE  Tally(s) = (CHOOSE f : Tallies(s, Len(s), f))[Len(s)]
  BY DEF Tally, Tallies, Nothing, Counted

LEMMA TalliesExist ==
    ASSUME NEW s, NEW n \in Nat
    PROVE  \E f : Tallies(s, n, f)
  <1> DEFINE P == {m \in Nat : \E f : Tallies(s, m, f)}
  <1>1. 0 \in P
    <2>1. Tallies(s, 0, [k \in 0 .. 0 |-> Nothing])
      BY DEF Tallies
    <2> QED  BY <2>1
  <1>2. ASSUME NEW m \in P PROVE m + 1 \in P
    <2>1. PICK f : Tallies(s, m, f)
      OBVIOUS
    <2> DEFINE g == [k \in 0 .. m + 1 |->
                       IF k = m + 1 THEN Counted(f[m], s[m + 1]) ELSE f[k]]
    <2>2. ASSUME NEW k \in 0 .. m + 1
          PROVE  g[k] = IF k = 0 THEN Nothing ELSE Counted(g[k - 1], s[k])
      <3>1. CASE k = m + 1
        <4>1. k # 0 /\ k - 1 = m /\ m \in 0 .. m + 1 /\ m # m + 1
          BY <3>1
        <4>2. g[m] = f[m]
          BY <4>1
        <4> QED  BY <3>1, <4>1, <4>2
      <3>2. CASE k # m + 1
        <4>1. k \in 0 .. m /\ (k # 0 => k - 1 \in 0 .. m + 1 /\ k - 1 # m + 1)
          BY <3>2
        <4>2. f[k] = IF k = 0 THEN Nothing ELSE Counted(f[k - 1], s[k])
          BY <2>1, <4>1 DEF Tallies
        <4>3. g[k] = f[k] /\ (k # 0 => g[k - 1] = f[k - 1])
          BY <3>2, <4>1
        <4> QED  BY <4>2, <4>3
      <3> QED  BY <3>1, <3>2
    <2>3. g = [k \in 0 .. m + 1 |->
                 IF k = 0 THEN Nothing ELSE Counted(g[k - 1], s[k])]
      <3>1. g = [k \in 0 .. m + 1 |-> g[k]]
        OBVIOUS
      <3> HIDE DEF g
      <3> QED  BY <2>2, <3>1
    <2>4. Tallies(s, m + 1, g)
      <3> HIDE DEF g
      <3> QED  BY <2>3 DEF Tallies
    <2> QED  BY <2>4
  <1>3. P = Nat
    <2>1. P \in SUBSET Nat
      OBVIOUS
    <2> HIDE DEF P
    <2> QED  BY <1>1, <1>2, <2>1, NatInduct
  <1> QED  BY <1>3

\* Two such functions agree as far as their sequences do.
LEMMA TalliesAgree ==
    ASSUME NEW s, NEW m \in Nat, NEW f, Tallies(s, m, f),
           NEW t, NEW n \in Nat, NEW g, Tallies(t, n, g),
           m <= n, \A i \in 1 .. m : s[i] = t[i]
    PROVE  f[m] = g[m]
  <1> DEFINE P == {k \in Nat : k <= m => f[k] = g[k]}
  <1>1. 0 \in P
    BY DEF Tallies
  <1>2. ASSUME NEW k \in P PROVE k + 1 \in P
    <2> SUFFICES ASSUME k + 1 <= m PROVE f[k + 1] = g[k + 1]
      OBVIOUS
    <2>1. /\ k + 1 \in 0 .. m /\ k + 1 \in 0 .. n /\ k + 1 # 0
          /\ (k + 1) - 1 = k /\ k + 1 \in 1 .. m
      OBVIOUS
    <2>2. f[k + 1] = Counted(f[k], s[k + 1])
      BY <2>1 DEF Tallies
    <2>3. g[k + 1] = Counted(g[k], t[k + 1])
      BY <2>1 DEF Tallies
    <2>4. f[k] = g[k] /\ s[k + 1] = t[k + 1]
      BY <2>1
    <2> QED  BY <2>2, <2>3, <2>4
  <1>3. P = Nat
    <2>1. P \in SUBSET Nat
      OBVIOUS
    <2> HIDE DEF P
    <2> QED  BY <1>1, <1>2, <2>1, NatInduct
  <1> QED  BY <1>3

\* The tally of nothing, and of one number more.
LEMMA TallySteps ==
    /\ Tally(<<>>) = Nothing
    /\ \A s \in Seq(Int), x \in Int : Tally(Append(s, x)) = Counted(Tally(s), x)
  <1> DEFINE F(s) == CHOOSE f : Tallies(s, Len(s), f)
  <1>1. ASSUME NEW s, Len(s) \in Nat
        PROVE  Tallies(s, Len(s), F(s)) /\ Tally(s) = F(s)[Len(s)]
    <2>1. \E f : Tallies(s, Len(s), f)
      BY <1>1, TalliesExist
    <2> QED  BY <2>1, TallyIsTallies
  <1>2. Tally(<<>>) = Nothing
    <2>1. Len(<<>>) = 0
      OBVIOUS
    <2>2. Tallies(<<>>, 0, F(<<>>)) /\ Tally(<<>>) = F(<<>>)[0]
      <3> HIDE DEF F
      <3> QED  BY <1>1, <2>1
    <2> HIDE DEF F
    <2> QED  BY <2>2 DEF Tallies
  <1>3. ASSUME NEW s \in Seq(Int), NEW x \in Int
        PROVE  Tally(Append(s, x)) = Counted(Tally(s), x)
    <2> DEFINE t == Append(s, x)
               n == Len(s)
    <2>1. /\ n \in Nat /\ t \in Seq(Int) /\ Len(t) = n + 1
          /\ \A i \in 1 .. n : s[i] = t[i]
          /\ t[n + 1] = x
      BY AppendProperties
    <2> HIDE DEF F, t, n
    <2>2. Tallies(s, n, F(s)) /\ Tally(s) = F(s)[n]
      BY <1>1, <2>1 DEF n
    <2>3. Tallies(t, n + 1, F(t)) /\ Tally(t) = F(t)[n + 1]
      BY <1>1, <2>1
    <2>4. F(s)[n] = F(t)[n]
      BY <2>1, <2>2, <2>3, TalliesAgree
    <2>5. F(t)[n + 1] = Counted(F(t)[n], x)
      BY <2>1, <2>3 DEF Tallies
    <2> QED  BY <2>2, <2>3, <2>4, <2>5 DEF t
  <1> QED  BY <1>2, <1>3

\* Positives and Total, number by number.
LEMMA TallyParts ==
    /\ Positives(<<>>) = <<>> /\ Total(<<>>) = 0
    /\ \A s \in Seq(Int), x \in Int :
         /\ Positives(Append(s, x)) = IF x > 0 THEN Append(Positives(s), x)
                                               ELSE Positives(s)
         /\ Total(Append(s, x)) = Total(s) + x
  <1>1. Positives(<<>>) = <<>> /\ Total(<<>>) = 0
    BY TallySteps DEF Positives, Total, Nothing
  <1>2. ASSUME NEW s \in Seq(Int), NEW x \in Int
        PROVE  /\ Positives(Append(s, x)) = IF x > 0 THEN Append(Positives(s), x)
                                                     ELSE Positives(s)
               /\ Total(Append(s, x)) = Total(s) + x
    <2>1. Tally(Append(s, x)) = Counted(Tally(s), x)
      BY TallySteps
    <2> QED  BY <2>1 DEF Positives, Total, Counted
  <1> QED  BY <1>1, <1>2

\* Every property of sequences that holds of the empty one and is kept by
\* Append holds of all; as a set of sequences.
LEMMA SeqInduct ==
    ASSUME NEW S, NEW Q \in SUBSET Seq(S), <<>> \in Q,
           \A s \in Q, x \in S : Append(s, x) \in Q
    PROVE  Q = Seq(S)
  <1> DEFINE P == {n \in Nat : \A s \in Seq(S) : Len(s) = n => s \in Q}
  <1>1. 0 \in P
    BY EmptySeq
  <1>2. ASSUME NEW n \in P PROVE n + 1 \in P
    <2> SUFFICES ASSUME NEW s \in Seq(S), Len(s) = n + 1 PROVE s \in Q
      OBVIOUS
    <2>1. s # <<>>
      BY EmptySeq
    <2>2. PICK t \in Seq(S), x \in S : s = Append(t, x)
      BY <2>1, SequenceEmptyOrAppend
    <2>3. Len(s) = Len(t) + 1 /\ Len(t) \in Nat
      BY <2>2, AppendProperties, LenProperties
    <2>4. Len(t) = n
      BY <2>3
    <2>5. t \in Q
      BY <2>4
    <2> QED  BY <2>2, <2>5
  <1>3. P = Nat
    <2>1. P \in SUBSET Nat
      OBVIOUS
    <2> HIDE DEF P
    <2> QED  BY <1>1, <1>2, <2>1, NatInduct
  <1>4. \A s \in Seq(S) : Len(s) \in P
    BY <1>3, LenProperties
  <1> QED  BY <1>4

\* Appending to the second of two sequences.
LEMMA AppendConcat ==
    ASSUME NEW S, NEW s \in Seq(S), NEW t \in Seq(S), NEW x \in S
    PROVE  s \o Append(t, x) = Append(s \o t, x)
  <1>1. <<x>> \in Seq(S) /\ s \o t \in Seq(S)
    BY ConcatProperties
  <1>2. Append(s \o t, x) = (s \o t) \o <<x>> /\ Append(t, x) = t \o <<x>>
    BY <1>1, AppendIsConcat
  <1> QED  BY <1>1, <1>2, ConcatAssociative

\* What is kept are numbers, and the sum is one.
LEMMA TallyTypes ==
    ASSUME NEW s \in Seq(Int)
    PROVE  Positives(s) \in Seq(Int) /\ Total(s) \in Int
  <1> DEFINE Q == {t \in Seq(Int) : Positives(t) \in Seq(Int) /\ Total(t) \in Int}
  <1>1. Q \in SUBSET Seq(Int)
    OBVIOUS
  <1>2. <<>> \in Q
    <2>1. <<>> \in Seq(Int)
      BY EmptySeq
    <2>2. Positives(<<>>) = <<>>
      BY TallyParts, Zenon
    <2>3. Total(<<>>) = 0
      BY TallyParts, Zenon
    <2>4. Total(<<>>) \in Int
      BY <2>3
    <2> QED  BY <2>1, <2>2, <2>4, Zenon
  <1>3. ASSUME NEW t \in Q, NEW x \in Int PROVE Append(t, x) \in Q
    <2>1. Append(t, x) \in Seq(Int) /\ Append(Positives(t), x) \in Seq(Int)
      BY AppendProperties
    <2>2. /\ Positives(Append(t, x)) \in {Positives(t), Append(Positives(t), x)}
          /\ Total(Append(t, x)) = Total(t) + x
      BY TallyParts
    <2>3. t \in Seq(Int) /\ Positives(t) \in Seq(Int) /\ Total(t) \in Int
      BY Zenon
    <2>4. Positives(Append(t, x)) \in Seq(Int)
      BY <2>1, <2>2, <2>3, Zenon
    <2>5. Total(Append(t, x)) \in Int
      BY <2>2, <2>3
    <2> QED  BY <2>1, <2>4, <2>5, Zenon
  <1>4. Q = Seq(Int)
    <2> HIDE DEF Q
    <2> QED  BY <1>1, <1>2, <1>3, SeqInduct
  <1> QED  BY <1>4

\* The positive numbers of two lists, one after the other.
LEMMA PositivesConcat ==
    ASSUME NEW s \in Seq(Int), NEW t \in Seq(Int)
    PROVE  Positives(s \o t) = Positives(s) \o Positives(t)
  <1> DEFINE Q == {r \in Seq(Int) : Positives(s \o r) = Positives(s) \o Positives(r)}
  <1>1. Q \in SUBSET Seq(Int)
    OBVIOUS
  <1>2. <<>> \in Q
    <2>1. s \o <<>> = s /\ Positives(s) \o <<>> = Positives(s)
      BY TallyTypes, ConcatEmptySeq
    <2> QED  BY <2>1, TallyParts, EmptySeq
  <1>3. ASSUME NEW r \in Q, NEW x \in Int PROVE Append(r, x) \in Q
    <2>1. Append(r, x) \in Seq(Int) /\ s \o r \in Seq(Int)
      BY AppendProperties, ConcatProperties
    <2>2. s \o Append(r, x) = Append(s \o r, x)
      BY AppendConcat
    <2>3. Positives(s) \o Append(Positives(r), x) =
              Append(Positives(s) \o Positives(r), x)
      <3>1. Positives(s) \in Seq(Int) /\ Positives(r) \in Seq(Int)
        BY TallyTypes
      <3> QED  BY <3>1, AppendConcat
    <2>4. Positives(s \o Append(r, x)) = Positives(s) \o Positives(Append(r, x))
      <3>1. CASE x > 0
        <4>1. /\ Positives(Append(r, x)) = Append(Positives(r), x)
              /\ Positives(s \o Append(r, x)) = Append(Positives(s \o r), x)
          BY <2>1, <2>2, <3>1, TallyParts
        <4> QED  BY <2>3, <4>1
      <3>2. CASE ~ (x > 0)
        <4>1. /\ Positives(Append(r, x)) = Positives(r)
              /\ Positives(s \o Append(r, x)) = Positives(s \o r)
          BY <2>1, <2>2, <3>2, TallyParts
        <4> QED  BY <4>1
      <3> QED  BY <3>1, <3>2
    <2> QED  BY <2>1, <2>4
  <1>4. Q = Seq(Int)
    <2> HIDE DEF Q
    <2> QED  BY <1>1, <1>2, <1>3, SeqInduct
  <1> QED  BY <1>4

\* Numbers that differ by a multiple of m have the same remainder.
LEMMA SameRemainder ==
    ASSUME NEW m \in Nat \ {0}, NEW a \in Int, NEW q \in Int
    PROVE  a % m = (m * q + a) % m
  <1> DEFINE b == m * q + a
             d == (b \div m) - q - (a \div m)
             r == (a % m) - (b % m)
  <1>1. b \in Int
    OBVIOUS
  <1>2. /\ a = m * (a \div m) + (a % m)
        /\ a \div m \in Int /\ a % m \in 0 .. m - 1
    OBVIOUS
  <1>3. /\ b = m * (b \div m) + (b % m)
        /\ b \div m \in Int /\ b % m \in 0 .. m - 1
    <2> HIDE DEF b
    <2> QED  BY <1>1
  <1>4. m * d = r /\ d \in Int /\ r \in Int
    <2> DEFINE x == a \div m
               y == b \div m
               u == a % m
               v == b % m
    <2>1. /\ x \in Int /\ y \in Int /\ u \in Int /\ v \in Int
          /\ a = m * x + u /\ m * q + a = m * y + v
      BY <1>2, <1>3
    <2>2. m * (y - q - x) = u - v /\ y - q - x \in Int /\ u - v \in Int
      <3> HIDE DEF x, y, u, v
      <3> QED  BY <2>1
    <2> QED  BY <2>2
  <1>5. -m < r /\ r < m
    <2> HIDE DEF b
    <2> QED  BY <1>2, <1>3
  <1>6. d = 0
    <2> HIDE DEF d, r
    <2>1. d >= 1 => m * d >= m
      BY <1>4
    <2>2. d <= -1 => m * d <= -m
      BY <1>4
    <2> QED  BY <1>4, <1>5, <2>1, <2>2
  <1>7. r = 0
    <2> HIDE DEF d, r
    <2> QED  BY <1>4, <1>6
  <1> QED  BY <1>2, <1>3, <1>7

\* Wrapping a summand first makes no difference.
LEMMA WrapAdds ==
    ASSUME NEW m \in Int, NEW n \in Int
    PROVE  Wrap(m) \in Int32 /\ Wrap(Wrap(m) + n) = Wrap(m + n)
  <1> DEFINE M == 2 * INT_MAX + 2
             k == m + INT_MAX + 1
  <1>1. M \in Nat \ {0} /\ k \in Int /\ INT_MAX \in Nat
    BY PipeAssumption
  <1>2. k % M \in 0 .. M - 1
    <2> HIDE DEF M, k
    <2> QED  BY <1>1
  <1>3. Wrap(m) \in Int32
    BY <1>1, <1>2 DEF Wrap, Int32
  <1>4. ((k % M) + n) % M = (k + n) % M
    <2> HIDE DEF M, k
    <2>1. k = M * (k \div M) + (k % M) /\ k \div M \in Int
      BY <1>1
    <2>2. ASSUME NEW a \in Int, NEW q \in Int PROVE a % M = (M * q + a) % M
      BY <1>1, SameRemainder
    <2>3. (k % M) + n \in Int
      BY <1>1, <1>2
    <2>4. M * (k \div M) + ((k % M) + n) = k + n
      BY <1>1, <1>2, <2>1
    <2> QED  BY <2>1, <2>2, <2>3, <2>4
  <1>5. /\ Wrap(m) = (k % M) - INT_MAX - 1
        /\ Wrap(m + n) = ((k + n) % M) - INT_MAX - 1
    <2>1. (m + n) + INT_MAX + 1 = k + n
      BY <1>1
    <2> QED  BY <2>1 DEF Wrap
  <1>6. Wrap(m) + n + INT_MAX + 1 = (k % M) + n
    <2>1. k % M \in Int
      BY <1>1, <1>2
    <2> HIDE DEF M, k
    <2> QED  BY <1>1, <1>5, <2>1
  <1>7. Wrap(Wrap(m) + n) = (((k % M) + n) % M) - INT_MAX - 1
    BY <1>6 DEF Wrap
  <1> QED  BY <1>3, <1>4, <1>5, <1>7
-----------------------------------------------------------------------------
(* What is written, round by round.                                        *)

\* A number of the user, or the -1 the variable began with.
Values == Numbers \cup {-1}

LEMMA ValuesAre ==
    /\ Values \subseteq Int32 /\ Int32 \subseteq Int /\ Values \subseteq Int
    /\ \A t \in Seq(Values) : t \in Seq(Int) /\ Len(t) \in Nat
                              /\ \A i \in 1 .. Len(t) : t[i] \in Values
  <1>1. Values \subseteq Int32 /\ Int32 \subseteq Int
    BY PipeAssumption DEF Int32, Values
  <1>2. Values \subseteq Int
    BY <1>1
  <1>3. ASSUME NEW t \in Seq(Values)
        PROVE  t \in Seq(Int) /\ Len(t) \in Nat /\ \A i \in 1 .. Len(t) : t[i] \in Values
    <2> HIDE DEF Values
    <2> QED  BY <1>2, SeqMonotonic, LenProperties, ElementOfSeq
  <1> QED  BY <1>1, <1>2, <1>3

LEMMA EntriesAre ==
    ASSUME NEW t \in Seq(Values), NEW n \in 0 .. Len(t)
    PROVE  /\ Entries(t, n) \in Seq(Int) /\ Len(Entries(t, n)) = n
           /\ \A i \in 1 .. n : Entries(t, n)[i] = t[i]
  <1>1. n \in Nat /\ \A i \in 1 .. n : t[i] \in Int
    BY ValuesAre
  <1>2. Entries(t, n) \in Seq(Int)
    BY <1>1, IsASeq DEF Entries
  <1> QED  BY <1>1, <1>2 DEF Entries

\* One round more.
LEMMA EntriesAppend ==
    ASSUME NEW t \in Seq(Values), NEW n \in Nat, n + 1 <= Len(t)
    PROVE  Entries(t, n + 1) = Append(Entries(t, n), t[n + 1]) /\ t[n + 1] \in Int
  <1> DEFINE a == Entries(t, n + 1)
             b == Entries(t, n)
             c == Append(b, t[n + 1])
  <1>0. n \in 0 .. Len(t) /\ n + 1 \in 0 .. Len(t) /\ n + 1 \in 1 .. Len(t)
    BY ValuesAre
  <1>1. /\ a \in Seq(Int) /\ Len(a) = n + 1
        /\ \A i \in 1 .. n + 1 : a[i] = t[i]
    BY <1>0, EntriesAre
  <1>2. /\ b \in Seq(Int) /\ Len(b) = n
        /\ \A i \in 1 .. n : b[i] = t[i]
    BY <1>0, EntriesAre
  <1>3. t[n + 1] \in Int
    BY <1>0, ValuesAre
  <1>4. /\ c \in Seq(Int) /\ Len(c) = n + 1
        /\ \A i \in 1 .. n : c[i] = b[i]
        /\ c[n + 1] = t[n + 1]
    <2> HIDE DEF b
    <2> QED  BY <1>2, <1>3, AppendProperties
  <1>5. \A i \in 1 .. n + 1 : a[i] = c[i]
    <2> HIDE DEF a, b, c
    <2> QED  BY <1>1, <1>2, <1>4
  <1> HIDE DEF a, b, c
  <1>6. a = c
    BY <1>1, <1>4, <1>5, SeqEqual
  <1> QED  BY <1>3, <1>6 DEF a, b, c

\* The rounds that were made are not changed by another.
LEMMA EntriesGrow ==
    ASSUME NEW t \in Seq(Values), NEW x \in Values
    PROVE  /\ Len(Append(t, x)) = Len(t) + 1 /\ Append(t, x)[Len(t) + 1] = x
           /\ \A i \in 1 .. Len(t) : Append(t, x)[i] = t[i]
           /\ \A n \in 0 .. Len(t) : Entries(Append(t, x), n) = Entries(t, n)
  <1>1. /\ Len(Append(t, x)) = Len(t) + 1 /\ Append(t, x)[Len(t) + 1] = x
        /\ \A i \in 1 .. Len(t) : Append(t, x)[i] = t[i]
        /\ Len(t) \in Nat
    BY AppendProperties, LenProperties
  <1>2. ASSUME NEW n \in 0 .. Len(t) PROVE Entries(Append(t, x), n) = Entries(t, n)
    BY <1>1 DEF Entries
  <1> QED  BY <1>1, <1>2

\* As many rounds as there were are all of them.
LEMMA EntriesAll ==
    ASSUME NEW t \in Seq(Values)
    PROVE  Entries(t, Len(t)) = t
  BY LenProperties DEF Entries

\* What is in the pipe follows what has been taken out of it.
LEMMA EntriesSplit ==
    ASSUME NEW t \in Seq(Values), NEW n \in 0 .. Len(t), NEW q \in Seq(Int), Len(q) <= n,
           \A i \in 1 .. Len(q) : q[i] = t[n - Len(q) + i]
    PROVE  Entries(t, n) = Entries(t, n - Len(q)) \o q
  <1> DEFINE m == n - Len(q)
             a == Entries(t, n)
             b == Entries(t, m)
             c == b \o q
  <1>1. m \in Nat /\ Len(q) \in Nat /\ m + Len(q) = n /\ m \in 0 .. Len(t)
    BY LenProperties
  <1>2. /\ a \in Seq(Int) /\ Len(a) = n /\ \A i \in 1 .. n : a[i] = t[i]
    BY EntriesAre
  <1>3. /\ b \in Seq(Int) /\ Len(b) = m /\ \A i \in 1 .. m : b[i] = t[i]
    <2> HIDE DEF m
    <2> QED  BY <1>1, EntriesAre
  <1>4. /\ c \in Seq(Int) /\ Len(c) = n
        /\ \A i \in 1 .. n : c[i] = IF i <= m THEN b[i] ELSE q[i - m]
    <2> HIDE DEF m, b
    <2> QED  BY <1>1, <1>3, ConcatProperties
  <1>5. ASSUME NEW i \in 1 .. n PROVE a[i] = c[i]
    <2>1. CASE i <= m
      <3>1. i \in 1 .. m
        BY <2>1, <1>1
      <3> HIDE DEF a, b, c, m
      <3> QED  BY <1>2, <1>3, <1>4, <2>1, <3>1
    <2>2. CASE ~ (i <= m)
      <3>1. i - m \in 1 .. Len(q) /\ m + (i - m) = i
        BY <2>2, <1>1
      <3>2. q[i - m] = t[i]
        BY <3>1
      <3> HIDE DEF a, b, c, m
      <3> QED  BY <1>2, <1>4, <2>2, <3>2
    <2> QED  BY <2>1, <2>2
  <1> HIDE DEF a, b, c
  <1>6. a = c
    BY <1>2, <1>4, <1>5, SeqEqual
  <1> QED  BY <1>6 DEF a, b, c

\* The first m rounds of n.
LEMMA EntriesFirst ==
    ASSUME NEW t \in Seq(Values), NEW n \in 0 .. Len(t), NEW m \in 0 .. n
    PROVE  SubSeq(Entries(t, n), 1, m) = Entries(t, m)
  <1> DEFINE a == Entries(t, n)
             b == SubSeq(a, 1, m)
             c == Entries(t, m)
  <1>1. /\ a \in Seq(Int) /\ Len(a) = n /\ \A i \in 1 .. n : a[i] = t[i]
    BY EntriesAre
  <1>2. /\ c \in Seq(Int) /\ Len(c) = m /\ \A i \in 1 .. m : c[i] = t[i]
    BY EntriesAre
  <1>3. \A i \in 1 .. m : a[i] \in Int
    <2> HIDE DEF a
    <2> QED  BY <1>1, ElementOfSeq
  <1>4. /\ b \in Seq(Int) /\ Len(b) = m /\ \A i \in 1 .. m : b[i] = a[i]
    <2> HIDE DEF a
    <2>1. /\ b \in Seq(Int) /\ Len(b) = IF 1 <= m THEN m - 1 + 1 ELSE 0
          /\ \A i \in 1 .. m - 1 + 1 : b[i] = a[1 + i - 1]
      BY <1>3, SubSeqProperties
    <2> HIDE DEF b
    <2> QED  BY <2>1
  <1> HIDE DEF a, b, c
  <1>5. \A i \in 1 .. m : i \in 1 .. n
    BY LenProperties
  <1>6. b = c
    BY <1>1, <1>2, <1>4, <1>5, SeqEqual
  <1> QED  BY <1>6 DEF a, b, c

LEMMA SentIs ==
    ASSUME scanned \in Seq(Values), sent \in 0 .. Len(scanned)
    PROVE  Sent = Entries(scanned, sent)
  <1>1. Len(scanned) \in 0 .. Len(scanned)
    BY ValuesAre
  <1> QED  BY <1>1, EntriesFirst, EntriesAll DEF Sent

-----------------------------------------------------------------------------
(* The inductive invariant.                                                *)

\* Where the processes of a program can be.
Places ==
    \/ /\ lab = "lab8_2"
       /\ pc["writer"] \in {"scanf", "write", "close", "ended", "killed"}
       /\ pc["reader"] \in {"start", "read", "wait", "ended", "failed", "killed"}
    \/ /\ lab = "lab8_3"
       /\ pc["writer"] \in {"scanf", "write", "close", "wait", "ended", "killed"}
       /\ pc["reader"] \in {"start", "read", "ended", "failed", "killed"}
    \/ /\ lab = "lab8_5"
       /\ pc["writer"] \in {"scanf", "write", "close", "read sum", "read avg",
                            "wait", "ended", "killed"}
       /\ pc["reader"] \in {"read", "write sum", "write avg", "ended", "killed"}

Shape ==
    /\ lab \in Labs
    /\ pc = [writer |-> pc["writer"], reader |-> pc["reader"]]
    /\ Places
    /\ input \in Held
    /\ scanned \in Seq(Held) /\ Len(scanned) \in {sent, sent + 1}
    /\ pc["writer"] = "scanf" => Len(scanned) = sent
    /\ pc["writer"] = "write" => Len(scanned) = sent + 1
    /\ sent \in 0 .. MaxRounds /\ Len(scanned) <= MaxRounds
    /\ pipe \in Seq(Held) /\ Len(pipe) <= Capacity
    /\ file \in Seq(Numbers)
    /\ readData \in Int32 /\ sum \in Int32
    /\ readDataCounter \in 0 .. 2 * MaxRounds
    /\ got = [sum |-> got.sum, avg |-> got.avg]

\* What is scanned is written next; the pipe holds the last of what was written;
\* a 0 is written last, and once.
Flow ==
    LET W == pc["writer"] IN
    lab # "lab8_3" =>
        /\ W = "write" => scanned[sent + 1] = input
        /\ Len(pipe) <= sent
        /\ \A i \in 1 .. Len(pipe) : pipe[i] = scanned[sent - Len(pipe) + i]
        /\ \A i \in 1 .. sent : scanned[i] = 0 =>
               i = sent /\ Len(scanned) = sent /\ W \notin {"scanf", "write"}
        /\ W \in {"close", "read sum", "read avg", "wait", "ended"} =>
               sent > 0 /\ scanned[sent] = 0

\* lab8_2: the file holds the positive numbers among those taken; the reader's
\* loop ends when all is taken and no more comes.
Keeping ==
    LET R == pc["reader"] IN
    lab = "lab8_2" =>
        /\ R = "start" => file = <<>> /\ Len(pipe) = sent
        /\ R = "read" => file = Positives(Taken)
        /\ R \in {"wait", "ended"} =>
               /\ pipe = <<>> /\ pc["writer"] \notin {"scanf", "write"}
               /\ file = Positives(Sent)

\* lab8_5: how often the child has added its last number again, and what that
\* makes of the sum.
Again == readDataCounter - (sent - Len(pipe))

Summed ==
    /\ Again >= 0
    /\ Again > 0 => pc["writer"] = "killed" /\ pipe = <<>>
    /\ sum = Wrap(Total(Taken) + Again * readData)

\* lab8_5: the child has added what it has taken, and it has not taken a 0; when
\* its loop is over it has taken everything, the last a 0.
Counting ==
    LET R == pc["reader"] IN
    lab = "lab8_5" =>
        /\ R = "read" =>
               /\ readData # 0
               /\ \A i \in 1 .. sent - Len(pipe) : scanned[i] # 0
               /\ Summed
        /\ R \in {"write sum", "write avg", "ended"} =>
               /\ pipe = <<>>
               /\ sent > 0 /\ scanned[sent] = 0
               /\ sum = Wrap(Total(scanned))
               /\ readDataCounter = Len(scanned) - 1

\* lab8_5: the sum and the average of what was sent, once it is all sent.
Answer == Wrap(Total(scanned))
Mean == Average(Answer, Len(scanned) - 1)

\* lab8_5: the second pipe is empty until the child answers, and holds two
\* answers at most.
FewReplies ==
    /\ pc["reader"] \in {"read", "write sum"} => replies = <<>>
    /\ pc["reader"] = "write avg" => Len(replies) <= 1
    /\ Len(replies) <= 2
    /\ got.sum \in Int32

\* lab8_5: what is in the second pipe before the parent reads from it,
NothingRead ==
    LET R == pc["reader"] IN
    pc["writer"] \in {"scanf", "write", "close", "read sum"} =>
        /\ pc["writer"] \in {"scanf", "write"} => replies = <<>>
        /\ got = [sum |-> 0, avg |-> Garbage]
        /\ \/ replies = <<>> /\ R \in {"read", "write sum", "killed"}
           \/ replies = <<Answer>> /\ R \in {"write avg", "killed"}
           \/ replies = <<Answer, Mean>> /\ R \in {"ended", "killed"}

\* what after it has read the sum,
SumRead ==
    LET R == pc["reader"] IN
    pc["writer"] = "read avg" =>
        /\ got.avg = Garbage
        /\ \/ got.sum = Answer /\ replies = <<>> /\ R \in {"write avg", "killed"}
           \/ got.sum = Answer /\ replies = <<Mean>> /\ R \in {"ended", "killed"}
           \/ got.sum = 0 /\ replies = <<>> /\ R = "killed"

\* and what the parent has got in the end.
BothRead ==
    LET R == pc["reader"] IN
    pc["writer"] \in {"wait", "ended"} =>
        /\ R \in {"ended", "killed"}
        /\ got.sum = Answer \/ (got.sum = 0 /\ R = "killed")
        /\ got.avg = Mean \/ (got.avg = Garbage /\ R = "killed")

Answers ==
    IF lab = "lab8_5" THEN FewReplies /\ NothingRead /\ SumRead /\ BothRead
                      ELSE replies = <<>> /\ got.sum = 0

IInv == Shape /\ Flow /\ Keeping /\ Counting /\ Answers
-----------------------------------------------------------------------------
(* The steps, by what they change.                                         *)

Moved(w, r) == pc' = [writer |-> w, reader |-> r]

\* Steps after which all but the places of the processes is as it was: the
\* writer goes to w, the reader to r.
QuietMove(w, r) ==
    LET W == pc["writer"]
        R == pc["reader"] IN
    \/ ~Gone("writer") /\ w = "killed" /\ r = R
    \/ ~Gone("reader") /\ w = W /\ r = "killed"
    \/ lab = "lab8_2" /\ W = "close" /\ w = "ended" /\ r = R
    \/ lab = "lab8_3" /\ W = "close" /\ w = "wait" /\ r = R
    \/ lab = "lab8_5" /\ W = "close" /\ w = "read sum" /\ r = R
    \/ lab = "lab8_3" /\ W = "write" /\ w = "ended" /\ r = R
    \/ lab # "lab8_2" /\ W = "wait" /\ w = "ended" /\ r = R
    \/ lab = "lab8_2" /\ R = "wait" /\ w = W /\ r = "ended" /\ Gone("writer")
    \/ lab # "lab8_5" /\ R = "start" /\ w = W /\ r \in {"read", "failed"}

Quiet ==
    /\ UNCHANGED <<lab, writerVars, pipe, file, childVars, replyVars>>
    /\ \E w, r : Moved(w, r) /\ QuietMove(w, r)

Entering == ReadInput /\ Moved("write", pc["reader"])

Skipping == lab = "lab8_3" /\ SendNothing /\ Moved("scanf", pc["reader"])

Sending ==
    /\ Send
    /\ pc["reader"] \in {"start", "read", "wait"}
    /\ Moved(IF IsEnding(input) THEN "close" ELSE "scanf", pc["reader"])

\* What p does moves p.
LEMMA AtMoves ==
    ASSUME pc = [writer |-> pc["writer"], reader |-> pc["reader"]],
           NEW from, NEW to
    PROVE  /\ At("writer", from, to) => pc["writer"] = from /\ Moved(to, pc["reader"])
           /\ At("reader", from, to) => pc["reader"] = from /\ Moved(pc["writer"], to)
  BY DEF At, Moved

LEMMA Steps ==
    ASSUME Shape, Next
    PROVE  \/ Entering \/ Sending \/ Skipping \/ Quiet \/ ReadNumber \/ Gnuplot \/ AddNumber
           \/ lab = "lab8_5" /\ Reply(sum, "write sum", "write avg")
           \/ lab = "lab8_5" /\ Reply(Average(sum, readDataCounter), "write avg", "ended")
           \/ lab = "lab8_5" /\ ReadReply("sum", "read sum", "read avg")
           \/ lab = "lab8_5" /\ ReadReply("avg", "read avg", "wait")
  <1>1. /\ pc = [writer |-> pc["writer"], reader |-> pc["reader"]]
        /\ lab \in {"lab8_2", "lab8_3", "lab8_5"}
    BY DEF Shape, Places
  <1>2. ReadInput => Entering
    BY <1>1, AtMoves DEF ReadInput, Entering
  <1>3. Send => Sending
    BY <1>1, AtMoves DEF Send, Sending, ReadEndOpen
  <1>4. ASSUME NEW fate \in {"killed", "ended"}, BrokenPipe(fate),
               fate = "ended" => lab = "lab8_3"
        PROVE  Quiet
    <2>1. pc["writer"] = "write" /\ Moved(fate, pc["reader"])
      BY <1>1, <1>4, AtMoves DEF BrokenPipe
    <2>2. QuietMove(fate, pc["reader"])
      BY <1>4, <2>1 DEF QuietMove, Gone
    <2> QED  BY <1>4, <2>1, <2>2 DEF BrokenPipe, Quiet
  <1>5. ASSUME NEW next, CloseWriteEnd(next),
               <<lab, next>> \in {<<"lab8_2", "ended">>, <<"lab8_3", "wait">>,
                                  <<"lab8_5", "read sum">>}
        PROVE  Quiet
    <2>1. pc["writer"] = "close" /\ Moved(next, pc["reader"])
      BY <1>1, <1>5, AtMoves DEF CloseWriteEnd
    <2>2. QuietMove(next, pc["reader"])
      BY <1>5, <2>1 DEF QuietMove
    <2> QED  BY <1>5, <2>1, <2>2 DEF CloseWriteEnd, Quiet
  <1>6. /\ lab = "lab8_2" /\ WaitForChild("reader", "writer") => Quiet
        /\ lab # "lab8_2" /\ WaitForChild("writer", "reader") => Quiet
    <2>1. ASSUME lab = "lab8_2", WaitForChild("reader", "writer") PROVE Quiet
      <3>1. pc["reader"] = "wait" /\ Moved(pc["writer"], "ended")
        BY <1>1, <2>1, AtMoves DEF WaitForChild
      <3>2. QuietMove(pc["writer"], "ended")
        BY <2>1, <3>1 DEF QuietMove, WaitForChild
      <3> QED  BY <2>1, <3>1, <3>2 DEF WaitForChild, Quiet
    <2>2. ASSUME lab # "lab8_2", WaitForChild("writer", "reader") PROVE Quiet
      <3>1. pc["writer"] = "wait" /\ Moved("ended", pc["reader"])
        BY <1>1, <2>2, AtMoves DEF WaitForChild
      <3>2. QuietMove("ended", pc["reader"])
        BY <2>2, <3>1 DEF QuietMove
      <3> QED  BY <2>2, <3>1, <3>2 DEF WaitForChild, Quiet
    <2> QED  BY <2>1, <2>2
  <1>7. ASSUME OpenFile \/ ExecGnuplot PROVE Quiet
    <2>1. PICK r \in {"read", "failed"} : At("reader", "start", r)
      BY <1>7 DEF OpenFile, ExecGnuplot
    <2>2. pc["reader"] = "start" /\ Moved(pc["writer"], r) /\ lab # "lab8_5"
      BY <1>1, <1>7, <2>1, AtMoves DEF OpenFile, ExecGnuplot
    <2>3. QuietMove(pc["writer"], r)
      BY <2>2 DEF QuietMove
    <2> QED  BY <1>7, <2>2, <2>3 DEF OpenFile, ExecGnuplot, Quiet
  <1>8. ASSUME NEW p \in DOMAIN pc, Kill(p) PROVE Quiet
    <2>1. p \in {"writer", "reader"}
      BY <1>1
    <2>2. CASE p = "writer"
      <3>1. Moved("killed", pc["reader"])
        BY <1>1, <1>8, <2>2 DEF Kill, Moved
      <3>2. QuietMove("killed", pc["reader"])
        BY <1>8, <2>2 DEF Kill, QuietMove
      <3> QED  BY <1>8, <3>1, <3>2 DEF Kill, Quiet
    <2>3. CASE p = "reader"
      <3>1. Moved(pc["writer"], "killed")
        BY <1>1, <1>8, <2>3 DEF Kill, Moved
      <3>2. QuietMove(pc["writer"], "killed")
        BY <1>8, <2>3 DEF Kill, QuietMove
      <3> QED  BY <1>8, <3>1, <3>2 DEF Kill, Quiet
    <2> QED  BY <2>1, <2>2, <2>3
  <1>9. CASE WriterStep
    <2>1. CASE lab8_2_child
      BY <1>3, <1>4, <1>5, <2>1 DEF lab8_2_child
    <2>2. CASE lab8_3_parent
      <3>1. lab = "lab8_3" /\ SendNothing => Skipping
        BY <1>1, AtMoves DEF SendNothing, Skipping
      <3> QED
        BY <1>3, <1>4, <1>5, <1>6, <2>2, <3>1 DEF lab8_3_parent, signalHandler
    <2>3. CASE lab8_5_parent
      BY <1>3, <1>4, <1>5, <1>6, <2>3 DEF lab8_5_parent
    <2> QED  BY <1>9, <2>1, <2>2, <2>3 DEF WriterStep
  <1>10. CASE ReaderStep
    BY <1>6, <1>7, <1>10 DEF ReaderStep, lab8_2_parent, lab8_5_child
  <1> QED  BY <1>2, <1>8, <1>9, <1>10 DEF Next
-----------------------------------------------------------------------------
(* Shape.                                                                  *)

\* What the types of the labs with numbers say of their sequences.
LEMMA NumberTypes ==
    ASSUME Shape, lab # "lab8_3"
    PROVE  /\ scanned \in Seq(Values) /\ scanned \in Seq(Int)
           /\ pipe \in Seq(Values) /\ pipe \in Seq(Int)
           /\ sent \in Nat /\ Len(scanned) \in Nat /\ Len(pipe) \in Nat
           /\ sent \in 0 .. Len(scanned)
           /\ Held = Values /\ input \in Values
  <1>1. Held = Values
    BY DEF Held, Values
  <1>2. scanned \in Seq(Values) /\ pipe \in Seq(Values) /\ input \in Values
    BY <1>1 DEF Shape
  <1>3. /\ scanned \in Seq(Int) /\ pipe \in Seq(Int)
        /\ Len(scanned) \in Nat /\ Len(pipe) \in Nat
    BY <1>2, ValuesAre
  <1>4. sent \in Nat /\ Len(scanned) \in {sent, sent + 1}
    BY PipeAssumption DEF Shape
  <1>5. sent \in 0 .. Len(scanned)
    BY <1>3, <1>4
  <1> QED  BY <1>1, <1>2, <1>3, <1>4, <1>5

\* A Moved step, seen from each process.
LEMMA MovedPlaces ==
    ASSUME NEW w, NEW r, Moved(w, r)
    PROVE  /\ pc'["writer"] = w /\ pc'["reader"] = r
           /\ pc' = [writer |-> pc'["writer"], reader |-> pc'["reader"]]
  BY DEF Moved

LEMMA ShapeInit == Init => Shape
  <1> SUFFICES ASSUME Init PROVE Shape
    OBVIOUS
  <1>1. Places /\ pc = [writer |-> pc["writer"], reader |-> pc["reader"]]
    BY PipeAssumption DEF Init, Places
  <1>2. input \in Held
    BY DEF Init, Held
  <1>3. /\ scanned \in Seq(Held) /\ pipe \in Seq(Held) /\ file \in Seq(Numbers)
        /\ Len(scanned) = 0 /\ Len(pipe) = 0
    BY EmptySeq DEF Init
  <1>4. readData \in Int32 /\ sum \in Int32
    BY PipeAssumption DEF Init, Int32
  <1>5. got = [sum |-> got.sum, avg |-> got.avg]
    BY DEF Init
  <1>6. /\ sent \in 0 .. MaxRounds /\ readDataCounter \in 0 .. 2 * MaxRounds
        /\ Len(scanned) <= MaxRounds /\ Len(scanned) = sent /\ Len(pipe) <= Capacity
    BY <1>3, PipeAssumption DEF Init
  <1>7. lab \in Labs /\ pc["writer"] # "write"
    BY DEF Init
  <1> QED
    BY <1>1, <1>2, <1>3, <1>4, <1>5, <1>6, <1>7 DEF Shape

LEMMA ShapeStep ==
    ASSUME Shape, [Next]_vars
    PROVE  Shape'
  <1>1. CASE Entering
    <2>1. /\ pc["writer"] = "scanf" /\ pc'["writer"] = "write"
          /\ pc'["reader"] = pc["reader"]
          /\ pc' = [writer |-> pc'["writer"], reader |-> pc'["reader"]]
      BY <1>1, MovedPlaces DEF Entering, ReadInput, At
    <2>2. lab' = lab
      BY <1>1 DEF Entering, ReadInput
    <2>3. Places' /\ Inputs' = Inputs /\ Held' = Held
      BY <2>1, <2>2 DEF Shape, Places, Inputs, Held
    <2>4. input' \in Held /\ scanned' = Append(scanned, input') /\ sent < MaxRounds
      <3>1. Inputs \subseteq Held
        BY DEF Inputs, Held
      <3> QED  BY <1>1, <3>1 DEF Entering, ReadInput, Shape
    <2>5. /\ scanned' \in Seq(Held) /\ Len(scanned') = sent + 1
          /\ Len(scanned') <= MaxRounds
      <3>1. scanned' \in Seq(Held) /\ Len(scanned') = Len(scanned) + 1
        BY <2>4, AppendProperties DEF Shape
      <3>2. Len(scanned) = sent /\ sent \in Nat /\ MaxRounds \in Nat
        BY <2>1, PipeAssumption DEF Shape
      <3> QED  BY <2>4, <3>1, <3>2
    <2>6. UNCHANGED <<lab, sent, pipe, file, childVars, replyVars>>
      BY <1>1 DEF Entering, ReadInput
    <2> QED
      BY <2>1, <2>3, <2>4, <2>5, <2>6 DEF Shape, childVars, replyVars
  <1>2. CASE Sending
    <2>1. /\ pc["writer"] = "write" /\ pc'["writer"] \in {"scanf", "close"}
          /\ pc'["reader"] = pc["reader"]
          /\ pc' = [writer |-> pc'["writer"], reader |-> pc'["reader"]]
      BY <1>2, MovedPlaces DEF Sending, Send, At
    <2>2. UNCHANGED <<lab, input, scanned, file, childVars, replyVars>>
      BY <1>2 DEF Sending, Send
    <2>3. Places' /\ Inputs' = Inputs /\ Held' = Held
      BY <2>1, <2>2 DEF Shape, Places, Inputs, Held
    <2>4. sent' \in 0 .. MaxRounds /\ Len(scanned') = sent'
      <3>1. sent' = sent + 1 /\ scanned' = scanned
        BY <1>2 DEF Sending, Send
      <3>2. /\ sent \in Nat /\ MaxRounds \in Nat
            /\ Len(scanned) = sent + 1 /\ Len(scanned) <= MaxRounds
        BY <2>1, PipeAssumption DEF Shape
      <3> QED  BY <3>1, <3>2
    <2>5. pipe' \in Seq(Held) /\ Len(pipe') <= Capacity
      <3>1. pipe' = Append(pipe, input) /\ Len(pipe) < Capacity
        BY <1>2 DEF Sending, Send
      <3>2. pipe' \in Seq(Held) /\ Len(pipe') = Len(pipe) + 1 /\ Len(pipe) \in Nat
        BY <3>1, AppendProperties, LenProperties DEF Shape
      <3> QED  BY <3>1, <3>2, PipeAssumption
    <2> QED
      BY <2>1, <2>2, <2>3, <2>4, <2>5 DEF Shape, childVars, replyVars
  <1>3. CASE Quiet
    <2>1. UNCHANGED <<lab, writerVars, pipe, file, childVars, replyVars>>
      BY <1>3 DEF Quiet
    <2>2. PICK w, r : Moved(w, r) /\ QuietMove(w, r)
      BY <1>3 DEF Quiet
    <2>3. /\ pc' = [writer |-> pc'["writer"], reader |-> pc'["reader"]]
          /\ pc'["writer"] = w /\ pc'["reader"] = r
      BY <2>2, MovedPlaces
    <2>4. (w \notin {"scanf", "write"} \/ pc["writer"] = w) /\ Places'
      BY <2>1, <2>2, <2>3 DEF QuietMove, Shape, Places
    <2>5. Inputs' = Inputs /\ Held' = Held
      BY <2>1 DEF Inputs, Held
    <2> QED
      BY <2>1, <2>3, <2>4, <2>5 DEF Shape, writerVars, childVars, replyVars
  <1>4. ASSUME pipe # <<>>, pipe' = Tail(pipe), lab' = lab
        PROVE  Head(pipe) \in Held /\ pipe' \in Seq(Held)' /\ Len(pipe') <= Capacity
    <2>1. /\ Head(pipe) \in Held /\ Tail(pipe) \in Seq(Held)
          /\ Len(Tail(pipe)) = Len(pipe) - 1 /\ Len(pipe) \in Nat
      BY <1>4, HeadTailProperties, LenProperties DEF Shape
    <2>2. Held' = Held
      BY <1>4 DEF Held
    <2> QED  BY <1>4, <2>1, <2>2, PipeAssumption DEF Shape
  <1>5. CASE ReadNumber
    <2>1. /\ lab = "lab8_2" /\ pc["reader"] = "read"
          /\ pc'["reader"] \in {"read", "wait"} /\ pc'["writer"] = pc["writer"]
          /\ pc' = [writer |-> pc'["writer"], reader |-> pc'["reader"]]
      BY <1>5, AtMoves, MovedPlaces DEF ReadNumber, Shape
    <2>2. UNCHANGED <<lab, writerVars, childVars, replyVars>>
      BY <1>5 DEF ReadNumber
    <2>3. Places' /\ Inputs' = Inputs /\ Held' = Held
      BY <2>1, <2>2 DEF Shape, Places, Inputs, Held
    <2>4. pipe' \in Seq(Held)' /\ Len(pipe') <= Capacity /\ file' \in Seq(Numbers)
      <3>1. CASE pipe # <<>> /\ pipe' = Tail(pipe)
        <4>1. Head(pipe) \in Numbers \cup {-1}
          BY <1>4, <2>1, <2>2, <3>1 DEF Held
        <4>2. file' = IF Head(pipe) > 0 THEN Append(file, Head(pipe)) ELSE file
          BY <1>5, <3>1 DEF ReadNumber, EndOfFile
        <4>3. CASE Head(pipe) > 0
          <5>1. Head(pipe) \in Numbers
            BY <4>1, <4>3
          <5>2. file' \in Seq(Numbers)
            BY <4>2, <4>3, <5>1, AppendProperties DEF Shape
          <5> QED  BY <1>4, <2>2, <3>1, <5>2
        <4>4. CASE ~ (Head(pipe) > 0)
          BY <1>4, <2>2, <3>1, <4>2, <4>4 DEF Shape
        <4> QED  BY <4>3, <4>4
      <3>2. CASE UNCHANGED <<pipe, file>>
        BY <2>3, <3>2 DEF Shape
      <3> QED  BY <1>5, <3>1, <3>2 DEF ReadNumber
    <2> QED
      BY <2>1, <2>2, <2>3, <2>4 DEF Shape, writerVars, childVars, replyVars
  <1>6. CASE Gnuplot
    <2>1. /\ lab = "lab8_3" /\ pc["reader"] = "read"
          /\ pc'["reader"] \in {"read", "ended"} /\ pc'["writer"] = pc["writer"]
          /\ pc' = [writer |-> pc'["writer"], reader |-> pc'["reader"]]
      BY <1>6, AtMoves, MovedPlaces DEF Gnuplot, Shape
    <2>2. UNCHANGED <<lab, writerVars, file, childVars, replyVars>>
      BY <1>6 DEF Gnuplot
    <2>3. Places' /\ Inputs' = Inputs /\ Held' = Held
      BY <2>1, <2>2 DEF Shape, Places, Inputs, Held
    <2>4. pipe' \in Seq(Held)' /\ Len(pipe') <= Capacity
      <3>1. CASE pipe # <<>> /\ pipe' = Tail(pipe)
        BY <1>4, <2>2, <3>1
      <3>2. CASE UNCHANGED pipe
        BY <2>3, <3>2 DEF Shape
      <3> QED  BY <1>6, <3>1, <3>2 DEF Gnuplot
    <2> QED
      BY <2>1, <2>2, <2>3, <2>4 DEF Shape, writerVars, childVars, replyVars
  <1>7. CASE AddNumber
    <2>1. /\ lab = "lab8_5" /\ pc["reader"] = "read"
          /\ pc'["reader"] \in {"read", "write sum"} /\ pc'["writer"] = pc["writer"]
          /\ pc' = [writer |-> pc'["writer"], reader |-> pc'["reader"]]
      BY <1>7, AtMoves, MovedPlaces DEF AddNumber, Shape
    <2>2. UNCHANGED <<lab, writerVars, file, replyVars>>
      BY <1>7 DEF AddNumber
    <2>3. Places' /\ Inputs' = Inputs /\ Held' = Held
      BY <2>1, <2>2 DEF Shape, Places, Inputs, Held
    <2>4. pipe' \in Seq(Held)' /\ Len(pipe') <= Capacity /\ readData' \in Int32
      <3>1. CASE pipe # <<>> /\ readData' = Head(pipe) /\ pipe' = Tail(pipe)
        <4>1. Held \subseteq Int32
          <5>1. Held = Numbers \cup {-1}
            BY <2>1 DEF Held
          <5>2. Numbers \cup {-1} \subseteq Int32
            BY PipeAssumption DEF Int32
          <5> QED  BY <5>1, <5>2
        <4>2. lab' = lab /\ pipe # <<>> /\ pipe' = Tail(pipe)
          BY <2>2, <3>1
        <4>3. Head(pipe) \in Held /\ pipe' \in Seq(Held)' /\ Len(pipe') <= Capacity
          BY <1>4, <4>2
        <4> QED  BY <3>1, <4>1, <4>3
      <3>2. CASE UNCHANGED <<readData, pipe>>
        BY <2>3, <3>2 DEF Shape
      <3> QED  BY <1>7, <3>1, <3>2 DEF AddNumber
    <2>5. sum' \in Int32 /\ readDataCounter' \in 0 .. 2 * MaxRounds
      <3>1. CASE UNCHANGED <<sum, readDataCounter>>
        BY <3>1 DEF Shape
      <3>2. CASE /\ readDataCounter < 2 * MaxRounds
                 /\ sum' = Added(readData')
                 /\ readDataCounter' = readDataCounter + 1
        <4>1. sum + readData' \in Int
          BY <2>4 DEF Shape, Int32
        <4>2. sum' \in Int32
          BY <3>2, <4>1, WrapAdds DEF Added
        <4>3. readDataCounter' \in 0 .. 2 * MaxRounds
          BY <3>2, PipeAssumption DEF Shape
        <4> QED  BY <4>2, <4>3
      <3> QED  BY <1>7, <3>1, <3>2 DEF AddNumber
    <2> QED
      BY <2>1, <2>2, <2>3, <2>4, <2>5 DEF Shape, writerVars, replyVars
  <1>8. ASSUME NEW value, NEW from \in {"write sum", "write avg"},
               NEW to \in {"write avg", "ended"},
               lab = "lab8_5", Reply(value, from, to)
        PROVE  Shape'
    <2>1. /\ pc'["reader"] \in {"write avg", "ended", "killed"}
          /\ pc'["writer"] = pc["writer"]
          /\ pc' = [writer |-> pc'["writer"], reader |-> pc'["reader"]]
      BY <1>8, AtMoves, MovedPlaces DEF Reply, Shape
    <2>2. UNCHANGED <<lab, writerVars, pipe, file, childVars, got>>
      BY <1>8 DEF Reply
    <2>3. Places' /\ Inputs' = Inputs /\ Held' = Held
      BY <1>8, <2>1, <2>2 DEF Shape, Places, Inputs, Held
    <2> QED
      BY <2>1, <2>2, <2>3 DEF Shape, writerVars, childVars
  <1>9. ASSUME NEW field \in {"sum", "avg"}, NEW from \in {"read sum", "read avg"},
               NEW to \in {"read avg", "wait"},
               lab = "lab8_5", ReadReply(field, from, to)
        PROVE  Shape'
    <2>1. /\ pc'["writer"] = to /\ pc'["reader"] = pc["reader"]
          /\ pc' = [writer |-> pc'["writer"], reader |-> pc'["reader"]]
      BY <1>9, AtMoves, MovedPlaces DEF ReadReply, Shape
    <2>2. UNCHANGED <<lab, writerVars, pipe, file, childVars>>
      BY <1>9 DEF ReadReply
    <2>3. Places' /\ Inputs' = Inputs /\ Held' = Held
      BY <1>9, <2>1, <2>2 DEF Shape, Places, Inputs, Held
    <2>4. got' = [sum |-> got'.sum, avg |-> got'.avg]
      <3>1. got = [sum |-> got.sum, avg |-> got.avg]
        BY DEF Shape
      <3>2. \/ got' = [got EXCEPT ![field] = Head(replies)]
            \/ got' = got
        BY <1>9 DEF ReadReply, replyVars
      <3> QED  BY <3>1, <3>2
    <2> QED
      BY <2>1, <2>2, <2>3, <2>4 DEF Shape, writerVars, childVars
  <1>10. CASE UNCHANGED vars
    <2>1. Inputs' = Inputs /\ Held' = Held /\ Places'
      BY <1>10 DEF vars, Inputs, Held, Shape, Places
    <2> QED
      BY <1>10, <2>1 DEF vars, Shape, writerVars, childVars, replyVars
  <1>11. CASE Skipping
    <2>1. /\ lab = "lab8_3" /\ pc["writer"] = "write" /\ pc'["writer"] = "scanf"
          /\ pc'["reader"] = pc["reader"]
          /\ pc' = [writer |-> pc'["writer"], reader |-> pc'["reader"]]
      BY <1>11, MovedPlaces DEF Skipping, SendNothing, At
    <2>2. /\ sent' = sent + 1
          /\ UNCHANGED <<lab, input, scanned, pipe, file, childVars, replyVars>>
      BY <1>11 DEF Skipping, SendNothing
    <2>3. Places' /\ Inputs' = Inputs /\ Held' = Held
      BY <2>1, <2>2 DEF Shape, Places, Inputs, Held
    <2>4. sent' \in 0 .. MaxRounds /\ Len(scanned') = sent'
      <3>1. /\ sent \in Nat /\ MaxRounds \in Nat
            /\ Len(scanned) = sent + 1 /\ Len(scanned) <= MaxRounds
        BY <2>1, PipeAssumption DEF Shape
      <3> QED  BY <2>2, <3>1
    <2> QED
      BY <2>1, <2>2, <2>3, <2>4 DEF Shape, childVars, replyVars
  <1> QED
    BY <1>1, <1>2, <1>3, <1>5, <1>6, <1>7, <1>8, <1>9, <1>10, <1>11, Steps
-----------------------------------------------------------------------------
(* Flow.                                                                   *)

\* The places after the ending was written.
Behind == {"close", "read sum", "read avg", "wait", "ended"}

LEMMA FlowInit == Init => Flow
  BY EmptySeq DEF Init, Flow

\* A step that only moves the writer on keeps the flow.
LEMMA FlowFrame ==
    ASSUME Flow, UNCHANGED <<lab, input, scanned, sent, pipe>>,
           pc'["writer"] \in {"scanf", "write"} => pc'["writer"] = pc["writer"],
           pc'["writer"] \in Behind => pc["writer"] \in Behind
    PROVE  Flow'
  BY DEF Flow, Behind

\* Taking a number out of the pipe keeps the flow.
LEMMA FlowTake ==
    ASSUME Shape, Flow, lab # "lab8_3", UNCHANGED <<lab, input, scanned, sent>>,
           pc'["writer"] = pc["writer"], pipe # <<>>, pipe' = Tail(pipe)
    PROVE  /\ Flow'
           /\ Len(pipe') = Len(pipe) - 1 /\ Len(pipe) > 0
           /\ Head(pipe) = scanned[(sent - Len(pipe)) + 1]
  <1>1. /\ Len(pipe') = Len(pipe) - 1 /\ Len(pipe) \in Nat /\ Len(pipe) > 0
        /\ \A i \in 1 .. Len(pipe') : pipe'[i] = pipe[i + 1]
        /\ Head(pipe) = pipe[1]
    <2>1. pipe \in Seq(Int)
      BY NumberTypes
    <2>2. Len(pipe) \in Nat \ {0}
      BY <2>1, EmptySeq
    <2> QED  BY <2>1, <2>2, HeadTailProperties
  <1>2. sent \in Nat /\ Len(pipe) <= sent
    BY NumberTypes DEF Flow
  <1>3. ASSUME NEW i \in 1 .. Len(pipe')
        PROVE  pipe'[i] = scanned[(sent - Len(pipe')) + i]
    <2>1. i + 1 \in 1 .. Len(pipe) /\ (sent - Len(pipe)) + (i + 1) = (sent - Len(pipe')) + i
      BY <1>1, <1>2
    <2> QED  BY <1>1, <2>1 DEF Flow
  <1>4. Head(pipe) = scanned[(sent - Len(pipe)) + 1]
    <2>1. 1 \in 1 .. Len(pipe)
      BY <1>1
    <2> QED  BY <1>1, <2>1 DEF Flow
  <1>5. Len(pipe') <= sent
    BY <1>1, <1>2
  <1>6. Flow'
    BY <1>3, <1>5 DEF Flow
  <1> QED  BY <1>1, <1>4, <1>6

\* Another scanf leaves the rounds that were made as they are.
LEMMA InputKeepsRounds ==
    ASSUME Shape, Flow, lab # "lab8_3", Entering
    PROVE  /\ \A i \in 1 .. sent : scanned'[i] = scanned[i]
           /\ \A n \in 0 .. sent : Entries(scanned', n) = Entries(scanned, n)
           /\ Len(scanned') = sent + 1 /\ scanned'[sent + 1] = input'
  <1>1. scanned' = Append(scanned, input') /\ Len(scanned) = sent
    BY DEF Entering, ReadInput, At, Shape
  <1>2. input' \in Values /\ scanned \in Seq(Values)
    BY NumberTypes DEF Entering, ReadInput, Inputs, Values
  <1> QED  BY <1>1, <1>2, EntriesGrow

\* What is written in this round.
LEMMA InputIsEntry ==
    ASSUME Shape, Flow, lab # "lab8_3", pc["writer"] = "write"
    PROVE  /\ scanned[sent + 1] = input /\ Len(scanned) = sent + 1
           /\ \A i \in 1 .. sent : scanned[i] # 0
           /\ input \in Int
  <1>1. /\ scanned[sent + 1] = input
        /\ \A i \in 1 .. sent : scanned[i] # 0
    BY DEF Flow
  <1>2. Len(scanned) = sent + 1
    BY DEF Shape
  <1>3. input \in Int
    BY NumberTypes, ValuesAre
  <1> QED  BY <1>1, <1>2, <1>3

LEMMA FlowStep ==
    ASSUME Shape, Flow, [Next]_vars
    PROVE  Flow'
  <1>1. lab' = lab
    BY Steps DEF vars, Entering, ReadInput, Sending, Send, Skipping, SendNothing, Quiet,
                 ReadNumber, Gnuplot, AddNumber, Reply, ReadReply
  <1>2. CASE lab = "lab8_3"
    BY <1>1, <1>2 DEF Flow
  <1> SUFFICES ASSUME lab # "lab8_3" PROVE Flow'
    BY <1>2
  <1>3. /\ scanned \in Seq(Values) /\ pipe \in Seq(Int)
        /\ sent \in Nat /\ Len(scanned) \in Nat /\ Len(pipe) \in Nat
        /\ Len(pipe) <= sent
    BY NumberTypes DEF Flow
  <1>4. CASE Entering
    <2>1. /\ pc["writer"] = "scanf" /\ pc'["writer"] = "write"
          /\ sent' = sent /\ pipe' = pipe
      BY <1>4, MovedPlaces DEF Entering, ReadInput, At
    <2>2. \A i \in 1 .. sent : scanned'[i] = scanned[i] /\ scanned'[i] # 0
      BY <1>4, <2>1, InputKeepsRounds DEF Flow
    <2>3. \A i \in 1 .. Len(pipe) : pipe[i] = scanned'[sent - Len(pipe) + i]
      <3>1. \A i \in 1 .. Len(pipe) : sent - Len(pipe) + i \in 1 .. sent
        BY <1>3
      <3> QED  BY <2>2, <3>1 DEF Flow
    <2>4. scanned'[sent + 1] = input'
      BY <1>4, InputKeepsRounds
    <2> QED  BY <1>1, <1>3, <2>1, <2>2, <2>3, <2>4 DEF Flow
  <1>5. CASE Sending
    <2>1. /\ pc["writer"] = "write"
          /\ pc'["writer"] = IF input = 0 THEN "close" ELSE "scanf"
          /\ pipe' = Append(pipe, input) /\ sent' = sent + 1
          /\ UNCHANGED <<input, scanned>>
      BY <1>5, MovedPlaces DEF Sending, Send, At, IsEnding
    <2>2. /\ scanned[sent + 1] = input /\ Len(scanned) = sent + 1
          /\ \A i \in 1 .. sent : scanned[i] # 0
          /\ input \in Int
      BY <2>1, InputIsEntry
    <2>3. /\ Len(pipe') = Len(pipe) + 1
          /\ \A i \in 1 .. Len(pipe) : pipe'[i] = pipe[i]
          /\ pipe'[Len(pipe) + 1] = input
      BY <1>3, <2>1, <2>2, AppendProperties
    <2>4. ASSUME NEW i \in 1 .. Len(pipe')
          PROVE  pipe'[i] = scanned[sent' - Len(pipe') + i]
      <3>1. CASE i \in 1 .. Len(pipe)
        <4>1. sent' - Len(pipe') + i = sent - Len(pipe) + i
          BY <1>3, <2>1, <2>3
        <4>2. pipe[i] = scanned[sent - Len(pipe) + i]
          BY <3>1 DEF Flow
        <4> QED  BY <2>3, <3>1, <4>1, <4>2
      <3>2. CASE i = Len(pipe) + 1
        <4>1. sent' - Len(pipe') + i = sent + 1
          BY <1>3, <2>1, <2>3, <3>2
        <4> QED  BY <2>2, <2>3, <3>2, <4>1
      <3> QED  BY <1>3, <2>3, <3>1, <3>2
    <2>5. ASSUME NEW i \in 1 .. sent', scanned[i] = 0
          PROVE  i = sent' /\ Len(scanned) = sent' /\ pc'["writer"] = "close"
      <3>1. i = sent + 1
        BY <1>3, <2>1, <2>2, <2>5
      <3> QED  BY <2>1, <2>2, <2>5, <3>1
    <2>6. pc'["writer"] = "close" => sent' > 0 /\ scanned[sent'] = 0
      BY <1>3, <2>1, <2>2
    <2>7. pc'["writer"] \in {"close", "scanf"} /\ Len(pipe') <= sent'
      BY <1>3, <2>1, <2>3
    <2> QED
      BY <1>1, <2>1, <2>4, <2>5, <2>6, <2>7 DEF Flow
  <1>6. CASE Quiet
    <2>1. PICK w, r : Moved(w, r) /\ QuietMove(w, r)
      BY <1>6 DEF Quiet
    <2>2. pc'["writer"] = w
      BY <2>1, MovedPlaces
    <2>3. /\ w \in {"scanf", "write"} => w = pc["writer"]
          /\ w \in Behind => pc["writer"] \in Behind
      BY <2>1 DEF QuietMove, Behind
    <2>4. UNCHANGED <<lab, input, scanned, sent, pipe>>
      BY <1>6 DEF Quiet, writerVars
    <2> QED  BY <2>2, <2>3, <2>4, FlowFrame
  <1>7. ASSUME UNCHANGED <<lab, input, scanned, sent>>, pc'["writer"] = pc["writer"],
               pipe' = pipe \/ (pipe # <<>> /\ pipe' = Tail(pipe))
        PROVE  Flow'
    BY <1>7, FlowFrame, FlowTake
  <1>8. CASE ReadNumber
    BY <1>7, <1>8, AtMoves, MovedPlaces DEF ReadNumber, writerVars, Shape
  <1>9. CASE AddNumber
    <2>1. UNCHANGED <<lab, input, scanned, sent>>
      BY <1>9 DEF AddNumber, writerVars
    <2>2. pc'["writer"] = pc["writer"]
      BY <1>9, AtMoves, MovedPlaces DEF AddNumber, Shape
    <2>3. pipe' = pipe \/ (pipe # <<>> /\ pipe' = Tail(pipe))
      BY <1>9 DEF AddNumber
    <2> QED  BY <1>7, <2>1, <2>2, <2>3
  <1>10. ASSUME NEW value, NEW from, NEW to, Reply(value, from, to)
         PROVE  Flow'
    BY <1>7, <1>10, AtMoves, MovedPlaces DEF Reply, writerVars, Shape
  <1>11. ASSUME NEW field, NEW from \in {"read sum", "read avg"},
                NEW to \in {"read avg", "wait"}, ReadReply(field, from, to)
         PROVE  Flow'
    <2>1. pc["writer"] = from /\ pc'["writer"] = to
      BY <1>11, AtMoves, MovedPlaces DEF ReadReply, Shape
    <2>2. UNCHANGED <<lab, input, scanned, sent, pipe>>
      BY <1>11 DEF ReadReply, writerVars
    <2> QED  BY <2>1, <2>2, FlowFrame DEF Behind
  <1>12. CASE UNCHANGED vars
    BY <1>12, FlowFrame DEF vars, writerVars
  <1>13. CASE Gnuplot
    BY <1>13 DEF Gnuplot
  <1> QED
    BY <1>4, <1>5, <1>6, <1>8, <1>9, <1>10, <1>11, <1>12, <1>13, Steps DEF Skipping
-----------------------------------------------------------------------------
(* lab8_2: what the file holds.                                            *)

LEMMA KeepingInit == Init => Keeping
  BY EmptySeq DEF Init, Keeping

\* Of the rounds that were written, some are taken.
LEMMA FlowNumbers ==
    ASSUME Shape, Flow, lab # "lab8_3"
    PROVE  /\ scanned \in Seq(Values) /\ pipe \in Seq(Int) /\ sent \in Nat
           /\ Len(pipe) \in Nat /\ Len(pipe) <= sent
           /\ sent - Len(pipe) \in Nat /\ sent - Len(pipe) \in 0 .. sent
           /\ Taken \in Seq(Int) /\ Len(Taken) = sent - Len(pipe)
           /\ sent \in 0 .. Len(scanned) /\ Sent = Entries(scanned, sent)
  <1>1. /\ scanned \in Seq(Values) /\ pipe \in Seq(Int) /\ sent \in Nat
        /\ Len(pipe) \in Nat /\ Len(pipe) <= sent /\ sent \in 0 .. Len(scanned)
        /\ Len(scanned) \in Nat
    BY NumberTypes DEF Flow
  <1>2. /\ sent - Len(pipe) \in Nat /\ sent - Len(pipe) \in 0 .. sent
        /\ sent - Len(pipe) \in 0 .. Len(scanned)
    BY <1>1
  <1>3. Taken \in Seq(Int) /\ Len(Taken) = sent - Len(pipe)
    BY <1>1, <1>2, EntriesAre DEF Taken
  <1>4. Sent = Entries(scanned, sent)
    BY <1>1, SentIs
  <1> QED  BY <1>1, <1>2, <1>3, <1>4

\* One number more is taken; a 0 is the last.
LEMMA TakenGrows ==
    ASSUME Shape, Flow, lab # "lab8_3", UNCHANGED <<lab, input, scanned, sent>>,
           pc'["writer"] = pc["writer"], pipe # <<>>, pipe' = Tail(pipe)
    PROVE  /\ Taken' = Append(Taken, Head(pipe))
           /\ Taken \in Seq(Int) /\ Head(pipe) \in Int
           /\ Head(pipe) = scanned[(sent - Len(pipe)) + 1]
           /\ Len(pipe') = Len(pipe) - 1
           /\ Head(pipe) = 0 =>
                  /\ pipe' = <<>> /\ sent > 0 /\ scanned[sent] = 0
                  /\ Len(scanned) = sent /\ pc["writer"] \notin {"scanf", "write"}
  <1> DEFINE n == sent - Len(pipe)
  <1>1. /\ Len(pipe') = Len(pipe) - 1 /\ Len(pipe) > 0
        /\ Head(pipe) = scanned[n + 1]
    BY FlowTake
  <1>2. /\ scanned \in Seq(Values) /\ pipe \in Seq(Int) /\ sent \in Nat
        /\ Len(pipe) \in Nat /\ Len(pipe) <= sent /\ n \in Nat
        /\ Taken \in Seq(Int) /\ sent \in 0 .. Len(scanned)
    BY FlowNumbers
  <1>3. sent' - Len(pipe') = n + 1 /\ n + 1 \in 1 .. sent /\ n + 1 \in Nat \ {0}
    <2>1. sent' = sent /\ Len(pipe') = Len(pipe) - 1
      BY <1>1
    <2>2. /\ sent - (Len(pipe) - 1) = (sent - Len(pipe)) + 1
          /\ (sent - Len(pipe)) + 1 \in 1 .. sent
          /\ (sent - Len(pipe)) + 1 \in Nat \ {0}
      <3>1. \A k \in Nat, m \in Nat : 0 < m /\ m <= k =>
                /\ k - (m - 1) = (k - m) + 1
                /\ (k - m) + 1 \in 1 .. k /\ (k - m) + 1 \in Nat \ {0}
        OBVIOUS
      <3>2. sent \in Nat /\ Len(pipe) \in Nat /\ 0 < Len(pipe) /\ Len(pipe) <= sent
        BY <1>1, <1>2
      <3> QED  BY <3>1, <3>2
    <2> QED  BY <2>1, <2>2
  <1>4. Taken = Entries(scanned, n) /\ Taken' = Entries(scanned, n + 1)
    BY <1>3 DEF Taken
  <1>5. /\ Entries(scanned, n + 1) = Append(Entries(scanned, n), scanned[n + 1])
        /\ scanned[n + 1] \in Int
    <2> HIDE DEF n
    <2>1. n + 1 <= Len(scanned)
      BY <1>2, <1>3, LenProperties
    <2> QED  BY <1>2, <2>1, EntriesAppend
  <1>6. ASSUME Head(pipe) = 0
        PROVE  /\ pipe' = <<>> /\ sent > 0 /\ scanned[sent] = 0
               /\ Len(scanned) = sent /\ pc["writer"] \notin {"scanf", "write"}
    <2>1. /\ n + 1 = sent /\ Len(scanned) = sent
          /\ pc["writer"] \notin {"scanf", "write"}
      BY <1>1, <1>3, <1>6 DEF Flow
    <2>2. Len(pipe') = 0 /\ sent > 0
      BY <1>1, <1>2, <2>1
    <2>3. pipe' \in Seq(Int)
      BY <1>2, HeadTailProperties
    <2> QED  BY <1>1, <1>6, <2>1, <2>2, <2>3, EmptySeq
  <1>7. Taken' = Append(Taken, Head(pipe)) /\ Head(pipe) \in Int
    BY <1>1, <1>4, <1>5
  <1> QED  BY <1>1, <1>2, <1>6, <1>7

LEMMA KeepingStep ==
    ASSUME Shape, Flow, Keeping, [Next]_vars
    PROVE  Keeping'
  <1>1. lab' = lab
    BY Steps DEF vars, Entering, ReadInput, Sending, Send, Skipping, SendNothing, Quiet,
                 ReadNumber, Gnuplot, AddNumber, Reply, ReadReply
  <1> SUFFICES ASSUME lab = "lab8_2" PROVE Keeping'
    BY <1>1 DEF Keeping
  <1>2. /\ scanned \in Seq(Values) /\ pipe \in Seq(Int) /\ sent \in Nat
        /\ Len(pipe) \in Nat /\ Len(pipe) <= sent /\ sent - Len(pipe) \in 0 .. sent
        /\ Sent = Entries(scanned, sent)
    BY FlowNumbers
  <1>3. CASE Entering
    <2>1. /\ UNCHANGED <<lab, sent, pipe, file>> /\ pc["writer"] = "scanf"
          /\ pc'["reader"] = pc["reader"]
      BY <1>3, MovedPlaces DEF Entering, ReadInput, At
    <2>2. \A n \in 0 .. sent : Entries(scanned', n) = Entries(scanned, n)
      BY <1>3, InputKeepsRounds
    <2>3. Taken' = Taken
      BY <1>2, <2>1, <2>2 DEF Taken
    <2> QED  BY <2>1, <2>3 DEF Keeping
  <1>4. CASE Sending
    <2>1. /\ UNCHANGED <<lab, scanned, file>> /\ pc["writer"] = "write"
          /\ pc'["reader"] = pc["reader"]
          /\ pipe' = Append(pipe, input) /\ sent' = sent + 1
      BY <1>4, MovedPlaces DEF Sending, Send, At
    <2>2. Len(pipe') = Len(pipe) + 1
      <3>1. input \in Int
        BY <2>1, InputIsEntry
      <3> QED  BY <1>2, <2>1, <3>1, AppendProperties
    <2>3. Taken' = Taken
      <3>1. sent' - Len(pipe') = sent - Len(pipe)
        BY <1>2, <2>1, <2>2
      <3> QED  BY <2>1, <3>1 DEF Taken
    <2> QED  BY <1>2, <2>1, <2>2, <2>3 DEF Keeping
  <1>5. CASE Quiet
    <2>1. PICK w, r : Moved(w, r) /\ QuietMove(w, r)
      BY <1>5 DEF Quiet
    <2>2. pc'["writer"] = w /\ pc'["reader"] = r
      BY <2>1, MovedPlaces
    <2>3. UNCHANGED <<lab, scanned, sent, pipe, file>> /\ Taken' = Taken /\ Sent' = Sent
      BY <1>5 DEF Quiet, writerVars, Taken, Sent
    <2>4. w \in {"scanf", "write"} => w = pc["writer"]
      BY <2>1 DEF QuietMove
    <2>5. r = "read" /\ pc["reader"] = "start" => file = Positives(Taken)
      <3>1. ASSUME pc["reader"] = "start" PROVE file = Positives(Taken)
        <4>1. file = <<>> /\ sent - Len(pipe) = 0
          BY <1>2, <3>1 DEF Keeping
        <4>2. Taken = <<>>
          BY <1>2, <4>1, EntriesAre, EmptySeq DEF Taken
        <4> QED  BY <4>1, <4>2, TallyParts
      <3> QED  BY <3>1
    <2>6. \/ r = pc["reader"] \/ r \in {"killed", "failed"}
          \/ pc["reader"] = "wait" /\ r = "ended"
          \/ pc["reader"] = "start" /\ r = "read"
      BY <2>1 DEF QuietMove
    <2> QED  BY <2>2, <2>3, <2>4, <2>5, <2>6 DEF Keeping
  <1>6. CASE ReadNumber
    <2>1. /\ pc["reader"] = "read" /\ pc'["writer"] = pc["writer"]
          /\ UNCHANGED <<lab, input, scanned, sent>>
          /\ file = Positives(Taken)
      BY <1>6, AtMoves, MovedPlaces DEF ReadNumber, writerVars, Shape, Keeping
    <2>2. CASE pipe # <<>> /\ pipe' = Tail(pipe)
      <3>2. /\ Taken' = Append(Taken, Head(pipe))
            /\ Taken \in Seq(Int) /\ Head(pipe) \in Int
            /\ Head(pipe) = 0 => pipe' = <<>> /\ pc["writer"] \notin {"scanf", "write"}
        BY <2>1, <2>2, TakenGrows
      <3>3. file' = Positives(Taken')
        <4>1. file' = IF Head(pipe) > 0 THEN Append(file, Head(pipe)) ELSE file
          BY <1>6, <2>2 DEF ReadNumber, EndOfFile
        <4>2. Positives(Taken') = IF Head(pipe) > 0 THEN Append(Positives(Taken), Head(pipe))
                                                    ELSE Positives(Taken)
          BY <3>2, TallyParts
        <4> QED  BY <2>1, <4>1, <4>2
      <3>4. pc'["reader"] = IF Head(pipe) = 0 THEN "wait" ELSE "read"
        BY <1>6, <2>2, AtMoves, MovedPlaces DEF ReadNumber, Shape, IsLast, EndOfFile
      <3>5. Head(pipe) = 0 => pipe' = <<>> /\ Sent' = Taken'
        <4>1. Sent' = Entries(scanned', sent')
          BY <1>2, <2>1 DEF Sent
        <4>2. ASSUME pipe' = <<>> PROVE Sent' = Taken'
          <5>1. Len(pipe') = 0 /\ sent' - 0 = sent'
            BY <1>2, <2>1, <4>2
          <5>2. Taken' = Entries(scanned', sent' - 0)
            BY <5>1 DEF Taken
          <5> QED  BY <4>1, <5>1, <5>2
        <4> QED  BY <3>2, <4>2
      <3> QED  BY <2>1, <3>2, <3>3, <3>4, <3>5 DEF Keeping
    <2>3. CASE EndOfFile /\ UNCHANGED <<pipe, file>> /\ pc'["reader"] = "wait"
      <3>1. pipe = <<>> /\ pc["writer"] \notin {"scanf", "write"}
        BY <2>3 DEF EndOfFile
      <3>2. Sent = Taken
        <4>1. sent - Len(pipe) = sent
          BY <1>2, <3>1
        <4> QED  BY <1>2, <4>1 DEF Taken
      <3>3. Sent' = Sent
        BY <2>1 DEF Sent
      <3> QED  BY <2>1, <2>3, <3>1, <3>2, <3>3 DEF Keeping
    <2> QED
      BY <1>6, <2>2, <2>3, AtMoves, MovedPlaces DEF ReadNumber, Shape
  <1>7. CASE UNCHANGED vars
    BY <1>7 DEF vars, writerVars, Keeping, Taken, Sent
  <1> QED
    BY <1>3, <1>4, <1>5, <1>6, <1>7, Steps DEF Skipping, Gnuplot, AddNumber
-----------------------------------------------------------------------------
(* lab8_5: what the child has added.                                       *)

LEMMA CountingInit == Init => Counting
  <1> SUFFICES ASSUME Init PROVE Counting
    OBVIOUS
  <1>1. /\ scanned = <<>> /\ pipe = <<>> /\ sent = 0 /\ sum = 0 /\ readDataCounter = 0
        /\ readData = -1 /\ pc["reader"] \in {"start", "read"} /\ Len(pipe) = 0
    BY EmptySeq DEF Init
  <1>2. Again = 0 /\ Again * readData = 0
    <2>1. Again = 0 - (0 - 0)
      BY <1>1 DEF Again
    <2>2. Again = 0
      BY <2>1
    <2>3. 0 * (-1) = 0
      OBVIOUS
    <2> QED  BY <1>1, <2>2, <2>3
  <1>3. Taken = <<>>
    BY <1>1 DEF Taken, Entries
  <1>4. Total(Taken) + Again * readData = 0
    BY <1>2, <1>3, TallyParts
  <1>5. Wrap(0) = 0
    BY PipeAssumption DEF Wrap
  <1>6. Summed
    BY <1>1, <1>2, <1>4, <1>5 DEF Summed
  <1>7. sent - Len(pipe) = 0 /\ readData # 0
    <2>1. 0 - 0 = 0 /\ -1 # 0
      OBVIOUS
    <2> QED  BY <1>1, <2>1, Zenon
  <1>8. \A i \in 1 .. sent - Len(pipe) : FALSE
    <2>1. 1 .. 0 = {}
      OBVIOUS
    <2> QED  BY <1>7, <2>1
  <1>9. pc["reader"] \notin {"write sum", "write avg", "ended"}
    BY <1>1
  <1> QED  BY <1>6, <1>7, <1>8, <1>9, Zenon DEF Counting

\* A step that leaves the child's numbers, the pipe and what was written alone.
LEMMA CountingFrame ==
    ASSUME Counting, UNCHANGED <<lab, scanned, sent, pipe, childVars>>,
           \/ pc'["reader"] \in {pc["reader"], "killed"}
           \/ /\ pc["reader"] \in {"write sum", "write avg"}
              /\ pc'["reader"] \in {"write avg", "ended"},
           pc["writer"] = "killed" => pc'["writer"] = "killed"
    PROVE  Counting'
  <1>1. Again' = Again /\ Taken' = Taken /\ Total(scanned') = Total(scanned)
    BY DEF Again, Taken, childVars
  <1>2. Summed => Summed'
    BY <1>1 DEF Summed, childVars
  <1> QED  BY <1>1, <1>2 DEF Counting, childVars

LEMMA CountingStep ==
    ASSUME Shape, Flow, Counting, [Next]_vars
    PROVE  Counting'
  <1>1. lab' = lab
    BY Steps DEF vars, Entering, ReadInput, Sending, Send, Skipping, SendNothing, Quiet,
                 ReadNumber, Gnuplot, AddNumber, Reply, ReadReply
  <1> SUFFICES ASSUME lab = "lab8_5" PROVE Counting'
    BY <1>1 DEF Counting
  <1> DEFINE n == sent - Len(pipe)
  <1>2. /\ scanned \in Seq(Values) /\ pipe \in Seq(Int) /\ sent \in Nat
        /\ Len(pipe) \in Nat /\ Len(pipe) <= sent /\ n \in 0 .. sent
        /\ Taken \in Seq(Int) /\ Total(Taken) \in Int
        /\ readData \in Int /\ sum \in Int /\ readDataCounter \in Nat /\ Again \in Int
    <2>1. readData \in Int /\ sum \in Int /\ readDataCounter \in Nat
      BY PipeAssumption DEF Shape, Int32
    <2>2. /\ scanned \in Seq(Values) /\ pipe \in Seq(Int) /\ sent \in Nat
          /\ Len(pipe) \in Nat /\ Len(pipe) <= sent /\ n \in 0 .. sent
          /\ Taken \in Seq(Int)
      BY FlowNumbers
    <2>3. Again \in Int
      BY <2>1, <2>2 DEF Again
    <2> QED  BY <2>1, <2>2, <2>3, TallyTypes
  <1>3. CASE Entering
    <2>1. /\ UNCHANGED <<lab, sent, pipe, childVars>> /\ pc["writer"] = "scanf"
          /\ pc'["reader"] = pc["reader"]
      BY <1>3, MovedPlaces DEF Entering, ReadInput, At
    <2>2. /\ \A i \in 1 .. sent : scanned'[i] = scanned[i]
          /\ \A m \in 0 .. sent : Entries(scanned', m) = Entries(scanned, m)
      BY <1>3, InputKeepsRounds
    <2>3. Taken' = Taken /\ Again' = Again
      BY <1>2, <2>1, <2>2 DEF Taken, Again, childVars
    <2>4. Summed => Summed'
      BY <2>1, <2>3 DEF Summed, childVars
    <2>5. \A i \in 1 .. n : scanned'[i] = scanned[i]
      BY <1>2, <2>2
    <2>6. pc["reader"] \notin {"write sum", "write avg", "ended"}
      <3>1. ASSUME sent > 0, scanned[sent] = 0 PROVE FALSE
        BY <1>2, <2>1, <3>1 DEF Flow
      <3> QED  BY <3>1 DEF Counting
    <2> QED  BY <2>1, <2>4, <2>5, <2>6 DEF Counting, childVars
  <1>4. CASE Sending
    <2>1. /\ UNCHANGED <<lab, scanned, childVars>> /\ pc["writer"] = "write"
          /\ pc'["reader"] = pc["reader"] /\ pc["reader"] \in {"start", "read", "wait"}
          /\ pipe' = Append(pipe, input) /\ sent' = sent + 1
      BY <1>4, MovedPlaces DEF Sending, Send, At
    <2>2. sent' - Len(pipe') = n
      <3>1. input \in Int
        BY <2>1, InputIsEntry
      <3>2. Len(pipe') = Len(pipe) + 1
        BY <1>2, <2>1, <3>1, AppendProperties
      <3> QED  BY <1>2, <2>1, <3>2
    <2>3. Taken' = Taken /\ Again' = Again
      BY <2>1, <2>2 DEF Taken, Again, childVars
    <2>4. Summed => Summed' /\ Again = 0
      BY <1>2, <2>1, <2>3 DEF Summed, childVars
    <2> QED  BY <2>1, <2>2, <2>4 DEF Counting, childVars
  <1>5. CASE Quiet
    <2>1. PICK w, r : Moved(w, r) /\ QuietMove(w, r)
      BY <1>5 DEF Quiet
    <2>2. pc'["writer"] = w /\ pc'["reader"] = r
      BY <2>1, MovedPlaces
    <2>3. r \in {pc["reader"], "killed"} /\ (pc["writer"] = "killed" => w = "killed")
      BY <2>1 DEF QuietMove, Gone
    <2>4. UNCHANGED <<lab, scanned, sent, pipe, childVars>>
      BY <1>5 DEF Quiet, writerVars
    <2> QED  BY <2>2, <2>3, <2>4, CountingFrame
  <1>6. CASE AddNumber
    <2>1. /\ pc["reader"] = "read" /\ pc'["writer"] = pc["writer"]
          /\ UNCHANGED <<lab, input, scanned, sent>>
      BY <1>6, AtMoves, MovedPlaces DEF AddNumber, writerVars, Shape
    <2>2. /\ readData # 0 /\ Summed
          /\ \A i \in 1 .. n : scanned[i] # 0
      BY <2>1 DEF Counting
    <2>3. \/ /\ readData' = 0 /\ pc'["reader"] = "write sum"
             /\ UNCHANGED <<sum, readDataCounter>>
          \/ /\ readData' # 0 /\ pc'["reader"] = "read"
             /\ sum' = Wrap(sum + readData')
             /\ readDataCounter' = readDataCounter + 1
      BY <1>6, AtMoves, MovedPlaces DEF AddNumber, Shape, IsLast, Added
    <2>4. CASE pipe # <<>> /\ readData' = Head(pipe) /\ pipe' = Tail(pipe)
      <3>1. /\ Taken' = Append(Taken, readData') /\ readData' \in Int
            /\ readData' = scanned[n + 1]
            /\ Len(pipe') = Len(pipe) - 1
            /\ readData' = 0 => /\ pipe' = <<>> /\ sent > 0 /\ scanned[sent] = 0
                                /\ Len(scanned) = sent
        BY <2>1, <2>4, TakenGrows
      <3>2. Again = 0 /\ sum = Wrap(Total(Taken)) /\ readDataCounter = n
        <4>1. Again = 0
          BY <1>2, <2>2, <2>4 DEF Summed
        <4>2. Total(Taken) + Again * readData = Total(Taken)
          BY <1>2, <4>1
        <4>3. readDataCounter = n
          BY <1>2, <4>1 DEF Again
        <4> QED  BY <2>2, <4>1, <4>2, <4>3 DEF Summed
      <3>3. Total(Taken') = Total(Taken) + readData'
        BY <1>2, <3>1, TallyParts
      <3>4. sent' - Len(pipe') = n + 1
        <4>1. sent' = sent
          BY <2>1
        <4>2. sent - (Len(pipe) - 1) = n + 1
          BY <1>2
        <4> QED  BY <3>1, <4>1, <4>2
      <3>5. CASE readData' = 0
        <4>1. pipe' = <<>> /\ sent > 0 /\ scanned[sent] = 0 /\ Len(scanned) = sent
          BY <3>1, <3>5
        <4>2. n + 1 = sent
          <5>1. Len(pipe') = 0 /\ sent' = sent /\ sent - 0 = sent
            BY <1>2, <2>1, <4>1
          <5> QED  BY <3>4, <5>1
        <4>3. scanned = Taken'
          <5>1. scanned = Entries(scanned, sent)
            BY <1>2, <4>1, EntriesAll
          <5> QED  BY <2>1, <3>4, <4>2, <5>1 DEF Taken
        <4>4. sum = Wrap(Total(scanned))
          <5>1. Total(Taken) + readData' = Total(Taken)
            BY <1>2, <3>5
          <5> QED  BY <3>2, <3>3, <4>3, <5>1
        <4>5. readDataCounter = Len(scanned) - 1
          BY <1>2, <3>2, <4>1, <4>2
        <4> QED  BY <1>1, <2>1, <2>3, <3>5, <4>1, <4>4, <4>5 DEF Counting
      <3>6. CASE readData' # 0
        <4>1. Again' = 0
          <5>1. readDataCounter' = n + 1
            BY <2>3, <3>2, <3>6
          <5>2. Again' = (n + 1) - (n + 1)
            BY <3>4, <5>1 DEF Again
          <5> HIDE DEF n
          <5> QED  BY <1>2, <5>2
        <4>2. sum' = Wrap(Total(Taken') + Again' * readData')
          <5>1. sum' = Wrap(Wrap(Total(Taken)) + readData')
            BY <2>3, <3>2, <3>6
          <5>2. sum' = Wrap(Total(Taken) + readData')
            BY <1>2, <3>1, <5>1, WrapAdds
          <5>3. Total(Taken') + Again' * readData' = Total(Taken) + readData'
            BY <1>2, <3>1, <3>3, <4>1
          <5> QED  BY <5>2, <5>3
        <4>3. \A i \in 1 .. sent' - Len(pipe') : scanned'[i] # 0
          BY <1>2, <2>1, <2>2, <3>1, <3>4, <3>6
        <4>4. Summed'
          BY <4>1, <4>2 DEF Summed
        <4>5. pc'["reader"] = "read" /\ readData' # 0
          BY <2>3, <3>6
        <4> QED  BY <4>3, <4>4, <4>5 DEF Counting
      <3> QED  BY <3>5, <3>6
    <2>5. CASE EndOfFile /\ UNCHANGED <<readData, pipe>>
      <3>1. pipe = <<>> /\ n = sent /\ pc["writer"] \notin {"scanf", "write", "close"}
        <4>1. pipe = <<>> /\ Len(pipe) = 0
          BY <2>5 DEF EndOfFile
        <4> QED  BY <1>2, <2>5, <4>1 DEF EndOfFile
      <3>2. pc["writer"] = "killed"
        <4>1. ASSUME pc["writer"] \in Behind PROVE FALSE
          <5>1. sent > 0 /\ scanned[sent] = 0
            BY <4>1 DEF Flow, Behind
          <5>2. sent \in 1 .. n
            BY <1>2, <3>1, <5>1
          <5> QED  BY <2>2, <5>1, <5>2
        <4> QED  BY <3>1, <4>1 DEF Shape, Places, Behind
      <3>3. /\ readData' = readData /\ readData' # 0 /\ pc'["reader"] = "read"
            /\ sum' = Wrap(sum + readData) /\ readDataCounter' = readDataCounter + 1
        BY <2>2, <2>3, <2>5
      <3>4. Taken' = Taken /\ Again' = Again + 1
        <4>1. sent' - Len(pipe') = n
          BY <2>1, <2>5
        <4>2. Taken' = Taken
          BY <2>1, <4>1 DEF Taken
        <4>3. Again' = (readDataCounter + 1) - n
          BY <3>3, <4>1 DEF Again
        <4>4. (readDataCounter + 1) - n = (readDataCounter - n) + 1
          <5> HIDE DEF n
          <5> QED  BY <1>2
        <4> QED  BY <4>2, <4>3, <4>4 DEF Again
      <3>5. sum' = Wrap(Total(Taken') + Again' * readData')
        <4> DEFINE t == Total(Taken)
                   m == Again * readData
        <4>1. t \in Int /\ m \in Int /\ sum = Wrap(t + m)
          BY <1>2, <2>2 DEF Summed
        <4>2. (Again + 1) * readData = m + readData
          BY <1>2
        <4>3. sum' = Wrap(Wrap(t + m) + readData)
          BY <3>3, <4>1
        <4>4. sum' = Wrap((t + m) + readData)
          <5> HIDE DEF t, m
          <5>1. t + m \in Int
            BY <4>1
          <5> QED  BY <1>2, <4>3, <5>1, WrapAdds
        <4>5. (t + m) + readData = t + (m + readData)
          <5> HIDE DEF t, m
          <5> QED  BY <1>2, <4>1
        <4> QED  BY <3>3, <3>4, <4>2, <4>4, <4>5
      <3>6. Again' >= 0
        BY <1>2, <2>2, <3>4 DEF Summed
      <3>7. \A i \in 1 .. sent' - Len(pipe') : scanned'[i] # 0
        BY <2>1, <2>2, <2>5
      <3> QED
        BY <2>1, <2>5, <3>1, <3>2, <3>3, <3>5, <3>6, <3>7 DEF Counting, Summed
    <2> QED  BY <1>6, <2>4, <2>5 DEF AddNumber
  <1>7. ASSUME NEW value, NEW from \in {"write sum", "write avg"},
               NEW to \in {"write avg", "ended"}, Reply(value, from, to)
        PROVE  Counting'
    <2>1. /\ pc["reader"] = from /\ pc'["reader"] \in {to, "killed"}
          /\ pc'["writer"] = pc["writer"]
      BY <1>7, AtMoves, MovedPlaces DEF Reply, Shape
    <2>2. UNCHANGED <<lab, scanned, sent, pipe, childVars>>
      BY <1>7 DEF Reply, writerVars
    <2> QED  BY <2>1, <2>2, CountingFrame
  <1>8. ASSUME NEW field, NEW from \in {"read sum", "read avg"}, NEW to,
               ReadReply(field, from, to)
        PROVE  Counting'
    <2>1. pc["writer"] = from /\ pc'["reader"] = pc["reader"]
      BY <1>8, AtMoves, MovedPlaces DEF ReadReply, Shape
    <2>2. UNCHANGED <<lab, scanned, sent, pipe, childVars>>
      BY <1>8 DEF ReadReply, writerVars
    <2> QED  BY <2>1, <2>2, CountingFrame
  <1>9. CASE UNCHANGED vars
    BY <1>9, CountingFrame DEF vars, writerVars
  <1> QED
    BY <1>3, <1>4, <1>5, <1>6, <1>7, <1>8, <1>9, Steps DEF Skipping, Gnuplot, ReadNumber
-----------------------------------------------------------------------------
(* lab8_5: what the child answers.                                         *)

LEMMA ShortSequences ==
    ASSUME NEW x, NEW y
    PROVE  /\ Head(<<x>>) = x /\ Tail(<<x>>) = <<>>
           /\ Head(<<x, y>>) = x /\ Tail(<<x, y>>) = <<y>>
           /\ Append(<<>>, x) = <<x>> /\ Append(<<x>>, y) = <<x, y>>
           /\ Len(<<>>) = 0 /\ Len(<<x>>) = 1 /\ Len(<<x, y>>) = 2
           /\ <<x>> # <<>> /\ <<x, y>> # <<>>
  <1> DEFINE S == {x, y}
             s == <<x>>
             a == Append(s, y)
             b == <<x, y>>
  <1>1. s \in Seq(S) /\ y \in S
    OBVIOUS
  <1>2. /\ b \in Seq(S) /\ Len(s) = 1 /\ Len(b) = 2 /\ s[1] = x /\ b[1] = x /\ b[2] = y
        /\ Len(s) + 1 = 2 /\ 1 \in 1 .. Len(s)
    OBVIOUS
  <1>3. Append(<<x>>, y) = <<x, y>>
    <2> HIDE DEF S, s, b
    <2>1. /\ a \in Seq(S) /\ Len(a) = Len(s) + 1
          /\ \A i \in 1 .. Len(s) : a[i] = s[i]
          /\ a[Len(s) + 1] = y
      BY <1>1, AppendProperties
    <2> HIDE DEF a
    <2>2. Len(a) = 2 /\ a[1] = x /\ a[2] = y
      BY <1>2, <2>1
    <2>3. \A i \in 1 .. 2 : a[i] = b[i]
      BY <1>2, <2>2
    <2>4. a = b
      BY <1>2, <2>1, <2>2, <2>3, SeqEqual
    <2> QED  BY <2>4 DEF a, b, s
  <1>4. /\ Head(<<x>>) = x /\ Tail(<<x>>) = <<>>
        /\ Head(<<x, y>>) = x /\ Tail(<<x, y>>) = <<y>>
        /\ Append(<<>>, x) = <<x>>
        /\ Len(<<>>) = 0 /\ Len(<<x>>) = 1 /\ Len(<<x, y>>) = 2
        /\ <<x>> # <<>> /\ <<x, y>> # <<>>
    OBVIOUS
  <1> QED  BY <1>3, <1>4

LEMMA AnswersInit == Init => Answers
  <1> SUFFICES ASSUME Init PROVE Answers
    OBVIOUS
  <1>1. /\ replies = <<>> /\ got = [sum |-> 0, avg |-> Garbage]
        /\ pc["writer"] = "scanf" /\ pc["reader"] \in {"start", "read"}
        /\ lab = "lab8_5" => pc["reader"] = "read"
    BY DEF Init
  <1>2. 0 \in Int32 /\ got.sum = 0
    BY <1>1, PipeAssumption DEF Int32
  <1>3. Len(replies) <= 2
    BY <1>1, ShortSequences
  <1>4. FewReplies
    BY <1>1, <1>2, <1>3 DEF FewReplies
  <1>5. lab = "lab8_5" => NothingRead
    BY <1>1 DEF NothingRead
  <1>6. SumRead /\ BothRead
    BY <1>1 DEF SumRead, BothRead
  <1> QED  BY <1>1, <1>2, <1>4, <1>5, <1>6 DEF Answers

\* A process that is killed, or has got past the parts that speak of its place,
\* makes no part false.
LEMMA AnswersFrame ==
    ASSUME FewReplies, NothingRead, SumRead, BothRead,
           UNCHANGED <<lab, replies, got, Answer, Mean>>,
           NEW w, NEW r, pc'["writer"] = w, pc'["reader"] = r,
           \/ w = pc["writer"] \/ w = "killed"
           \/ pc["writer"] = "close" /\ w = "read sum"
           \/ pc["writer"] = "wait" /\ w = "ended",
           r = pc["reader"] \/ r = "killed"
    PROVE  FewReplies' /\ NothingRead' /\ SumRead' /\ BothRead'
  <1>1. FewReplies'
    BY DEF FewReplies
  <1>2. NothingRead'
    BY DEF NothingRead
  <1>3. SumRead'
    BY DEF SumRead
  <1>4. BothRead'
    BY DEF BothRead
  <1> QED  BY <1>1, <1>2, <1>3, <1>4

LEMMA AnswersStep ==
    ASSUME Shape, Flow, Counting, Answers, [Next]_vars
    PROVE  Answers'
  <1>1. lab' = lab
    BY Steps DEF vars, Entering, ReadInput, Sending, Send, Skipping, SendNothing, Quiet,
                 ReadNumber, Gnuplot, AddNumber, Reply, ReadReply
  <1>2. CASE lab # "lab8_5"
    <2>1. UNCHANGED replyVars
      BY <1>2, Steps DEF vars, Entering, ReadInput, Sending, Send, Skipping, SendNothing,
                         Quiet, ReadNumber, Gnuplot, AddNumber
    <2> QED  BY <1>1, <1>2, <2>1 DEF Answers, replyVars
  <1> SUFFICES ASSUME lab = "lab8_5"
               PROVE  FewReplies' /\ NothingRead' /\ SumRead' /\ BothRead'
    BY <1>1, <1>2 DEF Answers
  <1> DEFINE W == pc["writer"]
             R == pc["reader"]
  <1>3. FewReplies /\ NothingRead /\ SumRead /\ BothRead
    BY DEF Answers
  <1>4. Answer \in Int32 /\ 0 \in Int32 /\ got = [sum |-> got.sum, avg |-> got.avg]
    <2>1. Total(scanned) \in Int
      BY NumberTypes, TallyTypes
    <2>2. Answer \in Int32
      BY <2>1, WrapAdds DEF Answer
    <2> QED  BY <2>2, PipeAssumption DEF Int32, Shape
  <1>5. UNCHANGED scanned => UNCHANGED <<Answer, Mean>>
    BY DEF Answer, Mean
  <1>6. CASE Entering
    <2>1. /\ UNCHANGED <<replies, got>> /\ W = "scanf" /\ W' = "write" /\ R' = R
      BY <1>6, MovedPlaces DEF Entering, ReadInput, At, replyVars
    <2>2. /\ replies = <<>> /\ R \in {"read", "write sum", "killed"}
          /\ got = [sum |-> 0, avg |-> Garbage]
      BY <1>3, <2>1, ShortSequences DEF NothingRead
    <2>3. FewReplies'
      BY <1>3, <2>1 DEF FewReplies
    <2>4. NothingRead'
      BY <2>1, <2>2 DEF NothingRead
    <2>5. SumRead' /\ BothRead'
      BY <2>1 DEF SumRead, BothRead
    <2> QED  BY <2>3, <2>4, <2>5
  <1>7. CASE Sending
    <2>1. /\ UNCHANGED <<replies, got, Answer, Mean>> /\ W = "write"
          /\ W' \in {"scanf", "close"} /\ R' = R
      BY <1>5, <1>7, MovedPlaces DEF Sending, Send, At, replyVars
    <2>2. FewReplies'
      BY <1>3, <2>1 DEF FewReplies
    <2>3. NothingRead'
      BY <1>3, <2>1 DEF NothingRead
    <2>4. SumRead' /\ BothRead'
      BY <2>1 DEF SumRead, BothRead
    <2> QED  BY <2>2, <2>3, <2>4
  <1>8. CASE Quiet
    <2>1. PICK w, r : Moved(w, r) /\ QuietMove(w, r)
      BY <1>8 DEF Quiet
    <2>2. W' = w /\ R' = r
      BY <2>1, MovedPlaces
    <2>3. UNCHANGED <<lab, replies, got, Answer, Mean>>
      BY <1>5, <1>8 DEF Quiet, writerVars, replyVars
    <2>4. /\ \/ w = W \/ w = "killed"
             \/ W = "close" /\ w = "read sum"
             \/ W = "wait" /\ w = "ended"
          /\ r = R \/ r = "killed"
      BY <2>1 DEF QuietMove, Gone
    <2> QED  BY <1>3, <2>2, <2>3, <2>4, AnswersFrame
  <1>9. CASE AddNumber
    <2>1. R = "read" /\ R' \in {"read", "write sum"} /\ W' = W
      BY <1>9, AtMoves, MovedPlaces DEF AddNumber, Shape
    <2>2. UNCHANGED <<replies, got, Answer, Mean>> /\ replies = <<>>
      BY <1>3, <1>5, <1>9, <2>1 DEF AddNumber, writerVars, replyVars, FewReplies
    <2>3. FewReplies'
      BY <1>3, <2>1, <2>2 DEF FewReplies
    <2>4. NothingRead'
      BY <1>3, <2>1, <2>2 DEF NothingRead
    <2>5. SumRead' /\ BothRead'
      BY <1>3, <2>1 DEF SumRead, BothRead
    <2> QED  BY <2>3, <2>4, <2>5
  <1>10. ASSUME R \in {"write sum", "write avg"}
         PROVE  W \notin {"scanf", "write"} /\ sum = Answer /\ readDataCounter = Len(scanned) - 1
    <2>1. sent > 0 /\ scanned[sent] = 0
      BY <1>10 DEF Counting
    <2>2. sent \in 1 .. sent
      BY <2>1, NumberTypes
    <2> QED  BY <1>10, <2>1, <2>2 DEF Counting, Flow, Answer
  <1>11. ASSUME NEW value, NEW from \in {"write sum", "write avg"}, NEW to,
                Reply(value, from, to)
         PROVE  /\ R = from /\ W' = W /\ UNCHANGED <<lab, got, Answer, Mean>>
                /\ \/ /\ W \in {"close", "read sum", "read avg"}
                      /\ R' = to /\ replies' = Append(replies, value)
                   \/ R' = "killed" /\ UNCHANGED replies
    <2>1. R = from /\ W' = W /\ UNCHANGED <<lab, got, Answer, Mean>>
      BY <1>5, <1>11, AtMoves, MovedPlaces DEF Reply, writerVars, Shape
    <2>2. CASE Gone("writer")
      BY <1>11, <2>1, <2>2, AtMoves, MovedPlaces DEF Reply, Shape
    <2>3. CASE ~Gone("writer")
      <3>1. R' = to /\ replies' = Append(replies, value)
        BY <1>11, <2>3, AtMoves, MovedPlaces DEF Reply, Shape
      <3>2. W \notin {"scanf", "write", "wait"}
        BY <1>3, <1>10, <2>1 DEF BothRead
      <3>3. W \in {"close", "read sum", "read avg"}
        BY <2>3, <3>2 DEF Gone, Shape, Places
      <3> QED  BY <2>1, <3>1, <3>3
    <2> QED  BY <2>2, <2>3
  <1>12. CASE Reply(sum, "write sum", "write avg")
    <2>1. /\ R = "write sum" /\ W' = W /\ UNCHANGED <<lab, got, Answer, Mean>>
          /\ \/ /\ W \in {"close", "read sum", "read avg"}
                /\ R' = "write avg" /\ replies' = Append(replies, sum)
             \/ R' = "killed" /\ UNCHANGED replies
      BY <1>11, <1>12
    <2>2. CASE R' = "killed" /\ UNCHANGED replies
      BY <1>3, <2>1, <2>2, AnswersFrame
    <2>3. CASE /\ W \in {"close", "read sum", "read avg"}
               /\ R' = "write avg" /\ replies' = Append(replies, sum)
      <3>1. W # "read avg"
        BY <1>3, <2>1 DEF SumRead
      <3>2. replies = <<>> /\ sum = Answer
        BY <1>3, <1>10, <2>1 DEF FewReplies
      <3>3. replies' = <<Answer>> /\ Len(<<Answer>>) = 1
        BY <2>3, <3>2, ShortSequences
      <3>4. FewReplies'
        <4>1. Len(replies') <= 1 /\ Len(replies') <= 2
          BY <3>3
        <4> QED  BY <1>3, <2>1, <2>3, <4>1 DEF FewReplies
      <3>5. NothingRead'
        BY <1>3, <2>1, <2>3, <3>1, <3>3 DEF NothingRead
      <3>6. SumRead' /\ BothRead'
        BY <2>1, <2>3, <3>1 DEF SumRead, BothRead
      <3> QED  BY <3>4, <3>5, <3>6
    <2> QED  BY <2>1, <2>2, <2>3
  <1>13. CASE Reply(Average(sum, readDataCounter), "write avg", "ended")
    <2>1. /\ R = "write avg" /\ W' = W /\ UNCHANGED <<lab, got, Answer, Mean>>
          /\ \/ /\ W \in {"close", "read sum", "read avg"} /\ R' = "ended"
                /\ replies' = Append(replies, Average(sum, readDataCounter))
             \/ R' = "killed" /\ UNCHANGED replies
      BY <1>11, <1>13
    <2>2. CASE R' = "killed" /\ UNCHANGED replies
      BY <1>3, <2>1, <2>2, AnswersFrame
    <2>3. CASE /\ W \in {"close", "read sum", "read avg"} /\ R' = "ended"
               /\ replies' = Append(replies, Average(sum, readDataCounter))
      <3>1. replies' = Append(replies, Mean)
        BY <1>10, <2>1, <2>3 DEF Mean
      <3>2. CASE W \in {"close", "read sum"}
        <4>1. replies = <<Answer>> /\ got = [sum |-> 0, avg |-> Garbage]
          BY <1>3, <2>1, <3>2 DEF NothingRead
        <4>2. replies' = <<Answer, Mean>> /\ Len(<<Answer, Mean>>) = 2
          BY <3>1, <4>1, ShortSequences
        <4>3. FewReplies'
          <5>1. Len(replies') <= 2
            BY <4>2
          <5> QED  BY <1>3, <2>1, <2>3, <5>1 DEF FewReplies
        <4>4. NothingRead'
          BY <2>1, <2>3, <3>2, <4>1, <4>2 DEF NothingRead
        <4>5. SumRead' /\ BothRead'
          BY <2>1, <3>2 DEF SumRead, BothRead
        <4> QED  BY <4>3, <4>4, <4>5
      <3>3. CASE W = "read avg"
        <4>1. replies = <<>> /\ got.sum = Answer /\ got.avg = Garbage
          BY <1>3, <2>1, <3>3 DEF SumRead
        <4>2. replies' = <<Mean>> /\ Len(<<Mean>>) = 1
          BY <3>1, <4>1, ShortSequences
        <4>3. FewReplies'
          <5>1. Len(replies') <= 2
            BY <4>2
          <5> QED  BY <1>3, <2>1, <2>3, <5>1 DEF FewReplies
        <4>4. SumRead'
          BY <2>1, <2>3, <3>3, <4>1, <4>2 DEF SumRead
        <4>5. NothingRead' /\ BothRead'
          BY <2>1, <3>3 DEF NothingRead, BothRead
        <4> QED  BY <4>3, <4>4, <4>5
      <3> QED  BY <2>3, <3>2, <3>3
    <2> QED  BY <2>1, <2>2, <2>3
  <1>14. ASSUME NEW field \in {"sum", "avg"}, NEW from, NEW to, ReadReply(field, from, to)
         PROVE  /\ W = from /\ W' = to /\ R' = R /\ UNCHANGED <<lab, Answer, Mean>>
                /\ \/ /\ replies # <<>> /\ got' = [got EXCEPT ![field] = Head(replies)]
                      /\ replies' = Tail(replies)
                   \/ replies = <<>> /\ Gone("reader") /\ UNCHANGED <<replies, got>>
    BY <1>5, <1>14, AtMoves, MovedPlaces DEF ReadReply, writerVars, replyVars, Shape
  <1>15. ASSUME NEW v, v \in {0, Answer}, got'.sum = v, R' = R,
                \/ replies' = <<>>
                \/ R \in {"ended", "killed"} /\ replies' = <<Mean>>
         PROVE  FewReplies'
    <2>1. Len(replies') <= 1 /\ Len(replies') <= 2
      <3>1. Len(<<>>) = 0 /\ Len(<<Mean>>) = 1
        BY ShortSequences
      <3>2. replies' = <<>> \/ replies' = <<Mean>>
        BY <1>15
      <3>3. CASE replies' = <<>>
        BY <3>1, <3>3
      <3>4. CASE replies' = <<Mean>>
        BY <3>1, <3>4
      <3> QED  BY <3>2, <3>3, <3>4
    <2> QED  BY <1>4, <1>15, <2>1 DEF FewReplies
  <1>16. CASE ReadReply("sum", "read sum", "read avg")
    <2>1. /\ W = "read sum" /\ W' = "read avg" /\ R' = R
          /\ UNCHANGED <<lab, Answer, Mean>>
          /\ \/ /\ replies # <<>> /\ got' = [got EXCEPT !["sum"] = Head(replies)]
                /\ replies' = Tail(replies)
             \/ replies = <<>> /\ Gone("reader") /\ UNCHANGED <<replies, got>>
      BY <1>14, <1>16
    <2>2. /\ got = [sum |-> 0, avg |-> Garbage]
          /\ \/ replies = <<>> /\ R \in {"read", "write sum", "killed"}
             \/ replies = <<Answer>> /\ R \in {"write avg", "killed"}
             \/ replies = <<Answer, Mean>> /\ R \in {"ended", "killed"}
      BY <1>3, <2>1 DEF NothingRead
    <2>3. /\ got'.avg = Garbage
          /\ \/ got'.sum = Answer /\ replies' = <<>> /\ R \in {"write avg", "killed"}
             \/ got'.sum = Answer /\ replies' = <<Mean>> /\ R \in {"ended", "killed"}
             \/ got'.sum = 0 /\ replies' = <<>> /\ R = "killed"
      <3>1. CASE replies = <<>> /\ R \in {"read", "write sum", "killed"}
        <4>1. replies' = <<>> /\ got' = got /\ Gone("reader")
          BY <2>1, <3>1
        <4>2. R = "killed"
          BY <3>1, <4>1 DEF Gone
        <4>3. got.sum = 0 /\ got.avg = Garbage
          BY <2>2, Zenon
        <4> QED  BY <4>1, <4>2, <4>3
      <3>2. CASE replies = <<Answer>> /\ R \in {"write avg", "killed"}
        <4>1. Head(replies) = Answer /\ Tail(replies) = <<>> /\ replies # <<>>
          BY <3>2, ShortSequences
        <4> QED  BY <2>1, <2>2, <3>2, <4>1
      <3>3. CASE replies = <<Answer, Mean>> /\ R \in {"ended", "killed"}
        <4>1. Head(replies) = Answer /\ Tail(replies) = <<Mean>> /\ replies # <<>>
          <5>1. /\ Head(<<Answer, Mean>>) = Answer /\ Tail(<<Answer, Mean>>) = <<Mean>>
                /\ <<Answer, Mean>> # <<>>
            BY ShortSequences
          <5> QED  BY <3>3, <5>1, Zenon
        <4> QED  BY <2>1, <2>2, <3>3, <4>1
      <3> QED  BY <2>2, <3>1, <3>2, <3>3
    <2>4. SumRead'
      BY <2>1, <2>3 DEF SumRead
    <2>5. FewReplies'
      BY <1>15, <2>1, <2>3
    <2>6. NothingRead' /\ BothRead'
      BY <2>1 DEF NothingRead, BothRead
    <2> QED  BY <2>4, <2>5, <2>6
  <1>17. CASE ReadReply("avg", "read avg", "wait")
    <2>1. /\ W = "read avg" /\ W' = "wait" /\ R' = R
          /\ UNCHANGED <<lab, Answer, Mean>>
          /\ \/ /\ replies # <<>> /\ got' = [got EXCEPT !["avg"] = Head(replies)]
                /\ replies' = Tail(replies)
             \/ replies = <<>> /\ Gone("reader") /\ UNCHANGED <<replies, got>>
      BY <1>14, <1>17
    <2>2. /\ got.avg = Garbage
          /\ \/ got.sum = Answer /\ replies = <<>> /\ R \in {"write avg", "killed"}
             \/ got.sum = Answer /\ replies = <<Mean>> /\ R \in {"ended", "killed"}
             \/ got.sum = 0 /\ replies = <<>> /\ R = "killed"
      BY <1>3, <2>1 DEF SumRead
    <2>3. /\ R \in {"ended", "killed"} /\ replies' = <<>>
          /\ got'.sum = Answer \/ (got'.sum = 0 /\ R = "killed")
          /\ got'.avg = Mean \/ (got'.avg = Garbage /\ R = "killed")
      <3>1. CASE replies = <<>>
        BY <2>1, <2>2, <3>1 DEF Gone
      <3>2. CASE got.sum = Answer /\ replies = <<Mean>> /\ R \in {"ended", "killed"}
        <4>1. Head(replies) = Mean /\ Tail(replies) = <<>> /\ replies # <<>>
          BY <3>2, ShortSequences
        <4> QED  BY <1>4, <2>1, <3>2, <4>1
      <3> QED  BY <2>2, <3>1, <3>2
    <2>4. BothRead'
      BY <2>1, <2>3 DEF BothRead
    <2>5. FewReplies'
      BY <1>15, <2>1, <2>3
    <2>6. NothingRead' /\ SumRead'
      BY <2>1 DEF NothingRead, SumRead
    <2> QED  BY <2>4, <2>5, <2>6
  <1>18. CASE UNCHANGED vars
    <2>1. UNCHANGED <<lab, pc, replies, got, Answer, Mean>>
      BY <1>5, <1>18 DEF vars, writerVars, replyVars
    <2> QED  BY <1>3, <2>1, AnswersFrame
  <1> QED
    BY <1>6, <1>7, <1>8, <1>9, <1>12, <1>13, <1>16, <1>17, <1>18, Steps
    DEF Skipping, Gnuplot, ReadNumber
-----------------------------------------------------------------------------
(* The theorems.                                                           *)

\* The invariant holds in every reachable state of every lab.
THEOREM Invariance == Spec => []IInv
  <1>1. Init => IInv
    BY ShapeInit, FlowInit, KeepingInit, CountingInit, AnswersInit DEF IInv
  <1>2. IInv /\ [Next]_vars => IInv'
    BY ShapeStep, FlowStep, KeepingStep, CountingStep, AnswersStep DEF IInv
  <1> QED  BY <1>1, <1>2, PTL DEF Spec

\* Every variable has its type; in particular the sum stays an int, and a pipe
\* never holds more than its capacity (lab8_2.c, lab8_3.c, lab8_5.c).
THEOREM TypeCorrect == Spec => []TypeOK
  <1>1. IInv => TypeOK
    <2> SUFFICES ASSUME IInv PROVE TypeOK
      OBVIOUS
    <2>1. Shape /\ Answers
      BY DEF IInv
    <2>2. pc \in [{"writer", "reader"} ->
                     {"start", "scanf", "read", "write", "close", "read sum",
                      "read avg", "write sum", "write avg", "wait",
                      "ended", "failed", "killed"}]
      <3>1. /\ pc["writer"] \in {"scanf", "write", "close", "read sum", "read avg",
                                 "wait", "ended", "killed"}
            /\ pc["reader"] \in {"start", "read", "write sum", "write avg", "wait",
                                 "ended", "failed", "killed"}
            /\ pc = [writer |-> pc["writer"], reader |-> pc["reader"]]
        BY <2>1 DEF Shape, Places
      <3> QED  BY <3>1
    <2>3. /\ input \in Held /\ \A i \in DOMAIN scanned : scanned[i] \in Held
          /\ sent <= Len(scanned)
      <3>1. scanned \in Seq(Held) /\ Len(scanned) \in {sent, sent + 1} /\ sent \in Int
        BY <2>1, PipeAssumption DEF Shape
      <3>2. DOMAIN scanned = 1 .. Len(scanned) /\ sent <= Len(scanned)
        BY <3>1, LenProperties
      <3> QED  BY <2>1, <3>1, <3>2, ElementOfSeq DEF Shape
    <2>4. \A i \in DOMAIN file : file[i] \in Numbers
      BY <2>1, LenProperties, ElementOfSeq DEF Shape
    <2>5. got.sum \in Int32 /\ Len(replies) <= 2
      <3>1. 0 \in Int32
        BY PipeAssumption DEF Int32
      <3>2. Len(<<>>) = 0
        BY EmptySeq
      <3>3. CASE lab = "lab8_5"
        BY <2>1, <3>3 DEF Answers, FewReplies
      <3>4. CASE lab # "lab8_5"
        BY <2>1, <3>1, <3>2, <3>4 DEF Answers
      <3> QED  BY <3>3, <3>4
    <2> QED  BY <2>1, <2>2, <2>3, <2>4, <2>5 DEF TypeOK, Shape
  <1> QED  BY <1>1, Invariance, PTL

\* lab8_2: no positive number that was sent is lost, doubled or moved on its way
\* to the file, whatever the pipe holds and whoever is killed; what is sent is
\* each number entered, once more for every scanf that finds none
\* (lab8_2.c:42-52, 66-80).
THEOREM NumbersReachTheFile == Spec => []FileHoldsWhatWasSent
  <1>1. IInv => FileHoldsWhatWasSent
    <2> SUFFICES ASSUME IInv, lab = "lab8_2" PROVE FileHoldsWhatWasSent
      BY DEF FileHoldsWhatWasSent
    <2>1. Shape /\ Flow /\ Keeping
      BY DEF IInv
    <2>2. /\ scanned \in Seq(Values) /\ pipe \in Seq(Int) /\ sent \in Nat
          /\ Len(pipe) <= sent /\ Taken \in Seq(Int)
          /\ Sent = Entries(scanned, sent)
      BY <2>1, FlowNumbers
    <2>3. Sent = Taken \o pipe
      <3>1. \A i \in 1 .. Len(pipe) : pipe[i] = scanned[sent - Len(pipe) + i]
        BY <2>1 DEF Flow
      <3>2. pipe \in Seq(Int) /\ sent \in 0 .. Len(scanned)
        BY <2>1, FlowNumbers
      <3> QED  BY <2>2, <3>1, <3>2, EntriesSplit DEF Taken
    <2>4. Positives(Sent) = Positives(Taken) \o Positives(pipe)
      BY <2>2, <2>3, PositivesConcat
    <2> QED  BY <2>1, <2>4 DEF Keeping, FileHoldsWhatWasSent
  <1> QED  BY <1>1, Invariance, PTL

\* lab8_5: while the child reads, its sum is that of the numbers it has taken,
\* each added once, in the arithmetic of the build (lab8_5.c:91-104).
THEOREM NothingAddedTwice == Spec => []EachAddedOnce
  <1>1. IInv => EachAddedOnce
    <2> SUFFICES ASSUME IInv, lab = "lab8_5", pc["reader"] = "read"
                 PROVE  EachAddedOnce
      BY DEF EachAddedOnce
    <2>1. Shape /\ Flow /\ Summed
      BY DEF IInv, Counting
    <2>2. /\ scanned \in Seq(Values) /\ sent \in Nat /\ sent - Len(pipe) \in 0 .. sent
          /\ Len(Taken) = sent - Len(pipe)
          /\ sent \in 0 .. Len(scanned) /\ Sent = Entries(scanned, sent)
      BY <2>1, FlowNumbers
    <2>3. SubSeq(Sent, 1, sent - Len(pipe)) = Taken
      BY <2>2, EntriesFirst DEF Taken
    <2>4. readDataCounter - Len(Taken) = Again
      BY <2>2 DEF Again
    <2> QED  BY <2>1, <2>3, <2>4 DEF Summed, EachAddedOnce
  <1> QED  BY <1>1, Invariance, PTL

\* lab8_5: the parent prints the sum and the average of the numbers it has sent,
\* unless its child was killed (lab8_5.c:67-81).
THEOREM ReportedIsTrue == Spec => []ReportIsTrue
  <1>1. IInv => ReportIsTrue
    BY DEF IInv, Answers, BothRead, Answer, Mean, ReportIsTrue
  <1> QED  BY <1>1, Invariance, PTL
=============================================================================
