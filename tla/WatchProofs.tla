----------------------------- MODULE WatchProofs -----------------------------
(***************************************************************************)
(* Theorems about watch streams, for all blocks, every number of them and  *)
(* every way the network cuts their text.                                  *)
(***************************************************************************)
EXTENDS WatchInvariants, SequenceTheorems, WellFoundedInduction, TLAPS

-----------------------------------------------------------------------------
(* Numbers and recursive functions.                                        *)

\* A set of natural numbers has a least element.
LEMMA Least ==
  ASSUME NEW S \in SUBSET Nat, S # {}
  PROVE  \E x \in S : \A y \in S : x <= y
<1> DEFINE R == {ss \in Nat \X Nat : ss[1] < ss[2]}
<1>1. IsWellFoundedOn(R, Nat)
  BY NatLessThanWellFounded DEF OpToRel
<1>2. \E x \in S : \A y \in S : <<y, x>> \notin R
  <2> HIDE DEF R
  <2> QED BY <1>1, WFMin
<1>3. ASSUME NEW x \in S, NEW y \in S, <<y, x>> \notin R
      PROVE  x <= y
  <2>1. <<y, x>> \in Nat \X Nat /\ <<y, x>>[1] = y /\ <<y, x>>[2] = x
    OBVIOUS
  <2>2. ~(y < x)
    BY <2>1, <1>3
  <2> QED BY <2>2
<1> QED
  BY <1>2, <1>3

\* What holds at 0, and at i + 1 if it holds at i, holds up to n.
LEMMA Upwards ==
  ASSUME NEW n \in Nat, NEW S, 0 \in S,
         \A i \in 0 .. n : i < n /\ i \in S => i + 1 \in S
  PROVE  \A i \in 0 .. n : i \in S
<1> DEFINE Bad == {i \in 0 .. n : i \notin S}
<1> SUFFICES ASSUME Bad # {}
             PROVE  FALSE
  OBVIOUS
<1>1. PICK i \in Bad : \A j \in Bad : i <= j
  <2>1. Bad \in SUBSET Nat
    OBVIOUS
  <2> HIDE DEF Bad
  <2> QED BY <2>1, Least
<1>2. i # 0 /\ i - 1 \in 0 .. n /\ i - 1 \notin Bad /\ i - 1 < n /\ i - 1 + 1 = i
  BY <1>1
<1> QED
  BY <1>2

\* The smallest element of a set is in it, and below the others.
LEMMA MinIsThere ==
  ASSUME NEW S \in SUBSET Nat, S # {}
  PROVE  Min(S) \in S /\ \A y \in S : Min(S) <= y
BY Least DEF Min

\* So is the largest element of a bounded one, and above the others.
LEMMA MaxIsThere ==
  ASSUME NEW n \in Nat, NEW S \in SUBSET (0 .. n), S # {}
  PROVE  Max(S) \in S /\ \A y \in S : y <= Max(S)
<1> DEFINE T == {i \in 0 .. n : n - i \in S}
<1>1. T \in SUBSET Nat /\ T # {}
  <2>1. PICK x \in S : TRUE
    OBVIOUS
  <2>2. n - x \in 0 .. n /\ n - (n - x) = x
    OBVIOUS
  <2>3. n - x \in T
    BY <2>2
  <2>4. T \in SUBSET Nat
    OBVIOUS
  <2> HIDE DEF T
  <2> QED BY <2>3, <2>4
<1>2. PICK t \in T : \A u \in T : t <= u
  <2> HIDE DEF T
  <2> QED BY <1>1, Least
<1>3. n - t \in S /\ \A y \in S : y <= n - t
  <2>1. ASSUME NEW y \in S PROVE y <= n - t
    <3>1. n - y \in 0 .. n /\ n - (n - y) = y
      OBVIOUS
    <3>2. t <= n - y
      BY <3>1, <1>2
    <3> QED BY <3>2, <1>2
  <2> QED BY <2>1, <1>2
<1> QED
  BY <1>3 DEF Max

\* A recursion over 0 .. n has a solution.
Solves(b, step, f, n) == f[0] = b /\ \A i \in 1 .. n : f[i] = step[<<i, f[i - 1]>>]
LEMMA Recursion ==
  ASSUME NEW n \in Nat, NEW X, NEW b \in X, NEW step \in [(1 .. n) \X X -> X]
  PROVE  \E f \in [0 .. n -> X] : Solves(b, step, f, n)
<1> DEFINE S == {m \in 0 .. n : \E f \in [0 .. m -> X] : Solves(b, step, f, m)}
<1>1. 0 \in S
  <2> DEFINE f == [i \in 0 .. 0 |-> b]
  <2>1. f \in [0 .. 0 -> X] /\ Solves(b, step, f, 0)
    BY DEF Solves
  <2> HIDE DEF f
  <2> QED BY <2>1
<1>2. ASSUME NEW m \in 0 .. n, m < n, m \in S
      PROVE  m + 1 \in S
  <2>1. PICK f \in [0 .. m -> X] : Solves(b, step, f, m)
    BY <1>2
  <2> DEFINE last == step[<<m + 1, f[m]>>]
             g == [i \in 0 .. m + 1 |-> IF i = m + 1 THEN last ELSE f[i]]
  <2>2. last \in X
    <3>1. m + 1 \in 1 .. n /\ f[m] \in X
      BY <1>2
    <3>2. <<m + 1, f[m]>> \in (1 .. n) \X X
      BY <3>1
    <3> QED BY <3>2
  <2> HIDE DEF last
  <2>3. g \in [0 .. m + 1 -> X]
    BY <2>2
  <2>4. Solves(b, step, g, m + 1)
    <3>1. g[0] = b
      BY <2>1 DEF Solves
    <3>2. ASSUME NEW i \in 1 .. m + 1
          PROVE  g[i] = step[<<i, g[i - 1]>>]
      <4>1. CASE i = m + 1
        <5>1. g[i - 1] = f[m] /\ g[i] = last
          BY <4>1
        <5> HIDE DEF g
        <5> QED BY <4>1, <5>1 DEF last
      <4>2. CASE i # m + 1
        <5>1. i \in 1 .. m /\ g[i] = f[i] /\ g[i - 1] = f[i - 1]
          BY <4>2
        <5> HIDE DEF g
        <5> QED BY <5>1, <2>1 DEF Solves
      <4> QED BY <4>1, <4>2
    <3> HIDE DEF g
    <3> QED BY <3>1, <3>2 DEF Solves
  <2>5. m + 1 \in 0 .. n
    BY <1>2
  <2> HIDE DEF g
  <2> QED BY <2>3, <2>4, <2>5
<1>3. n \in S
  <2> HIDE DEF S
  <2>1. \A m \in 0 .. n : m \in S
    BY <1>1, <1>2, Upwards
  <2> QED BY <2>1
<1> QED
  BY <1>3

\* and only one.
LEMMA OneSolution ==
  ASSUME NEW n \in Nat, NEW f, NEW g, f[0] = g[0],
         \A i \in 1 .. n : f[i - 1] = g[i - 1] => f[i] = g[i]
  PROVE  \A i \in 0 .. n : f[i] = g[i]
<1> DEFINE S == {i \in 0 .. n : f[i] = g[i]}
<1>1. 0 \in S
  OBVIOUS
<1>2. ASSUME NEW i \in 0 .. n, i < n, i \in S
      PROVE  i + 1 \in S
  <2>1. i + 1 \in 1 .. n /\ i + 1 - 1 = i
    BY <1>2
  <2> QED BY <2>1, <1>2
<1> HIDE DEF S
<1>3. \A i \in 0 .. n : i \in S
  BY <1>1, <1>2, Upwards
<1> QED
  BY <1>3 DEF S

-----------------------------------------------------------------------------
(* Sequences.                                                              *)

\* Three facts about a sequence that is longer by an element.
LEMMA AppendIs ==
  ASSUME NEW S, NEW s \in Seq(S), NEW x \in S
  PROVE  /\ Append(s, x) \in Seq(S) /\ Append(s, x) # <<>>
         /\ Len(Append(s, x)) = Len(s) + 1 /\ Len(s) \in Nat
         /\ \A i \in 1 .. Len(s) : Append(s, x)[i] = s[i]
         /\ Append(s, x)[Len(s) + 1] = x
         /\ Last(Append(s, x)) = x
         /\ Front(Append(s, x)) = s
<1>1. /\ Append(s, x) \in Seq(S) /\ Append(s, x) # <<>>
      /\ Len(Append(s, x)) = Len(s) + 1 /\ Len(s) \in Nat
      /\ \A i \in 1 .. Len(s) : Append(s, x)[i] = s[i]
      /\ Append(s, x)[Len(s) + 1] = x
  BY AppendProperties
<1> DEFINE t == Append(s, x)
<1> HIDE DEF t
<1>2. SubSeq(t, 1, Len(s)) = s
  <2>1. \A i \in 1 .. Len(s) : t[i] \in S
    BY <1>1 DEF t
  <2>2. /\ SubSeq(t, 1, Len(s)) \in Seq(S) /\ Len(SubSeq(t, 1, Len(s))) = Len(s)
        /\ \A i \in 1 .. Len(s) : SubSeq(t, 1, Len(s))[i] = t[i]
    BY <1>1, <2>1, SubSeqProperties
  <2>3. \A i \in 1 .. Len(s) : SubSeq(t, 1, Len(s))[i] = s[i]
    BY <2>2, <1>1 DEF t
  <2> QED BY <2>2, <2>3, SeqEqual
<1>3. Last(t) = x /\ Front(t) = s
  BY <1>1, <1>2 DEF Last, Front, t
<1> QED
  BY <1>1, <1>3 DEF t

\* A part of a sequence, element by element.
LEMMA PartIs ==
  ASSUME NEW S, NEW s \in Seq(S), NEW a \in Nat, NEW b \in Nat, b <= Len(s)
  PROVE  /\ SubSeq(s, a + 1, b) \in Seq(S)
         /\ Len(SubSeq(s, a + 1, b)) = IF a <= b THEN b - a ELSE 0
         /\ a >= b => SubSeq(s, a + 1, b) = <<>>
         /\ \A i \in 1 .. b - a : SubSeq(s, a + 1, b)[i] = s[a + i]
         /\ a = 0 /\ b = Len(s) => SubSeq(s, a + 1, b) = s
<1>1. \A i \in a + 1 .. b : s[i] \in S
  <2>1. \A i \in 1 .. Len(s) : s[i] \in S
    OBVIOUS
  <2> QED BY <2>1
<1>2. a + 1 \in Int /\ b \in Int /\ b - (a + 1) + 1 = b - a /\ (a + 1 <= b <=> a < b)
  OBVIOUS
<1>3. /\ SubSeq(s, a + 1, b) \in Seq(S)
      /\ Len(SubSeq(s, a + 1, b)) = IF a + 1 <= b THEN b - a ELSE 0
      /\ \A i \in 1 .. b - a : SubSeq(s, a + 1, b)[i] = s[a + 1 + i - 1]
  BY <1>1, <1>2, SubSeqProperties
<1>4. a >= b => SubSeq(s, a + 1, b) = <<>>
  BY <1>3, EmptySeq
<1>5. \A i \in 1 .. b - a : a + 1 + i - 1 = a + i
  OBVIOUS
<1>6. a = 0 /\ b = Len(s) => SubSeq(s, a + 1, b) = s
  BY <1>3, SubSeqFull
<1> QED
  BY <1>3, <1>4, <1>5, <1>6

\* and one that is longer by an element.
LEMMA LongerPart ==
  ASSUME NEW S, NEW s \in Seq(S), NEW a \in Nat, NEW b \in Nat, a <= b, b < Len(s)
  PROVE  SubSeq(s, a + 1, b + 1) = Append(SubSeq(s, a + 1, b), s[b + 1])
<1> DEFINE p == SubSeq(s, a + 1, b)
           q == SubSeq(s, a + 1, b + 1)
<1>1. s[b + 1] \in S
  <2>1. b + 1 \in 1 .. Len(s)
    OBVIOUS
  <2>2. \A i \in 1 .. Len(s) : s[i] \in S
    OBVIOUS
  <2> QED BY <2>1, <2>2
<1>2. p \in Seq(S) /\ Len(p) = b - a /\ \A i \in 1 .. b - a : p[i] = s[a + i]
  BY PartIs
<1>3. q \in Seq(S) /\ Len(q) = b + 1 - a /\ \A i \in 1 .. b + 1 - a : q[i] = s[a + i]
  <2>1. b + 1 \in Nat /\ b + 1 <= Len(s) /\ a <= b + 1
    OBVIOUS
  <2> QED BY <2>1, PartIs
<1> HIDE DEF p, q
<1>4. /\ Append(p, s[b + 1]) \in Seq(S) /\ Len(Append(p, s[b + 1])) = b - a + 1
      /\ \A i \in 1 .. b - a : Append(p, s[b + 1])[i] = p[i]
      /\ Append(p, s[b + 1])[b - a + 1] = s[b + 1]
  BY <1>1, <1>2, AppendIs
<1>5. \A i \in 1 .. b - a + 1 : Append(p, s[b + 1])[i] = q[i]
  <2> SUFFICES ASSUME NEW i \in 1 .. b - a + 1
               PROVE  Append(p, s[b + 1])[i] = q[i]
    OBVIOUS
  <2>1. CASE i = b - a + 1
    <3>1. a + i = b + 1
      BY <2>1
    <3> QED BY <2>1, <3>1, <1>3, <1>4
  <2>2. CASE i # b - a + 1
    <3>1. i \in 1 .. b - a /\ i \in 1 .. b + 1 - a
      BY <2>2
    <3>2. p[i] = s[a + i] /\ q[i] = s[a + i]
      BY <3>1, <1>2, <1>3
    <3> QED BY <3>1, <3>2, <1>4
  <2> QED BY <2>1, <2>2
<1>6. Append(p, s[b + 1]) = q
  <2>1. b + 1 - a = b - a + 1
    OBVIOUS
  <2> QED BY <1>3, <1>4, <1>5, <2>1, SeqEqual
<1> QED
  BY <1>6 DEF p, q

-----------------------------------------------------------------------------
(* Kept.                                                                   *)

\* What is kept of each prefix of s.
KeptUpTo(s, I, f) ==
  /\ f[0] = <<>>
  /\ \A i \in 1 .. Len(s) : f[i] = IF i \in I THEN Append(f[i - 1], s[i]) ELSE f[i - 1]
KeptBy(s, I, f) ==
  f = [i \in 0 .. Len(s) |->
         IF i = 0 THEN <<>> ELSE IF i \in I THEN Append(f[i - 1], s[i]) ELSE f[i - 1]]

LEMMA KeptIs ==
  ASSUME NEW s, Len(s) \in Nat, NEW I, NEW f, KeptUpTo(s, I, f)
  PROVE  Kept(s, I) = f[Len(s)]
<1> DEFINE N == Len(s)
           g == [i \in 0 .. N |-> f[i]]
           k == CHOOSE h : KeptBy(s, I, h)
<1>1. KeptBy(s, I, g)
  <2>1. ASSUME NEW i \in 0 .. N
        PROVE  g[i] = IF i = 0 THEN <<>> ELSE IF i \in I THEN Append(g[i - 1], s[i]) ELSE g[i - 1]
    <3>1. CASE i = 0
      BY <3>1 DEF KeptUpTo
    <3>2. CASE i # 0
      <4>1. i \in 1 .. N /\ g[i] = f[i] /\ g[i - 1] = f[i - 1]
        BY <3>2
      <4> HIDE DEF g
      <4> QED BY <3>2, <4>1 DEF KeptUpTo
    <3> QED BY <3>1, <3>2
  <2>2. g = [i \in 0 .. N |-> g[i]]
    OBVIOUS
  <2> HIDE DEF g
  <2> QED BY <2>1, <2>2 DEF KeptBy
<1>2. KeptBy(s, I, k)
  <2> HIDE DEF g
  <2> QED BY <1>1
<1>3. Kept(s, I) = k[N]
  BY DEF Kept, KeptBy
<1> HIDE DEF k
<1>4. k[0] = <<>> /\ \A i \in 1 .. N : k[i] = IF i \in I THEN Append(k[i - 1], s[i]) ELSE k[i - 1]
  <2>1. \A i \in 0 .. N :
          k[i] = IF i = 0 THEN <<>> ELSE IF i \in I THEN Append(k[i - 1], s[i]) ELSE k[i - 1]
    BY <1>2 DEF KeptBy
  <2> QED BY <2>1
<1>5. \A i \in 0 .. N : k[i] = f[i]
  <2>1. f[0] = k[0]
    BY <1>4 DEF KeptUpTo
  <2>2. \A i \in 1 .. N : k[i - 1] = f[i - 1] => k[i] = f[i]
    BY <1>4 DEF KeptUpTo
  <2> QED BY <2>1, <2>2, OneSolution
<1> QED
  BY <1>3, <1>5

\* There is such a function.
LEMMA KeptExists ==
  ASSUME NEW S, NEW s \in Seq(S), NEW I
  PROVE  \E f \in [0 .. Len(s) -> Seq(S)] : KeptUpTo(s, I, f)
<1> DEFINE N == Len(s)
           step == [p \in (1 .. N) \X Seq(S) |->
                      IF p[1] \in I THEN Append(p[2], s[p[1]]) ELSE p[2]]
<1>1. \A i \in 1 .. N : s[i] \in S
  OBVIOUS
<1>2. \A i \in 1 .. N, q \in Seq(S) :
        step[<<i, q>>] = IF i \in I THEN Append(q, s[i]) ELSE q
  OBVIOUS
<1>3. step \in [(1 .. N) \X Seq(S) -> Seq(S)]
  <2>1. ASSUME NEW p \in (1 .. N) \X Seq(S)
        PROVE  (IF p[1] \in I THEN Append(p[2], s[p[1]]) ELSE p[2]) \in Seq(S)
    <3>1. p[1] \in 1 .. N /\ p[2] \in Seq(S)
      OBVIOUS
    <3> QED BY <1>1, <3>1, AppendIs
  <2> QED BY <2>1
<1> HIDE DEF step
<1>4. <<>> \in Seq(S) /\ N \in Nat
  OBVIOUS
<1>5. PICK f \in [0 .. N -> Seq(S)] : Solves(<<>>, step, f, N)
  BY <1>3, <1>4, Recursion
<1>6. KeptUpTo(s, I, f)
  <2>1. ASSUME NEW i \in 1 .. N
        PROVE  f[i] = IF i \in I THEN Append(f[i - 1], s[i]) ELSE f[i - 1]
    <3>1. f[i - 1] \in Seq(S) /\ f[i] = step[<<i, f[i - 1]>>]
      BY <1>5 DEF Solves
    <3> QED BY <3>1, <1>2
  <2> QED BY <2>1, <1>5 DEF KeptUpTo, Solves
<1> QED
  BY <1>6

\* One more element.
LEMMA KeptAppend ==
  ASSUME NEW S, NEW s \in Seq(S), NEW x \in S, NEW I
  PROVE  /\ Kept(s, I) \in Seq(S)
         /\ Kept(Append(s, x), I) =
              IF Len(s) + 1 \in I THEN Append(Kept(s, I), x) ELSE Kept(s, I)
<1> DEFINE t == Append(s, x)
           N == Len(s)
<1>1. /\ t \in Seq(S) /\ Len(t) = N + 1 /\ N \in Nat
      /\ \A i \in 1 .. N : t[i] = s[i]
      /\ t[N + 1] = x
  BY AppendIs
<1> HIDE DEF t
<1>2. PICK f \in [0 .. N + 1 -> Seq(S)] : KeptUpTo(t, I, f)
  BY <1>1, KeptExists
<1>3. KeptUpTo(s, I, f)
  <2>1. \A i \in 1 .. N : i \in 1 .. N + 1 /\ t[i] = s[i]
    BY <1>1
  <2> QED BY <1>1, <1>2, <2>1 DEF KeptUpTo
<1>4. Kept(s, I) = f[N]
  BY <1>1, <1>3, KeptIs
<1>5. Kept(t, I) = f[N + 1]
  <2>1. Len(t) \in Nat
    BY <1>1
  <2> QED BY <2>1, <1>1, <1>2, KeptIs
<1>6. f[N + 1] = IF N + 1 \in I THEN Append(f[N], x) ELSE f[N]
  <2>1. N + 1 \in 1 .. N + 1 /\ N + 1 - 1 = N
    BY <1>1
  <2> QED BY <1>1, <1>2, <2>1 DEF KeptUpTo
<1>7. f[N] \in Seq(S)
  BY <1>1, <1>2
<1> QED
  BY <1>4, <1>5, <1>6, <1>7 DEF t

LEMMA KeptEmpty ==
  ASSUME NEW I
  PROVE  Kept(<<>>, I) = <<>>
<1> DEFINE f == [i \in 0 .. 0 |-> <<>>]
<1>1. Len(<<>>) = 0
  OBVIOUS
<1>2. KeptUpTo(<<>>, I, f) /\ f[0] = <<>>
  BY <1>1 DEF KeptUpTo
<1> HIDE DEF f
<1> QED
  BY <1>1, <1>2, KeptIs

\* Only the places within s count.
LEMMA KeptWithin ==
  ASSUME NEW S, NEW s \in Seq(S), NEW I, NEW J, \A i \in 1 .. Len(s) : i \in I <=> i \in J
  PROVE  Kept(s, I) = Kept(s, J)
<1>1. PICK f \in [0 .. Len(s) -> Seq(S)] : KeptUpTo(s, I, f)
  BY KeptExists
<1>2. KeptUpTo(s, J, f)
  BY <1>1 DEF KeptUpTo
<1>3. Len(s) \in Nat
  OBVIOUS
<1> QED
  BY <1>1, <1>2, <1>3, KeptIs

\* Where everything is kept nothing is lost.
LEMMA KeptAll ==
  ASSUME NEW S, NEW s \in Seq(S), NEW I, \A i \in 1 .. Len(s) : i \in I
  PROVE  Kept(s, I) = s
<1> DEFINE f == [i \in 0 .. Len(s) |-> SubSeq(s, 1, i)]
<1>1. Len(s) \in Nat
  OBVIOUS
<1>2. \A i \in 0 .. Len(s) : f[i] = SubSeq(s, 1, i)
  OBVIOUS
<1> HIDE DEF f
<1>3. f[0] = <<>> /\ f[Len(s)] = s
  <2>1. 0 \in 0 .. Len(s) /\ Len(s) \in 0 .. Len(s) /\ 0 + 1 = 1
    BY <1>1
  <2>2. SubSeq(s, 0 + 1, 0) = <<>> /\ SubSeq(s, 0 + 1, Len(s)) = s
    BY <1>1, PartIs
  <2> QED BY <1>2, <2>1, <2>2
<1>4. ASSUME NEW i \in 1 .. Len(s)
      PROVE  f[i] = Append(f[i - 1], s[i])
  <2>1. /\ i - 1 \in Nat /\ i - 1 < Len(s) /\ i - 1 + 1 = i /\ 0 + 1 = 1 /\ 0 <= i - 1
        /\ i \in 0 .. Len(s) /\ i - 1 \in 0 .. Len(s) /\ 0 \in Nat
    BY <1>1
  <2>2. SubSeq(s, 0 + 1, i - 1 + 1) = Append(SubSeq(s, 0 + 1, i - 1), s[i - 1 + 1])
    BY <2>1, LongerPart
  <2> QED BY <2>1, <2>2, <1>2
<1>5. KeptUpTo(s, I, f)
  BY <1>3, <1>4 DEF KeptUpTo
<1> QED
  BY <1>1, <1>3, <1>5, KeptIs

-----------------------------------------------------------------------------
(* FlattenSeq.                                                             *)

\* What the first sequences of ss flatten to.
FlatUpTo(ss, f) == f[0] = <<>> /\ \A i \in 1 .. Len(ss) : f[i] = f[i - 1] \o ss[i]
FlatBy(ss, f) == f = [i \in 1 .. Len(ss) |-> IF i = 1 THEN ss[i] ELSE f[i - 1] \o ss[i]]

LEMMA FlatIs ==
  ASSUME NEW S, NEW ss \in Seq(Seq(S)), NEW f, FlatUpTo(ss, f)
  PROVE  FlattenSeq(ss) = f[Len(ss)]
<1> DEFINE N == Len(ss)
           g == [i \in 1 .. N |-> f[i]]
           k == CHOOSE h : FlatBy(ss, h)
<1>1. CASE N = 0
  BY <1>1, EmptySeq DEF FlattenSeq, FlatUpTo
<1>2. CASE N # 0
  <2>1. N \in Nat /\ N >= 1 /\ \A i \in 1 .. N : ss[i] \in Seq(S)
    BY <1>2
  <2>2. f[1] = ss[1]
    <3>1. 1 \in 1 .. N /\ 1 - 1 = 0 /\ ss[1] \in Seq(S)
      BY <2>1
    <3>2. \A i \in 1 .. N : f[i] = f[i - 1] \o ss[i]
      BY DEF FlatUpTo
    <3>3. f[1] = f[1 - 1] \o ss[1]
      BY <3>1, <3>2
    <3>4. f[0] = <<>>
      BY DEF FlatUpTo
    <3>5. f[1] = <<>> \o ss[1]
      BY <3>1, <3>3, <3>4
    <3> QED BY <3>1, <3>5, ConcatEmptySeq
  <2>3. FlatBy(ss, g)
    <3>1. ASSUME NEW i \in 1 .. N
          PROVE  g[i] = IF i = 1 THEN ss[i] ELSE g[i - 1] \o ss[i]
      <4>1. CASE i = 1
        BY <4>1, <2>2
      <4>2. CASE i # 1
        <5>1. g[i] = f[i] /\ g[i - 1] = f[i - 1]
          BY <4>2
        <5> HIDE DEF g
        <5> QED BY <4>2, <5>1 DEF FlatUpTo
      <4> QED BY <4>1, <4>2
    <3>2. g = [i \in 1 .. N |-> g[i]]
      OBVIOUS
    <3> HIDE DEF g
    <3> QED BY <3>1, <3>2 DEF FlatBy
  <2>4. FlatBy(ss, k)
    <3> HIDE DEF g
    <3> QED BY <2>3
  <2>5. FlattenSeq(ss) = k[N]
    BY <1>2 DEF FlattenSeq, FlatBy
  <2> HIDE DEF k
  <2>6. \A i \in 1 .. N : k[i] = IF i = 1 THEN ss[i] ELSE k[i - 1] \o ss[i]
    BY <2>4 DEF FlatBy
  <2> DEFINE l == [i \in 0 .. N |-> IF i = 0 THEN <<>> ELSE k[i]]
  <2>7. l[0] = f[0]
    BY <2>1 DEF FlatUpTo
  <2>8. ASSUME NEW i \in 1 .. N, l[i - 1] = f[i - 1]
        PROVE  l[i] = f[i]
    <3>1. l[i] = k[i]
      OBVIOUS
    <3>2. CASE i = 1
      BY <3>1, <3>2, <2>2, <2>6
    <3>3. CASE i # 1
      <4>1. l[i - 1] = k[i - 1]
        BY <3>3
      <4> HIDE DEF l
      <4> QED BY <3>1, <3>3, <4>1, <2>6, <2>8 DEF FlatUpTo
    <3> QED BY <3>2, <3>3
  <2>9. l[N] = k[N]
    BY <1>2, <2>1
  <2> HIDE DEF l
  <2>10. \A i \in 0 .. N : l[i] = f[i]
    BY <2>1, <2>7, <2>8, OneSolution
  <2> QED BY <2>1, <2>5, <2>9, <2>10
<1> QED
  BY <1>1, <1>2

LEMMA FlatExists ==
  ASSUME NEW S, NEW ss \in Seq(Seq(S))
  PROVE  \E f \in [0 .. Len(ss) -> Seq(S)] : FlatUpTo(ss, f)
<1> DEFINE N == Len(ss)
           step == [p \in (1 .. N) \X Seq(S) |-> p[2] \o ss[p[1]]]
<1>1. N \in Nat /\ \A i \in 1 .. N : ss[i] \in Seq(S)
  OBVIOUS
<1>2. \A i \in 1 .. N, q \in Seq(S) : step[<<i, q>>] = q \o ss[i]
  OBVIOUS
<1>3. step \in [(1 .. N) \X Seq(S) -> Seq(S)]
  <2>1. ASSUME NEW p \in (1 .. N) \X Seq(S)
        PROVE  p[2] \o ss[p[1]] \in Seq(S)
    <3>1. p[1] \in 1 .. N /\ p[2] \in Seq(S)
      OBVIOUS
    <3> QED BY <1>1, <3>1, ConcatProperties
  <2> QED BY <2>1
<1> HIDE DEF step
<1>4. <<>> \in Seq(S)
  OBVIOUS
<1>5. PICK f \in [0 .. N -> Seq(S)] : Solves(<<>>, step, f, N)
  BY <1>1, <1>3, <1>4, Recursion
<1>6. FlatUpTo(ss, f)
  <2>1. ASSUME NEW i \in 1 .. N
        PROVE  f[i] = f[i - 1] \o ss[i]
    <3>1. i - 1 \in 0 .. N
      BY <1>1
    <3>2. f[i - 1] \in Seq(S)
      BY <3>1, <1>5
    <3>3. \A j \in 1 .. N : f[j] = step[<<j, f[j - 1]>>]
      BY <1>5 DEF Solves
    <3>4. f[i] = step[<<i, f[i - 1]>>]
      BY <3>3
    <3> QED BY <3>2, <3>4, <1>2
  <2>2. f[0] = <<>>
    BY <1>5 DEF Solves
  <2> QED BY <2>1, <2>2 DEF FlatUpTo
<1> QED
  BY <1>6

\* What the first j sequences flatten to is the beginning of the whole, and behind
\* it comes the next one.
LEMMA FlatPrefix ==
  ASSUME NEW S, NEW ss \in Seq(Seq(S)), NEW j \in 0 .. Len(ss)
  PROVE  LET front(i) == FlattenSeq(SubSeq(ss, 1, i)) IN
         /\ front(j) \in Seq(S)
         /\ front(0) = <<>>
         /\ front(Len(ss)) = FlattenSeq(ss)
         /\ j < Len(ss) => front(j + 1) = front(j) \o ss[j + 1]
<1> DEFINE N == Len(ss)
           front(i) == FlattenSeq(SubSeq(ss, 1, i))
<1>1. PICK f \in [0 .. N -> Seq(S)] : FlatUpTo(ss, f)
  BY FlatExists
<1>2. N \in Nat
  OBVIOUS
<1>3. ASSUME NEW i \in 0 .. N
      PROVE  front(i) = f[i]
  <2> DEFINE p == SubSeq(ss, 1, i)
  <2>1. p \in Seq(Seq(S)) /\ Len(p) = i /\ \A m \in 1 .. i : p[m] = ss[m]
    <3>1. 0 \in Nat /\ i \in Nat /\ i <= Len(ss) /\ 0 + 1 = 1 /\ i - 0 = i /\ \A m \in 1 .. i : 0 + m = m
      BY <1>2
    <3>2. /\ SubSeq(ss, 0 + 1, i) \in Seq(Seq(S)) /\ Len(SubSeq(ss, 0 + 1, i)) = i - 0
          /\ \A m \in 1 .. i - 0 : SubSeq(ss, 0 + 1, i)[m] = ss[0 + m]
      BY <3>1, PartIs
    <3> QED BY <3>1, <3>2
  <2> HIDE DEF p
  <2>2. FlatUpTo(p, f)
    <3>1. ASSUME NEW m \in 1 .. Len(p)
          PROVE  f[m] = f[m - 1] \o p[m]
      <4>1. m \in 1 .. N /\ p[m] = ss[m]
        BY <1>2, <2>1
      <4>2. \A n \in 1 .. N : f[n] = f[n - 1] \o ss[n]
        BY <1>1 DEF FlatUpTo
      <4>3. f[m] = f[m - 1] \o ss[m]
        BY <4>1, <4>2
      <4> QED BY <4>1, <4>3
    <3>2. f[0] = <<>>
      BY <1>1 DEF FlatUpTo
    <3> QED BY <3>1, <3>2 DEF FlatUpTo
  <2>3. FlattenSeq(p) = f[i]
    BY <2>1, <2>2, FlatIs
  <2> QED BY <2>3 DEF p
<1>4. FlattenSeq(ss) = f[N]
  BY <1>1, FlatIs
<1>5. 0 \in 0 .. N /\ N \in 0 .. N /\ (j < N => j + 1 \in 0 .. N /\ j + 1 \in 1 .. N /\ j + 1 - 1 = j)
  BY <1>2
<1>6. f[0] = <<>> /\ (j < N => f[j + 1] = f[j] \o ss[j + 1])
  <2>1. f[0] = <<>> /\ \A i \in 1 .. N : f[i] = f[i - 1] \o ss[i]
    BY <1>1 DEF FlatUpTo
  <2>2. ASSUME j < N
        PROVE  f[j + 1] = f[j] \o ss[j + 1]
    <3>1. PICK i \in 1 .. N : i = j + 1 /\ i - 1 = j
      BY <1>5, <2>2
    <3>2. f[i] = f[i - 1] \o ss[i]
      BY <2>1
    <3> QED BY <3>1, <3>2
  <2> QED BY <2>1, <2>2
<1> HIDE DEF front
<1>7. /\ front(j) \in Seq(S) /\ front(0) = <<>> /\ front(N) = FlattenSeq(ss)
      /\ j < N => front(j + 1) = front(j) \o ss[j + 1]
  BY <1>1, <1>3, <1>4, <1>5, <1>6
<1> QED
  BY <1>7 DEF front

\* Where the sequence j + 1 is in the whole.
LEMMA FlatAt ==
  ASSUME NEW S, NEW ss \in Seq(Seq(S)), NEW j \in 0 .. Len(ss)
  PROVE  LET front(i) == FlattenSeq(SubSeq(ss, 1, i)) IN
         /\ FlattenSeq(ss) \in Seq(S)
         /\ Len(front(j)) \in 0 .. Len(FlattenSeq(ss))
         /\ j < Len(ss) =>
              /\ Len(front(j + 1)) = Len(front(j)) + Len(ss[j + 1])
              /\ Len(front(j + 1)) <= Len(FlattenSeq(ss))
              /\ \A i \in 1 .. Len(ss[j + 1]) :
                   FlattenSeq(ss)[Len(front(j)) + i] = ss[j + 1][i]
<1> DEFINE N == Len(ss)
           front(i) == FlattenSeq(SubSeq(ss, 1, i))
           whole == FlattenSeq(ss)
           Begins(s) == Len(s) <= Len(whole) /\ \A i \in 1 .. Len(s) : whole[i] = s[i]
           Good == {i \in 0 .. N : Begins(front(N - i))}
<1>1. N \in Nat
  OBVIOUS
<1>2. /\ \A i \in 0 .. N : front(i) \in Seq(S)
      /\ front(N) = whole
      /\ \A i \in 0 .. N : i < N => front(i + 1) = front(i) \o ss[i + 1]
  BY <1>1, FlatPrefix
<1>3. \A i \in 1 .. N : ss[i] \in Seq(S)
  OBVIOUS
<1> HIDE DEF front, whole
<1>4. whole \in Seq(S) /\ Len(whole) \in Nat
  <2>1. N \in 0 .. N
    BY <1>1
  <2> QED BY <2>1, <1>2, LenProperties
<1>5. ASSUME NEW i \in 0 .. N, i < N
      PROVE  /\ Len(front(i + 1)) = Len(front(i)) + Len(ss[i + 1])
             /\ \A m \in 1 .. Len(front(i)) : front(i + 1)[m] = front(i)[m]
             /\ \A m \in 1 .. Len(ss[i + 1]) : front(i + 1)[Len(front(i)) + m] = ss[i + 1][m]
             /\ Len(front(i)) \in Nat /\ Len(ss[i + 1]) \in Nat
  <2>1. i + 1 \in 1 .. N
    BY <1>5, <1>1
  <2> DEFINE p == front(i)
             q == ss[i + 1]
  <2>2. p \in Seq(S) /\ q \in Seq(S) /\ front(i + 1) = p \o q
    BY <1>2, <1>3, <1>5, <2>1
  <2> HIDE DEF p, q
  <2>3. /\ Len(p \o q) = Len(p) + Len(q) /\ Len(p) \in Nat /\ Len(q) \in Nat
        /\ \A m \in 1 .. Len(p) + Len(q) : (p \o q)[m] = IF m <= Len(p) THEN p[m] ELSE q[m - Len(p)]
    BY <2>2, ConcatProperties, LenProperties
  <2>4. \A m \in 1 .. Len(p) : (p \o q)[m] = p[m]
    BY <2>3
  <2>5. ASSUME NEW m \in 1 .. Len(q)
        PROVE  (p \o q)[Len(p) + m] = q[m]
    <3>1. Len(p) + m \in 1 .. Len(p) + Len(q) /\ ~(Len(p) + m <= Len(p)) /\ Len(p) + m - Len(p) = m
      BY <2>3
    <3> QED BY <3>1, <2>3
  <2> QED BY <2>2, <2>3, <2>4, <2>5 DEF p, q
<1>6. \A i \in 0 .. N : i \in Good
  <2>1. 0 \in Good
    <3>1. N - 0 = N
      BY <1>1
    <3> QED BY <1>1, <1>2, <3>1
  <2>2. ASSUME NEW i \in 0 .. N, i < N, i \in Good
        PROVE  i + 1 \in Good
    <3> DEFINE m == N - (i + 1)
    <3>1. m \in 0 .. N /\ m < N /\ m + 1 = N - i
      BY <1>1, <2>2
    <3>2. Begins(front(m + 1))
      BY <2>2, <3>1
    <3> HIDE DEF m
    <3>3. /\ Len(front(m + 1)) = Len(front(m)) + Len(ss[m + 1])
          /\ \A n \in 1 .. Len(front(m)) : front(m + 1)[n] = front(m)[n]
          /\ Len(front(m)) \in Nat /\ Len(ss[m + 1]) \in Nat
      BY <1>5, <3>1
    <3>4. Begins(front(m))
      <4>1. Len(front(m)) <= Len(whole)
        BY <3>2, <3>3, <1>4
      <4>2. \A n \in 1 .. Len(front(m)) : n \in 1 .. Len(front(m + 1))
        BY <3>3
      <4> QED BY <3>2, <3>3, <4>1, <4>2
    <3> HIDE DEF Begins
    <3>5. i + 1 \in 0 .. N
      BY <1>1, <2>2
    <3> QED BY <3>4, <3>5 DEF m
  <2> HIDE DEF Good
  <2> QED BY <1>1, <2>1, <2>2, Upwards
<1>7. ASSUME NEW i \in 0 .. N
      PROVE  Begins(front(i))
  <2>1. N - i \in 0 .. N /\ N - (N - i) = i
    BY <1>1
  <2> HIDE DEF Begins
  <2> QED BY <2>1, <1>6
<1>8. Len(front(j)) \in 0 .. Len(whole)
  <2>1. Len(front(j)) \in Nat
    BY <1>2, LenProperties
  <2> QED BY <1>7, <2>1, <1>4
<1>9. ASSUME j < N
      PROVE  /\ Len(front(j + 1)) = Len(front(j)) + Len(ss[j + 1])
             /\ Len(front(j + 1)) <= Len(whole)
             /\ \A i \in 1 .. Len(ss[j + 1]) : whole[Len(front(j)) + i] = ss[j + 1][i]
  <2>1. j + 1 \in 0 .. N
    BY <1>9, <1>1
  <2>2. Begins(front(j + 1))
    BY <2>1, <1>7
  <2>3. /\ Len(front(j + 1)) = Len(front(j)) + Len(ss[j + 1])
        /\ \A m \in 1 .. Len(ss[j + 1]) : front(j + 1)[Len(front(j)) + m] = ss[j + 1][m]
        /\ Len(front(j)) \in Nat /\ Len(ss[j + 1]) \in Nat
    BY <1>5, <1>9
  <2>4. \A i \in 1 .. Len(ss[j + 1]) : Len(front(j)) + i \in 1 .. Len(front(j + 1))
    BY <2>3
  <2> QED BY <2>2, <2>3, <2>4
<1> QED
  BY <1>4, <1>8, <1>9 DEF front, whole

-----------------------------------------------------------------------------
(* Split.                                                                  *)

\* The tokens of a text; a value is made of characters, and so of tokens.
Tokens == Characters \union Fields \union {"r", "n"}

\* The lines of each prefix of t.
WithToken(lines, c) ==
  IF c = "n" THEN Append(lines, <<>>)
  ELSE Append(Front(lines), Append(Last(lines), c))
SplitUpTo(t, f) == f[0] = <<<<>>>> /\ \A i \in 1 .. Len(t) : f[i] = WithToken(f[i - 1], t[i])
SplitBy(t, f) ==
  f = [i \in 0 .. Len(t) |->
         IF i = 0 THEN <<<<>>>>
         ELSE IF t[i] = "n" THEN Append(f[i - 1], <<>>)
         ELSE Append(Front(f[i - 1]), Append(Last(f[i - 1]), t[i]))]

LEMMA SplitIs ==
  ASSUME NEW t, Len(t) \in Nat, NEW f, SplitUpTo(t, f)
  PROVE  Split(t) = f[Len(t)]
<1> DEFINE N == Len(t)
           g == [i \in 0 .. N |-> f[i]]
           k == CHOOSE h : SplitBy(t, h)
<1>1. SplitBy(t, g)
  <2>1. ASSUME NEW i \in 0 .. N
        PROVE  g[i] = IF i = 0 THEN <<<<>>>>
                      ELSE IF t[i] = "n" THEN Append(g[i - 1], <<>>)
                      ELSE Append(Front(g[i - 1]), Append(Last(g[i - 1]), t[i]))
    <3>1. CASE i = 0
      BY <3>1 DEF SplitUpTo
    <3>2. CASE i # 0
      <4>1. i \in 1 .. N /\ g[i] = f[i] /\ g[i - 1] = f[i - 1]
        BY <3>2
      <4> HIDE DEF g
      <4>2. f[i] = WithToken(f[i - 1], t[i])
        BY <4>1 DEF SplitUpTo
      <4>3. g[i] = IF t[i] = "n" THEN Append(g[i - 1], <<>>)
                   ELSE Append(Front(g[i - 1]), Append(Last(g[i - 1]), t[i]))
        BY <4>1, <4>2 DEF WithToken
      <4> QED BY <3>2, <4>3
    <3> QED BY <3>1, <3>2
  <2>2. g = [i \in 0 .. N |-> g[i]]
    OBVIOUS
  <2> HIDE DEF g
  <2> QED BY <2>1, <2>2 DEF SplitBy
<1>2. SplitBy(t, k)
  <2> HIDE DEF g
  <2> QED BY <1>1
<1>3. Split(t) = k[N]
  BY DEF Split, SplitBy
<1> HIDE DEF k
<1>4. k[0] = <<<<>>>> /\ \A i \in 1 .. N : k[i] = WithToken(k[i - 1], t[i])
  <2>1. k[0] = <<<<>>>>
    BY <1>2 DEF SplitBy
  <2>2. ASSUME NEW i \in 1 .. N
        PROVE  k[i] = WithToken(k[i - 1], t[i])
    <3>1. i \in 0 .. N /\ i # 0
      OBVIOUS
    <3>2. k[i] = IF t[i] = "n" THEN Append(k[i - 1], <<>>)
                 ELSE Append(Front(k[i - 1]), Append(Last(k[i - 1]), t[i]))
      BY <1>2, <3>1 DEF SplitBy
    <3> QED BY <3>2 DEF WithToken
  <2> QED BY <2>1, <2>2
<1>5. \A i \in 0 .. N : k[i] = f[i]
  <2>1. f[0] = k[0]
    BY <1>4 DEF SplitUpTo
  <2>2. \A i \in 1 .. N : k[i - 1] = f[i - 1] => k[i] = f[i]
    BY <1>4 DEF SplitUpTo
  <2> QED BY <2>1, <2>2, OneSolution
<1> QED
  BY <1>3, <1>5

\* What splitting gives: some lines, and at least one.
LinesOf(S) == Seq(Seq(S)) \ {<<>>}

LEMMA WithTokenIn ==
  ASSUME NEW S, NEW lines \in LinesOf(S), NEW c \in S
  PROVE  /\ WithToken(lines, c) \in LinesOf(S)
         /\ Last(lines) \in Seq(S) /\ Front(lines) \in Seq(Seq(S))
         /\ lines = Append(Front(lines), Last(lines))
         /\ c = "n" => Front(WithToken(lines, c)) = lines /\ Last(WithToken(lines, c)) = <<>>
         /\ c # "n" => /\ Front(WithToken(lines, c)) = Front(lines)
                       /\ Last(WithToken(lines, c)) = Append(Last(lines), c)
<1> DEFINE N == Len(lines)
<1>1. N \in Nat /\ N > 0 /\ lines \in Seq(Seq(S)) /\ \A i \in 1 .. N : lines[i] \in Seq(S)
  BY EmptySeq DEF LinesOf
<1>2. Last(lines) \in Seq(S)
  BY <1>1 DEF Last
<1>3. /\ Front(lines) \in Seq(Seq(S))
      /\ lines = Append(Front(lines), Last(lines))
  <2>1. 0 \in Nat /\ N - 1 \in Nat /\ 0 + 1 = 1 /\ N - 1 < N /\ 0 <= N - 1 /\ N - 1 + 1 = N /\ N - 1 <= N /\ N <= N
    BY <1>1
  <2>2. SubSeq(lines, 0 + 1, N - 1) \in Seq(Seq(S))
    BY <2>1, <1>1, PartIs
  <2>3. SubSeq(lines, 0 + 1, N) = lines
    BY <2>1, <1>1, PartIs
  <2>4. SubSeq(lines, 0 + 1, N - 1 + 1) = Append(SubSeq(lines, 0 + 1, N - 1), lines[N - 1 + 1])
    BY <2>1, <1>1, LongerPart
  <2> QED BY <2>1, <2>2, <2>3, <2>4 DEF Front, Last
<1>4. CASE c = "n"
  <2> DEFINE u == <<>>
  <2>1. u \in Seq(S)
    OBVIOUS
  <2> HIDE DEF u
  <2>2. /\ Append(lines, u) \in Seq(Seq(S)) /\ Append(lines, u) # <<>>
        /\ Last(Append(lines, u)) = u /\ Front(Append(lines, u)) = lines
    BY <1>1, <2>1, AppendIs
  <2> QED BY <1>2, <1>3, <1>4, <2>2 DEF WithToken, LinesOf, u
<1>5. CASE c # "n"
  <2> DEFINE u == Append(Last(lines), c)
             v == Front(lines)
  <2>1. u \in Seq(S)
    BY <1>2, AppendIs
  <2> HIDE DEF u
  <2>2. v \in Seq(Seq(S))
    BY <1>3
  <2> HIDE DEF v
  <2>3. /\ Append(v, u) \in Seq(Seq(S)) /\ Append(v, u) # <<>>
        /\ Last(Append(v, u)) = u /\ Front(Append(v, u)) = v
    BY <2>1, <2>2, AppendIs
  <2> QED BY <1>2, <1>3, <1>5, <2>3 DEF WithToken, LinesOf, u, v
<1> QED
  BY <1>4, <1>5

LEMMA SplitExists ==
  ASSUME NEW S, NEW t \in Seq(S)
  PROVE  \E f \in [0 .. Len(t) -> LinesOf(S)] : SplitUpTo(t, f)
<1> DEFINE N == Len(t)
           X == LinesOf(S)
           step == [p \in (1 .. N) \X X |-> WithToken(p[2], t[p[1]])]
<1>1. N \in Nat /\ \A i \in 1 .. N : t[i] \in S
  OBVIOUS
<1>2. \A i \in 1 .. N, q \in X : step[<<i, q>>] = WithToken(q, t[i])
  OBVIOUS
<1>3. step \in [(1 .. N) \X X -> X]
  <2>1. ASSUME NEW p \in (1 .. N) \X X
        PROVE  WithToken(p[2], t[p[1]]) \in X
    <3>1. p[1] \in 1 .. N /\ p[2] \in X
      OBVIOUS
    <3> QED BY <1>1, <3>1, WithTokenIn
  <2> QED BY <2>1
<1> HIDE DEF step
<1>4. <<<<>>>> \in X
  <2>1. <<>> \in Seq(S)
    OBVIOUS
  <2>2. <<<<>>>> \in Seq(Seq(S)) /\ <<<<>>>> # <<>>
    BY <2>1
  <2> QED BY <2>2 DEF LinesOf
<1> HIDE DEF X
<1>5. PICK f \in [0 .. N -> X] : Solves(<<<<>>>>, step, f, N)
  BY <1>1, <1>3, <1>4, Recursion
<1>6. SplitUpTo(t, f)
  <2>1. ASSUME NEW i \in 1 .. N
        PROVE  f[i] = WithToken(f[i - 1], t[i])
    <3>1. i - 1 \in 0 .. N
      BY <1>1
    <3>2. f[i - 1] \in X
      BY <3>1, <1>5
    <3>3. f[i] = step[<<i, f[i - 1]>>]
      BY <1>5 DEF Solves
    <3> QED BY <3>2, <3>3, <1>2
  <2>2. f[0] = <<<<>>>>
    BY <1>5 DEF Solves
  <2> QED BY <2>1, <2>2 DEF SplitUpTo
<1> QED
  BY <1>6 DEF X

\* One more token.
LEMMA SplitAppend ==
  ASSUME NEW S, NEW t \in Seq(S), NEW c \in S
  PROVE  /\ Split(t) \in LinesOf(S)
         /\ Split(Append(t, c)) = WithToken(Split(t), c)
<1> DEFINE u == Append(t, c)
           N == Len(t)
<1>1. /\ u \in Seq(S) /\ Len(u) = N + 1 /\ N \in Nat
      /\ \A i \in 1 .. N : u[i] = t[i]
      /\ u[N + 1] = c
  BY AppendIs
<1> HIDE DEF u
<1>2. PICK f \in [0 .. N + 1 -> LinesOf(S)] : SplitUpTo(u, f)
  BY <1>1, SplitExists
<1>3. SplitUpTo(t, f)
  <2>1. \A i \in 1 .. N : i \in 1 .. N + 1 /\ u[i] = t[i]
    BY <1>1
  <2> QED BY <1>1, <1>2, <2>1 DEF SplitUpTo
<1>4. Split(t) = f[N]
  BY <1>1, <1>3, SplitIs
<1>5. Split(u) = f[N + 1]
  <2>1. Len(u) \in Nat
    BY <1>1
  <2> QED BY <2>1, <1>1, <1>2, SplitIs
<1>6. f[N + 1] = WithToken(f[N], c)
  <2>1. N + 1 \in 1 .. N + 1 /\ N + 1 - 1 = N
    BY <1>1
  <2> QED BY <1>1, <1>2, <2>1 DEF SplitUpTo
<1>7. f[N] \in LinesOf(S)
  BY <1>1, <1>2
<1> QED
  BY <1>4, <1>5, <1>6, <1>7 DEF u

LEMMA SplitEmpty == Split(<<>>) = <<<<>>>>
<1> DEFINE f == [i \in 0 .. 0 |-> <<<<>>>>]
<1>1. Len(<<>>) = 0
  OBVIOUS
<1>2. SplitUpTo(<<>>, f) /\ f[0] = <<<<>>>>
  BY <1>1 DEF SplitUpTo
<1> HIDE DEF f
<1> QED
  BY <1>1, <1>2, SplitIs

-----------------------------------------------------------------------------
(* Events and lines.                                                       *)

\* An event whose values are over S.
NamesOf(S) == Seq(S) \union {<<"message">>, NoId}
EventsOf(S) == [event : NamesOf(S), id : NamesOf(S), data : Seq(Seq(S))]

\* A line gives an event of the same kind; only a data line gives data.
LEMMA TakeLineIn ==
  ASSUME NEW S, NEW e \in EventsOf(S), NEW field, NEW value \in Seq(S)
  PROVE  /\ TakeLine(e, field, value) \in EventsOf(S)
         /\ TakeLine(e, field, value).data =
              IF field = "data:" THEN Append(e.data, value) ELSE e.data
         /\ Len(e.data) \in Nat
         /\ field = "data:" => Len(TakeLine(e, field, value).data) = Len(e.data) + 1
         /\ field # "data:" => Len(TakeLine(e, field, value).data) = Len(e.data)
<1>1. e.data \in Seq(Seq(S)) /\ value \in NamesOf(S)
  BY DEF EventsOf, NamesOf
<1>2. /\ Append(e.data, value) \in Seq(Seq(S))
      /\ Len(Append(e.data, value)) = Len(e.data) + 1 /\ Len(e.data) \in Nat
  BY <1>1, AppendIs
<1>3. CASE field = "event:"
  <2>1. TakeLine(e, field, value) = [e EXCEPT !.event = value]
    BY <1>3 DEF TakeLine
  <2> QED BY <1>1, <1>2, <1>3, <2>1 DEF EventsOf
<1>4. CASE field = "id:"
  <2>1. TakeLine(e, field, value) = [e EXCEPT !.id = value]
    BY <1>4 DEF TakeLine
  <2> QED BY <1>1, <1>2, <1>4, <2>1 DEF EventsOf
<1>5. CASE field = "data:"
  <2>1. TakeLine(e, field, value) = [e EXCEPT !.data = Append(e.data, value)]
    BY <1>5 DEF TakeLine
  <2>2. TakeLine(e, field, value) \in EventsOf(S) /\ TakeLine(e, field, value).data = Append(e.data, value)
    BY <1>2, <2>1 DEF EventsOf
  <2> QED BY <1>2, <1>5, <2>2
<1>6. CASE field \notin {"event:", "id:", "data:"}
  <2>1. TakeLine(e, field, value) = e
    BY <1>6 DEF TakeLine
  <2> DEFINE u == TakeLine(e, field, value)
  <2>2. u = e
    BY <2>1
  <2> HIDE DEF u
  <2>3. field # "data:" /\ Len(e.data) + 0 = Len(e.data)
    BY <1>2, <1>6
  <2>4. u \in EventsOf(S) /\ u.data = e.data
    BY <2>2
  <2> QED BY <1>2, <2>3, <2>4 DEF u
<1> QED
  BY <1>3, <1>4, <1>5, <1>6

LEMMA TakeUnlessBlankIn ==
  ASSUME NEW S, NEW e \in EventsOf(S), NEW line \in Seq(S)
  PROVE  /\ TakeUnlessBlank(e, line) \in EventsOf(S)
         /\ line = <<>> => TakeUnlessBlank(e, line) = e
         /\ line # <<>> => /\ TakeUnlessBlank(e, line) = TakeLine(e, Head(line), Tail(line))
                           /\ Head(line) \in S /\ Tail(line) \in Seq(S)
<1>1. line # <<>> => Head(line) \in S /\ Tail(line) \in Seq(S)
  BY HeadTailProperties
<1>2. line # <<>> => TakeLine(e, Head(line), Tail(line)) \in EventsOf(S)
  BY <1>1, TakeLineIn
<1> QED
  BY <1>1, <1>2 DEF TakeUnlessBlank

LEMMA NoEventIn ==
  ASSUME NEW S
  PROVE  NoEvent \in EventsOf(S) /\ NoEvent.data = <<>>
BY DEF NoEvent, Event, EventsOf, NamesOf

\* Yielding adds one event or none.
LEMMA YieldedIn ==
  ASSUME NEW S, NEW out \in Seq(EventsOf(S)), NEW e \in EventsOf(S)
  PROVE  /\ Yielded(out, e) \in Seq(EventsOf(S))
         /\ Yielded(out, NoEvent) = out
         /\ e.data = <<>> => Yielded(out, e) = out
         /\ e.data # <<>> => Yielded(out, e) = Append(out, e)
<1>1. Append(out, e) \in Seq(EventsOf(S))
  BY AppendIs
<1>2. NoEvent.data = <<>>
  BY NoEventIn
<1> QED
  BY <1>1, <1>2 DEF Yielded

\* The event after each of the first lines.
EventUpTo(lines, f) ==
  f[0] = NoEvent /\ \A i \in 1 .. Len(lines) : f[i] = TakeUnlessBlank(f[i - 1], lines[i])
EventBy(lines, f) ==
  f = [i \in 0 .. Len(lines) |->
         IF i = 0 THEN NoEvent ELSE TakeUnlessBlank(f[i - 1], lines[i])]

LEMMA EventIs ==
  ASSUME NEW lines, Len(lines) \in Nat, NEW f, EventUpTo(lines, f)
  PROVE  EventOf(lines) = f[Len(lines)]
<1> DEFINE N == Len(lines)
           g == [i \in 0 .. N |-> f[i]]
           k == CHOOSE h : EventBy(lines, h)
<1>1. EventBy(lines, g)
  <2>1. ASSUME NEW i \in 0 .. N
        PROVE  g[i] = IF i = 0 THEN NoEvent ELSE TakeUnlessBlank(g[i - 1], lines[i])
    <3>1. CASE i = 0
      BY <3>1 DEF EventUpTo
    <3>2. CASE i # 0
      <4>1. i \in 1 .. N /\ g[i] = f[i] /\ g[i - 1] = f[i - 1]
        BY <3>2
      <4> HIDE DEF g
      <4>2. f[i] = TakeUnlessBlank(f[i - 1], lines[i])
        BY <4>1 DEF EventUpTo
      <4> QED BY <3>2, <4>1, <4>2
    <3> QED BY <3>1, <3>2
  <2>2. g = [i \in 0 .. N |-> g[i]]
    OBVIOUS
  <2> HIDE DEF g
  <2> QED BY <2>1, <2>2 DEF EventBy
<1>2. EventBy(lines, k)
  <2> HIDE DEF g
  <2> QED BY <1>1
<1>3. EventOf(lines) = k[N]
  BY DEF EventOf, EventBy
<1> HIDE DEF k
<1>4. k[0] = NoEvent /\ \A i \in 1 .. N : k[i] = TakeUnlessBlank(k[i - 1], lines[i])
  <2>1. k[0] = NoEvent
    BY <1>2 DEF EventBy
  <2>2. ASSUME NEW i \in 1 .. N
        PROVE  k[i] = TakeUnlessBlank(k[i - 1], lines[i])
    <3>1. i \in 0 .. N /\ i # 0
      OBVIOUS
    <3> QED BY <1>2, <3>1 DEF EventBy
  <2> QED BY <2>1, <2>2
<1>5. \A i \in 0 .. N : k[i] = f[i]
  <2>1. f[0] = k[0]
    BY <1>4 DEF EventUpTo
  <2>2. \A i \in 1 .. N : k[i - 1] = f[i - 1] => k[i] = f[i]
    BY <1>4 DEF EventUpTo
  <2> QED BY <2>1, <2>2, OneSolution
<1> QED
  BY <1>3, <1>5

LEMMA EventExists ==
  ASSUME NEW S, NEW lines \in Seq(Seq(S))
  PROVE  \E f \in [0 .. Len(lines) -> EventsOf(S)] : EventUpTo(lines, f)
<1> DEFINE N == Len(lines)
           X == EventsOf(S)
           step == [p \in (1 .. N) \X X |-> TakeUnlessBlank(p[2], lines[p[1]])]
<1>1. N \in Nat /\ \A i \in 1 .. N : lines[i] \in Seq(S)
  OBVIOUS
<1>2. \A i \in 1 .. N, q \in X : step[<<i, q>>] = TakeUnlessBlank(q, lines[i])
  OBVIOUS
<1>3. step \in [(1 .. N) \X X -> X]
  <2>1. ASSUME NEW p \in (1 .. N) \X X
        PROVE  TakeUnlessBlank(p[2], lines[p[1]]) \in X
    <3>1. p[1] \in 1 .. N /\ p[2] \in X
      OBVIOUS
    <3> QED BY <1>1, <3>1, TakeUnlessBlankIn
  <2> QED BY <2>1
<1> HIDE DEF step
<1>4. NoEvent \in X
  BY NoEventIn
<1> HIDE DEF X
<1>5. PICK f \in [0 .. N -> X] : Solves(NoEvent, step, f, N)
  BY <1>1, <1>3, <1>4, Recursion
<1>6. EventUpTo(lines, f)
  <2>1. ASSUME NEW i \in 1 .. N
        PROVE  f[i] = TakeUnlessBlank(f[i - 1], lines[i])
    <3>1. i - 1 \in 0 .. N
      BY <1>1
    <3>2. f[i - 1] \in X
      BY <3>1, <1>5
    <3>3. f[i] = step[<<i, f[i - 1]>>]
      BY <1>5 DEF Solves
    <3> QED BY <3>2, <3>3, <1>2
  <2>2. f[0] = NoEvent
    BY <1>5 DEF Solves
  <2> QED BY <2>1, <2>2 DEF EventUpTo
<1> QED
  BY <1>6 DEF X

\* One more line.
LEMMA EventAppend ==
  ASSUME NEW S, NEW lines \in Seq(Seq(S)), NEW line \in Seq(S)
  PROVE  /\ EventOf(lines) \in EventsOf(S)
         /\ EventOf(Append(lines, line)) = TakeUnlessBlank(EventOf(lines), line)
<1> DEFINE u == Append(lines, line)
           N == Len(lines)
<1>1. /\ u \in Seq(Seq(S)) /\ Len(u) = N + 1 /\ N \in Nat
      /\ \A i \in 1 .. N : u[i] = lines[i]
      /\ u[N + 1] = line
  BY AppendIs
<1> HIDE DEF u
<1>2. PICK f \in [0 .. N + 1 -> EventsOf(S)] : EventUpTo(u, f)
  BY <1>1, EventExists
<1>3. EventUpTo(lines, f)
  <2>1. \A i \in 1 .. N : i \in 1 .. N + 1 /\ u[i] = lines[i]
    BY <1>1
  <2> QED BY <1>1, <1>2, <2>1 DEF EventUpTo
<1>4. EventOf(lines) = f[N]
  BY <1>1, <1>3, EventIs
<1>5. EventOf(u) = f[N + 1]
  <2>1. Len(u) \in Nat
    BY <1>1
  <2> QED BY <2>1, <1>1, <1>2, EventIs
<1>6. f[N + 1] = TakeUnlessBlank(f[N], line)
  <2>1. PICK i \in 1 .. N + 1 : i = N + 1 /\ i - 1 = N
    BY <1>1
  <2>2. f[i] = TakeUnlessBlank(f[i - 1], u[i])
    BY <1>1, <1>2 DEF EventUpTo
  <2> QED BY <1>1, <2>1, <2>2
<1>7. f[N] \in EventsOf(S)
  BY <1>1, <1>2
<1> QED
  BY <1>4, <1>5, <1>6, <1>7 DEF u

LEMMA EventEmpty == EventOf(<<>>) = NoEvent
<1> DEFINE f == [i \in 0 .. 0 |-> NoEvent]
<1>1. Len(<<>>) = 0
  OBVIOUS
<1>2. EventUpTo(<<>>, f) /\ f[0] = NoEvent
  BY <1>1 DEF EventUpTo
<1> HIDE DEF f
<1> QED
  BY <1>1, <1>2, EventIs

\* A line without CR and LF is itself when it is stripped; one of them behind it
\* makes no difference.
LEMMA StrippedIs ==
  ASSUME NEW S, NEW line \in Seq(S)
  PROVE  /\ Stripped(line) \in Seq(S)
         /\ (\A i \in 1 .. Len(line) : line[i] \notin {"r", "n"}) => Stripped(line) = line
         /\ \A c \in S \intersect {"r", "n"} : Stripped(Append(line, c)) = Stripped(line)
<1> DEFINE Bound(t) == LET kept == {i \in DOMAIN t : t[i] \notin {"r", "n"}}
                       IN  IF kept = {} THEN 0 ELSE Max(kept)
<1>1. ASSUME NEW t \in Seq(S)
      PROVE  Bound(t) \in 0 .. Len(t) /\ Stripped(t) = SubSeq(t, 1, Bound(t))
  <2> DEFINE kept == {i \in DOMAIN t : t[i] \notin {"r", "n"}}
  <2>1. kept \in SUBSET (0 .. Len(t)) /\ Len(t) \in Nat
    OBVIOUS
  <2>2. kept # {} => Max(kept) \in kept
    <3> HIDE DEF kept
    <3> QED BY <2>1, MaxIsThere
  <2>3. Bound(t) \in 0 .. Len(t)
    <3> DEFINE top == Max(kept)
    <3>1. kept # {} => top \in 0 .. Len(t)
      <4> HIDE DEF kept
      <4> QED BY <2>1, <2>2
    <3>2. 0 \in 0 .. Len(t)
      BY <2>1
    <3>3. (IF kept = {} THEN 0 ELSE top) \in 0 .. Len(t)
      <4> HIDE DEF kept, top
      <4> QED BY <3>1, <3>2
    <3> QED BY <3>3
  <2> QED BY <2>3 DEF Stripped
<1>2. Stripped(line) \in Seq(S)
  <2>1. Bound(line) \in Nat /\ Bound(line) <= Len(line) /\ 0 \in Nat /\ 0 + 1 = 1
    BY <1>1
  <2>2. SubSeq(line, 0 + 1, Bound(line)) \in Seq(S)
    <3> HIDE DEF Bound
    <3> QED BY <2>1, PartIs
  <2> QED BY <1>1, <2>1, <2>2
<1>3. ASSUME \A i \in 1 .. Len(line) : line[i] \notin {"r", "n"}
      PROVE  Stripped(line) = line
  <2>1. {i \in DOMAIN line : line[i] \notin {"r", "n"}} = 1 .. Len(line) /\ Len(line) \in Nat
    BY <1>3
  <2>2. Len(line) # 0 => Max(1 .. Len(line)) = Len(line)
    <3>1. Len(line) # 0 => /\ 1 .. Len(line) # {} /\ 1 .. Len(line) \in SUBSET (0 .. Len(line))
                           /\ Len(line) \in 1 .. Len(line)
      BY <2>1
    <3>2. Len(line) # 0 => /\ Max(1 .. Len(line)) \in 1 .. Len(line)
                           /\ \A y \in 1 .. Len(line) : y <= Max(1 .. Len(line))
      BY <2>1, <3>1, MaxIsThere
    <3> QED BY <2>1, <3>1, <3>2
  <2>3. Len(line) = 0 => 1 .. Len(line) = {}
    OBVIOUS
  <2>4. Len(line) # 0 => 1 .. Len(line) # {}
    BY <2>1
  <2>5. Stripped(line) = SubSeq(line, 1, Len(line))
    BY <2>1, <2>2, <2>3, <2>4 DEF Stripped
  <2>6. SubSeq(line, 0 + 1, Len(line)) = line /\ 0 + 1 = 1
    <3>1. 0 \in Nat /\ Len(line) <= Len(line)
      BY <2>1
    <3> QED BY <2>1, <3>1, PartIs
  <2> QED BY <2>5, <2>6
<1>4. ASSUME NEW c \in S \intersect {"r", "n"}
      PROVE  Stripped(Append(line, c)) = Stripped(line)
  <2> DEFINE t == Append(line, c)
             n == Bound(line)
  <2>1. /\ t \in Seq(S) /\ Len(t) = Len(line) + 1 /\ Len(line) \in Nat
        /\ \A i \in 1 .. Len(line) : t[i] = line[i]
        /\ t[Len(line) + 1] = c
    BY AppendIs
  <2> HIDE DEF t
  <2>2. {i \in DOMAIN t : t[i] \notin {"r", "n"}} = {i \in DOMAIN line : line[i] \notin {"r", "n"}}
    <3>1. DOMAIN t = 1 .. Len(line) + 1 /\ DOMAIN line = 1 .. Len(line)
      BY <2>1
    <3>2. t[Len(line) + 1] \in {"r", "n"}
      BY <2>1
    <3> QED BY <2>1, <3>1, <3>2
  <2>3. Bound(t) = n
    BY <2>2
  <2> HIDE DEF n, Bound
  <2>4. n \in Nat /\ n <= Len(line) /\ n <= Len(t) /\ Stripped(t) = SubSeq(t, 1, n) /\ Stripped(line) = SubSeq(line, 1, n)
    <3>1. n \in 0 .. Len(line) /\ Stripped(line) = SubSeq(line, 1, n)
      BY <1>1 DEF n
    <3>2. Stripped(t) = SubSeq(t, 1, n)
      BY <1>1, <2>1, <2>3
    <3> QED BY <3>1, <3>2, <2>1
  <2>5. /\ SubSeq(t, 0 + 1, n) \in Seq(S) /\ Len(SubSeq(t, 0 + 1, n)) = n - 0
        /\ \A i \in 1 .. n - 0 : SubSeq(t, 0 + 1, n)[i] = t[0 + i]
    BY <2>1, <2>4, PartIs
  <2>6. /\ SubSeq(line, 0 + 1, n) \in Seq(S) /\ Len(SubSeq(line, 0 + 1, n)) = n - 0
        /\ \A i \in 1 .. n - 0 : SubSeq(line, 0 + 1, n)[i] = line[0 + i]
    BY <2>4, PartIs
  <2>7. 0 + 1 = 1 /\ n - 0 = n /\ \A i \in 1 .. n : 0 + i \in 1 .. Len(line) /\ 0 + i = i
    BY <2>1, <2>4
  <2>8. SubSeq(t, 1, n) = SubSeq(line, 1, n)
    <3>1. \A i \in 1 .. n : SubSeq(t, 1, n)[i] = SubSeq(line, 1, n)[i]
      BY <2>1, <2>5, <2>6, <2>7
    <3>2. /\ SubSeq(t, 1, n) \in Seq(S) /\ SubSeq(line, 1, n) \in Seq(S)
          /\ Len(SubSeq(t, 1, n)) = n /\ Len(SubSeq(line, 1, n)) = n
      BY <2>5, <2>6, <2>7
    <3> QED BY <3>1, <3>2, SeqEqual
  <2> QED BY <2>4, <2>8 DEF t
<1> QED
  BY <1>2, <1>3, <1>4

-----------------------------------------------------------------------------
(* The decoder.                                                            *)

DecodersOf(S) == [out : Seq(EventsOf(S)), event : EventsOf(S), line : Seq(S)]

\* Ends of lines and tokens keep it well formed.
LEMMA EndLineIn ==
  ASSUME NEW S, NEW d \in DecodersOf(S)
  PROVE  /\ EndLine(d) \in DecodersOf(S) /\ EndLine(d).line = <<>>
         /\ Stripped(d.line) = <<>> =>
              EndLine(d).out = Yielded(d.out, d.event) /\ EndLine(d).event = NoEvent
         /\ Stripped(d.line) # <<>> =>
              /\ EndLine(d).out = d.out
              /\ EndLine(d).event = TakeLine(d.event, Head(Stripped(d.line)), Tail(Stripped(d.line)))
         /\ Told(d) \in Seq(EventsOf(S))
<1> DEFINE line == Stripped(d.line)
<1>1. d.out \in Seq(EventsOf(S)) /\ d.event \in EventsOf(S) /\ d.line \in Seq(S) /\ <<>> \in Seq(S)
  BY DEF DecodersOf
<1>2. line \in Seq(S)
  BY <1>1, StrippedIs
<1> HIDE DEF line
<1>3. NoEvent \in EventsOf(S) /\ Yielded(d.out, d.event) \in Seq(EventsOf(S))
  BY <1>1, NoEventIn, YieldedIn
<1>4. line # <<>> => TakeLine(d.event, Head(line), Tail(line)) \in EventsOf(S)
  BY <1>1, <1>2, HeadTailProperties, TakeLineIn
<1>5. EndLine(d) = IF line = <<>> THEN [out |-> Yielded(d.out, d.event), event |-> NoEvent, line |-> <<>>]
                   ELSE [out |-> d.out, event |-> TakeLine(d.event, Head(line), Tail(line)), line |-> <<>>]
  BY DEF EndLine, line
<1>6. CASE line = <<>>
  <2>1. EndLine(d) = [out |-> Yielded(d.out, d.event), event |-> NoEvent, line |-> <<>>]
    BY <1>5, <1>6
  <2>2. EndLine(d) \in DecodersOf(S)
    BY <2>1, <1>1, <1>3 DEF DecodersOf
  <2>3. EndLine(d).out \in Seq(EventsOf(S)) /\ EndLine(d).event \in EventsOf(S)
    BY <2>2 DEF DecodersOf
  <2>4. Told(d) \in Seq(EventsOf(S))
    BY <2>3, YieldedIn DEF Told
  <2> QED BY <1>6, <2>1, <2>2, <2>4 DEF line
<1>7. CASE line # <<>>
  <2>1. EndLine(d) = [out |-> d.out, event |-> TakeLine(d.event, Head(line), Tail(line)), line |-> <<>>]
    BY <1>5, <1>7
  <2>2. EndLine(d) \in DecodersOf(S)
    BY <2>1, <1>1, <1>4, <1>7 DEF DecodersOf
  <2>3. EndLine(d).out \in Seq(EventsOf(S)) /\ EndLine(d).event \in EventsOf(S)
    BY <2>2 DEF DecodersOf
  <2>4. Told(d) \in Seq(EventsOf(S))
    BY <2>3, YieldedIn DEF Told
  <2> QED BY <1>7, <2>1, <2>2, <2>4 DEF line
<1> QED
  BY <1>6, <1>7

LEMMA TakeTokenIn ==
  ASSUME NEW S, NEW d \in DecodersOf(S), NEW c \in S
  PROVE  /\ TakeToken(d, c) \in DecodersOf(S)
         /\ c = "n" => TakeToken(d, c) = EndLine(d)
         /\ c # "n" => /\ TakeToken(d, c).out = d.out /\ TakeToken(d, c).event = d.event
                       /\ TakeToken(d, c).line = Append(d.line, c)
<1>1. EndLine(d) \in DecodersOf(S)
  BY EndLineIn
<1>2. d.line \in Seq(S)
  BY DEF DecodersOf
<1>3. Append(d.line, c) \in Seq(S)
  BY <1>2, AppendIs
<1> DEFINE l == Append(d.line, c)
<1> HIDE DEF l
<1>4. c # "n" => TakeToken(d, c) = [d EXCEPT !.line = l]
  BY DEF TakeToken, l
<1>5. [d EXCEPT !.line = l] \in DecodersOf(S)
  BY <1>3 DEF DecodersOf, l
<1>6. c = "n" => TakeToken(d, c) = EndLine(d)
  BY DEF TakeToken
<1>7. /\ [d EXCEPT !.line = l].out = d.out /\ [d EXCEPT !.line = l].event = d.event
      /\ [d EXCEPT !.line = l].line = l
  BY DEF DecodersOf
<1> QED
  BY <1>1, <1>4, <1>5, <1>6, <1>7 DEF l

LEMMA BegunIn ==
  ASSUME NEW S
  PROVE  /\ Begun \in DecodersOf(S)
         /\ Begun.out = <<>> /\ Begun.event = NoEvent /\ Begun.line = <<>>
<1>1. NoEvent \in EventsOf(S)
  BY NoEventIn
<1> QED
  BY <1>1 DEF Begun, DecodersOf

\* What the decoder is after each prefix of the text.
DecodedUpTo(t, f) == f[0] = Begun /\ \A i \in 1 .. Len(t) : f[i] = TakeToken(f[i - 1], t[i])
DecodedBy(t, f) ==
  f = [i \in 0 .. Len(t) |-> IF i = 0 THEN Begun ELSE TakeToken(f[i - 1], t[i])]

LEMMA DecodedIs ==
  ASSUME NEW S, NEW t \in Seq(S)
  PROVE  Decoded(t) \in [0 .. Len(t) -> DecodersOf(S)] /\ DecodedUpTo(t, Decoded(t))
<1> DEFINE N == Len(t)
           X == DecodersOf(S)
           step == [p \in (1 .. N) \X X |-> TakeToken(p[2], t[p[1]])]
           k == CHOOSE h : DecodedBy(t, h)
<1>1. N \in Nat /\ \A i \in 1 .. N : t[i] \in S
  OBVIOUS
<1>2. \A i \in 1 .. N, q \in X : step[<<i, q>>] = TakeToken(q, t[i])
  OBVIOUS
<1>3. step \in [(1 .. N) \X X -> X]
  <2>1. ASSUME NEW p \in (1 .. N) \X X
        PROVE  TakeToken(p[2], t[p[1]]) \in X
    <3>1. p[1] \in 1 .. N /\ p[2] \in X
      OBVIOUS
    <3> QED BY <1>1, <3>1, TakeTokenIn
  <2> QED BY <2>1
<1> HIDE DEF step
<1>4. Begun \in X
  BY BegunIn
<1> HIDE DEF X
<1>5. PICK f \in [0 .. N -> X] : Solves(Begun, step, f, N)
  BY <1>1, <1>3, <1>4, Recursion
<1>6. DecodedUpTo(t, f)
  <2>1. ASSUME NEW i \in 1 .. N
        PROVE  f[i] = TakeToken(f[i - 1], t[i])
    <3>1. i - 1 \in 0 .. N
      BY <1>1
    <3>2. f[i - 1] \in X
      BY <3>1, <1>5
    <3>3. f[i] = step[<<i, f[i - 1]>>]
      BY <1>5 DEF Solves
    <3> QED BY <3>2, <3>3, <1>2
  <2>2. f[0] = Begun
    BY <1>5 DEF Solves
  <2> QED BY <2>1, <2>2 DEF DecodedUpTo
<1>7. DecodedBy(t, f)
  <2>1. ASSUME NEW i \in 0 .. N
        PROVE  f[i] = IF i = 0 THEN Begun ELSE TakeToken(f[i - 1], t[i])
    <3>1. CASE i = 0
      BY <3>1, <1>6 DEF DecodedUpTo
    <3>2. CASE i # 0
      <4>1. i \in 1 .. N
        BY <3>2
      <4>2. f[i] = TakeToken(f[i - 1], t[i])
        BY <4>1, <1>6 DEF DecodedUpTo
      <4> QED BY <3>2, <4>2
    <3> QED BY <3>1, <3>2
  <2>2. f = [i \in 0 .. N |-> f[i]]
    OBVIOUS
  <2> QED BY <2>1, <2>2 DEF DecodedBy
<1>8. DecodedBy(t, k)
  BY <1>7
<1>9. Decoded(t) = k
  BY DEF Decoded, DecodedBy
<1> HIDE DEF k
<1>10. DecodedUpTo(t, k)
  <2>1. k[0] = Begun
    BY <1>8 DEF DecodedBy
  <2>2. ASSUME NEW i \in 1 .. N
        PROVE  k[i] = TakeToken(k[i - 1], t[i])
    <3>1. i \in 0 .. N /\ i # 0
      OBVIOUS
    <3> QED BY <1>8, <3>1 DEF DecodedBy
  <2> QED BY <2>1, <2>2 DEF DecodedUpTo
<1>11. \A i \in 0 .. N : k[i] = f[i]
  <2>1. f[0] = k[0]
    BY <1>6, <1>10 DEF DecodedUpTo
  <2>2. \A i \in 1 .. N : k[i - 1] = f[i - 1] => k[i] = f[i]
    BY <1>6, <1>10 DEF DecodedUpTo
  <2> QED BY <1>1, <2>1, <2>2, OneSolution
<1>12. k = [i \in 0 .. N |-> f[i]]
  <2>1. k = [i \in 0 .. N |-> IF i = 0 THEN Begun ELSE TakeToken(k[i - 1], t[i])]
    BY <1>8 DEF DecodedBy
  <2>2. k = [i \in 0 .. N |-> k[i]]
    BY <2>1
  <2> QED BY <2>2, <1>11
<1>13. k \in [0 .. N -> X]
  BY <1>12
<1> QED
  BY <1>9, <1>10, <1>13 DEF X

\* The decoder token by token.
LEMMA DecodedStep ==
  ASSUME NEW S, NEW t \in Seq(S), NEW a \in Nat, a < Len(t)
  PROVE  LET d == Decoded(t)[a]
             e == Decoded(t)[a + 1]
             c == t[a + 1] IN
         /\ d \in DecodersOf(S) /\ e \in DecodersOf(S) /\ c \in S
         /\ c = "n" => e = EndLine(d)
         /\ c # "n" => e.out = d.out /\ e.event = d.event /\ e.line = Append(d.line, c)
<1> DEFINE d == Decoded(t)[a]
           e == Decoded(t)[a + 1]
           c == t[a + 1]
<1>1. PICK i \in 1 .. Len(t) : i = a + 1 /\ i - 1 = a /\ a \in 0 .. Len(t) /\ i \in 0 .. Len(t)
  OBVIOUS
<1>2. d \in DecodersOf(S) /\ e \in DecodersOf(S) /\ c \in S
  BY <1>1, DecodedIs
<1>3. e = TakeToken(d, c)
  <2>1. Decoded(t)[i] = TakeToken(Decoded(t)[i - 1], t[i])
    BY DecodedIs DEF DecodedUpTo
  <2> QED BY <1>1, <2>1
<1> HIDE DEF d, e, c
<1>4. /\ c = "n" => e = EndLine(d)
      /\ c # "n" => e.out = d.out /\ e.event = d.event /\ e.line = Append(d.line, c)
  BY <1>2, <1>3, TakeTokenIn
<1> QED
  BY <1>2, <1>4 DEF d, e, c

-----------------------------------------------------------------------------
(* The text.                                                               *)

\* Where \o stays within a set of sequences, so does flattening.
LEMMA FlatClosed ==
  ASSUME NEW S, NEW K \in SUBSET Seq(S), <<>> \in K,
         \A p \in K, q \in K : p \o q \in K,
         NEW ss \in Seq(K)
  PROVE  FlattenSeq(ss) \in K
<1> DEFINE N == Len(ss)
<1>1. N \in Nat /\ ss \in Seq(Seq(S)) /\ \A i \in 1 .. N : ss[i] \in K
  <2>1. N \in Nat /\ \A i \in 1 .. N : ss[i] \in K
    OBVIOUS
  <2>2. ss = [i \in 1 .. N |-> ss[i]] /\ \A i \in 1 .. N : ss[i] \in Seq(S)
    BY <2>1
  <2> QED BY <2>1, <2>2
<1>2. PICK f : FlatUpTo(ss, f)
  BY <1>1, FlatExists
<1>3. FlattenSeq(ss) = f[N]
  BY <1>1, <1>2, FlatIs
<1> DEFINE G == {i \in 0 .. N : f[i] \in K}
<1>4. 0 \in G
  <2>1. f[0] = <<>>
    BY <1>2 DEF FlatUpTo
  <2> QED BY <1>1, <2>1
<1>5. ASSUME NEW i \in 0 .. N, i < N, i \in G
      PROVE  i + 1 \in G
  <2>1. PICK j \in 1 .. N : j = i + 1 /\ j - 1 = i
    BY <1>1, <1>5
  <2>2. f[j] = f[j - 1] \o ss[j]
    BY <1>2 DEF FlatUpTo
  <2>3. f[j - 1] \in K /\ ss[j] \in K
    BY <1>1, <1>5, <2>1
  <2> DEFINE u == f[j - 1]
             v == ss[j]
  <2>4. f[j] = u \o v /\ u \in K /\ v \in K
    BY <2>2, <2>3
  <2> HIDE DEF u, v
  <2>5. f[j] \in K
    BY <2>4
  <2>6. j \in 0 .. N
    BY <2>1
  <2> QED BY <2>1, <2>5, <2>6
<1>6. N \in G
  <2> HIDE DEF G
  <2>1. \A i \in 0 .. N : i \in G
    BY <1>1, <1>4, <1>5, Upwards
  <2> QED BY <1>1, <2>1
<1> QED
  BY <1>3, <1>6

\* A line of a block, its text without the line end, and the text of a block.
LineSet == [field : Fields, value : Seq(Characters)]
Body(l) == <<l.field>> \o l.value
LinesText(b) == FlattenSeq([j \in DOMAIN b |-> Line(b[j])])
BlockText(b) == LinesText(b) \o eol
BlockTexts(blocks) == [i \in DOMAIN blocks |-> BlockText(blocks[i])]

LEMMA TextOfIs ==
  ASSUME NEW blocks
  PROVE  TextOf(blocks) = FlattenSeq(BlockTexts(blocks))
BY DEF TextOf, BlockTexts, BlockText, LinesText

Ends == {<<"n">>, <<"r", "n">>}
Plain(s) == \A i \in 1 .. Len(s) : s[i] \notin {"r", "n"}

\* A token of a value is a token, no line end among them.
LEMMA ValueIs ==
  ASSUME NEW v \in Seq(Characters)
  PROVE  v \in Seq(Tokens) /\ Plain(v)
<1>1. \A i \in 1 .. Len(v) : v[i] \in Characters
  OBVIOUS
<1>2. \A i \in 1 .. Len(v) : v[i] \in Tokens /\ v[i] \notin {"r", "n"}
  BY <1>1, BlocksAssumption DEF Tokens
<1>3. v = [i \in 1 .. Len(v) |-> v[i]] /\ Len(v) \in Nat
  OBVIOUS
<1> QED
  BY <1>2, <1>3 DEF Plain

LEMMA BodyIs ==
  ASSUME NEW l \in LineSet
  PROVE  /\ Body(l) \in Seq(Tokens) /\ Plain(Body(l)) /\ Body(l) # <<>>
         /\ Len(Body(l)) = Len(l.value) + 1 /\ Len(l.value) \in Nat
         /\ Body(l)[1] = l.field
         /\ \A i \in 1 .. Len(l.value) : Body(l)[i + 1] = l.value[i]
<1> DEFINE v == l.value
           h == <<l.field>>
<1>1. v \in Seq(Tokens) /\ Plain(v) /\ Len(v) \in Nat
  BY ValueIs DEF LineSet
<1>2. l.field \in Tokens /\ l.field \notin {"r", "n"}
  BY DEF LineSet, Tokens, Fields
<1>3. h \in Seq(Tokens) /\ Len(h) = 1 /\ h[1] = l.field
  BY <1>2
<1> HIDE DEF v, h
<1>4. /\ h \o v \in Seq(Tokens) /\ Len(h \o v) = 1 + Len(v)
      /\ \A i \in 1 .. 1 + Len(v) : (h \o v)[i] = IF i <= 1 THEN h[i] ELSE v[i - 1]
  <2>1. /\ h \o v \in Seq(Tokens) /\ Len(h \o v) = Len(h) + Len(v)
        /\ \A i \in 1 .. Len(h) + Len(v) : (h \o v)[i] = IF i <= Len(h) THEN h[i] ELSE v[i - Len(h)]
    BY <1>1, <1>3, ConcatProperties
  <2> QED BY <1>3, <2>1
<1>5. (h \o v)[1] = l.field
  BY <1>1, <1>3, <1>4
<1>6. ASSUME NEW i \in 1 .. Len(v)
      PROVE  (h \o v)[i + 1] = v[i]
  <2>1. i + 1 \in 1 .. 1 + Len(v) /\ ~(i + 1 <= 1) /\ i + 1 - 1 = i
    BY <1>1
  <2> QED BY <2>1, <1>4
<1>7. Plain(h \o v)
  <2> SUFFICES ASSUME NEW i \in 1 .. Len(h \o v)
               PROVE  (h \o v)[i] \notin {"r", "n"}
    BY DEF Plain
  <2>1. CASE i = 1
    BY <2>1, <1>2, <1>5
  <2>2. CASE i # 1
    <3>1. i - 1 \in 1 .. Len(v) /\ i - 1 + 1 = i
      BY <1>1, <1>4, <2>2
    <3>2. (h \o v)[i] = v[i - 1]
      BY <1>6, <3>1
    <3> QED BY <1>1, <3>1, <3>2 DEF Plain
  <2> QED BY <2>1, <2>2
<1>8. h \o v # <<>> /\ Len(h \o v) = Len(v) + 1
  BY <1>1, <1>4
<1> QED
  BY <1>1, <1>4, <1>5, <1>6, <1>7, <1>8 DEF Body, v, h

\* Behind the text of a line comes its line end.
LEMMA WithEnd ==
  ASSUME NEW body \in Seq(Tokens), Plain(body), NEW e \in Ends
  PROVE  LET n == Len(body)
             t == body \o e IN
         /\ t \in Seq(Tokens) /\ Len(t) = n + Len(e) /\ n \in Nat /\ Len(e) \in 1 .. 2
         /\ \A i \in 1 .. n : t[i] = body[i] /\ t[i] \notin {"r", "n"}
         /\ \A i \in 1 .. Len(e) : t[n + i] = e[i]
         /\ e[Len(e)] = "n" /\ (Len(e) = 2 => e[1] = "r")
<1> DEFINE n == Len(body)
           t == body \o e
<1>1. n \in Nat /\ \A i \in 1 .. n : body[i] \notin {"r", "n"}
  BY DEF Plain
<1>2. "r" \in Tokens /\ "n" \in Tokens
  BY DEF Tokens
<1>3. e \in Seq(Tokens) /\ Len(e) \in 1 .. 2 /\ e[Len(e)] = "n" /\ (Len(e) = 2 => e[1] = "r")
  <2>1. CASE e = <<"n">>
    BY <2>1, <1>2
  <2>2. CASE e = <<"r", "n">>
    BY <2>2, <1>2
  <2> QED BY <2>1, <2>2 DEF Ends
<1> HIDE DEF t
<1>4. /\ t \in Seq(Tokens) /\ Len(t) = n + Len(e)
      /\ \A i \in 1 .. n + Len(e) : t[i] = IF i <= n THEN body[i] ELSE e[i - n]
  BY <1>3, ConcatProperties DEF t
<1>5. \A i \in 1 .. n : t[i] = body[i] /\ t[i] \notin {"r", "n"}
  BY <1>1, <1>3, <1>4
<1>6. ASSUME NEW i \in 1 .. Len(e)
      PROVE  t[n + i] = e[i]
  <2>1. n + i \in 1 .. n + Len(e) /\ ~(n + i <= n) /\ n + i - n = i
    BY <1>1, <1>3
  <2> QED BY <2>1, <1>4
<1> QED
  BY <1>1, <1>3, <1>4, <1>5, <1>6 DEF t

\* A kind of text that lines, line ends and what is put together of them are of,
\* all text is of.
LEMMA KindOfText ==
  ASSUME NEW K \in SUBSET Seq(Tokens), <<>> \in K, eol \in K,
         \A p \in K, q \in K : p \o q \in K,
         \A l \in LineSet : Line(l) \in K
  PROVE  /\ \A b \in Seq(LineSet) : LinesText(b) \in K /\ BlockText(b) \in K
         /\ \A blocks \in Seq(Blocks) : TextOf(blocks) \in K
<1>1. ASSUME NEW b \in Seq(LineSet)
      PROVE  LinesText(b) \in K /\ BlockText(b) \in K
  <2> DEFINE ss == [j \in DOMAIN b |-> Line(b[j])]
  <2>1. DOMAIN b = 1 .. Len(b) /\ Len(b) \in Nat /\ \A j \in 1 .. Len(b) : b[j] \in LineSet
    OBVIOUS
  <2>2. \A j \in 1 .. Len(b) : Line(b[j]) \in K
    BY <2>1
  <2>3. ss = [j \in 1 .. Len(b) |-> Line(b[j])]
    BY <2>1
  <2>4. ss \in Seq(K)
    BY <2>1, <2>2, <2>3
  <2> HIDE DEF ss
  <2>5. FlattenSeq(ss) \in K
    BY <2>4, FlatClosed
  <2>6. LinesText(b) \in K
    BY <2>5 DEF LinesText, ss
  <2> QED BY <2>6 DEF BlockText
<1>2. ASSUME NEW blocks \in Seq(Blocks)
      PROVE  TextOf(blocks) \in K
  <2> DEFINE ss == BlockTexts(blocks)
  <2>1. /\ DOMAIN blocks = 1 .. Len(blocks) /\ Len(blocks) \in Nat
        /\ \A j \in 1 .. Len(blocks) : blocks[j] \in Blocks
    OBVIOUS
  <2>2. \A j \in 1 .. Len(blocks) : BlockText(blocks[j]) \in K
    BY <2>1, <1>1, BlocksAssumption DEF LineSet
  <2>3. ss = [j \in 1 .. Len(blocks) |-> BlockText(blocks[j])]
    BY <2>1 DEF BlockTexts
  <2>4. ss \in Seq(K)
    BY <2>1, <2>2, <2>3
  <2> HIDE DEF ss
  <2>5. FlattenSeq(ss) \in K
    BY <2>4, FlatClosed
  <2> QED BY <2>5, TextOfIs DEF ss
<1> QED
  BY <1>1, <1>2

\* Text with LF line ends has no CR; with CR LF ones the two come together.
NoCr(s) == \A i \in 1 .. Len(s) : s[i] # "r"
CrLf(s) ==
  \A i \in 1 .. Len(s) :
    /\ s[i] = "r" => i + 1 \in 1 .. Len(s) /\ s[i + 1] = "n"
    /\ s[i] = "n" => i - 1 \in 1 .. Len(s) /\ s[i - 1] = "r"

LEMMA EndsIs ==
  ASSUME NEW e \in Ends
  PROVE  /\ e \in Seq(Tokens) /\ Len(e) \in 1 .. 2 /\ e[Len(e)] = "n"
         /\ (e = <<"n">> => NoCr(e)) /\ (e = <<"r", "n">> => Len(e) = 2 /\ e[1] = "r" /\ CrLf(e))
<1>1. "r" \in Tokens /\ "n" \in Tokens
  BY DEF Tokens
<1>2. CASE e = <<"n">>
  BY <1>1, <1>2 DEF NoCr
<1>3. CASE e = <<"r", "n">>
  <2>1. Len(e) = 2 /\ e[1] = "r" /\ e[2] = "n" /\ e \in Seq(Tokens)
    BY <1>1, <1>3
  <2>2. CrLf(e)
    BY <2>1 DEF CrLf
  <2> QED BY <1>3, <2>1, <2>2
<1> QED
  BY <1>2, <1>3 DEF Ends

LEMMA NoCrConcat ==
  ASSUME NEW p \in Seq(Tokens), NEW q \in Seq(Tokens), NoCr(p), NoCr(q)
  PROVE  NoCr(p \o q)
<1>1. /\ Len(p \o q) = Len(p) + Len(q) /\ Len(p) \in Nat /\ Len(q) \in Nat
      /\ \A i \in 1 .. Len(p) + Len(q) : (p \o q)[i] = IF i <= Len(p) THEN p[i] ELSE q[i - Len(p)]
  BY ConcatProperties, LenProperties
<1>2. ASSUME NEW i \in 1 .. Len(p) + Len(q)
      PROVE  (p \o q)[i] # "r"
  <2>1. CASE i <= Len(p)
    <3>1. i \in 1 .. Len(p) /\ (p \o q)[i] = p[i]
      BY <1>1, <2>1
    <3> QED BY <3>1 DEF NoCr
  <2>2. CASE ~(i <= Len(p))
    <3>1. i - Len(p) \in 1 .. Len(q) /\ (p \o q)[i] = q[i - Len(p)]
      BY <1>1, <2>2
    <3> QED BY <3>1 DEF NoCr
  <2> QED BY <2>1, <2>2
<1> QED
  BY <1>1, <1>2 DEF NoCr

LEMMA CrLfConcat ==
  ASSUME NEW p \in Seq(Tokens), NEW q \in Seq(Tokens), CrLf(p), CrLf(q)
  PROVE  CrLf(p \o q)
<1> DEFINE m == Len(p)
           n == Len(q)
           t == p \o q
<1>1. /\ Len(t) = m + n /\ m \in Nat /\ n \in Nat
      /\ \A i \in 1 .. m + n : t[i] = IF i <= m THEN p[i] ELSE q[i - m]
  BY ConcatProperties, LenProperties
<1> HIDE DEF t, m, n
<1>2. \A i \in 1 .. m : t[i] = p[i] /\ i \in 1 .. m + n
  BY <1>1
<1>3. ASSUME NEW i \in 1 .. n
      PROVE  t[m + i] = q[i] /\ m + i \in 1 .. m + n
  <2>1. m + i \in 1 .. m + n /\ ~(m + i <= m) /\ m + i - m = i
    BY <1>1
  <2> QED BY <2>1, <1>1
<1>4. ASSUME NEW i \in 1 .. m + n
      PROVE  /\ t[i] = "r" => i + 1 \in 1 .. m + n /\ t[i + 1] = "n"
             /\ t[i] = "n" => i - 1 \in 1 .. m + n /\ t[i - 1] = "r"
  <2>1. CASE i <= m
    <3>1. i \in 1 .. m
      BY <2>1, <1>1
    <3>2. /\ p[i] = "r" => i + 1 \in 1 .. m /\ p[i + 1] = "n"
          /\ p[i] = "n" => i - 1 \in 1 .. m /\ p[i - 1] = "r"
      BY <3>1 DEF CrLf, m
    <3> QED BY <3>1, <3>2, <1>2
  <2>2. CASE ~(i <= m)
    <3>1. PICK j \in 1 .. n : i = m + j /\ i + 1 = m + (j + 1) /\ i - 1 = m + (j - 1)
      <4>1. i - m \in 1 .. n /\ i = m + (i - m)
        BY <1>1, <2>2
      <4>2. i + 1 = m + (i - m + 1) /\ i - 1 = m + (i - m - 1)
        BY <1>1
      <4> QED BY <4>1, <4>2
    <3>2. /\ q[j] = "r" => j + 1 \in 1 .. n /\ q[j + 1] = "n"
          /\ q[j] = "n" => j - 1 \in 1 .. n /\ q[j - 1] = "r"
      BY DEF CrLf, n
    <3>3. t[i] = q[j]
      BY <3>1, <1>3
    <3> QED BY <3>1, <3>2, <3>3, <1>3
  <2> QED BY <2>1, <2>2
<1>5. CrLf(t)
  BY <1>1, <1>4 DEF CrLf
<1> QED
  BY <1>5 DEF t

LEMMA PlainKinds ==
  ASSUME NEW s, Plain(s)
  PROVE  NoCr(s) /\ CrLf(s)
BY DEF Plain, NoCr, CrLf

LEMMA TextIs ==
  ASSUME eol \in Ends
  PROVE  /\ \A b \in Seq(LineSet) : LinesText(b) \in Seq(Tokens) /\ BlockText(b) \in Seq(Tokens)
         /\ \A blocks \in Seq(Blocks) :
              /\ TextOf(blocks) \in Seq(Tokens)
              /\ eol = <<"n">> => NoCr(TextOf(blocks))
              /\ eol = <<"r", "n">> => CrLf(TextOf(blocks))
<1>1. /\ <<>> \in Seq(Tokens) /\ eol \in Seq(Tokens)
      /\ \A p \in Seq(Tokens), q \in Seq(Tokens) : p \o q \in Seq(Tokens)
  BY EndsIs, ConcatProperties
<1>2. \A l \in LineSet : /\ Body(l) \in Seq(Tokens) /\ Plain(Body(l)) /\ Line(l) = Body(l) \o eol
                         /\ Line(l) \in Seq(Tokens)
  <2> SUFFICES ASSUME NEW l \in LineSet
               PROVE  /\ Body(l) \in Seq(Tokens) /\ Plain(Body(l)) /\ Line(l) = Body(l) \o eol
                      /\ Line(l) \in Seq(Tokens)
    OBVIOUS
  <2>1. Body(l) \in Seq(Tokens) /\ Plain(Body(l))
    BY BodyIs
  <2>2. Line(l) = Body(l) \o eol
    BY DEF Line, Body
  <2>3. Body(l) \o eol \in Seq(Tokens)
    BY <2>1, <1>1
  <2> QED BY <2>1, <2>2, <2>3
<1>3. /\ \A b \in Seq(LineSet) : LinesText(b) \in Seq(Tokens) /\ BlockText(b) \in Seq(Tokens)
      /\ \A blocks \in Seq(Blocks) : TextOf(blocks) \in Seq(Tokens)
  BY <1>1, <1>2, KindOfText
<1>4. ASSUME eol = <<"n">>
      PROVE  \A blocks \in Seq(Blocks) : NoCr(TextOf(blocks))
  <2> DEFINE K == {s \in Seq(Tokens) : NoCr(s)}
  <2>1. <<>> \in K
    BY <1>1 DEF NoCr
  <2>2. eol \in K
    BY <1>1, <1>4, EndsIs
  <2>3. ASSUME NEW p \in K, NEW q \in K PROVE p \o q \in K
    BY <1>1, NoCrConcat
  <2>4. ASSUME NEW l \in LineSet PROVE Line(l) \in K
    <3>1. Body(l) \in K
      BY <1>2, PlainKinds
    <3> QED BY <3>1, <1>2, <2>2, <2>3
  <2>5. K \in SUBSET Seq(Tokens)
    OBVIOUS
  <2> HIDE DEF K
  <2>6. \A blocks \in Seq(Blocks) : TextOf(blocks) \in K
    BY <2>1, <2>2, <2>3, <2>4, <2>5, KindOfText
  <2> QED BY <2>6 DEF K
<1>5. ASSUME eol = <<"r", "n">>
      PROVE  \A blocks \in Seq(Blocks) : CrLf(TextOf(blocks))
  <2> DEFINE K == {s \in Seq(Tokens) : CrLf(s)}
  <2>1. <<>> \in K
    BY <1>1 DEF CrLf
  <2>2. eol \in K
    BY <1>1, <1>5, EndsIs
  <2>3. ASSUME NEW p \in K, NEW q \in K PROVE p \o q \in K
    BY <1>1, CrLfConcat
  <2>4. ASSUME NEW l \in LineSet PROVE Line(l) \in K
    <3>1. Body(l) \in K
      BY <1>2, PlainKinds
    <3> QED BY <3>1, <1>2, <2>2, <2>3
  <2>5. K \in SUBSET Seq(Tokens)
    OBVIOUS
  <2> HIDE DEF K
  <2>6. \A blocks \in Seq(Blocks) : TextOf(blocks) \in K
    BY <2>1, <2>2, <2>3, <2>4, <2>5, KindOfText
  <2> QED BY <2>6 DEF K
<1> QED
  BY <1>3, <1>4, <1>5

-----------------------------------------------------------------------------
(* Decoding a text.                                                        *)

LEMMA DecodedAt ==
  ASSUME NEW S, NEW t \in Seq(S)
  PROVE  /\ \A a \in 0 .. Len(t) : Decoded(t)[a] \in DecodersOf(S)
         /\ Decoded(t)[0].out = <<>> /\ Decoded(t)[0].event = NoEvent /\ Decoded(t)[0].line = <<>>
<1>1. Decoded(t) \in [0 .. Len(t) -> DecodersOf(S)] /\ Decoded(t)[0] = Begun
  BY DecodedIs DEF DecodedUpTo
<1> QED
  BY <1>1, BegunIn

\* Within a line only the line grows.
LEMMA Stretch ==
  ASSUME NEW S, NEW t \in Seq(S), NEW a \in Nat, NEW b \in a .. Len(t),
         \A i \in a + 1 .. b : t[i] # "n",
         Decoded(t)[a].line = <<>>
  PROVE  LET d == Decoded(t)[a]
             e == Decoded(t)[b] IN
         e.out = d.out /\ e.event = d.event /\ e.line = SubSeq(t, a + 1, b)
<1> DEFINE D == Decoded(t)
           G == {m \in 0 .. b - a : /\ D[a + m].out = D[a].out /\ D[a + m].event = D[a].event
                                    /\ D[a + m].line = SubSeq(t, a + 1, a + m)}
<1>1. b - a \in Nat /\ Len(t) \in Nat /\ a + 0 = a /\ a + (b - a) = b /\ b - a \in 0 .. b - a
  OBVIOUS
<1>2. 0 \in G
  <2>1. SubSeq(t, a + 1, a) = <<>>
    BY PartIs
  <2>2. D[a].line = SubSeq(t, a + 1, a)
    BY <2>1
  <2> HIDE DEF D
  <2> QED BY <1>1, <2>2
<1>3. ASSUME NEW m \in 0 .. b - a, m < b - a, m \in G
      PROVE  m + 1 \in G
  <2>1. PICK i \in Nat : i = a + m /\ i + 1 = a + (m + 1) /\ a <= i /\ i < Len(t) /\ i + 1 \in a + 1 .. b /\ m + 1 \in 0 .. b - a
    BY <1>1, <1>3
  <2>2. t[i + 1] # "n"
    BY <2>1
  <2>3. D[i + 1].out = D[i].out /\ D[i + 1].event = D[i].event /\ D[i + 1].line = Append(D[i].line, t[i + 1])
    BY <2>1, <2>2, DecodedStep
  <2>4. SubSeq(t, a + 1, i + 1) = Append(SubSeq(t, a + 1, i), t[i + 1])
    BY <2>1, LongerPart
  <2>5. D[i].out = D[a].out /\ D[i].event = D[a].event /\ D[i].line = SubSeq(t, a + 1, i)
    BY <1>3, <2>1
  <2> HIDE DEF D
  <2>6. D[i + 1].out = D[a].out /\ D[i + 1].event = D[a].event /\ D[i + 1].line = SubSeq(t, a + 1, i + 1)
    BY <2>3, <2>4, <2>5
  <2> QED BY <2>1, <2>6
<1>4. b - a \in G
  <2> HIDE DEF G
  <2>1. \A m \in 0 .. b - a : m \in G
    BY <1>1, <1>2, <1>3, Upwards
  <2> QED BY <2>1, <1>1
<1> QED
  BY <1>1, <1>4

\* Prefixes, element by element.
LEMMA PrefixIs ==
  ASSUME NEW S, NEW s \in Seq(S), NEW t \in Seq(S)
  PROVE  IsPrefix(s, t) <=> Len(s) <= Len(t) /\ \A i \in 1 .. Len(s) : s[i] = t[i]
<1> DEFINE n == Len(s)
<1>1. n \in Nat /\ Len(t) \in Nat /\ 0 + 1 = 1 /\ n - 0 = n /\ n <= n /\ 0 <= n
  OBVIOUS
<1>2. SubSeq(s, 1, n) = s
  BY <1>1, PartIs
<1>3. ASSUME n <= Len(t)
      PROVE  SubSeq(s, 1, n) = SubSeq(t, 1, n) <=> \A i \in 1 .. n : s[i] = t[i]
  <2> DEFINE p == SubSeq(t, 0 + 1, n)
  <2>1. p \in Seq(S) /\ Len(p) = n - 0 /\ \A i \in 1 .. n - 0 : p[i] = t[0 + i]
    BY <1>1, <1>3, PartIs
  <2>2. \A i \in 1 .. n : 0 + i = i
    BY <1>1
  <2>3. p = SubSeq(t, 1, n)
    BY <1>1
  <2> HIDE DEF p
  <2>4. (\A i \in 1 .. n : s[i] = t[i]) => p = s
    <3>1. (\A i \in 1 .. n : s[i] = t[i]) => \A i \in 1 .. Len(p) : p[i] = s[i]
      BY <1>1, <2>1, <2>2
    <3>2. Len(p) = Len(s)
      BY <1>1, <2>1
    <3> QED BY <2>1, <3>1, <3>2, SeqEqual
  <2>5. p = s => \A i \in 1 .. n : s[i] = t[i]
    BY <1>1, <2>1, <2>2
  <2> QED BY <1>2, <2>3, <2>4, <2>5
<1> QED
  BY <1>3 DEF IsPrefix

LEMMA PrefixFacts ==
  ASSUME NEW S, NEW s \in Seq(S)
  PROVE  /\ IsPrefix(s, s)
         /\ IsPrefix(<<>>, s)
         /\ \A x \in S : IsPrefix(s, Append(s, x))
         /\ \A t \in Seq(S), u \in Seq(S) : IsPrefix(s, t) /\ IsPrefix(t, u) => IsPrefix(s, u)
<1>1. Len(s) \in Nat
  OBVIOUS
<1>2. IsPrefix(s, s)
  BY <1>1, PrefixIs
<1>3. IsPrefix(<<>>, s)
  <2> DEFINE e == <<>>
  <2>1. e \in Seq(S) /\ Len(e) = 0
    OBVIOUS
  <2> HIDE DEF e
  <2>2. Len(e) <= Len(s) /\ \A i \in 1 .. Len(e) : e[i] = s[i]
    BY <1>1, <2>1
  <2>3. IsPrefix(e, s)
    BY <2>1, <2>2, PrefixIs
  <2> QED BY <2>3 DEF e
<1>4. ASSUME NEW x \in S
      PROVE  IsPrefix(s, Append(s, x))
  <2>1. /\ Append(s, x) \in Seq(S) /\ Len(Append(s, x)) = Len(s) + 1
        /\ \A i \in 1 .. Len(s) : Append(s, x)[i] = s[i]
    BY AppendIs
  <2>2. Len(s) <= Len(Append(s, x))
    BY <1>1, <2>1
  <2> QED BY <2>1, <2>2, PrefixIs
<1>5. ASSUME NEW t \in Seq(S), NEW u \in Seq(S), IsPrefix(s, t), IsPrefix(t, u)
      PROVE  IsPrefix(s, u)
  <2>1. Len(s) <= Len(t) /\ \A i \in 1 .. Len(s) : s[i] = t[i]
    BY <1>5, PrefixIs
  <2>2. Len(t) <= Len(u) /\ \A i \in 1 .. Len(t) : t[i] = u[i]
    BY <1>5, PrefixIs
  <2>3. Len(t) \in Nat /\ Len(u) \in Nat
    OBVIOUS
  <2>4. Len(s) <= Len(u) /\ \A i \in 1 .. Len(s) : i \in 1 .. Len(t)
    BY <1>1, <2>1, <2>2, <2>3
  <2>5. \A i \in 1 .. Len(s) : s[i] = u[i]
    BY <2>1, <2>2, <2>4
  <2> QED BY <2>4, <2>5, PrefixIs
<1> QED
  BY <1>2, <1>3, <1>4, <1>5

LEMMA YieldedGrows ==
  ASSUME NEW S, NEW out \in Seq(EventsOf(S)), NEW e \in EventsOf(S)
  PROVE  IsPrefix(out, Yielded(out, e))
<1>1. CASE e.data = <<>>
  <2>1. Yielded(out, e) = out
    BY <1>1, YieldedIn
  <2> QED BY <2>1, PrefixFacts
<1>2. CASE e.data # <<>>
  <2>1. Yielded(out, e) = Append(out, e)
    BY <1>2, YieldedIn
  <2> QED BY <2>1, PrefixFacts
<1> QED
  BY <1>1, <1>2

\* What was told stays told.
LEMMA ToldGrows ==
  ASSUME NEW S, NEW d \in DecodersOf(S)
  PROVE  IsPrefix(d.out, EndLine(d).out) /\ EndLine(d).out \in Seq(EventsOf(S))
<1>1. d.out \in Seq(EventsOf(S)) /\ d.event \in EventsOf(S)
  BY DEF DecodersOf
<1>2. EndLine(d).out \in Seq(EventsOf(S))
  BY EndLineIn DEF DecodersOf
<1>3. CASE Stripped(d.line) = <<>>
  <2>1. EndLine(d).out = Yielded(d.out, d.event)
    BY <1>3, EndLineIn
  <2> QED BY <1>1, <1>2, <2>1, YieldedGrows
<1>4. CASE Stripped(d.line) # <<>>
  <2>1. EndLine(d).out = d.out
    BY <1>4, EndLineIn
  <2> QED BY <1>1, <1>2, <2>1, PrefixFacts
<1> QED
  BY <1>3, <1>4

LEMMA Monotone ==
  ASSUME NEW S, NEW t \in Seq(S), NEW a \in Nat, NEW b \in a .. Len(t)
  PROVE  IsPrefix(Decoded(t)[a].out, Decoded(t)[b].out)
<1> DEFINE D == Decoded(t)
           G == {m \in 0 .. b - a : IsPrefix(D[a].out, D[a + m].out)}
<1>1. b - a \in Nat /\ Len(t) \in Nat /\ a + 0 = a /\ a + (b - a) = b /\ b - a \in 0 .. b - a /\ a \in 0 .. Len(t)
  OBVIOUS
<1>2. \A i \in 0 .. Len(t) : D[i].out \in Seq(EventsOf(S))
  BY DecodedAt DEF DecodersOf
<1>3. 0 \in G
  <2>1. IsPrefix(D[a].out, D[a].out)
    BY <1>1, <1>2, PrefixFacts
  <2> HIDE DEF D
  <2> QED BY <1>1, <2>1
<1>4. ASSUME NEW m \in 0 .. b - a, m < b - a, m \in G
      PROVE  m + 1 \in G
  <2>1. PICK i \in Nat : i = a + m /\ i + 1 = a + (m + 1) /\ a <= i /\ i < Len(t)
                         /\ m + 1 \in 0 .. b - a /\ i \in 0 .. Len(t) /\ i + 1 \in 0 .. Len(t)
    BY <1>1, <1>4
  <2>2. D[i].out \in Seq(EventsOf(S)) /\ D[i + 1].out \in Seq(EventsOf(S)) /\ D[i] \in DecodersOf(S) /\ D[a].out \in Seq(EventsOf(S))
    BY <1>1, <1>2, <2>1, DecodedAt
  <2>3. IsPrefix(D[i].out, D[i + 1].out)
    <3>1. CASE t[i + 1] = "n"
      <4>1. D[i + 1] = EndLine(D[i])
        BY <2>1, <3>1, DecodedStep
      <4> QED BY <4>1, <2>2, ToldGrows
    <3>2. CASE t[i + 1] # "n"
      <4>1. D[i + 1].out = D[i].out
        BY <2>1, <3>2, DecodedStep
      <4> QED BY <4>1, <2>2, PrefixFacts
    <3> QED BY <3>1, <3>2
  <2>4. IsPrefix(D[a].out, D[i].out)
    BY <1>4, <2>1
  <2> HIDE DEF D
  <2>5. IsPrefix(D[a].out, D[i + 1].out)
    BY <2>2, <2>3, <2>4, PrefixFacts
  <2> QED BY <2>1, <2>5
<1>5. b - a \in G
  <2> HIDE DEF G
  <2>1. \A m \in 0 .. b - a : m \in G
    BY <1>1, <1>3, <1>4, Upwards
  <2> QED BY <2>1, <1>1
<1> QED
  BY <1>1, <1>5

\* A line of text t behind the place a, and the decoder on it, token by token and
\* at its end.
LineAt(t, a, body, e) ==
  /\ a + (Len(body) + Len(e)) <= Len(t)
  /\ \A i \in 1 .. Len(body) + Len(e) : t[a + i] = (body \o e)[i]
LineRead(D, a, body, e) ==
  LET n == Len(body)
      z == Len(body) + Len(e) IN
  /\ \A p \in 0 .. z - 1 :
       /\ D[a + p].out = D[a].out /\ D[a + p].event = D[a].event
       /\ Stripped(D[a + p].line) = SubSeq(body, 1, IF p <= n THEN p ELSE n)
  /\ D[a + z].line = <<>>
  /\ body = <<>> => D[a + z].out = Yielded(D[a].out, D[a].event) /\ D[a + z].event = NoEvent
  /\ body # <<>> => /\ D[a + z].out = D[a].out
                    /\ D[a + z].event = TakeLine(D[a].event, Head(body), Tail(body))

LEMMA LineRun ==
  ASSUME NEW t \in Seq(Tokens), NEW a \in Nat,
         NEW body \in Seq(Tokens), Plain(body), NEW e \in Ends,
         LineAt(t, a, body, e), Decoded(t)[a].line = <<>>
  PROVE  LineRead(Decoded(t), a, body, e)
<1> DEFINE D == Decoded(t)
           n == Len(body)
           z == Len(body) + Len(e)
           w == body \o e
<1>1. /\ n \in Nat /\ Len(e) \in 1 .. 2
      /\ \A i \in 1 .. n : w[i] = body[i] /\ w[i] \notin {"r", "n"}
      /\ \A i \in 1 .. Len(e) : w[n + i] = e[i]
      /\ e[Len(e)] = "n" /\ (Len(e) = 2 => e[1] = "r")
  BY WithEnd
<1>14. a + z <= Len(t)
  BY DEF LineAt
<1>15. \A i \in 1 .. z : t[a + i] = w[i]
  BY DEF LineAt
<1> HIDE DEF w
<1>2. z \in Nat /\ z = n + Len(e) /\ n <= z - 1 /\ z - 1 \in 0 .. z - 1 /\ a + z <= Len(t) /\ Len(t) \in Nat
      /\ (z - 1 > n => Len(e) = 2 /\ z - 1 = n + 1)
  <2>1. n \in Nat /\ Len(e) \in 1 .. 2 /\ Len(t) \in Nat
    BY <1>1
  <2> HIDE DEF n
  <2>2. z = n + Len(e)
    BY DEF n
  <2> HIDE DEF z
  <2> DEFINE x == Len(e)
  <2>6. x \in 1 .. 2 /\ z = n + x
    BY <2>1, <2>2
  <2> HIDE DEF x
  <2>3. z \in Nat /\ n <= z - 1 /\ z - 1 \in 0 .. z - 1
    BY <2>1, <2>6
  <2>4. z - 1 > n => Len(e) = 2 /\ z - 1 = n + 1
    <3>1. z - 1 > n => x = 2 /\ z - 1 = n + 1
      BY <2>1, <2>6
    <3> QED BY <3>1 DEF x
  <2>5. a + z <= Len(t)
    BY <1>14
  <2> QED BY <2>1, <2>2, <2>3, <2>4, <2>5
<1>3. \A i \in 1 .. z : t[a + i] = w[i]
  BY <1>15
<1> HIDE DEF z
<1>4. ASSUME NEW i \in 1 .. n
      PROVE  t[a + i] = body[i] /\ t[a + i] \notin {"r", "n"}
  <2>1. i \in 1 .. z
    BY <1>1, <1>2
  <2>2. t[a + i] = w[i]
    BY <2>1, <1>3
  <2>3. w[i] = body[i] /\ w[i] \notin {"r", "n"}
    BY <1>1
  <2> QED BY <2>2, <2>3
<1>5. z - 1 > n => t[a + (n + 1)] = "r"
  BY <1>1, <1>2, <1>3
<1>6. t[a + z] = "n"
  <2>1. z \in 1 .. z /\ z = n + Len(e) /\ Len(e) \in 1 .. Len(e)
    BY <1>1, <1>2
  <2> QED BY <2>1, <1>1, <1>3
<1>7. ASSUME NEW p \in 0 .. z - 1
      PROVE  /\ D[a + p].out = D[a].out /\ D[a + p].event = D[a].event
             /\ D[a + p].line = SubSeq(t, a + 1, a + p)
  <2>1. a + p \in a .. Len(t)
    BY <1>2
  <2>2. ASSUME NEW i \in a + 1 .. a + p
        PROVE  t[i] # "n"
    <3>1. PICK j \in 1 .. p : i = a + j
      <4>1. i - a \in 1 .. p /\ i = a + (i - a)
        OBVIOUS
      <4> QED BY <4>1
    <3>2. CASE j <= n
      BY <3>1, <3>2, <1>4
    <3>3. CASE ~(j <= n)
      <4>1. j = n + 1 /\ z - 1 > n
        BY <1>1, <1>2, <3>3
      <4> QED BY <3>1, <4>1, <1>5
    <3> QED BY <3>2, <3>3
  <2> QED BY <2>1, <2>2, Stretch
<1>8. ASSUME NEW p \in 0 .. n
      PROVE  SubSeq(t, a + 1, a + p) = SubSeq(body, 1, p) /\ Stripped(SubSeq(body, 1, p)) = SubSeq(body, 1, p)
  <2>1. a + p \in Nat /\ a + p <= Len(t) /\ a <= a + p /\ a + p - a = p /\ p \in Nat /\ 0 + 1 = 1 /\ p - 0 = p
        /\ 0 \in Nat /\ p <= n /\ 0 <= p /\ \A i \in 1 .. p : 0 + i = i
    BY <1>1, <1>2
  <2>2. /\ SubSeq(t, a + 1, a + p) \in Seq(Tokens) /\ Len(SubSeq(t, a + 1, a + p)) = p
        /\ \A i \in 1 .. p : SubSeq(t, a + 1, a + p)[i] = t[a + i]
    <3> DEFINE b == a + p
    <3>1. b \in Nat /\ b <= Len(t) /\ a <= b /\ b - a = p
      BY <2>1
    <3> HIDE DEF b
    <3>2. /\ SubSeq(t, a + 1, b) \in Seq(Tokens) /\ Len(SubSeq(t, a + 1, b)) = p
          /\ \A i \in 1 .. p : SubSeq(t, a + 1, b)[i] = t[a + i]
      BY <3>1, PartIs
    <3> QED BY <3>2 DEF b
  <2>3. /\ SubSeq(body, 0 + 1, p) \in Seq(Tokens) /\ Len(SubSeq(body, 0 + 1, p)) = p - 0
        /\ \A i \in 1 .. p - 0 : SubSeq(body, 0 + 1, p)[i] = body[0 + i]
    BY <2>1, PartIs
  <2>4. /\ SubSeq(body, 1, p) \in Seq(Tokens) /\ Len(SubSeq(body, 1, p)) = p
        /\ \A i \in 1 .. p : SubSeq(body, 1, p)[i] = body[i]
    BY <2>1, <2>3
  <2>5. \A i \in 1 .. p : i \in 1 .. n
    BY <1>1
  <2>6. SubSeq(t, a + 1, a + p) = SubSeq(body, 1, p)
    <3>1. \A i \in 1 .. p : SubSeq(t, a + 1, a + p)[i] = SubSeq(body, 1, p)[i]
      BY <2>2, <2>4, <2>5, <1>4
    <3> QED BY <2>2, <2>4, <3>1, SeqEqual
  <2>7. \A i \in 1 .. Len(SubSeq(body, 1, p)) : SubSeq(body, 1, p)[i] \notin {"r", "n"}
    BY <2>4, <2>5, <1>4
  <2>8. Stripped(SubSeq(body, 1, p)) = SubSeq(body, 1, p)
    BY <2>4, <2>7, StrippedIs
  <2> QED BY <2>6, <2>8
<1>9. SubSeq(body, 1, n) = body
  BY <1>1, SubSeqFull
<1>10. ASSUME NEW p \in 0 .. z - 1
       PROVE  Stripped(D[a + p].line) = SubSeq(body, 1, IF p <= n THEN p ELSE n)
  <2>1. D[a + p].line = SubSeq(t, a + 1, a + p)
    BY <1>7
  <2>2. CASE p <= n
    <3>1. p \in 0 .. n
      BY <1>1, <2>2
    <3>2. D[a + p].line = SubSeq(body, 1, p) /\ Stripped(D[a + p].line) = SubSeq(body, 1, p)
      BY <2>1, <3>1, <1>8
    <3> QED BY <2>2, <3>2
  <2>3. CASE ~(p <= n)
    <3>1. p = n + 1 /\ z - 1 > n
      BY <1>1, <1>2, <2>3
    <3>2. SubSeq(t, a + 1, a + n + 1) = Append(SubSeq(t, a + 1, a + n), t[a + n + 1])
      <4> DEFINE b == a + n
      <4>1. b \in Nat /\ a <= b /\ b < Len(t)
        BY <1>1, <1>2, <3>1
      <4> HIDE DEF b
      <4>2. SubSeq(t, a + 1, b + 1) = Append(SubSeq(t, a + 1, b), t[b + 1])
        BY <4>1, LongerPart
      <4> QED BY <4>2 DEF b
    <3>3. a + p = a + n + 1 /\ a + (n + 1) = a + n + 1 /\ n \in 0 .. n
      BY <3>1, <1>1
    <3>4. SubSeq(t, a + 1, a + n) = body
      BY <3>3, <1>8, <1>9
    <3>5. t[a + n + 1] = "r"
      BY <3>1, <3>3, <1>5
    <3>6. D[a + p].line = Append(body, "r")
      BY <2>1, <3>2, <3>3, <3>4, <3>5
    <3>7. Stripped(Append(body, "r")) = Stripped(body)
      <4>1. "r" \in Tokens
        BY DEF Tokens
      <4> QED BY <4>1, StrippedIs
    <3>8. Stripped(body) = body
      BY <3>3, <1>8, <1>9
    <3> QED BY <2>3, <3>6, <3>7, <3>8, <1>9
  <2> QED BY <2>2, <2>3
<1>11. Stripped(D[a + (z - 1)].line) = body /\ D[a + (z - 1)].out = D[a].out /\ D[a + (z - 1)].event = D[a].event
  <2>1. (IF z - 1 <= n THEN z - 1 ELSE n) = n
    BY <1>1, <1>2
  <2>2. Stripped(D[a + (z - 1)].line) = SubSeq(body, 1, IF z - 1 <= n THEN z - 1 ELSE n)
    BY <1>2, <1>10
  <2> QED BY <2>1, <2>2, <1>2, <1>7, <1>9
<1>12. D[a + z] = EndLine(D[a + (z - 1)]) /\ D[a + (z - 1)] \in DecodersOf(Tokens)
  <2> DEFINE i == a + (z - 1)
  <2>1. i \in Nat /\ i < Len(t) /\ i + 1 = a + z
    BY <1>1, <1>2
  <2> HIDE DEF i
  <2>2. Decoded(t)[i + 1] = EndLine(Decoded(t)[i]) /\ Decoded(t)[i] \in DecodersOf(Tokens)
    BY <2>1, <1>6, DecodedStep
  <2> QED BY <2>1, <2>2 DEF i
<1> HIDE DEF D
<1>13. /\ D[a + z].line = <<>>
       /\ body = <<>> => D[a + z].out = Yielded(D[a].out, D[a].event) /\ D[a + z].event = NoEvent
       /\ body # <<>> => /\ D[a + z].out = D[a].out
                         /\ D[a + z].event = TakeLine(D[a].event, Head(body), Tail(body))
  <2> DEFINE x == D[a + (z - 1)]
             y == D[a + z]
  <2>1. /\ y = EndLine(x) /\ x \in DecodersOf(Tokens) /\ Stripped(x.line) = body
        /\ x.out = D[a].out /\ x.event = D[a].event
    BY <1>11, <1>12
  <2> HIDE DEF x, y
  <2>2. /\ EndLine(x).line = <<>>
        /\ body = <<>> => EndLine(x).out = Yielded(x.out, x.event) /\ EndLine(x).event = NoEvent
        /\ body # <<>> => /\ EndLine(x).out = x.out
                          /\ EndLine(x).event = TakeLine(x.event, Head(body), Tail(body))
    BY <2>1, EndLineIn
  <2> QED BY <2>1, <2>2 DEF y
<1> QED
  BY <1>7, <1>10, <1>13 DEF LineRead, D, z

-----------------------------------------------------------------------------
(* What blocks say.                                                        *)

\* The values of some lines.
ValuesOf(s) == [i \in DOMAIN s |-> s[i].value]

LEMMA ValuesOfIs ==
  ASSUME NEW s \in Seq(LineSet)
  PROVE  /\ ValuesOf(s) \in Seq(Seq(Characters)) /\ Len(ValuesOf(s)) = Len(s) /\ Len(s) \in Nat
         /\ \A i \in 1 .. Len(s) : ValuesOf(s)[i] = s[i].value
<1>1. DOMAIN s = 1 .. Len(s) /\ Len(s) \in Nat /\ \A i \in 1 .. Len(s) : s[i] \in LineSet
  OBVIOUS
<1>2. \A i \in 1 .. Len(s) : s[i].value \in Seq(Characters)
  BY <1>1 DEF LineSet
<1> DEFINE T == Seq(Characters)
           g == [i \in 1 .. Len(s) |-> s[i].value]
<1>3. \A i \in 1 .. Len(s) : g[i] = s[i].value
  OBVIOUS
<1>4. g \in Seq(T) /\ Len(g) = Len(s)
  <2>1. \A i \in 1 .. Len(s) : s[i].value \in T
    BY <1>2
  <2> HIDE DEF T
  <2> QED BY <1>1, <2>1
<1>5. ValuesOf(s) = g
  BY <1>1 DEF ValuesOf
<1> QED
  BY <1>1, <1>3, <1>4, <1>5

\* One more line of a block.
LEMMA ValuesAppend ==
  ASSUME NEW b \in Seq(LineSet), NEW l \in LineSet, NEW f
  PROVE  /\ Values(b, f) \in Seq(Seq(Characters))
         /\ Values(Append(b, l), f) =
              IF l.field = f THEN Append(Values(b, f), l.value) ELSE Values(b, f)
<1> DEFINE c == Append(b, l)
           I == {i \in DOMAIN b : b[i].field = f}
           J == {i \in DOMAIN c : c[i].field = f}
           p == Kept(b, I)
           q == Kept(c, J)
<1>1. /\ c \in Seq(LineSet) /\ Len(c) = Len(b) + 1 /\ Len(b) \in Nat
      /\ \A i \in 1 .. Len(b) : c[i] = b[i]
      /\ c[Len(b) + 1] = l
  BY AppendIs
<1> HIDE DEF c
<1>2. \A i \in 1 .. Len(b) : i \in I <=> i \in J
  BY <1>1
<1>3. Len(b) + 1 \in J <=> l.field = f
  BY <1>1
<1> HIDE DEF I, J
<1>4. p \in Seq(LineSet) /\ p = Kept(b, J)
  <2>1. Kept(b, I) = Kept(b, J)
    BY <1>2, KeptWithin
  <2>2. Kept(b, J) \in Seq(LineSet)
    BY KeptAppend
  <2> QED BY <2>1, <2>2
<1>5. q = IF l.field = f THEN Append(p, l) ELSE p
  <2>1. Kept(Append(b, l), J) = IF Len(b) + 1 \in J THEN Append(Kept(b, J), l) ELSE Kept(b, J)
    BY KeptAppend
  <2> QED BY <2>1, <1>3, <1>4 DEF c
<1>6. Values(b, f) = ValuesOf(p) /\ Values(c, f) = ValuesOf(q)
  BY DEF Values, ValuesOf, I, J
<1> HIDE DEF p, q
<1>7. /\ Len(p) \in Nat
      /\ ValuesOf(p) \in Seq(Seq(Characters)) /\ Len(ValuesOf(p)) = Len(p) /\ \A i \in 1 .. Len(p) : ValuesOf(p)[i] = p[i].value
  BY <1>4, ValuesOfIs
<1>8. ASSUME l.field = f
      PROVE  ValuesOf(q) = Append(ValuesOf(p), l.value)
  <2>1. /\ Append(p, l) \in Seq(LineSet) /\ Len(Append(p, l)) = Len(p) + 1
        /\ \A i \in 1 .. Len(p) : Append(p, l)[i] = p[i]
        /\ Append(p, l)[Len(p) + 1] = l
    BY <1>4, AppendIs
  <2>2. q = Append(p, l)
    BY <1>5, <1>8
  <2> DEFINE vp == ValuesOf(p)
             vq == ValuesOf(q)
             x == l.value
  <2>3. /\ vq \in Seq(Seq(Characters)) /\ Len(vq) = Len(p) + 1
        /\ \A i \in 1 .. Len(p) + 1 : vq[i] = q[i].value
    <3>1. q \in Seq(LineSet) /\ Len(q) = Len(p) + 1
      BY <2>1, <2>2
    <3> QED BY <3>1, ValuesOfIs
  <2>4. vp \in Seq(Seq(Characters)) /\ Len(vp) = Len(p) /\ \A i \in 1 .. Len(p) : vp[i] = p[i].value
    BY <1>7
  <2>5. x \in Seq(Characters)
    BY DEF LineSet
  <2> HIDE DEF vp, vq, x
  <2>6. /\ Append(vp, x) \in Seq(Seq(Characters)) /\ Len(Append(vp, x)) = Len(p) + 1
        /\ \A i \in 1 .. Len(p) : Append(vp, x)[i] = vp[i]
        /\ Append(vp, x)[Len(p) + 1] = x
    BY <2>4, <2>5, AppendIs
  <2>7. ASSUME NEW i \in 1 .. Len(p) + 1
        PROVE  vq[i] = Append(vp, x)[i]
    <3>1. CASE i = Len(p) + 1
      BY <3>1, <2>1, <2>2, <2>3, <2>6 DEF x
    <3>2. CASE i # Len(p) + 1
      <4>1. i \in 1 .. Len(p)
        BY <3>2, <1>7
      <4>2. vq[i] = q[i].value /\ q[i] = p[i] /\ vp[i] = p[i].value /\ Append(vp, x)[i] = vp[i]
        BY <4>1, <2>1, <2>2, <2>3, <2>4, <2>6
      <4> QED BY <4>2
    <3> QED BY <3>1, <3>2
  <2>8. vq = Append(vp, x)
    BY <2>3, <2>6, <2>7, SeqEqual
  <2> QED BY <2>8 DEF vp, vq, x
<1>9. ASSUME l.field # f
      PROVE  ValuesOf(q) = ValuesOf(p)
  <2>1. q = p
    BY <1>5, <1>9
  <2> QED BY <2>1
<1> QED
  BY <1>6, <1>7, <1>8, <1>9 DEF c

LEMMA LastOrAppend ==
  ASSUME NEW S, NEW s \in Seq(S), NEW x \in S, NEW default
  PROVE  /\ LastOr(Append(s, x), default) = x
         /\ LastOr(s, default) \in S \union {default}
<1>1. LastOr(Append(s, x), default) = x
  BY AppendIs DEF LastOr
<1>2. s # <<>> => s[Len(s)] \in S
  OBVIOUS
<1> QED
  BY <1>1, <1>2 DEF LastOr, Last

LEMMA SaidEmpty == Said(<<>>) = NoEvent
<1>1. ASSUME NEW f
      PROVE  Values(<<>>, f) = <<>>
  <2>1. Kept(<<>>, {i \in DOMAIN <<>> : <<>>[i].field = f}) = <<>>
    BY KeptEmpty
  <2> QED BY <2>1 DEF Values
<1> QED
  BY <1>1 DEF Said, LastOr, NoEvent

LEMMA SaidAppend ==
  ASSUME NEW b \in Seq(LineSet), NEW l \in LineSet
  PROVE  /\ Said(b) \in EventsOf(Tokens)
         /\ Said(Append(b, l)) = TakeLine(Said(b), l.field, l.value)
<1> DEFINE v == l.value
           ne == Values(b, "event:")
           ni == Values(b, "id:")
           nd == Values(b, "data:")
<1>1. v \in Seq(Characters) /\ v \in Seq(Tokens) /\ l.field \in Fields
  BY ValueIs DEF LineSet
<1>2. /\ ne \in Seq(Seq(Characters)) /\ ni \in Seq(Seq(Characters)) /\ nd \in Seq(Seq(Characters))
      /\ Values(Append(b, l), "event:") = IF l.field = "event:" THEN Append(ne, v) ELSE ne
      /\ Values(Append(b, l), "id:") = IF l.field = "id:" THEN Append(ni, v) ELSE ni
      /\ Values(Append(b, l), "data:") = IF l.field = "data:" THEN Append(nd, v) ELSE nd
  BY ValuesAppend
<1> HIDE DEF ne, ni, nd, v
<1>3. Said(b) = [event |-> LastOr(ne, <<"message">>), id |-> LastOr(ni, NoId), data |-> nd]
  BY DEF Said, Event, ne, ni, nd
<1>4. Said(b) \in EventsOf(Tokens)
  <2>1. Seq(Characters) \subseteq Seq(Tokens)
    BY ValueIs
  <2>2. LastOr(ne, <<"message">>) \in NamesOf(Tokens) /\ LastOr(ni, NoId) \in NamesOf(Tokens)
    BY <1>1, <1>2, <2>1, LastOrAppend DEF NamesOf
  <2>3. nd \in Seq(Seq(Tokens))
    <3>1. Len(nd) \in Nat /\ nd = [i \in 1 .. Len(nd) |-> nd[i]] /\ \A i \in 1 .. Len(nd) : nd[i] \in Seq(Tokens)
      BY <1>2, <2>1
    <3> QED BY <3>1
  <2> QED BY <1>3, <2>2, <2>3 DEF EventsOf
<1>5. CASE l.field = "event:"
  <2>1. LastOr(Append(ne, v), <<"message">>) = v
    BY <1>1, <1>2, LastOrAppend
  <2>2. Said(Append(b, l)) = [event |-> v, id |-> LastOr(ni, NoId), data |-> nd]
    BY <1>2, <1>5, <2>1 DEF Said, Event
  <2>3. TakeLine(Said(b), l.field, v) = [Said(b) EXCEPT !.event = v]
    BY <1>5 DEF TakeLine
  <2>4. [Said(b) EXCEPT !.event = v] = [event |-> v, id |-> LastOr(ni, NoId), data |-> nd]
    BY <1>3
  <2> QED BY <1>4, <2>2, <2>3, <2>4 DEF v
<1>6. CASE l.field = "id:"
  <2>1. LastOr(Append(ni, v), NoId) = v
    BY <1>1, <1>2, LastOrAppend
  <2>2. Said(Append(b, l)) = [event |-> LastOr(ne, <<"message">>), id |-> v, data |-> nd]
    BY <1>2, <1>6, <2>1 DEF Said, Event
  <2>3. TakeLine(Said(b), l.field, v) = [Said(b) EXCEPT !.id = v]
    BY <1>6 DEF TakeLine
  <2>4. [Said(b) EXCEPT !.id = v] = [event |-> LastOr(ne, <<"message">>), id |-> v, data |-> nd]
    BY <1>3
  <2> QED BY <1>4, <2>2, <2>3, <2>4 DEF v
<1>7. CASE l.field = "data:"
  <2>2. Said(Append(b, l)) = [event |-> LastOr(ne, <<"message">>), id |-> LastOr(ni, NoId), data |-> Append(nd, v)]
    BY <1>2, <1>7 DEF Said, Event
  <2>3. TakeLine(Said(b), l.field, v) = [Said(b) EXCEPT !.data = Append(Said(b).data, v)]
    BY <1>7 DEF TakeLine
  <2>4. [Said(b) EXCEPT !.data = Append(Said(b).data, v)]
          = [event |-> LastOr(ne, <<"message">>), id |-> LastOr(ni, NoId), data |-> Append(nd, v)]
    <3> DEFINE e == LastOr(ne, <<"message">>)
               i == LastOr(ni, NoId)
    <3>1. Said(b) = [event |-> e, id |-> i, data |-> nd]
      BY <1>3
    <3> HIDE DEF e, i
    <3>2. Said(b).data = nd
      BY <3>1
    <3> DEFINE x == Append(nd, v)
    <3> HIDE DEF x
    <3>3. [Said(b) EXCEPT !.data = x] = [event |-> e, id |-> i, data |-> x]
      BY <3>1
    <3> QED BY <3>2, <3>3 DEF e, i, x
  <2> QED BY <1>4, <2>2, <2>3, <2>4 DEF v
<1>8. CASE l.field = ":"
  <2>1. Said(Append(b, l)) = Said(b)
    BY <1>2, <1>3, <1>8 DEF Said, Event
  <2>2. TakeLine(Said(b), l.field, v) = Said(b)
    BY <1>8 DEF TakeLine
  <2> QED BY <1>4, <2>1, <2>2 DEF v
<1> QED
  BY <1>1, <1>5, <1>6, <1>7, <1>8 DEF Fields

\* What is left of a block that is cut off.
LEMMA SaidCutOff ==
  ASSUME NEW b \in Seq(LineSet), NEW j \in 1 .. Len(b), NEW p \in 0 .. Len(b[j].value)
  PROVE  /\ SubSeq(b, 1, j - 1) \in Seq(LineSet) /\ SubSeq(b, 1, j) \in Seq(LineSet)
         /\ Said(CutOff(b, j, p)) =
              TakeLine(Said(SubSeq(b, 1, j - 1)), b[j].field, SubSeq(b[j].value, 1, p))
         /\ Said(SubSeq(b, 1, j)) = Said(CutOff(b, j, Len(b[j].value)))
         /\ Said(CutOff(b, j, p)) \in EventsOf(Tokens)
         /\ CutOff(b, j, p) \in CutOffs(b) /\ CutOff(b, j, Len(b[j].value)) \in CutOffs(b)
<1> DEFINE c == SubSeq(b, 1, j - 1)
           v == b[j].value
<1>1. /\ Len(b) \in Nat /\ j - 1 \in Nat /\ j - 1 <= Len(b) /\ j \in Nat /\ j <= Len(b) /\ j - 1 < Len(b)
      /\ 0 + 1 = 1 /\ 0 <= j - 1 /\ j - 1 + 1 = j /\ b[j] \in LineSet
  OBVIOUS
<1>2. c \in Seq(LineSet) /\ SubSeq(b, 1, j) \in Seq(LineSet)
  <2>1. SubSeq(b, 0 + 1, j - 1) \in Seq(LineSet) /\ SubSeq(b, 0 + 1, j) \in Seq(LineSet)
    BY <1>1, PartIs
  <2> QED BY <1>1, <2>1
<1>3. SubSeq(b, 1, j) = Append(c, b[j])
  <2>1. SubSeq(b, 0 + 1, j - 1 + 1) = Append(SubSeq(b, 0 + 1, j - 1), b[j - 1 + 1])
    BY <1>1, LongerPart
  <2> QED BY <1>1, <2>1
<1>4. v \in Seq(Characters) /\ Len(v) \in Nat /\ p \in Nat /\ p <= Len(v) /\ Len(v) \in 0 .. Len(v)
      /\ b[j] = [field |-> b[j].field, value |-> v] /\ b[j].field \in Fields
  BY <1>1 DEF LineSet
<1>5. SubSeq(v, 1, p) \in Seq(Characters)
  <2>1. SubSeq(v, 0 + 1, p) \in Seq(Characters)
    BY <1>1, <1>4, PartIs
  <2> QED BY <1>1, <2>1
<1>6. SubSeq(v, 1, Len(v)) = v
  BY <1>4, SubSeqFull
<1> DEFINE l == [b[j] EXCEPT !.value = SubSeq(v, 1, p)]
<1>7. l \in LineSet /\ l.field = b[j].field /\ l.value = SubSeq(v, 1, p)
  BY <1>1, <1>5 DEF LineSet
<1>8. CutOff(b, j, p) = Append(c, l)
  BY DEF CutOff
<1> HIDE DEF l
<1>9. Said(CutOff(b, j, p)) = TakeLine(Said(c), b[j].field, SubSeq(v, 1, p)) /\ Said(c) \in EventsOf(Tokens)
  BY <1>2, <1>7, <1>8, SaidAppend
<1>10. CutOff(b, j, Len(v)) = Append(c, b[j])
  <2>1. [b[j] EXCEPT !.value = SubSeq(v, 1, Len(v))] = b[j]
    BY <1>4, <1>6
  <2> QED BY <2>1 DEF CutOff
<1>11. Said(CutOff(b, j, p)) \in EventsOf(Tokens)
  <2>1. SubSeq(v, 1, p) \in Seq(Tokens)
    BY <1>5, ValueIs
  <2> QED BY <1>9, <2>1, TakeLineIn
<1>12. CutOff(b, j, p) \in CutOffs(b) /\ CutOff(b, j, Len(v)) \in CutOffs(b)
  <2>1. j \in DOMAIN b
    OBVIOUS
  <2> QED BY <2>1, <1>4 DEF CutOffs
<1> QED
  BY <1>2, <1>3, <1>9, <1>10, <1>11, <1>12

-----------------------------------------------------------------------------
(* Decoding a block.                                                       *)

\* The decoder within block b when it began with out.
Within(d, out, b) ==
  /\ d.out = out
  /\ d.line # <<>> => EndLine(d).out \in {out, Yielded(out, Said(b))}
  /\ Told(d) = out \/ \E c \in CutOffs(b) : Told(d) = Yielded(out, Said(c))

\* The beginning of a line's text.
LEMMA BodyPart ==
  ASSUME NEW l \in LineSet, NEW m \in 1 .. Len(Body(l))
  PROVE  LET p == SubSeq(Body(l), 1, m) IN
         /\ p # <<>> /\ Head(p) = l.field /\ Tail(p) = SubSeq(l.value, 1, m - 1)
         /\ m - 1 \in 0 .. Len(l.value)
<1> DEFINE p == SubSeq(Body(l), 1, m)
           v == l.value
<1>1. /\ Body(l) \in Seq(Tokens) /\ Len(Body(l)) = Len(v) + 1 /\ Len(v) \in Nat
      /\ Body(l)[1] = l.field
      /\ \A i \in 1 .. Len(v) : Body(l)[i + 1] = v[i]
  BY BodyIs
<1>2. v \in Seq(Tokens)
  BY ValueIs DEF LineSet
<1> HIDE DEF v
<1>3. /\ m \in Nat /\ m <= Len(Body(l)) /\ 0 + 1 = 1 /\ m - 0 = m /\ m - 1 \in Nat /\ m - 1 <= Len(v) /\ 0 \in Nat
      /\ m - 1 - 0 = m - 1 /\ 0 <= m - 1 /\ 0 <= m /\ \A i \in 1 .. m : 0 + i = i
  BY <1>1
<1>4. p \in Seq(Tokens) /\ Len(p) = m /\ \A i \in 1 .. m : p[i] = Body(l)[i]
  <2>1. /\ SubSeq(Body(l), 0 + 1, m) \in Seq(Tokens) /\ Len(SubSeq(Body(l), 0 + 1, m)) = m - 0
        /\ \A i \in 1 .. m - 0 : SubSeq(Body(l), 0 + 1, m)[i] = Body(l)[0 + i]
    BY <1>1, <1>3, PartIs
  <2> QED BY <2>1, <1>3
<1>5. LET q == SubSeq(v, 1, m - 1) IN
      q \in Seq(Tokens) /\ Len(q) = m - 1 /\ \A i \in 1 .. m - 1 : q[i] = v[i]
  <2>1. /\ SubSeq(v, 0 + 1, m - 1) \in Seq(Tokens) /\ Len(SubSeq(v, 0 + 1, m - 1)) = m - 1 - 0
        /\ \A i \in 1 .. m - 1 - 0 : SubSeq(v, 0 + 1, m - 1)[i] = v[0 + i]
    BY <1>2, <1>3, PartIs
  <2>2. \A i \in 1 .. m - 1 : 0 + i = i
    OBVIOUS
  <2> QED BY <2>1, <2>2, <1>3
<1> HIDE DEF p
<1> DEFINE q == SubSeq(v, 1, m - 1)
<1>6. p # <<>> /\ 1 \in 1 .. m
  BY <1>4, <1>3
<1>7. /\ Head(p) = p[1] /\ Tail(p) \in Seq(Tokens) /\ Len(Tail(p)) = m - 1
      /\ \A i \in 1 .. m - 1 : Tail(p)[i] = p[i + 1]
  BY <1>4, <1>6, HeadTailProperties
<1>8. ASSUME NEW i \in 1 .. m - 1
      PROVE  Tail(p)[i] = q[i]
  <2>1. i + 1 \in 1 .. m /\ i \in 1 .. Len(v)
    BY <1>3
  <2>2. Tail(p)[i] = p[i + 1] /\ p[i + 1] = Body(l)[i + 1] /\ Body(l)[i + 1] = v[i] /\ q[i] = v[i]
    BY <2>1, <1>1, <1>4, <1>5, <1>7
  <2> QED BY <2>2
<1>9. Tail(p) = q
  <2> HIDE DEF q
  <2>1. q \in Seq(Tokens) /\ Len(q) = m - 1
    BY <1>5 DEF q
  <2> QED BY <2>1, <1>7, <1>8, SeqEqual
<1> QED
  BY <1>1, <1>3, <1>4, <1>6, <1>7, <1>9 DEF p, v

LEMMA WithinLine ==
  ASSUME NEW b \in Seq(LineSet), NEW j \in 0 .. Len(b) - 1,
         NEW d \in DecodersOf(Tokens), d.event = Said(SubSeq(b, 1, j)),
         NEW m \in 0 .. Len(Body(b[j + 1])),
         Stripped(d.line) = SubSeq(Body(b[j + 1]), 1, m), m = 0 => d.line = <<>>
  PROVE  Within(d, d.out, b)
<1> DEFINE l == b[j + 1]
           o == d.out
<1>1. Len(b) \in Nat /\ j + 1 \in 1 .. Len(b) /\ j + 1 - 1 = j /\ l \in LineSet
  OBVIOUS
<1>2. o \in Seq(EventsOf(Tokens)) /\ d.event \in EventsOf(Tokens)
  BY DEF DecodersOf
<1>3. CASE m = 0
  <2>1. SubSeq(Body(l), 1, 0) = <<>>
    BY SubSeqEmpty
  <2>2. EndLine(d).out = Yielded(o, d.event) /\ EndLine(d).event = NoEvent
    BY <1>3, <2>1, EndLineIn
  <2>3. Yielded(o, d.event) \in Seq(EventsOf(Tokens))
    BY <1>2, YieldedIn
  <2>4. Yielded(Yielded(o, d.event), NoEvent) = Yielded(o, d.event)
    <3> DEFINE x == Yielded(o, d.event)
    <3>1. x \in Seq(EventsOf(Tokens))
      BY <2>3
    <3> HIDE DEF x
    <3>2. Yielded(x, NoEvent) = x
      BY <3>1, NoEventIn, YieldedIn
    <3> QED BY <3>2 DEF x
  <2>5. Told(d) = Yielded(o, d.event)
    BY <2>2, <2>4 DEF Told
  <2>6. CASE j = 0
    <3>1. SubSeq(b, 1, 0) = <<>>
      BY SubSeqEmpty
    <3>2. d.event = NoEvent
      BY <2>6, <3>1, SaidEmpty
    <3>3. Told(d) = o
      BY <1>2, <2>5, <3>2, YieldedIn
    <3> QED BY <1>3, <3>3 DEF Within
  <2>7. CASE j # 0
    <3>1. j \in 1 .. Len(b)
      BY <2>7, <1>1
    <3>2. b[j] \in LineSet
      BY <3>1
    <3>3. Len(b[j].value) \in 0 .. Len(b[j].value)
      <4>1. Len(b[j].value) \in Nat
        BY <3>2, BodyIs
      <4> QED BY <4>1
    <3>4. /\ Said(SubSeq(b, 1, j)) = Said(CutOff(b, j, Len(b[j].value)))
          /\ CutOff(b, j, Len(b[j].value)) \in CutOffs(b)
      BY <3>1, <3>3, SaidCutOff
    <3>5. \E c \in CutOffs(b) : Told(d) = Yielded(o, Said(c))
      BY <2>5, <3>4
    <3> QED BY <1>3, <3>5 DEF Within
  <2> QED BY <2>6, <2>7
<1>4. CASE m # 0
  <2>1. m \in 1 .. Len(Body(l))
    <3>1. Len(Body(l)) \in Nat
      BY <1>1, BodyIs
    <3> QED BY <1>4, <3>1
  <2> DEFINE p == SubSeq(Body(l), 1, m)
  <2>2. p # <<>> /\ Head(p) = l.field /\ Tail(p) = SubSeq(l.value, 1, m - 1) /\ m - 1 \in 0 .. Len(l.value)
    BY <1>1, <2>1, BodyPart
  <2>3. Stripped(d.line) = p
    OBVIOUS
  <2> HIDE DEF p
  <2>4. EndLine(d).out = o /\ EndLine(d).event = TakeLine(d.event, Head(p), Tail(p))
    BY <2>2, <2>3, EndLineIn
  <2>5. /\ Said(CutOff(b, j + 1, m - 1)) = TakeLine(Said(SubSeq(b, 1, j)), l.field, SubSeq(l.value, 1, m - 1))
        /\ CutOff(b, j + 1, m - 1) \in CutOffs(b)
    <3> DEFINE k == j + 1
    <3>1. k \in 1 .. Len(b) /\ m - 1 \in 0 .. Len(b[k].value) /\ k - 1 = j
      BY <1>1, <2>2
    <3> HIDE DEF k
    <3>2. /\ Said(CutOff(b, k, m - 1)) = TakeLine(Said(SubSeq(b, 1, k - 1)), b[k].field, SubSeq(b[k].value, 1, m - 1))
          /\ CutOff(b, k, m - 1) \in CutOffs(b)
      BY <3>1, SaidCutOff
    <3> QED BY <3>1, <3>2 DEF k
  <2>6. EndLine(d).event = Said(CutOff(b, j + 1, m - 1))
    BY <2>2, <2>4, <2>5
  <2>7. Told(d) = Yielded(o, Said(CutOff(b, j + 1, m - 1)))
    BY <2>4, <2>6 DEF Told
  <2> QED BY <2>4, <2>5, <2>7 DEF Within
<1> QED
  BY <1>3, <1>4

LEMMA WithinEnd ==
  ASSUME NEW b \in Seq(LineSet), b # <<>>,
         NEW d \in DecodersOf(Tokens), d.event = Said(b), Stripped(d.line) = <<>>
  PROVE  Within(d, d.out, b)
<1> DEFINE o == d.out
           n == Len(b)
           x == Yielded(o, d.event)
<1>1. n \in 1 .. n /\ b[n] \in LineSet /\ SubSeq(b, 1, n) = b
  <2>1. n \in Nat /\ n # 0
    BY EmptySeq
  <2>2. n \in 1 .. n
    BY <2>1
  <2> QED BY <2>2, SubSeqFull
<1>2. o \in Seq(EventsOf(Tokens)) /\ d.event \in EventsOf(Tokens)
  BY DEF DecodersOf
<1>3. EndLine(d).out = x /\ EndLine(d).event = NoEvent
  BY EndLineIn
<1>4. x \in Seq(EventsOf(Tokens))
  BY <1>2, YieldedIn
<1>5. Told(d) = x
  <2>1. Told(d) = Yielded(x, NoEvent)
    BY <1>3 DEF Told
  <2> HIDE DEF x
  <2>2. Yielded(x, NoEvent) = x
    BY <1>4, NoEventIn, YieldedIn
  <2> QED BY <2>1, <2>2
<1>6. Len(b[n].value) \in 0 .. Len(b[n].value)
  <2>1. Len(b[n].value) \in Nat
    BY <1>1, BodyIs
  <2> QED BY <2>1
<1>7. /\ Said(SubSeq(b, 1, n)) = Said(CutOff(b, n, Len(b[n].value)))
      /\ CutOff(b, n, Len(b[n].value)) \in CutOffs(b)
  BY <1>1, <1>6, SaidCutOff
<1>8. \E c \in CutOffs(b) : Told(d) = Yielded(o, Said(c))
  BY <1>1, <1>5, <1>7
<1> QED
  BY <1>3, <1>8 DEF Within

\* A block of text t behind the place a, and the decoder on it and behind it.
BlockAt(t, a, b) ==
  /\ a + Len(BlockText(b)) <= Len(t)
  /\ \A i \in 1 .. Len(BlockText(b)) : t[a + i] = BlockText(b)[i]
BlockRead(D, a, b) ==
  LET z == Len(BlockText(b)) IN
  /\ z \in Nat
  /\ \A p \in 0 .. z - 1 : Within(D[a + p], D[a].out, b)
  /\ D[a + z].line = <<>> /\ D[a + z].event = NoEvent
  /\ D[a + z].out = Yielded(D[a].out, Said(b))

LEMMA BlockRun ==
  ASSUME eol \in Ends, NEW t \in Seq(Tokens), NEW b \in Seq(LineSet), b # <<>>, NEW a \in Nat,
         BlockAt(t, a, b), Decoded(t)[a].line = <<>>, Decoded(t)[a].event = NoEvent
  PROVE  BlockRead(Decoded(t), a, b)
<1> DEFINE D == Decoded(t)
           o == D[a].out
           N == Len(b)
           ss == [j \in DOMAIN b |-> Line(b[j])]
           F(j) == Len(FlattenSeq(SubSeq(ss, 1, j)))
           L == LinesText(b)
           T == BlockText(b)
<1>1. /\ N \in Nat /\ N # 0 /\ \A j \in 1 .. N : b[j] \in LineSet
  BY EmptySeq
<1>2. /\ ss \in Seq(Seq(Tokens)) /\ Len(ss) = N /\ \A j \in 1 .. N : ss[j] = Body(b[j]) \o eol
  <2>1. \A j \in 1 .. N : Line(b[j]) = Body(b[j]) \o eol
    BY DEF Line, Body
  <2>2. \A j \in 1 .. N : Body(b[j]) \o eol \in Seq(Tokens)
    BY <1>1, BodyIs, EndsIs, ConcatProperties
  <2>3. DOMAIN b = 1 .. N
    OBVIOUS
  <2> DEFINE S == Seq(Tokens)
  <2>4. \A j \in 1 .. N : Line(b[j]) \in S
    BY <2>1, <2>2
  <2>5. ss = [j \in 1 .. N |-> Line(b[j])]
    BY <2>3
  <2> HIDE DEF S, ss
  <2>6. ss \in Seq(S) /\ Len(ss) = N /\ \A j \in 1 .. N : ss[j] = Line(b[j])
    BY <1>1, <2>4, <2>5
  <2> QED BY <2>1, <2>6 DEF S
<1>3. L = FlattenSeq(ss) /\ L \in Seq(Tokens)
  BY TextIs DEF LinesText
<1> HIDE DEF ss, L
<1>4. \A j \in 0 .. N :
        /\ F(j) \in 0 .. Len(L)
        /\ j < N => /\ F(j + 1) = F(j) + Len(ss[j + 1])
                    /\ F(j + 1) <= Len(L)
                    /\ \A i \in 1 .. Len(ss[j + 1]) : L[F(j) + i] = ss[j + 1][i]
  <2> SUFFICES ASSUME NEW j \in 0 .. N
               PROVE  /\ F(j) \in 0 .. Len(L)
                      /\ j < N => /\ F(j + 1) = F(j) + Len(ss[j + 1])
                                  /\ F(j + 1) <= Len(L)
                                  /\ \A i \in 1 .. Len(ss[j + 1]) : L[F(j) + i] = ss[j + 1][i]
    OBVIOUS
  <2>1. j \in 0 .. Len(ss)
    BY <1>2
  <2> DEFINE g == FlattenSeq(ss)
  <2>2. /\ F(j) \in 0 .. Len(g)
        /\ j < Len(ss) => /\ F(j + 1) = F(j) + Len(ss[j + 1])
                          /\ F(j + 1) <= Len(g)
                          /\ \A i \in 1 .. Len(ss[j + 1]) : g[F(j) + i] = ss[j + 1][i]
    BY <1>2, <2>1, FlatAt
  <2>3. g = L /\ Len(ss) = N
    BY <1>2, <1>3
  <2> HIDE DEF F, g
  <2> QED BY <2>2, <2>3
<1>5. F(0) = 0 /\ F(N) = Len(L)
  <2>1. N \in 0 .. Len(ss) /\ N = Len(ss)
    BY <1>1, <1>2
  <2>2. FlattenSeq(SubSeq(ss, 1, 0)) = <<>> /\ FlattenSeq(SubSeq(ss, 1, Len(ss))) = FlattenSeq(ss)
    BY <1>2, <2>1, FlatPrefix
  <2> QED BY <1>3, <2>1, <2>2
<1> HIDE DEF F
<1>6. /\ Len(L) \in Nat /\ Len(eol) \in 1 .. 2 /\ Len(T) = Len(L) + Len(eol)
      /\ \A i \in 1 .. Len(L) : T[i] = L[i]
      /\ \A i \in 1 .. Len(eol) : T[Len(L) + i] = eol[i]
  <2>1. eol \in Seq(Tokens) /\ Len(eol) \in 1 .. 2 /\ Len(L) \in Nat
    BY <1>3, EndsIs
  <2>2. T = L \o eol
    BY DEF BlockText, L
  <2> HIDE DEF T
  <2>3. /\ Len(T) = Len(L) + Len(eol)
        /\ \A i \in 1 .. Len(L) + Len(eol) : T[i] = IF i <= Len(L) THEN L[i] ELSE eol[i - Len(L)]
    BY <1>3, <2>1, <2>2, ConcatProperties
  <2>4. \A i \in 1 .. Len(L) : i \in 1 .. Len(L) + Len(eol) /\ i <= Len(L)
    BY <2>1
  <2>5. \A i \in 1 .. Len(eol) : Len(L) + i \in 1 .. Len(L) + Len(eol) /\ ~(Len(L) + i <= Len(L)) /\ Len(L) + i - Len(L) = i
    BY <2>1
  <2> QED BY <2>1, <2>3, <2>4, <2>5
<1>7. a + Len(T) <= Len(t) /\ \A i \in 1 .. Len(T) : t[a + i] = T[i]
  BY DEF BlockAt
<1>8. D[a].line = <<>> /\ D[a].event = NoEvent /\ \A i \in 0 .. Len(t) : D[i] \in DecodersOf(Tokens)
  BY DecodedAt
<1> HIDE DEF T
<1> DEFINE G == {j \in 0 .. N : /\ \A p \in 0 .. F(j) - 1 : Within(D[a + p], o, b)
                                /\ D[a + F(j)].line = <<>> /\ D[a + F(j)].out = o
                                /\ D[a + F(j)].event = Said(SubSeq(b, 1, j))}
<1>9. 0 \in G
  <2>1. Said(SubSeq(b, 1, 0)) = NoEvent
    <3>1. SubSeq(b, 1, 0) = <<>>
      BY SubSeqEmpty
    <3> QED BY <3>1, SaidEmpty
  <2>2. a + F(0) = a /\ 0 .. F(0) - 1 = {} /\ 0 \in 0 .. N
    BY <1>1, <1>5
  <2> HIDE DEF D
  <2> QED BY <1>8, <2>1, <2>2
<1>10. ASSUME NEW j \in 0 .. N, j < N, j \in G
       PROVE  j + 1 \in G
  <2> DEFINE l == b[j + 1]
             c == a + F(j)
             n == Len(Body(l))
             y == Len(Body(l)) + Len(eol)
  <2>1. j + 1 \in 1 .. N /\ j + 1 \in 0 .. N /\ l \in LineSet /\ j \in 0 .. N - 1 /\ ss[j + 1] = Body(l) \o eol
    <3>1. j + 1 \in 1 .. N /\ j + 1 \in 0 .. N /\ j \in 0 .. N - 1
      BY <1>1, <1>10
    <3>2. l \in LineSet
      BY <3>1, <1>1
    <3>3. ss[j + 1] = Body(l) \o eol
      BY <3>1, <1>2
    <3> QED BY <3>1, <3>2, <3>3
  <2>2. /\ Body(l) \in Seq(Tokens) /\ Plain(Body(l)) /\ n \in Nat /\ n >= 1
        /\ Body(l) # <<>> /\ SubSeq(Body(l), 1, n) = Body(l)
    <3>1. Body(l) \in Seq(Tokens) /\ Plain(Body(l)) /\ Body(l) # <<>> /\ n = Len(l.value) + 1 /\ Len(l.value) \in Nat
      BY <2>1, BodyIs
    <3> QED BY <3>1, SubSeqFull
  <2>3. Len(ss[j + 1]) = y
    BY <2>1, <2>2, WithEnd
  <2>4. /\ F(j) \in 0 .. Len(L) /\ F(j + 1) = F(j) + y /\ F(j + 1) <= Len(L)
        /\ \A i \in 1 .. y : L[F(j) + i] = (Body(l) \o eol)[i]
    BY <1>4, <1>10, <2>1, <2>3
  <2>5. c \in Nat /\ c + y <= Len(t) /\ y \in Nat
    BY <1>6, <1>7, <2>2, <2>4
  <2>6. ASSUME NEW i \in 1 .. y
        PROVE  t[c + i] = (Body(l) \o eol)[i]
    <3>1. F(j) + i \in 1 .. Len(L) /\ F(j) + i \in 1 .. Len(T) /\ c + i = a + (F(j) + i)
      <4> DEFINE f == F(j)
      <4>1. f \in Nat /\ f + y <= Len(L) /\ Len(L) <= Len(T) /\ Len(L) \in Nat /\ Len(T) \in Nat
        BY <1>6, <2>4
      <4> HIDE DEF f, y
      <4>2. f + i \in 1 .. Len(L) /\ f + i \in 1 .. Len(T) /\ a + f + i = a + (f + i)
        BY <2>5, <4>1
      <4> QED BY <4>2 DEF f
    <3>2. t[a + (F(j) + i)] = T[F(j) + i] /\ T[F(j) + i] = L[F(j) + i]
      BY <3>1, <1>6, <1>7
    <3> QED BY <3>1, <3>2, <2>4
  <2>7. D[c].line = <<>> /\ D[c].out = o /\ D[c].event = Said(SubSeq(b, 1, j))
        /\ \A p \in 0 .. F(j) - 1 : Within(D[a + p], o, b)
    BY <1>10
  <2>lr. LineRead(Decoded(t), c, Body(l), eol)
    <3> DEFINE u == Body(l)
    <3>1. LineAt(t, c, u, eol)
      BY <2>5, <2>6 DEF LineAt
    <3>2. u \in Seq(Tokens) /\ Plain(u) /\ Decoded(t)[c].line = <<>> /\ c \in Nat
      BY <2>2, <2>5, <2>7
    <3> HIDE DEF u, c
    <3>3. LineRead(Decoded(t), c, u, eol)
      BY <3>1, <3>2, LineRun
    <3> QED BY <3>3 DEF u
  <2> HIDE DEF c, l
  <2>8. /\ \A p \in 0 .. y - 1 :
             /\ D[c + p].out = D[c].out /\ D[c + p].event = D[c].event
             /\ Stripped(D[c + p].line) = SubSeq(Body(l), 1, IF p <= n THEN p ELSE n)
        /\ D[c + y].line = <<>> /\ D[c + y].out = D[c].out
        /\ D[c + y].event = TakeLine(D[c].event, Head(Body(l)), Tail(Body(l)))
    BY <2>2, <2>lr DEF LineRead
  <2>9. a + F(j + 1) = c + y
    BY <2>4 DEF c
  <2>10. D[a + F(j + 1)].event = Said(SubSeq(b, 1, j + 1))
    <3>1. Head(Body(l)) = l.field /\ Tail(Body(l)) = SubSeq(l.value, 1, n - 1) /\ n - 1 = Len(l.value)
      <4>1. n = Len(l.value) + 1 /\ Len(l.value) \in Nat
        BY <2>1, BodyIs
      <4>2. n \in 1 .. n /\ n - 1 = Len(l.value)
        BY <4>1
      <4> QED BY <2>1, <2>2, <4>2, BodyPart
    <3>2. SubSeq(l.value, 1, n - 1) = l.value
      BY <2>1, <3>1, SubSeqFull DEF LineSet
    <3>3. SubSeq(b, 1, j + 1) = Append(SubSeq(b, 1, j), l) /\ SubSeq(b, 1, j) \in Seq(LineSet)
      <4>1. 0 + 1 = 1 /\ j \in Nat /\ 0 <= j /\ j < Len(b) /\ j <= Len(b)
        BY <1>10
      <4>2. SubSeq(b, 0 + 1, j + 1) = Append(SubSeq(b, 0 + 1, j), b[j + 1]) /\ SubSeq(b, 0 + 1, j) \in Seq(LineSet)
        BY <4>1, LongerPart, PartIs
      <4> QED BY <4>1, <4>2 DEF l
    <3>4. Said(Append(SubSeq(b, 1, j), l)) = TakeLine(Said(SubSeq(b, 1, j)), l.field, l.value)
      BY <2>1, <3>3, SaidAppend
    <3> QED BY <2>7, <2>8, <2>9, <3>1, <3>2, <3>3, <3>4
  <2>11. ASSUME NEW p \in 0 .. F(j + 1) - 1
         PROVE  Within(D[a + p], o, b)
    <3>1. CASE p <= F(j) - 1
      <4>1. p \in 0 .. F(j) - 1
        BY <3>1, <2>4
      <4> QED BY <4>1, <2>7
    <3>2. CASE ~(p <= F(j) - 1)
      <4> DEFINE q == p - F(j)
                 m == IF q <= n THEN q ELSE n
                 d == D[c + q]
      <4>1. q \in 0 .. y - 1 /\ c + q = a + p
        BY <3>2, <2>4 DEF c
      <4>2. m \in 0 .. n /\ (m = 0 => q = 0)
        BY <4>1, <2>2
      <4>3. c + q \in 0 .. Len(t)
        BY <4>1, <2>5
      <4>4. d \in DecodersOf(Tokens)
        BY <4>3, <1>8
      <4>5. d.out = o /\ d.event = Said(SubSeq(b, 1, j)) /\ Stripped(d.line) = SubSeq(Body(l), 1, m)
        BY <4>1, <2>7, <2>8
      <4>6. m = 0 => d.line = <<>>
        <5>1. m = 0 => c + q = c
          BY <4>2, <2>5
        <5> HIDE DEF m, q
        <5> QED BY <5>1, <2>7
      <4> HIDE DEF m, d
      <4>7. Within(d, d.out, b)
        BY <4>2, <4>4, <4>5, <4>6, <2>1, WithinLine DEF l
      <4> QED BY <4>1, <4>5, <4>7 DEF d
    <3> QED BY <3>1, <3>2
  <2> HIDE DEF D
  <2> QED BY <2>1, <2>7, <2>8, <2>9, <2>10, <2>11
<1>11. N \in G
  <2> HIDE DEF G
  <2>1. \A j \in 0 .. N : j \in G
    BY <1>1, <1>9, <1>10, Upwards
  <2> QED BY <1>1, <2>1
<1> DEFINE c == a + Len(L)
           body == SubSeq(b, 1, 0)
<1>12. /\ \A p \in 0 .. Len(L) - 1 : Within(D[a + p], o, b)
       /\ D[c].line = <<>> /\ D[c].out = o /\ D[c].event = Said(b)
  <2>1. SubSeq(b, 1, N) = b
    BY <1>1, SubSeqFull
  <2> QED BY <1>5, <1>11, <2>1
<1>13. body = <<>> /\ body \in Seq(Tokens) /\ Len(body) = 0 /\ Plain(body) /\ body \o eol = eol
  <2>1. body = <<>>
    BY SubSeqEmpty
  <2>2. eol \in Seq(Tokens)
    BY EndsIs
  <2> DEFINE e == <<>>
  <2>3. Plain(e) /\ e \in Seq(Tokens) /\ Len(e) = 0
    BY DEF Plain
  <2>4. e \o eol = eol
    BY <2>2, ConcatEmptySeq
  <2>5. body = e
    BY <2>1
  <2> HIDE DEF e, body
  <2>6. body \in Seq(Tokens) /\ Len(body) = 0 /\ Plain(body) /\ body \o eol = eol
    BY <2>3, <2>4, <2>5
  <2> QED BY <2>5, <2>6 DEF e
<1> HIDE DEF body, c
<1>14. /\ c \in Nat /\ c + (Len(body) + Len(eol)) <= Len(t)
       /\ \A i \in 1 .. Len(body) + Len(eol) : t[c + i] = (body \o eol)[i]
       /\ Len(body) + Len(eol) = Len(eol)
  <2>1. c \in Nat /\ c + Len(eol) <= Len(t) /\ 0 + Len(eol) = Len(eol)
    BY <1>6, <1>7 DEF c
  <2>2. ASSUME NEW i \in 1 .. Len(eol)
        PROVE  t[c + i] = eol[i]
    <3>1. Len(L) + i \in 1 .. Len(T) /\ c + i = a + (Len(L) + i)
      BY <1>6 DEF c
    <3>2. t[a + (Len(L) + i)] = T[Len(L) + i] /\ T[Len(L) + i] = eol[i]
      BY <3>1, <1>6, <1>7
    <3> QED BY <3>1, <3>2
  <2> QED BY <1>13, <2>1, <2>2
<1>15. /\ \A p \in 0 .. Len(eol) - 1 :
            /\ D[c + p].out = D[c].out /\ D[c + p].event = D[c].event
            /\ Stripped(D[c + p].line) = <<>>
       /\ D[c + Len(eol)].line = <<>>
       /\ D[c + Len(eol)].out = Yielded(D[c].out, D[c].event) /\ D[c + Len(eol)].event = NoEvent
  <2>1. /\ \A p \in 0 .. Len(eol) - 1 :
             /\ D[c + p].out = D[c].out /\ D[c + p].event = D[c].event
             /\ Stripped(D[c + p].line) = SubSeq(body, 1, IF p <= Len(body) THEN p ELSE Len(body))
        /\ D[c + Len(eol)].line = <<>>
        /\ D[c + Len(eol)].out = Yielded(D[c].out, D[c].event) /\ D[c + Len(eol)].event = NoEvent
    <3>1. LineAt(t, c, body, eol)
      BY <1>14 DEF LineAt
    <3>2. LineRead(Decoded(t), c, body, eol)
      BY <3>1, <1>12, <1>13, <1>14, LineRun
    <3>3. LineRead(D, c, body, eol) /\ Len(body) + Len(eol) = Len(eol) /\ body = <<>>
      BY <3>2, <1>13, <1>14
    <3> HIDE DEF D
    <3> DEFINE z == Len(body) + Len(eol)
    <3>4. z = Len(eol)
      BY <3>3
    <3>5. /\ \A p \in 0 .. z - 1 :
               /\ D[c + p].out = D[c].out /\ D[c + p].event = D[c].event
               /\ Stripped(D[c + p].line) = SubSeq(body, 1, IF p <= Len(body) THEN p ELSE Len(body))
          /\ D[c + z].line = <<>>
          /\ D[c + z].out = Yielded(D[c].out, D[c].event) /\ D[c + z].event = NoEvent
      BY <3>3 DEF LineRead
    <3> HIDE DEF z
    <3> QED BY <3>4, <3>5
  <2>2. ASSUME NEW p \in 0 .. Len(eol) - 1
        PROVE  SubSeq(body, 1, IF p <= Len(body) THEN p ELSE Len(body)) = <<>>
    <3>1. (IF p <= Len(body) THEN p ELSE Len(body)) = 0
      BY <1>6, <1>13
    <3>2. SubSeq(body, 1, 0) = <<>>
      BY SubSeqEmpty
    <3> QED BY <3>1, <3>2
  <2> QED BY <2>1, <2>2
<1>16. ASSUME NEW p \in 0 .. Len(T) - 1
       PROVE  Within(D[a + p], o, b)
  <2>1. CASE p <= Len(L) - 1
    <3>1. p \in 0 .. Len(L) - 1
      BY <2>1, <1>6
    <3> QED BY <3>1, <1>12
  <2>2. CASE ~(p <= Len(L) - 1)
    <3> DEFINE q == p - Len(L)
               d == D[c + q]
    <3>1. q \in 0 .. Len(eol) - 1 /\ c + q = a + p /\ c + q \in 0 .. Len(t)
      BY <2>2, <1>6, <1>7 DEF c
    <3>2. d \in DecodersOf(Tokens) /\ d.out = o /\ d.event = Said(b) /\ Stripped(d.line) = <<>>
      BY <3>1, <1>8, <1>12, <1>15
    <3> HIDE DEF d
    <3>3. Within(d, d.out, b)
      BY <3>2, WithinEnd
    <3> QED BY <3>1, <3>2, <3>3 DEF d
  <2> QED BY <2>1, <2>2
<1>17. a + Len(T) = c + Len(eol) /\ Len(T) \in Nat
  BY <1>6 DEF c
<1> QED
  BY <1>12, <1>15, <1>16, <1>17 DEF BlockRead, T

-----------------------------------------------------------------------------
(* Decoding the stream.                                                    *)

Start(k) == Len(TextOf(SubSeq(sent, 1, k)))

LEMMA BlocksAre ==
  ASSUME sent \in Seq(Blocks)
  PROVE  /\ Len(sent) \in Nat
         /\ \A k \in 1 .. Len(sent) : sent[k] \in Seq(LineSet) /\ sent[k] # <<>>
<1>1. Len(sent) \in Nat /\ \A k \in 1 .. Len(sent) : sent[k] \in Blocks
  OBVIOUS
<1> QED
  BY <1>1, BlocksAssumption DEF LineSet

\* Where the blocks are in the text.
LEMMA BlocksAt ==
  ASSUME sent \in Seq(Blocks), eol \in Ends
  PROVE  /\ Text \in Seq(Tokens) /\ Len(Text) \in Nat
         /\ Start(0) = 0 /\ Start(Len(sent)) = Len(Text)
         /\ \A k \in 0 .. Len(sent) : Start(k) \in 0 .. Len(Text)
         /\ \A k \in 0 .. Len(sent) - 1 :
              /\ Start(k + 1) = Start(k) + Len(BlockText(sent[k + 1]))
              /\ BlockAt(Text, Start(k), sent[k + 1])
<1> DEFINE N == Len(sent)
           ss == BlockTexts(sent)
           F(k) == Len(FlattenSeq(SubSeq(ss, 1, k)))
<1>1. N \in Nat /\ \A k \in 1 .. N : sent[k] \in Seq(LineSet)
  BY BlocksAre
<1>2. Text = FlattenSeq(ss) /\ Text \in Seq(Tokens) /\ Len(Text) \in Nat
  <2>1. Text \in Seq(Tokens)
    BY TextIs DEF Text
  <2>2. Text = FlattenSeq(ss)
    BY TextOfIs DEF Text
  <2> QED BY <2>1, <2>2, LenProperties
<1>3. ss \in Seq(Seq(Tokens)) /\ Len(ss) = N /\ \A k \in 1 .. N : ss[k] = BlockText(sent[k])
  <2> DEFINE S == Seq(Tokens)
  <2>1. \A k \in 1 .. N : BlockText(sent[k]) \in S
    BY <1>1, TextIs
  <2>2. ss = [k \in 1 .. N |-> BlockText(sent[k])]
    BY DEF BlockTexts
  <2> HIDE DEF S, ss
  <2>3. ss \in Seq(S) /\ Len(ss) = N /\ \A k \in 1 .. N : ss[k] = BlockText(sent[k])
    BY <1>1, <2>1, <2>2
  <2> QED BY <2>3 DEF S
<1>4. ASSUME NEW k \in 0 .. N
      PROVE  Start(k) = F(k)
  <2> DEFINE u == SubSeq(sent, 1, k)
             p == SubSeq(ss, 1, k)
  <2>1. 0 + 1 = 1 /\ k \in Nat /\ k <= N /\ k <= Len(ss) /\ k - 0 = k /\ 0 \in Nat /\ 0 <= k /\ \A i \in 1 .. k : 0 + i = i /\ i \in 1 .. N
    BY <1>1, <1>3
  <2>2. u \in Seq(Blocks) /\ Len(u) = k /\ \A i \in 1 .. k : u[i] = sent[i]
    <3>1. /\ SubSeq(sent, 0 + 1, k) \in Seq(Blocks) /\ Len(SubSeq(sent, 0 + 1, k)) = k - 0
          /\ \A i \in 1 .. k - 0 : SubSeq(sent, 0 + 1, k)[i] = sent[0 + i]
      BY <2>1, PartIs
    <3> QED BY <2>1, <3>1
  <2>3. p \in Seq(Seq(Tokens)) /\ Len(p) = k /\ \A i \in 1 .. k : p[i] = ss[i]
    <3>1. /\ SubSeq(ss, 0 + 1, k) \in Seq(Seq(Tokens)) /\ Len(SubSeq(ss, 0 + 1, k)) = k - 0
          /\ \A i \in 1 .. k - 0 : SubSeq(ss, 0 + 1, k)[i] = ss[0 + i]
      BY <1>3, <2>1, PartIs
    <3> QED BY <2>1, <3>1
  <2> HIDE DEF u, p, ss
  <2>4. BlockTexts(u) = p
    <3>1. BlockTexts(u) = [i \in 1 .. k |-> BlockText(u[i])]
      <4>1. DOMAIN u = 1 .. k
        BY <2>2
      <4> QED BY <4>1 DEF BlockTexts
    <3>2. \A i \in 1 .. k : BlockText(u[i]) = p[i]
      BY <1>3, <2>1, <2>2, <2>3
    <3>3. p = [i \in 1 .. k |-> p[i]]
      BY <2>3
    <3> QED BY <3>1, <3>2, <3>3
  <2>5. TextOf(u) = FlattenSeq(p)
    BY <2>4, TextOfIs
  <2> QED BY <2>5 DEF Start, u, p
<1> HIDE DEF ss
<1>5. F(0) = 0 /\ F(N) = Len(Text)
  <2>1. N \in 0 .. Len(ss) /\ N = Len(ss)
    BY <1>1, <1>3
  <2>2. FlattenSeq(SubSeq(ss, 1, 0)) = <<>> /\ FlattenSeq(SubSeq(ss, 1, Len(ss))) = FlattenSeq(ss)
    BY <1>3, <2>1, FlatPrefix
  <2> QED BY <1>2, <2>1, <2>2
<1>6. ASSUME NEW k \in 0 .. N
      PROVE  /\ F(k) \in 0 .. Len(Text)
             /\ k < N => /\ F(k + 1) = F(k) + Len(ss[k + 1])
                         /\ F(k + 1) <= Len(Text)
                         /\ \A i \in 1 .. Len(ss[k + 1]) : Text[F(k) + i] = ss[k + 1][i]
  <2>1. k \in 0 .. Len(ss)
    BY <1>3
  <2> DEFINE g == FlattenSeq(ss)
  <2>2. /\ F(k) \in 0 .. Len(g)
        /\ k < Len(ss) => /\ F(k + 1) = F(k) + Len(ss[k + 1])
                          /\ F(k + 1) <= Len(g)
                          /\ \A i \in 1 .. Len(ss[k + 1]) : g[F(k) + i] = ss[k + 1][i]
    BY <1>3, <2>1, FlatAt
  <2>3. g = Text /\ Len(ss) = N
    BY <1>2, <1>3
  <2> HIDE DEF F, g
  <2> QED BY <2>2, <2>3
<1> HIDE DEF F
<1>7. Start(0) = 0 /\ Start(N) = Len(Text) /\ \A k \in 0 .. N : Start(k) \in 0 .. Len(Text)
  <2>1. 0 \in 0 .. N /\ N \in 0 .. N
    BY <1>1
  <2> QED BY <2>1, <1>4, <1>5, <1>6
<1>8. ASSUME NEW k \in 0 .. N - 1
      PROVE  /\ Start(k + 1) = Start(k) + Len(BlockText(sent[k + 1]))
             /\ BlockAt(Text, Start(k), sent[k + 1])
  <2>1. k \in 0 .. N /\ k + 1 \in 0 .. N /\ k + 1 \in 1 .. N /\ k < N
    BY <1>1
  <2>2. ss[k + 1] = BlockText(sent[k + 1]) /\ Start(k) = F(k) /\ Start(k + 1) = F(k + 1)
    BY <2>1, <1>3, <1>4
  <2>3. /\ F(k + 1) = F(k) + Len(ss[k + 1]) /\ F(k + 1) <= Len(Text)
        /\ \A i \in 1 .. Len(ss[k + 1]) : Text[F(k) + i] = ss[k + 1][i]
    BY <2>1, <1>6
  <2> DEFINE x == BlockText(sent[k + 1])
             f == Start(k)
  <2>4. /\ Start(k + 1) = f + Len(x) /\ f + Len(x) <= Len(Text)
        /\ \A i \in 1 .. Len(x) : Text[f + i] = x[i]
    BY <2>2, <2>3
  <2> QED BY <2>4 DEF BlockAt
<1> QED
  BY <1>2, <1>7, <1>8

\* The events of one more block.
LEMMA EventsGrow ==
  ASSUME sent \in Seq(Blocks)
  PROVE  /\ Events(0) = <<>>
         /\ \A n \in 0 .. Len(sent) : Events(n) \in Seq(EventsOf(Tokens))
         /\ \A n \in 0 .. Len(sent) - 1 :
              /\ Said(sent[n + 1]) \in EventsOf(Tokens)
              /\ Events(n + 1) = Yielded(Events(n), Said(sent[n + 1]))
         /\ \A n \in 0 .. Len(sent) : IsPrefix(Events(n), Events(Len(sent)))
<1> DEFINE N == Len(sent)
           X == EventsOf(Tokens)
           said(n) == [i \in 1 .. n |-> Said(sent[i])]
           I(n) == {i \in 1 .. n : said(n)[i].data # <<>>}
<1>1. N \in Nat /\ \A i \in 1 .. N : Said(sent[i]) \in X
  <2>1. ASSUME NEW b \in Seq(LineSet)
        PROVE  Said(b) \in X
    <3>1. PICK l : l \in LineSet
      <4>1. [field |-> "data:", value |-> <<>>] \in LineSet
        BY DEF LineSet, Fields
      <4> QED BY <4>1
    <3> QED BY <3>1, SaidAppend
  <2> QED BY <2>1, BlocksAre
<1>2. ASSUME NEW n \in 0 .. N
      PROVE  /\ said(n) \in Seq(X) /\ Len(said(n)) = n /\ n \in Nat
             /\ \A i \in 1 .. n : said(n)[i] = Said(sent[i])
  <2>1. \A i \in 1 .. n : Said(sent[i]) \in X
    BY <1>1
  <2> HIDE DEF X
  <2> QED BY <2>1
<1>3. \A n \in 0 .. N : Events(n) = Kept(said(n), I(n))
  BY DEF Events
<1> HIDE DEF said
<1>4. Events(0) = <<>>
  <2>1. 0 \in 0 .. N
    BY <1>1
  <2>2. said(0) = <<>>
    BY <2>1, <1>2, EmptySeq
  <2> QED BY <2>1, <2>2, <1>3, KeptEmpty
<1>5. ASSUME NEW n \in 0 .. N
      PROVE  Events(n) \in Seq(X)
  <2>1. PICK x : x \in X
    BY NoEventIn
  <2>2. said(n) \in Seq(X)
    BY <1>2
  <2> HIDE DEF X, I
  <2>3. Kept(said(n), I(n)) \in Seq(X)
    BY <2>1, <2>2, KeptAppend
  <2> QED BY <2>3, <1>3
<1>6. ASSUME NEW n \in 0 .. N - 1
      PROVE  Events(n + 1) = Yielded(Events(n), Said(sent[n + 1]))
  <2> DEFINE s == said(n)
             t == said(n + 1)
             x == Said(sent[n + 1])
  <2>1. n \in 0 .. N /\ n + 1 \in 0 .. N /\ n + 1 \in 1 .. N /\ n + 1 \in 1 .. n + 1 /\ n \in Nat
    BY <1>1
  <2>2. s \in Seq(X) /\ Len(s) = n /\ \A i \in 1 .. n : s[i] = Said(sent[i])
    BY <1>2, <2>1
  <2>3. t \in Seq(X) /\ Len(t) = n + 1 /\ \A i \in 1 .. n + 1 : t[i] = Said(sent[i])
    BY <1>2, <2>1
  <2>4. x \in X
    BY <1>1, <2>1
  <2>5. I(n + 1) = {i \in 1 .. n + 1 : t[i].data # <<>>} /\ I(n) = {i \in 1 .. n : s[i].data # <<>>}
    OBVIOUS
  <2> DEFINE J == I(n + 1)
             K == I(n)
  <2>6. \A i \in 1 .. n : i \in K <=> i \in J
    BY <2>1, <2>2, <2>3, <2>5
  <2>7. n + 1 \in J <=> x.data # <<>>
    BY <2>1, <2>3, <2>5
  <2>8. Events(n) = Kept(s, K) /\ Events(n + 1) = Kept(t, J)
    BY <1>3, <2>1
  <2> HIDE DEF s, t, J, K, x, I, X
  <2>9. t = Append(s, x)
    <3>1. /\ Append(s, x) \in Seq(X) /\ Len(Append(s, x)) = n + 1
          /\ \A i \in 1 .. n : Append(s, x)[i] = s[i]
          /\ Append(s, x)[n + 1] = x
      BY <2>2, <2>4, AppendIs
    <3>2. ASSUME NEW i \in 1 .. n + 1
          PROVE  t[i] = Append(s, x)[i]
      <4>1. CASE i = n + 1
        BY <4>1, <2>3, <3>1 DEF x
      <4>2. CASE i # n + 1
        <5>1. i \in 1 .. n
          BY <4>2, <2>1
        <5>2. t[i] = Said(sent[i]) /\ s[i] = Said(sent[i]) /\ Append(s, x)[i] = s[i]
          BY <5>1, <2>2, <2>3, <3>1
        <5> QED BY <5>2
      <4> QED BY <4>1, <4>2
    <3> QED BY <2>3, <3>1, <3>2, SeqEqual
  <2>10. Kept(s, K) = Kept(s, J)
    BY <2>2, <2>6, KeptWithin
  <2>11. Kept(t, J) = IF n + 1 \in J THEN Append(Kept(s, J), x) ELSE Kept(s, J)
    BY <2>2, <2>4, <2>9, KeptAppend
  <2> QED BY <2>7, <2>8, <2>10, <2>11 DEF Yielded, x
<1>7. \A n \in 0 .. N : IsPrefix(Events(n), Events(N))
  <2> DEFINE G == {m \in 0 .. N : IsPrefix(Events(N - m), Events(N))}
  <2>1. 0 \in G
    <3>1. N \in 0 .. N /\ N - 0 = N /\ 0 \in 0 .. N
      BY <1>1
    <3>2. IsPrefix(Events(N), Events(N))
      BY <3>1, <1>5, PrefixFacts
    <3> QED BY <3>1, <3>2
  <2>2. ASSUME NEW m \in 0 .. N, m < N, m \in G
        PROVE  m + 1 \in G
    <3> DEFINE n == N - (m + 1)
    <3>1. n \in 0 .. N - 1 /\ n \in 0 .. N /\ n + 1 = N - m /\ n + 1 \in 0 .. N /\ N \in 0 .. N /\ m + 1 \in 0 .. N /\ n + 1 \in 1 .. N
      BY <1>1, <2>2
    <3> HIDE DEF n
    <3>2. IsPrefix(Events(n), Events(n + 1))
      BY <3>1, <1>1, <1>5, <1>6, YieldedGrows
    <3>3. IsPrefix(Events(n + 1), Events(N))
      BY <2>2, <3>1
    <3>4. IsPrefix(Events(n), Events(N))
      BY <3>1, <3>2, <3>3, <1>5, PrefixFacts
    <3> QED BY <3>1, <3>4 DEF n
  <2>3. \A m \in 0 .. N : m \in G
    <3> HIDE DEF G
    <3> QED BY <1>1, <2>1, <2>2, Upwards
  <2>4. ASSUME NEW n \in 0 .. N
        PROVE  IsPrefix(Events(n), Events(N))
    <3>1. N - n \in 0 .. N /\ N - (N - n) = n
      BY <1>1
    <3>2. N - n \in G
      BY <2>3, <3>1
    <3> QED BY <3>1, <3>2
  <2> QED BY <2>4
<1>8. \A n \in 0 .. N - 1 : n + 1 \in 1 .. N
  BY <1>1
<1> QED
  BY <1>1, <1>4, <1>5, <1>6, <1>7, <1>8

\* A decoder between two events tells nothing more at the end.
LEMMA ToldIdle ==
  ASSUME NEW S, NEW d \in DecodersOf(S), d.line = <<>>, d.event = NoEvent
  PROVE  Told(d) = d.out
<1>1. Stripped(d.line) = <<>>
  <2> DEFINE e == d.line
  <2>1. e \in Seq(S) /\ \A i \in 1 .. Len(e) : e[i] \notin {"r", "n"}
    BY DEF DecodersOf
  <2> HIDE DEF e
  <2>2. Stripped(e) = e
    BY <2>1, StrippedIs
  <2> QED BY <2>2 DEF e
<1>2. EndLine(d).out = Yielded(d.out, NoEvent) /\ EndLine(d).event = NoEvent
  BY <1>1, EndLineIn
<1>3. Yielded(d.out, NoEvent) = d.out
  BY NoEventIn, YieldedIn DEF DecodersOf
<1> QED
  BY <1>2, <1>3 DEF Told

\* The decoder is within a block, or behind the last one.
Placed(d) ==
  \/ \E k \in 0 .. Len(sent) - 1 : Within(d, Events(k), sent[k + 1])
  \/ d.out = Events(Len(sent)) /\ d.line = <<>> /\ Told(d) = Events(Len(sent))

LEMMA StreamRun ==
  ASSUME sent \in Seq(Blocks), eol \in Ends
  PROVE  LET D == Decoded(Text) IN
         /\ \A k \in 0 .. Len(sent) :
              D[Start(k)].out = Events(k) /\ D[Start(k)].event = NoEvent /\ D[Start(k)].line = <<>>
         /\ \A a \in 0 .. Len(Text) : Placed(D[a])
<1> DEFINE N == Len(sent)
           D == Decoded(Text)
           G == {k \in 0 .. N : /\ D[Start(k)].out = Events(k)
                                /\ D[Start(k)].event = NoEvent /\ D[Start(k)].line = <<>>
                                /\ \A a \in 0 .. Start(k) - 1 : Placed(D[a])}
<1>1. N \in Nat /\ \A k \in 1 .. N : sent[k] \in Seq(LineSet) /\ sent[k] # <<>>
  BY BlocksAre
<1>2. /\ Text \in Seq(Tokens) /\ Len(Text) \in Nat
      /\ Start(0) = 0 /\ Start(N) = Len(Text)
      /\ \A k \in 0 .. N : Start(k) \in 0 .. Len(Text)
      /\ \A k \in 0 .. N - 1 :
           /\ Start(k + 1) = Start(k) + Len(BlockText(sent[k + 1]))
           /\ BlockAt(Text, Start(k), sent[k + 1])
  BY BlocksAt
<1>3. 0 \in G
  <2>1. D[0].out = <<>> /\ D[0].event = NoEvent /\ D[0].line = <<>>
    BY <1>2, DecodedAt
  <2>2. Events(0) = <<>> /\ 0 \in 0 .. N /\ 0 .. Start(0) - 1 = {}
    BY <1>1, <1>2, EventsGrow
  <2> HIDE DEF D
  <2> QED BY <1>2, <2>1, <2>2
<1>4. ASSUME NEW k \in 0 .. N, k < N, k \in G
      PROVE  k + 1 \in G
  <2> DEFINE b == sent[k + 1]
             a == Start(k)
             z == Len(BlockText(b))
  <2>1. k \in 0 .. N - 1 /\ k + 1 \in 0 .. N /\ k + 1 \in 1 .. N
    BY <1>1, <1>4
  <2>2. b \in Seq(LineSet) /\ b # <<>>
    BY <1>1, <2>1
  <2>3. a \in Nat /\ Start(k + 1) = a + z /\ BlockAt(Text, a, b)
    BY <1>2, <2>1
  <2>4. D[a].out = Events(k) /\ D[a].event = NoEvent /\ D[a].line = <<>> /\ \A i \in 0 .. a - 1 : Placed(D[i])
    BY <1>4
  <2>5. BlockRead(D, a, b)
    <3> HIDE DEF a, b
    <3> QED BY <1>2, <2>2, <2>3, <2>4, BlockRun
  <2> HIDE DEF D
  <2>6. /\ z \in Nat
        /\ \A p \in 0 .. z - 1 : Within(D[a + p], D[a].out, b)
        /\ D[a + z].line = <<>> /\ D[a + z].event = NoEvent
        /\ D[a + z].out = Yielded(D[a].out, Said(b))
    <3> HIDE DEF a, b
    <3> QED BY <2>5 DEF BlockRead
  <2>7. D[a + z].out = Events(k + 1)
    BY <2>1, <2>4, <2>6, EventsGrow
  <2>8. ASSUME NEW i \in 0 .. Start(k + 1) - 1
        PROVE  Placed(D[i])
    <3>1. CASE i <= a - 1
      <4>1. i \in 0 .. a - 1
        BY <3>1, <2>3
      <4> QED BY <4>1, <2>4
    <3>2. CASE ~(i <= a - 1)
      <4>1. i - a \in 0 .. z - 1 /\ a + (i - a) = i
        <5> HIDE DEF a, z
        <5> QED BY <3>2, <2>3, <2>6
      <4>2. Within(D[a + (i - a)], D[a].out, b)
        BY <4>1, <2>6
      <4>3. Within(D[i], Events(k), sent[k + 1])
        BY <4>1, <4>2, <2>4
      <4> QED BY <4>3, <2>1 DEF Placed
    <3> QED BY <3>1, <3>2
  <2> QED BY <2>1, <2>3, <2>6, <2>7, <2>8
<1>5. \A k \in 0 .. N : k \in G
  <2> HIDE DEF G
  <2> QED BY <1>1, <1>3, <1>4, Upwards
<1>6. Placed(D[Len(Text)])
  <2>1. N \in 0 .. N
    BY <1>1
  <2>2. D[Start(N)].out = Events(N) /\ D[Start(N)].event = NoEvent /\ D[Start(N)].line = <<>>
    BY <2>1, <1>5
  <2>3. D[Len(Text)] \in DecodersOf(Tokens)
    <3>1. Len(Text) \in 0 .. Len(Text)
      BY <1>2
    <3> QED BY <3>1, <1>2, DecodedAt
  <2> DEFINE d == D[Len(Text)]
  <2>4. d \in DecodersOf(Tokens) /\ d.out = Events(N) /\ d.event = NoEvent /\ d.line = <<>>
    BY <1>2, <2>2, <2>3
  <2> HIDE DEF d
  <2>5. Told(d) = d.out
    BY <2>4, ToldIdle
  <2>6. Placed(d)
    BY <2>4, <2>5 DEF Placed
  <2> QED BY <2>6 DEF d
<1>7. ASSUME NEW a \in 0 .. Len(Text)
      PROVE  Placed(D[a])
  <2>1. CASE a = Len(Text)
    BY <2>1, <1>6
  <2>2. CASE a # Len(Text)
    <3>1. N \in 0 .. N /\ a \in 0 .. Start(N) - 1
      BY <1>1, <1>2, <2>2
    <3> QED BY <3>1, <1>5
  <2> QED BY <2>1, <2>2
<1> QED
  BY <1>5, <1>7

\* So what it has told is among the events, but for what may be left of a block.
LEMMA PlacedFacts ==
  ASSUME sent \in Seq(Blocks), NEW d \in DecodersOf(Tokens), Placed(d)
  PROVE  LET all == Events(Len(sent)) IN
         /\ IsPrefix(d.out, all)
         /\ d.line # <<>> => IsPrefix(EndLine(d).out, all)
         /\ \/ IsPrefix(Told(d), all)
            \/ \E k \in 0 .. Len(sent) - 1 : \E c \in CutOffs(sent[k + 1]) :
                 Told(d) = Append(Events(k), Said(c))
<1> DEFINE N == Len(sent)
<1>1. N \in Nat /\ \A k \in 1 .. N : sent[k] \in Seq(LineSet)
  BY BlocksAre
<1>2. /\ \A n \in 0 .. N : Events(n) \in Seq(EventsOf(Tokens)) /\ IsPrefix(Events(n), Events(N))
      /\ \A n \in 0 .. N - 1 : Events(n + 1) = Yielded(Events(n), Said(sent[n + 1]))
  BY EventsGrow
<1>3. CASE d.out = Events(N) /\ d.line = <<>> /\ Told(d) = Events(N)
  <2>1. N \in 0 .. N
    BY <1>1
  <2> QED BY <1>2, <1>3, <2>1
<1>4. CASE \E k \in 0 .. N - 1 : Within(d, Events(k), sent[k + 1])
  <2>1. PICK k \in 0 .. N - 1 : Within(d, Events(k), sent[k + 1])
    BY <1>4
  <2>2. k \in 0 .. N /\ k + 1 \in 0 .. N /\ k + 1 \in 1 .. N
    BY <1>1
  <2>3. IsPrefix(d.out, Events(N))
    BY <1>2, <2>1, <2>2 DEF Within
  <2>4. d.line # <<>> => IsPrefix(EndLine(d).out, Events(N))
    <3>1. d.line # <<>> => EndLine(d).out \in {Events(k), Events(k + 1)}
      BY <1>2, <2>1 DEF Within
    <3> QED BY <1>2, <2>2, <3>1
  <2>5. CASE Told(d) = Events(k)
    BY <1>2, <2>2, <2>3, <2>4, <2>5
  <2>6. CASE Told(d) # Events(k)
    <3>1. PICK c \in CutOffs(sent[k + 1]) : Told(d) = Yielded(Events(k), Said(c))
      BY <2>1, <2>6 DEF Within
    <3>2. Told(d) = Append(Events(k), Said(c))
      BY <2>6, <3>1 DEF Yielded
    <3> QED BY <2>3, <2>4, <3>2
  <2> QED BY <2>5, <2>6
<1> QED
  BY <1>3, <1>4 DEF Placed

-----------------------------------------------------------------------------
(* Parsing a block, as TypeScript does.                                    *)

\* The event of the whole lines of a text, and its last line.
Parsed(t) == EventOf(Front(Split(t)))
Under(t) == Last(Split(t))

LEMMA ParseStep ==
  ASSUME NEW S, NEW t \in Seq(S), NEW c \in S
  PROVE  /\ Parsed(t) \in EventsOf(S) /\ Under(t) \in Seq(S)
         /\ EventOf(Split(t)) = TakeUnlessBlank(Parsed(t), Under(t))
         /\ c = "n" => /\ Parsed(Append(t, c)) = TakeUnlessBlank(Parsed(t), Under(t))
                       /\ Under(Append(t, c)) = <<>>
         /\ c # "n" => /\ Parsed(Append(t, c)) = Parsed(t)
                       /\ Under(Append(t, c)) = Append(Under(t), c)
<1> DEFINE lines == Split(t)
<1>1. lines \in LinesOf(S) /\ Split(Append(t, c)) = WithToken(lines, c)
  BY SplitAppend
<1> HIDE DEF lines
<1>2. /\ Last(lines) \in Seq(S) /\ Front(lines) \in Seq(Seq(S))
      /\ lines = Append(Front(lines), Last(lines))
      /\ c = "n" => Front(WithToken(lines, c)) = lines /\ Last(WithToken(lines, c)) = <<>>
      /\ c # "n" => /\ Front(WithToken(lines, c)) = Front(lines)
                    /\ Last(WithToken(lines, c)) = Append(Last(lines), c)
  BY <1>1, WithTokenIn
<1> DEFINE f == Front(lines)
           l == Last(lines)
<1>3. f \in Seq(Seq(S)) /\ l \in Seq(S) /\ lines = Append(f, l)
  BY <1>2
<1> HIDE DEF f, l
<1>4. EventOf(f) \in EventsOf(S) /\ EventOf(lines) = TakeUnlessBlank(EventOf(f), l)
  BY <1>3, EventAppend
<1> QED
  BY <1>1, <1>2, <1>4 DEF Parsed, Under, f, l, lines

LEMMA ParseEmpty == Parsed(<<>>) = NoEvent /\ Under(<<>>) = <<>>
<1> DEFINE e == <<>>
           s == <<e>>
<1>1. e \in Seq({e}) /\ Len(s) = 1 /\ s[1] = e
  OBVIOUS
<1>2. Split(<<>>) = s
  BY SplitEmpty
<1>3. Last(s) = e
  BY <1>1 DEF Last
<1>4. Front(s) = <<>>
  <2>1. 1 - 1 = 0 /\ SubSeq(s, 1, 0) = <<>>
    BY SubSeqEmpty
  <2> QED BY <1>1, <2>1 DEF Front
<1> QED
  BY <1>2, <1>3, <1>4, EventEmpty DEF Parsed, Under

\* From the place between two events on, and as long as no blank line comes, the
\* decoder and the parser agree on a text without CR.
Blank(t, i) == t[i] = "n" /\ t[i + 1] = "n"
Agree(t, d, e, p) ==
  /\ e.out = d.out /\ e.event = Parsed(p) /\ e.line = Under(p)
  /\ Plain(e.line)

LEMMA ParseAgrees ==
  ASSUME NEW S, NEW t \in Seq(S), NoCr(t), NEW a \in Nat, NEW b \in a .. Len(t),
         \A i \in a + 1 .. b - 1 : ~Blank(t, i),
         Decoded(t)[a].event = NoEvent, Decoded(t)[a].line = <<>>
  PROVE  Agree(t, Decoded(t)[a], Decoded(t)[b], SubSeq(t, a + 1, b))
<1> DEFINE D == Decoded(t)
           G == {m \in 0 .. b - a : /\ Agree(t, D[a], D[a + m], SubSeq(t, a + 1, a + m))
                                    /\ D[a + m].line = <<>> => m = 0 \/ t[a + m] = "n"}
<1>1. b - a \in Nat /\ Len(t) \in Nat /\ a + 0 = a /\ a + (b - a) = b /\ b - a \in 0 .. b - a /\ a \in 0 .. Len(t)
  OBVIOUS
<1>2. \A i \in 0 .. Len(t) : D[i] \in DecodersOf(S)
  BY DecodedAt
<1>3. D[a].event = NoEvent /\ D[a].line = <<>>
  OBVIOUS
<1>4. 0 \in G
  <2>1. SubSeq(t, a + 1, a) = <<>>
    BY PartIs
  <2>2. Plain(<<>>)
    BY DEF Plain
  <2> HIDE DEF D
  <2>3. Agree(t, D[a], D[a], <<>>)
    BY <1>3, <2>2, ParseEmpty DEF Agree
  <2>4. 0 \in 0 .. b - a
    BY <1>1
  <2> QED BY <1>1, <2>1, <2>3, <2>4
<1>5. ASSUME NEW m \in 0 .. b - a, m < b - a, m \in G
      PROVE  m + 1 \in G
  <2>1. PICK i \in Nat : /\ i = a + m /\ i + 1 = a + (m + 1) /\ a <= i /\ i < Len(t) /\ i <= Len(t)
                         /\ i + 1 \in 1 .. Len(t) /\ m + 1 \in 0 .. b - a /\ i \in 0 .. Len(t) /\ i + 1 \in 0 .. Len(t)
                         /\ (m # 0 => i \in a + 1 .. b - 1) /\ (m = 0 => i = a)
    BY <1>1, <1>5
  <2> DEFINE c == t[i + 1]
             d == D[i]
             e == D[i + 1]
             p == SubSeq(t, a + 1, i)
             q == SubSeq(t, a + 1, i + 1)
  <2>2. /\ d \in DecodersOf(S) /\ e \in DecodersOf(S) /\ c \in S
        /\ c = "n" => e = EndLine(d)
        /\ c # "n" => e.out = d.out /\ e.event = d.event /\ e.line = Append(d.line, c)
    BY <2>1, DecodedStep
  <2>3. p \in Seq(S) /\ q = Append(p, c)
    <3>1. p \in Seq(S)
      BY <2>1, PartIs
    <3>2. q = Append(p, c)
      BY <2>1, LongerPart
    <3> QED BY <3>1, <3>2
  <2>4. d.out = D[a].out /\ d.event = Parsed(p) /\ d.line = Under(p) /\ Plain(d.line)
        /\ (d.line = <<>> => m = 0 \/ t[i] = "n")
    BY <1>5, <2>1 DEF Agree
  <2>5. m = 0 => d.event = NoEvent
    BY <1>3, <2>1
  <2>6. m # 0 /\ t[i] = "n" => c # "n"
    BY <2>1 DEF Blank
  <2>7. c # "r"
    BY <2>1 DEF NoCr
  <2>8. d.out \in Seq(EventsOf(S)) /\ d.event \in EventsOf(S) /\ d.line \in Seq(S)
    BY <2>2 DEF DecodersOf
  <2>9. /\ c = "n" => Parsed(q) = TakeUnlessBlank(Parsed(p), Under(p)) /\ Under(q) = <<>>
        /\ c # "n" => Parsed(q) = Parsed(p) /\ Under(q) = Append(Under(p), c)
    <3>1. c \in S
      BY <2>2
    <3> HIDE DEF c, p, q
    <3> QED BY <2>3, <3>1, ParseStep
  <2> HIDE DEF c, d, e, p, q, D
  <2>10. CASE c = "n"
    <3>1. Stripped(d.line) = d.line
      BY <2>4, <2>8, StrippedIs DEF Plain
    <3>2. e.line = <<>>
      BY <2>2, <2>10, EndLineIn
    <3>3. CASE d.line = <<>>
      <4>1. d.event = NoEvent
        BY <2>4, <2>5, <2>6, <2>10, <3>3
      <4>2. e.out = Yielded(d.out, NoEvent) /\ e.event = NoEvent
        BY <2>2, <2>10, <3>1, <3>3, <4>1, EndLineIn
      <4>3. e.out = D[a].out
        BY <2>4, <2>8, <4>2, YieldedIn
      <4>4. Parsed(q) = NoEvent
        BY <2>4, <2>9, <2>10, <3>3, <4>1 DEF TakeUnlessBlank
      <4>5. Plain(<<>>)
        BY DEF Plain
      <4> QED BY <2>9, <2>10, <3>2, <4>2, <4>3, <4>4, <4>5, <2>1 DEF Agree, c, e, q
    <3>4. CASE d.line # <<>>
      <4>1. e.out = d.out /\ e.event = TakeLine(d.event, Head(d.line), Tail(d.line))
        BY <2>2, <2>10, <3>1, <3>4, EndLineIn
      <4>2. Parsed(q) = e.event
        BY <2>4, <2>9, <2>10, <3>4, <4>1 DEF TakeUnlessBlank
      <4>3. Plain(<<>>)
        BY DEF Plain
      <4> QED BY <2>4, <2>9, <2>10, <3>2, <4>1, <4>2, <4>3, <2>1 DEF Agree, c, e, q
    <3> QED BY <3>3, <3>4
  <2>11. CASE c # "n"
    <3>1. e.out = D[a].out /\ e.event = Parsed(q) /\ e.line = Under(q) /\ e.line = Append(d.line, c)
      BY <2>2, <2>4, <2>9, <2>11
    <3> DEFINE l == d.line
    <3>2. l \in Seq(S) /\ Plain(l)
      BY <2>4, <2>8
    <3> HIDE DEF l
    <3>3. /\ Append(l, c) # <<>> /\ Len(Append(l, c)) = Len(l) + 1 /\ Len(l) \in Nat
          /\ \A j \in 1 .. Len(l) : Append(l, c)[j] = l[j]
          /\ Append(l, c)[Len(l) + 1] = c
      BY <2>2, <3>2, AppendIs
    <3>4. Plain(Append(l, c))
      <4>1. ASSUME NEW j \in 1 .. Len(l) + 1
            PROVE  Append(l, c)[j] \notin {"r", "n"}
        <5>1. CASE j = Len(l) + 1
          BY <5>1, <2>7, <2>11, <3>3
        <5>2. CASE j # Len(l) + 1
          <6>1. j \in 1 .. Len(l)
            BY <5>2, <3>3
          <6> QED BY <6>1, <3>2, <3>3 DEF Plain
        <5> QED BY <5>1, <5>2
      <4> QED BY <4>1, <3>3 DEF Plain
    <3>5. e.line # <<>> /\ Plain(e.line)
      BY <3>1, <3>3, <3>4 DEF l
    <3> QED BY <3>1, <3>5, <2>1 DEF Agree, c, e, q
  <2> QED BY <2>10, <2>11
<1>6. b - a \in G
  <2> HIDE DEF G
  <2>1. \A m \in 0 .. b - a : m \in G
    BY <1>1, <1>4, <1>5, Upwards
  <2> QED BY <2>1, <1>1
<1> QED
  BY <1>1, <1>6

\* Without CR nothing is to be replaced.
LEMMA ParsePlain ==
  ASSUME NEW S, NEW t \in Seq(S), NoCr(t)
  PROVE  parseSseBlock(t) = EventOf(Split(t))
<1>1. \A i \in 1 .. Len(t) : i \in {j \in DOMAIN t : t[j] # "r" \/ j = Len(t) \/ t[j + 1] # "n"}
  BY DEF NoCr
<1>2. WithoutCR(t) = t
  BY <1>1, KeptAll DEF WithoutCR
<1> QED
  BY <1>2 DEF parseSseBlock

-----------------------------------------------------------------------------
(* The Python reader.                                                      *)

\* The text of a stream does not change.
LEMMA TextStays ==
  ASSUME UNCHANGED <<sent, eol>>
  PROVE  Text' = Text
BY DEF Text, TextOf, Line

\* PyInv for a reader p, a of the text having arrived.
PyFits(p, a, st, D) ==
  LET d == D[p.read] IN
  /\ p \in [read : 0 .. a, event : {p.event}, out : {p.out}, at : {"reading", "ended", "raised"}]
  /\ IF p.at = "ended"
     THEN st = "closed" /\ p.read = a /\ p.out = Told(d)
     ELSE \/ d.line = <<>> /\ p.event = d.event /\ p.out = d.out
          \/ /\ st = "closed" /\ p.read = a /\ d.line # <<>>
             /\ p.event = EndLine(d).event /\ p.out = EndLine(d).out

\* What Python makes of a line it has read.
Taken(p, raw) ==
  LET line == Stripped(raw) IN
  IF line = <<>>
  THEN [p EXCEPT !.read = @ + Len(raw), !.event = NoEvent, !.out = Yielded(@, p.event)]
  ELSE [p EXCEPT !.read = @ + Len(raw), !.event = TakeLine(@, Head(line), Tail(line))]

\* It is what the decoder makes of the end of that line.
LEMMA TakenIs ==
  ASSUME NEW p, NEW n \in Nat, p \in [read : 0 .. n, event : {p.event}, out : {p.out}, at : {"reading"}],
         NEW raw, NEW d, d.out = p.out, d.event = p.event, Stripped(raw) = Stripped(d.line)
  PROVE  /\ Taken(p, raw) = [read |-> p.read + Len(raw), event |-> EndLine(d).event,
                             out |-> EndLine(d).out, at |-> "reading"]
<1> DEFINE line == Stripped(raw)
<1>1. p = [read |-> p.read, event |-> p.event, out |-> p.out, at |-> "reading"]
  OBVIOUS
<1>2. CASE line = <<>>
  <2>1. EndLine(d).event = NoEvent /\ EndLine(d).out = Yielded(p.out, p.event)
    BY <1>2 DEF EndLine
  <2>2. Taken(p, raw) = [p EXCEPT !.read = p.read + Len(raw), !.event = NoEvent, !.out = Yielded(p.out, p.event)]
    BY <1>2 DEF Taken
  <2> QED BY <1>1, <2>1, <2>2
<1>3. CASE line # <<>>
  <2>1. /\ EndLine(d).event = TakeLine(p.event, Head(line), Tail(line))
        /\ EndLine(d).out = p.out
    BY <1>3 DEF EndLine
  <2>2. Taken(p, raw) = [p EXCEPT !.read = p.read + Len(raw), !.event = TakeLine(p.event, Head(line), Tail(line))]
    BY <1>3 DEF Taken
  <2> HIDE DEF line
  <2> QED BY <1>1, <2>1, <2>2
<1> QED
  BY <1>2, <1>3

\* The next whole line.
LEMMA NextLine ==
  ASSUME NEW t \in Seq(Tokens), NEW r \in Nat, NEW a \in r .. Len(t),
         Contains(SubSeq(t, r + 1, a), "n"), Decoded(t)[r].line = <<>>
  PROVE  LET unread == SubSeq(t, r + 1, a)
             n == SelectInSeq(unread, LAMBDA c : c = "n")
             raw == SubSeq(unread, 1, n)
             D == Decoded(t) IN
         /\ r + Len(raw) \in r + 1 .. a /\ Len(raw) = n
         /\ \E d \in DecodersOf(Tokens) :
              /\ d.out = D[r].out /\ d.event = D[r].event /\ Stripped(raw) = Stripped(d.line)
              /\ D[r + Len(raw)] = EndLine(d)
<1> DEFINE u == SubSeq(t, r + 1, a)
           I == {i \in 1 .. Len(u) : u[i] = "n"}
           n == Min(I)
           D == Decoded(t)
<1>1. Len(t) \in Nat /\ a \in Nat /\ a <= Len(t) /\ r <= a
  OBVIOUS
<1>2. u \in Seq(Tokens) /\ Len(u) = a - r /\ \A i \in 1 .. a - r : u[i] = t[r + i]
  BY <1>1, PartIs
<1> HIDE DEF u
<1>3. I \in SUBSET Nat /\ I # {}
  <2>1. \E i \in 1 .. Len(u) : u[i] = "n"
    BY DEF Contains, u
  <2>2. I # {}
    BY <2>1
  <2> DEFINE m == Len(u)
  <2>3. m \in Nat
    BY <1>1, <1>2
  <2> HIDE DEF m
  <2>4. 1 .. m \subseteq Nat
    BY <2>3
  <2>5. I \subseteq 1 .. m
    BY DEF m
  <2> QED BY <2>2, <2>4, <2>5
<1>4. SelectInSeq(u, LAMBDA c : c = "n") = n
  BY <1>3 DEF SelectInSeq
<1>5. n \in I /\ \A i \in I : n <= i
  <2> HIDE DEF I
  <2> QED BY <1>3, MinIsThere
<1> HIDE DEF n
<1>6. n \in 1 .. a - r /\ u[n] = "n" /\ \A i \in 1 .. n - 1 : u[i] # "n"
  <2>1. n \in 1 .. a - r /\ u[n] = "n"
    BY <1>2, <1>5
  <2>2. ASSUME NEW i \in 1 .. n - 1
        PROVE  u[i] # "n"
    <3>1. i \in 1 .. Len(u) /\ ~(n <= i)
      BY <1>1, <1>2, <2>1
    <3> QED BY <3>1, <1>5
  <2> QED BY <2>1, <2>2
<1> DEFINE b == r + (n - 1)
<1>7. /\ n \in Nat /\ b \in Nat /\ b \in r .. Len(t) /\ b < Len(t) /\ b + 1 = r + n /\ b + 1 \in r + 1 .. a /\ r <= b
      /\ n <= Len(u) /\ n - 1 \in Nat /\ n - 1 < Len(u) /\ n - 1 <= Len(u) /\ n - 1 + 1 = n /\ b <= Len(t)
      /\ b - r = n - 1 /\ b \in 0 .. Len(t)
  BY <1>1, <1>2, <1>6
<1>8. \A i \in r + 1 .. b : t[i] # "n"
  <2> SUFFICES ASSUME NEW i \in r + 1 .. b
               PROVE  t[i] # "n"
    OBVIOUS
  <2>1. PICK j \in 1 .. n - 1 : i = r + j /\ j \in 1 .. a - r
    <3>1. i - r \in 1 .. n - 1 /\ i = r + (i - r) /\ i - r \in 1 .. a - r
      BY <1>1, <1>6, <1>7
    <3> QED BY <3>1
  <2> QED BY <2>1, <1>2, <1>6
<1>9. t[b + 1] = "n"
  BY <1>2, <1>6, <1>7
<1> HIDE DEF b, I
<1>10. D[b].out = D[r].out /\ D[b].event = D[r].event /\ D[b].line = SubSeq(t, r + 1, b)
  BY <1>7, <1>8, Stretch
<1>11. D[b] \in DecodersOf(Tokens) /\ D[b + 1] = EndLine(D[b])
  BY <1>7, <1>9, DecodedStep
<1> DEFINE raw == SubSeq(u, 1, n)
           p == SubSeq(t, r + 1, b)
<1>12. raw \in Seq(Tokens) /\ Len(raw) = n
  <2>1. SubSeq(u, 0 + 1, n) \in Seq(Tokens) /\ Len(SubSeq(u, 0 + 1, n)) = n - 0 /\ 0 + 1 = 1 /\ n - 0 = n
    BY <1>2, <1>7, PartIs
  <2> QED BY <2>1
<1>13. p \in Seq(Tokens) /\ Len(p) = n - 1 /\ \A i \in 1 .. n - 1 : p[i] = t[r + i]
  BY <1>1, <1>7, PartIs
<1>14. SubSeq(u, 1, n - 1) = p
  <2> DEFINE q == SubSeq(u, 0 + 1, n - 1)
  <2>1. q \in Seq(Tokens) /\ Len(q) = n - 1 - 0 /\ \A i \in 1 .. n - 1 - 0 : q[i] = u[0 + i]
    BY <1>2, <1>7, PartIs
  <2>2. 0 + 1 = 1 /\ n - 1 - 0 = n - 1 /\ \A i \in 1 .. n - 1 : 0 + i = i /\ i \in 1 .. a - r
    BY <1>1, <1>6, <1>7
  <2>3. q = SubSeq(u, 1, n - 1)
    BY <2>2
  <2> HIDE DEF q, p
  <2>4. \A i \in 1 .. n - 1 : q[i] = p[i]
    BY <2>1, <2>2, <1>2, <1>13
  <2>5. q = p
    BY <2>1, <2>2, <2>4, <1>13, SeqEqual
  <2> QED BY <2>3, <2>5
<1>15. raw = Append(p, "n")
  <2>1. SubSeq(u, 0 + 1, n - 1 + 1) = Append(SubSeq(u, 0 + 1, n - 1), u[n - 1 + 1])
    BY <1>2, <1>7, LongerPart
  <2>2. 0 + 1 = 1
    OBVIOUS
  <2> HIDE DEF p
  <2> QED BY <2>1, <2>2, <1>6, <1>7, <1>14
<1>16. Stripped(raw) = Stripped(D[b].line)
  <2>1. "n" \in Tokens
    BY DEF Tokens
  <2> HIDE DEF p, raw
  <2>2. Stripped(Append(p, "n")) = Stripped(p)
    BY <1>13, <2>1, StrippedIs
  <2>3. D[b].line = p
    BY <1>10 DEF p
  <2> QED BY <1>15, <2>2, <2>3
<1> HIDE DEF raw, D
<1>17. r + Len(raw) = b + 1
  BY <1>7, <1>12
<1>18. /\ r + Len(raw) \in r + 1 .. a /\ Len(raw) = n
       /\ \E d \in DecodersOf(Tokens) :
            /\ d.out = D[r].out /\ d.event = D[r].event /\ Stripped(raw) = Stripped(d.line)
            /\ D[r + Len(raw)] = EndLine(d)
  BY <1>7, <1>10, <1>11, <1>12, <1>16, <1>17
<1> QED
  BY <1>4, <1>18 DEF raw, u, D


\* A reader in its shape.
PyForm(p, a) ==
  p \in [read : 0 .. a, event : {p.event}, out : {p.out}, at : {"reading", "ended", "raised"}]

\* Reading a whole line.
LEMMA LineKeepsPy ==
  ASSUME NEW t \in Seq(Tokens), NEW a \in 0 .. Len(t), NEW st, NEW p,
         PyFits(p, a, st, Decoded(t)), p.at = "reading",
         Contains(SubSeq(t, p.read + 1, a), "n")
  PROVE  LET unread == SubSeq(t, p.read + 1, a)
             n == SelectInSeq(unread, LAMBDA c : c = "n") IN
         PyFits(Taken(p, SubSeq(unread, 1, n)), a, st, Decoded(t))
<1> DEFINE D == Decoded(t)
           rd == p.read
           u == SubSeq(t, rd + 1, a)
           raw == SubSeq(u, 1, SelectInSeq(u, LAMBDA c : c = "n"))
           q == Taken(p, raw)
<1>1. /\ p \in [read : 0 .. a, event : {p.event}, out : {p.out}, at : {"reading"}]
      /\ rd \in Nat /\ a \in Nat /\ a \in rd .. Len(t) /\ a <= Len(t) /\ Len(t) \in Nat
  <2>1. p \in [read : 0 .. a, event : {p.event}, out : {p.out}, at : {"reading", "ended", "raised"}]
    BY DEF PyFits
  <2>2. rd \in 0 .. a
    BY <2>1
  <2>3. p \in [read : 0 .. a, event : {p.event}, out : {p.out}, at : {"reading"}]
    BY <2>1
  <2> QED BY <2>2, <2>3
<1>2. D[rd].line = <<>> /\ p.event = D[rd].event /\ p.out = D[rd].out
  <2>1. ~ (rd = a)
    <3>1. ASSUME rd = a
          PROVE  FALSE
      <4>1. u = <<>>
        BY <1>1, <3>1, PartIs
      <4>2. \E i \in 1 .. Len(u) : u[i] = "n"
        BY DEF Contains
      <4> HIDE DEF u
      <4> QED BY <4>1, <4>2
    <3> QED BY <3>1
  <2> QED BY <2>1 DEF PyFits
<1>3. /\ rd + Len(raw) \in rd + 1 .. a
      /\ \E d \in DecodersOf(Tokens) :
           /\ d.out = D[rd].out /\ d.event = D[rd].event /\ Stripped(raw) = Stripped(d.line)
           /\ D[rd + Len(raw)] = EndLine(d)
  BY <1>1, <1>2, NextLine
<1>4. PICK d \in DecodersOf(Tokens) :
        /\ d.out = D[rd].out /\ d.event = D[rd].event /\ Stripped(raw) = Stripped(d.line)
        /\ D[rd + Len(raw)] = EndLine(d)
  BY <1>3
<1> HIDE DEF D, raw, u
<1>5. Taken(p, raw) = [read |-> rd + Len(raw), event |-> EndLine(d).event,
                       out |-> EndLine(d).out, at |-> "reading"]
  BY <1>1, <1>2, <1>4, TakenIs
<1>6. EndLine(d).line = <<>>
  BY EndLineIn
<1> DEFINE r2 == rd + Len(raw)
           ev == EndLine(d).event
           ou == EndLine(d).out
<1>7. r2 \in 0 .. a /\ D[r2].line = <<>> /\ D[r2].event = ev /\ D[r2].out = ou
  BY <1>1, <1>3, <1>4, <1>6
<1>8. q = [read |-> r2, event |-> ev, out |-> ou, at |-> "reading"]
  BY <1>5
<1> HIDE DEF r2, ev, ou, q
<1>9. PyFits(q, a, st, D)
  BY <1>7, <1>8 DEF PyFits
<1> QED
  BY <1>9 DEF q, raw, u, D

\* Reading the rest of a closed stream as a line.
LEMMA LastLineKeepsPy ==
  ASSUME NEW t \in Seq(Tokens), NEW a \in 0 .. Len(t), NEW p,
         PyFits(p, a, "closed", Decoded(t)), p.at = "reading",
         SubSeq(t, p.read + 1, a) # <<>>, ~Contains(SubSeq(t, p.read + 1, a), "n")
  PROVE  PyFits(Taken(p, SubSeq(t, p.read + 1, a)), a, "closed", Decoded(t))
<1> DEFINE D == Decoded(t)
           rd == p.read
           u == SubSeq(t, rd + 1, a)
           q == Taken(p, u)
<1>1. /\ p \in [read : 0 .. a, event : {p.event}, out : {p.out}, at : {"reading"}]
      /\ rd \in Nat /\ a \in Nat /\ a \in rd .. Len(t) /\ a <= Len(t) /\ Len(t) \in Nat
  <2>1. p \in [read : 0 .. a, event : {p.event}, out : {p.out}, at : {"reading", "ended", "raised"}]
    BY DEF PyFits
  <2>2. rd \in 0 .. a
    BY <2>1
  <2>3. p \in [read : 0 .. a, event : {p.event}, out : {p.out}, at : {"reading"}]
    BY <2>1
  <2> QED BY <2>2, <2>3
<1>2. u \in Seq(Tokens) /\ Len(u) = a - rd /\ \A i \in 1 .. a - rd : u[i] = t[rd + i]
  <2> HIDE DEF rd
  <2>1. rd <= a
    BY <1>1
  <2> QED BY <1>1, <2>1, PartIs
<1>3. rd # a
  BY <1>1, PartIs
<1>4. D[rd].line = <<>> /\ p.event = D[rd].event /\ p.out = D[rd].out
  BY <1>3 DEF PyFits
<1>5. \A i \in 1 .. Len(u) : u[i] # "n"
  BY DEF Contains
<1> HIDE DEF u
<1>6. \A i \in rd + 1 .. a : t[i] # "n"
  <2> SUFFICES ASSUME NEW i \in rd + 1 .. a
               PROVE  t[i] # "n"
    OBVIOUS
  <2>1. PICK j \in 1 .. a - rd : i = rd + j
    <3>1. i - rd \in 1 .. a - rd /\ i = rd + (i - rd)
      BY <1>1
    <3> QED BY <3>1
  <2> QED BY <2>1, <1>2, <1>5
<1>7. D[a].out = D[rd].out /\ D[a].event = D[rd].event /\ D[a].line = u
  BY <1>1, <1>4, <1>6, Stretch DEF u
<1> HIDE DEF D
<1> DEFINE d == D[a]
<1>8. Taken(p, u) = [read |-> rd + Len(u), event |-> EndLine(d).event,
                     out |-> EndLine(d).out, at |-> "reading"]
  <2>1. d.out = p.out /\ d.event = p.event /\ Stripped(u) = Stripped(d.line)
    BY <1>4, <1>7
  <2> HIDE DEF d
  <2> QED BY <1>1, <2>1, TakenIs
<1> DEFINE ev == EndLine(d).event
           ou == EndLine(d).out
<1>9. q = [read |-> a, event |-> ev, out |-> ou, at |-> "reading"]
  BY <1>1, <1>2, <1>8
<1>10. D[a].line # <<>>
  BY <1>7 DEF u
<1>11. ev = EndLine(D[a]).event /\ ou = EndLine(D[a]).out /\ a \in 0 .. a
  BY <1>1
<1> HIDE DEF ev, ou, q, d
<1>12. PyFits(q, a, "closed", D)
  BY <1>9, <1>10, <1>11 DEF PyFits
<1> QED
  BY <1>12 DEF q, u, D

\* The end of a closed stream.
LEMMA EndKeepsPy ==
  ASSUME NEW t \in Seq(Tokens), NEW a \in 0 .. Len(t), NEW p,
         PyFits(p, a, "closed", Decoded(t)), p.at = "reading",
         SubSeq(t, p.read + 1, a) = <<>>
  PROVE  PyFits([p EXCEPT !.out = Yielded(@, p.event), !.at = "ended"], a, "closed", Decoded(t))
<1> DEFINE D == Decoded(t)
           rd == p.read
           d == D[a]
           q == [p EXCEPT !.out = Yielded(@, p.event), !.at = "ended"]
<1>1. p = [read |-> rd, event |-> p.event, out |-> p.out, at |-> "reading"] /\ rd \in 0 .. a
  BY DEF PyFits
<1>2. rd = a
  <2>1. rd \in Nat /\ a \in Nat /\ a <= Len(t) /\ rd <= a
    BY <1>1
  <2>2. 0 = IF rd <= a THEN a - rd ELSE 0
    BY <2>1, PartIs
  <2> QED BY <2>1, <2>2
<1>3. d \in DecodersOf(Tokens)
  BY DecodedAt
<1>4. \/ d.line = <<>> /\ p.event = d.event /\ p.out = d.out
      \/ p.event = EndLine(d).event /\ p.out = EndLine(d).out
  BY <1>2 DEF PyFits
<1> HIDE DEF d
<1>5. Yielded(p.out, p.event) = Told(d)
  <2>1. CASE d.line = <<>> /\ p.event = d.event /\ p.out = d.out
    <3>1. Stripped(<<>>) = <<>>
      <4>1. <<>> \in Seq(Tokens) /\ \A i \in 1 .. Len(<<>>) : <<>>[i] \notin {"r", "n"}
        OBVIOUS
      <4> QED BY <4>1, StrippedIs
    <3> DEFINE e == EndLine(d)
    <3>2. e.out = Yielded(d.out, d.event) /\ e.event = NoEvent
      BY <1>3, <2>1, <3>1, EndLineIn
    <3>3. d.out \in Seq(EventsOf(Tokens)) /\ d.event \in EventsOf(Tokens)
      BY <1>3 DEF DecodersOf
    <3>4. e.out \in Seq(EventsOf(Tokens))
      BY <3>2, <3>3, YieldedIn
    <3>5. Told(d) = Yielded(e.out, e.event)
      BY DEF Told
    <3> HIDE DEF e
    <3>6. Yielded(e.out, e.event) = e.out
      BY <3>2, <3>4, NoEventIn, YieldedIn
    <3> QED BY <2>1, <3>2, <3>5, <3>6
  <2>2. CASE p.event = EndLine(d).event /\ p.out = EndLine(d).out
    BY <2>2 DEF Told
  <2> QED BY <1>4, <2>1, <2>2
<1> DEFINE ou == Yielded(p.out, p.event)
<1>6. q = [read |-> a, event |-> p.event, out |-> ou, at |-> "ended"]
  <2>1. q = [p EXCEPT !.out = ou, !.at = "ended"]
    OBVIOUS
  <2> DEFINE ev == p.event
             o == p.out
  <2>2. p = [read |-> a, event |-> ev, out |-> o, at |-> "reading"]
    BY <1>1, <1>2
  <2> HIDE DEF ou, q, ev, o
  <2>3. q = [[read |-> a, event |-> ev, out |-> o, at |-> "reading"] EXCEPT !.out = ou, !.at = "ended"]
    BY <2>1, <2>2
  <2>4. q = [read |-> a, event |-> ev, out |-> ou, at |-> "ended"]
    BY <2>3
  <2> QED BY <2>4 DEF ev
<1>7. ou = Told(D[a]) /\ a \in 0 .. a
  BY <1>5 DEF d
<1> HIDE DEF q, ou, D
<1>8. PyFits(q, a, "closed", D)
  BY <1>6, <1>7 DEF PyFits
<1> QED
  BY <1>8 DEF q, D

\* The other steps of a reader, and of the stream.
LEMMA OthersKeepPy ==
  ASSUME NEW D, NEW a \in Nat, NEW st, NEW p, PyFits(p, a, st, D)
  PROVE  /\ p.at = "reading" => PyFits([p EXCEPT !.at = "raised"], a, st, D)
         /\ st = "open" => PyFits(p, a + 1, st, D)
         /\ st = "open" => \A s2 : PyFits(p, a, s2, D)
<1> DEFINE d == D[p.read]
<1>1. p = [read |-> p.read, event |-> p.event, out |-> p.out, at |-> p.at] /\ p.read \in 0 .. a
  BY DEF PyFits
<1>2. ASSUME p.at = "reading"
      PROVE  PyFits([p EXCEPT !.at = "raised"], a, st, D)
  <2> DEFINE q == [p EXCEPT !.at = "raised"]
  <2>1. q = [read |-> p.read, event |-> p.event, out |-> p.out, at |-> "raised"]
    BY <1>1
  <2>2. \/ d.line = <<>> /\ p.event = d.event /\ p.out = d.out
        \/ /\ st = "closed" /\ p.read = a /\ d.line # <<>>
           /\ p.event = EndLine(d).event /\ p.out = EndLine(d).out
    BY <1>2 DEF PyFits
  <2> HIDE DEF q
  <2>3. q.read = p.read /\ q.event = p.event /\ q.out = p.out /\ q.at = "raised"
        /\ q \in [read : 0 .. a, event : {q.event}, out : {q.out}, at : {"reading", "ended", "raised"}]
    BY <1>1, <2>1
  <2>4. PyFits(q, a, st, D)
    BY <2>2, <2>3 DEF PyFits
  <2> QED BY <2>4 DEF q
<1>3. ASSUME st = "open"
      PROVE  p.at # "ended" /\ d.line = <<>> /\ p.event = d.event /\ p.out = d.out
  BY <1>3 DEF PyFits
<1>4. p.read \in 0 .. a + 1
  BY <1>1
<1>5. p \in [read : 0 .. a + 1, event : {p.event}, out : {p.out}, at : {"reading", "ended", "raised"}]
  <2>1. p.at \in {"reading", "ended", "raised"}
    BY DEF PyFits
  <2> QED BY <1>1, <1>4, <2>1
<1>6. p \in [read : 0 .. a, event : {p.event}, out : {p.out}, at : {"reading", "ended", "raised"}]
  BY DEF PyFits
<1>7. ASSUME st = "open"
      PROVE  PyFits(p, a + 1, st, D)
  BY <1>3, <1>5, <1>7 DEF PyFits
<1>8. ASSUME st = "open", NEW s2
      PROVE  PyFits(p, a, s2, D)
  BY <1>3, <1>6, <1>8 DEF PyFits
<1> QED
  BY <1>2, <1>7, <1>8

\* A step of the text, the stream and the Python reader.
LEMMA PyInvStep ==
  ASSUME StreamInv, PyInv, [Next]_vars
  PROVE  PyInv'
<1> DEFINE D == Decoded(Text)
<1>1. PyFits(py, arrived, stream, D) /\ Text \in Seq(Tokens) /\ arrived \in 0 .. Len(Text) /\ arrived \in Nat
  <2>1. sent \in Seq(Blocks) /\ eol \in Ends /\ arrived \in 0 .. Len(Text)
    BY DEF StreamInv, Ends
  <2>2. Text \in Seq(Tokens) /\ Len(Text) \in Nat
    BY <2>1, BlocksAt
  <2>3. PyFits(py, arrived, stream, D)
    BY DEF PyInv, PyFits
  <2> QED BY <2>1, <2>2, <2>3
<1>2. Text' = Text
  <2>1. UNCHANGED <<sent, eol>>
    BY DEF Next, vars, Arrive, End, PyLine, PyLastLine, PyEnd, PyRaise, PyTake,
           TsRead, TsBlock, TsEnd, TsRaise
  <2> QED BY <2>1, TextStays
<1>3. PyFits(py', arrived', stream', D)
  <2>1. CASE UNCHANGED <<py, arrived, stream>>
    BY <1>1, <2>1
  <2>2. CASE Arrive
    BY <1>1, <2>2, OthersKeepPy DEF Arrive
  <2>3. CASE End
    BY <1>1, <2>3, OthersKeepPy DEF End
  <2>4. CASE PyLine
    <3>1. /\ py.at = "reading" /\ Contains(SubSeq(Text, py.read + 1, arrived), "n")
          /\ py' = Taken(py, SubSeq(PyUnread, 1, SelectInSeq(PyUnread, LAMBDA c : c = "n")))
          /\ UNCHANGED <<arrived, stream>>
      BY <2>4 DEF PyLine, PyTake, PyUnread, Taken
    <3> QED BY <1>1, <3>1, LineKeepsPy DEF PyUnread
  <2>5. CASE PyLastLine
    <3>1. /\ py.at = "reading" /\ stream = "closed" /\ PyUnread # <<>> /\ ~Contains(PyUnread, "n")
          /\ py' = Taken(py, PyUnread)
          /\ UNCHANGED <<arrived, stream>>
      BY <2>5 DEF PyLastLine, PyTake, Taken
    <3> QED BY <1>1, <3>1, LastLineKeepsPy DEF PyUnread
  <2>6. CASE PyEnd
    <3>1. /\ py.at = "reading" /\ stream = "closed" /\ PyUnread = <<>>
          /\ py' = [py EXCEPT !.out = Yielded(@, py.event), !.at = "ended"]
          /\ UNCHANGED <<arrived, stream>>
      BY <2>6 DEF PyEnd
    <3> QED BY <1>1, <3>1, EndKeepsPy DEF PyUnread
  <2>7. CASE PyRaise
    BY <1>1, <2>7, OthersKeepPy DEF PyRaise
  <2>8. CASE TsRead \/ TsBlock \/ TsEnd \/ TsRaise
    BY <2>1, <2>8 DEF TsRead, TsBlock, TsEnd, TsRaise
  <2> QED
    BY <2>1, <2>2, <2>3, <2>4, <2>5, <2>6, <2>7, <2>8 DEF Next, vars
<1>4. PyFits(py', arrived', stream', Decoded(Text'))
  BY <1>2, <1>3
<1> QED
  BY <1>4 DEF PyInv, PyFits

-----------------------------------------------------------------------------
(* The TypeScript reader.                                                  *)

\* What is told when the decoder agrees with a text, and is told of its end.
LEMMA ToldAgrees ==
  ASSUME NEW S, NEW t \in Seq(S), NEW d \in DecodersOf(S), NEW e \in DecodersOf(S),
         NEW p \in Seq(S), NoCr(p), Agree(t, d, e, p)
  PROVE  Told(e) = Yielded(d.out, parseSseBlock(p))
<1> DEFINE l == e.line
           ev == e.event
           o == e.out
           f == EndLine(e)
<1>1. /\ l \in Seq(S) /\ ev \in EventsOf(S) /\ o \in Seq(EventsOf(S))
      /\ o = d.out /\ ev = Parsed(p) /\ l = Under(p) /\ Plain(l)
  BY DEF DecodersOf, Agree
<1>2. parseSseBlock(p) = TakeUnlessBlank(ev, l)
  <2>1. parseSseBlock(p) = EventOf(Split(p))
    BY ParsePlain
  <2>2. ASSUME NEW c \in S
        PROVE  EventOf(Split(p)) = TakeUnlessBlank(Parsed(p), Under(p))
    BY ParseStep
  <2>3. CASE \E c : c \in S
    BY <1>1, <2>1, <2>2, <2>3
  <2>4. CASE ~ \E c : c \in S
    <3>1. p = <<>>
      BY <2>4
    <3>2. EventOf(Split(<<>>)) = TakeUnlessBlank(Parsed(<<>>), Under(<<>>))
      <4>1. <<>> \in Seq(Tokens) /\ "n" \in Tokens
        BY DEF Tokens
      <4> QED BY <4>1, ParseStep
    <3> QED BY <1>1, <2>1, <3>1, <3>2
  <2> QED BY <2>3, <2>4
<1>3. Stripped(l) = l
  BY <1>1, StrippedIs DEF Plain
<1>4. Told(e) = Yielded(f.out, f.event)
  BY DEF Told
<1>5. CASE l = <<>>
  <2>1. f.out = Yielded(o, ev) /\ f.event = NoEvent
    BY <1>3, <1>5, EndLineIn
  <2>2. Yielded(o, ev) \in Seq(EventsOf(S))
    BY <1>1, YieldedIn
  <2>3. parseSseBlock(p) = ev
    BY <1>2, <1>5 DEF TakeUnlessBlank
  <2> DEFINE y == Yielded(o, ev)
  <2>5. y \in Seq(EventsOf(S)) /\ f.out = y /\ f.event = NoEvent /\ Told(e) = Yielded(y, NoEvent)
    BY <1>4, <2>1, <2>2
  <2> HIDE DEF o, ev, f, y
  <2>4. Told(e) = f.out
    <3>1. NoEvent \in EventsOf(S)
      BY NoEventIn
    <3> QED BY <2>5, <3>1, YieldedIn
  <2> QED BY <1>1, <2>1, <2>3, <2>4
<1>6. CASE l # <<>>
  <2>1. f.out = o /\ f.event = TakeLine(ev, Head(l), Tail(l))
    BY <1>3, <1>6, EndLineIn
  <2>2. parseSseBlock(p) = f.event
    BY <1>2, <1>6, <2>1 DEF TakeUnlessBlank
  <2> QED BY <1>1, <1>4, <2>1, <2>2
<1> QED
  BY <1>5, <1>6

\* Two blank ends of line behind one another in a buffer.
BoundariesOf(u) == {i \in 1 .. Len(u) - 1 : u[i] = "n" /\ u[i + 1] = "n"}

LEMMA NoBlanks ==
  ASSUME NEW t \in Seq(Tokens), NEW s \in Nat, NEW b \in s .. Len(t), BoundariesOf(SubSeq(t, s + 1, b)) = {}
  PROVE  \A i \in s + 1 .. b - 1 : ~Blank(t, i)
<1> DEFINE u == SubSeq(t, s + 1, b)
<1>1. b \in Nat /\ Len(t) \in Nat /\ s <= b /\ b <= Len(t)
  OBVIOUS
<1>2. Len(u) = b - s /\ \A i \in 1 .. b - s : u[i] = t[s + i]
  BY <1>1, PartIs
<1> HIDE DEF u
<1>3. ASSUME NEW i \in s + 1 .. b - 1, t[i] = "n", t[i + 1] = "n"
      PROVE  FALSE
  <2>1. PICK j \in 1 .. Len(u) - 1 : s + j = i /\ j \in 1 .. b - s /\ j + 1 \in 1 .. b - s /\ s + (j + 1) = i + 1
    <3>1. i - s \in 1 .. Len(u) - 1 /\ s + (i - s) = i /\ i - s \in 1 .. b - s
          /\ i - s + 1 \in 1 .. b - s /\ s + (i - s + 1) = i + 1
      BY <1>1, <1>2
    <3> QED BY <3>1
  <2>2. u[j] = t[s + j] /\ u[j + 1] = t[s + (j + 1)]
    BY <1>2, <2>1
  <2>3. u[j] = "n" /\ u[j + 1] = "n"
    BY <1>3, <2>1, <2>2
  <2>4. j \in BoundariesOf(u)
    BY <2>3 DEF BoundariesOf
  <2> QED BY <2>4 DEF u
<1> QED
  BY <1>3 DEF Blank

\* With CR LF no two ends of line are behind one another.
LEMMA CrLfNoBlanks ==
  ASSUME NEW t \in Seq(Tokens), CrLf(t), NEW s \in Nat, NEW b \in s .. Len(t)
  PROVE  BoundariesOf(SubSeq(t, s + 1, b)) = {}
<1> DEFINE u == SubSeq(t, s + 1, b)
<1>1. b \in Nat /\ Len(t) \in Nat /\ s <= b /\ b <= Len(t)
  OBVIOUS
<1>2. Len(u) = b - s /\ \A i \in 1 .. b - s : u[i] = t[s + i]
  BY <1>1, PartIs
<1> HIDE DEF u
<1>3. ASSUME NEW i \in 1 .. Len(u) - 1, u[i] = "n", u[i + 1] = "n"
      PROVE  FALSE
  <2> DEFINE m == s + i
  <2>1. /\ i \in 1 .. b - s /\ i + 1 \in 1 .. b - s /\ s + (i + 1) = m + 1
        /\ m + 1 \in 1 .. Len(t) /\ m \in Nat
    BY <1>1, <1>2
  <2>2. t[m] = "n" /\ t[m + 1] = "n"
    BY <1>2, <1>3, <2>1
  <2> HIDE DEF m
  <2>3. t[m] = "r"
    <3> DEFINE k == m + 1
    <3>1. k \in 1 .. Len(t) /\ t[k] = "n" /\ k - 1 = m
      BY <2>1, <2>2
    <3> HIDE DEF k
    <3>2. t[k - 1] = "r"
      BY <3>1 DEF CrLf
    <3> QED BY <3>1, <3>2
  <2> QED BY <2>2, <2>3
<1> QED
  BY <1>3 DEF BoundariesOf, u

\* TsInv for a reader p whose buffer begins behind s tokens.
TsAt(p, s, a, st, e, t) ==
  LET D == Decoded(t) IN
  /\ p = [read |-> p.read, buffer |-> p.buffer, out |-> p.out, at |-> p.at]
  /\ p.read \in 0 .. a /\ p.at \in {"reading", "ended", "raised"}
  /\ s \in 0 .. p.read /\ p.buffer = SubSeq(t, s + 1, p.read)
  /\ p.at = "ended" => st = "closed" /\ p.read = a /\ BoundariesOf(p.buffer) = {}
  /\ e = <<"n">> =>
       /\ D[s].event = NoEvent /\ D[s].line = <<>>
       /\ p.out = IF p.at = "ended" THEN Told(D[a]) ELSE D[s].out
  /\ e = <<"r", "n">> =>
       /\ s = 0
       /\ p.out = IF p.at = "ended" THEN Yielded(<<>>, parseSseBlock(SubSeq(t, 1, a))) ELSE <<>>

\* The text as the reader knows it.
TextHas(t, e) == (e = <<"n">> => NoCr(t)) /\ (e = <<"r", "n">> => CrLf(t))

\* A chunk comes.
LEMMA ReadKeepsTs ==
  ASSUME NEW t \in Seq(Tokens), NEW a \in 0 .. Len(t), NEW st, NEW e, NEW p, NEW s,
         TsAt(p, s, a, st, e, t), p.at = "reading", NEW n \in p.read + 1 .. a
  PROVE  TsAt([p EXCEPT !.read = n, !.buffer = @ \o SubSeq(t, p.read + 1, n)], s, a, st, e, t)
<1> DEFINE rd == p.read
           u == p.buffer
           v == SubSeq(t, rd + 1, n)
           o == p.out
           q == [p EXCEPT !.read = n, !.buffer = @ \o SubSeq(t, p.read + 1, n)]
<1>1. /\ p = [read |-> rd, buffer |-> u, out |-> o, at |-> "reading"]
      /\ rd \in 0 .. a /\ s \in 0 .. rd /\ u = SubSeq(t, s + 1, rd) /\ n \in rd + 1 .. a
  BY DEF TsAt
<1>2. q = [p EXCEPT !.read = n, !.buffer = u \o v]
  OBVIOUS
<1> HIDE DEF u, v, q, rd, o
<1>3. q = [[read |-> rd, buffer |-> u, out |-> o, at |-> "reading"] EXCEPT !.read = n, !.buffer = u \o v]
  BY <1>1, <1>2
<1>4. q = [read |-> n, buffer |-> u \o v, out |-> o, at |-> "reading"]
  BY <1>3
<1>5. /\ a \in Nat /\ Len(t) \in Nat /\ rd \in Nat /\ s \in Nat /\ n \in Nat /\ s <= rd /\ rd <= n /\ n <= a
      /\ a <= Len(t) /\ rd <= Len(t) /\ n <= Len(t) /\ s <= n /\ n \in 0 .. a /\ s \in 0 .. n
  BY <1>1
<1>6. u \o v = SubSeq(t, s + 1, n)
  <2> DEFINE w == SubSeq(t, s + 1, n)
             m == u \o v
  <2>1. u \in Seq(Tokens) /\ Len(u) = rd - s /\ \A i \in 1 .. rd - s : u[i] = t[s + i]
    BY <1>1, <1>5, PartIs
  <2>2. v \in Seq(Tokens) /\ Len(v) = n - rd /\ \A i \in 1 .. n - rd : v[i] = t[rd + i]
    BY <1>5, PartIs DEF v
  <2>3. w \in Seq(Tokens) /\ Len(w) = n - s /\ \A i \in 1 .. n - s : w[i] = t[s + i]
    BY <1>5, PartIs
  <2> HIDE DEF w
  <2>4. /\ m \in Seq(Tokens) /\ Len(m) = n - s
        /\ \A i \in 1 .. n - s : m[i] = IF i <= rd - s THEN u[i] ELSE v[i - (rd - s)]
    <3>1. /\ m \in Seq(Tokens) /\ Len(m) = Len(u) + Len(v)
          /\ \A i \in 1 .. Len(u) + Len(v) : m[i] = IF i <= Len(u) THEN u[i] ELSE v[i - Len(u)]
      BY <2>1, <2>2, ConcatProperties
    <3>2. Len(u) + Len(v) = n - s
      BY <1>5, <2>1, <2>2
    <3> HIDE DEF m
    <3> QED BY <2>1, <3>1, <3>2
  <2>5. ASSUME NEW i \in 1 .. n - s
        PROVE  m[i] = w[i]
    <3>1. CASE i \in 1 .. rd - s
      <4>1. m[i] = u[i]
        BY <1>5, <2>4, <3>1
      <4> QED BY <4>1, <2>1, <2>3, <3>1
    <3>2. CASE i \notin 1 .. rd - s
      <4>1. PICK j \in 1 .. n - rd : i = (rd - s) + j /\ s + i = rd + j
        <5>1. i - (rd - s) \in 1 .. n - rd /\ i = (rd - s) + (i - (rd - s)) /\ s + i = rd + (i - (rd - s))
          BY <1>5, <3>2
        <5> QED BY <5>1
      <4>2. m[i] = v[j]
        <5>1. i - (rd - s) = j /\ ~ (i <= rd - s)
          BY <1>5, <3>2, <4>1
        <5> HIDE DEF m
        <5> QED BY <2>4, <5>1
      <4> QED BY <4>1, <4>2, <2>2, <2>3
    <3> QED BY <3>1, <3>2
  <2> HIDE DEF m
  <2>6. m = w
    BY <2>3, <2>4, <2>5, SeqEqual
  <2> QED BY <2>6 DEF m, w
<1> DEFINE w == u \o v
<1>7. q = [read |-> n, buffer |-> w, out |-> o, at |-> "reading"] /\ w = SubSeq(t, s + 1, n)
  BY <1>4, <1>6
<1>8. /\ e = <<"n">> =>
           Decoded(t)[s].event = NoEvent /\ Decoded(t)[s].line = <<>> /\ o = Decoded(t)[s].out
      /\ e = <<"r", "n">> => s = 0 /\ o = <<>>
  BY DEF TsAt, o
<1> HIDE DEF w
<1>9. TsAt(q, s, a, st, e, t)
  BY <1>5, <1>7, <1>8 DEF TsAt
<1> QED
  BY <1>9 DEF q, u, v, rd

\* The buffer's next block is an event.
LEMMA BlockKeepsTs ==
  ASSUME NEW t \in Seq(Tokens), NEW a \in 0 .. Len(t), NEW st, NEW e \in Ends, TextHas(t, e), NEW p, NEW s,
         TsAt(p, s, a, st, e, t), p.at = "reading",
         NEW i \in BoundariesOf(p.buffer), \A c \in BoundariesOf(p.buffer) : i <= c
  PROVE  TsAt([p EXCEPT !.buffer = SubSeq(@, i + 2, Len(@)),
                        !.out = Yielded(@, parseSseBlock(SubSeq(p.buffer, 1, i - 1)))],
              s + i + 1, a, st, e, t)
<1> DEFINE D == Decoded(t)
           rd == p.read
           u == p.buffer
           o == p.out
           ev == parseSseBlock(SubSeq(u, 1, i - 1))
           y == Yielded(o, ev)
           w == SubSeq(u, i + 2, Len(u))
           q == [p EXCEPT !.buffer = SubSeq(@, i + 2, Len(@)),
                          !.out = Yielded(@, parseSseBlock(SubSeq(p.buffer, 1, i - 1)))]
<1>1. /\ p = [read |-> rd, buffer |-> u, out |-> o, at |-> "reading"]
      /\ rd \in 0 .. a /\ s \in 0 .. rd /\ u = SubSeq(t, s + 1, rd)
  BY DEF TsAt
<1>2. q = [p EXCEPT !.buffer = w, !.out = y]
  OBVIOUS
<1> HIDE DEF q, w, y
<1>3. q = [read |-> rd, buffer |-> w, out |-> y, at |-> "reading"]
  <2> HIDE DEF u, rd, o
  <2>1. q = [[read |-> rd, buffer |-> u, out |-> o, at |-> "reading"] EXCEPT !.buffer = w, !.out = y]
    BY <1>1, <1>2
  <2> QED BY <2>1
<1>4. /\ i \in BoundariesOf(u) /\ \A c \in BoundariesOf(u) : i <= c
      /\ e = <<"n">> => D[s].event = NoEvent /\ D[s].line = <<>> /\ o = D[s].out
  BY DEF TsAt
<1> HIDE DEF u, rd, o, ev
<1>5. a \in Nat /\ Len(t) \in Nat /\ rd \in Nat /\ s \in Nat /\ s <= rd /\ rd <= a /\ a <= Len(t) /\ rd <= Len(t)
      /\ rd \in s .. Len(t)
  BY <1>1
<1>6. u \in Seq(Tokens) /\ Len(u) = rd - s /\ \A j \in 1 .. rd - s : u[j] = t[s + j]
  BY <1>1, <1>5, PartIs
<1>7. e = <<"n">>
  <2>1. e # <<"r", "n">>
    BY <1>1, <1>4, <1>5, CrLfNoBlanks DEF TextHas
  <2> QED BY <2>1 DEF Ends
<1>8. NoCr(t) /\ D[s].event = NoEvent /\ D[s].line = <<>> /\ o = D[s].out
  BY <1>4, <1>7 DEF TextHas
<1>9. i \in 1 .. rd - s - 1 /\ u[i] = "n" /\ u[i + 1] = "n"
  BY <1>4, <1>6 DEF BoundariesOf
<1> DEFINE b == s + i
           s2 == s + i + 1
<1>10. /\ i \in Nat /\ b \in Nat /\ s2 \in Nat /\ s2 = b + 1 /\ b + 1 <= rd /\ s <= b /\ b < Len(t) /\ b <= Len(t)
       /\ b \in s .. Len(t) /\ s2 \in 0 .. rd /\ s2 <= rd /\ i - 1 \in Nat /\ i - 1 + 1 = i /\ i - 1 < Len(u)
       /\ i <= Len(u) /\ i + 1 \in 1 .. rd - s /\ i \in 1 .. rd - s /\ b - s = i /\ s + (i + 1) = b + 1
       /\ b \in 0 .. Len(t) /\ s \in 0 .. Len(t) /\ i + 1 \in Nat /\ rd - s2 = (rd - s) - (i + 1) /\ i + 1 + 1 = i + 2
       /\ i + 1 <= rd - s /\ i - 1 <= Len(u)
  BY <1>5, <1>6, <1>9
<1>11. t[b] = "n" /\ t[b + 1] = "n"
  BY <1>6, <1>9, <1>10
<1> HIDE DEF b, s2
<1>12. w = SubSeq(t, s2 + 1, rd)
  <2> DEFINE x == SubSeq(t, s2 + 1, rd)
             v == SubSeq(u, i + 1 + 1, rd - s)
  <2>1. w = v
    BY <1>6, <1>10 DEF w
  <2>2. x \in Seq(Tokens) /\ Len(x) = rd - s2 /\ \A j \in 1 .. rd - s2 : x[j] = t[s2 + j]
    BY <1>5, <1>10, PartIs
  <2>3. v \in Seq(Tokens) /\ Len(v) = rd - s - (i + 1) /\ \A j \in 1 .. rd - s - (i + 1) : v[j] = u[i + 1 + j]
    <3> DEFINE k == i + 1
               m == rd - s
    <3>1. k \in Nat /\ m \in Nat /\ k <= m /\ m <= Len(u)
      BY <1>5, <1>6, <1>10
    <3> HIDE DEF k, m
    <3>2. SubSeq(u, k + 1, m) \in Seq(Tokens) /\ Len(SubSeq(u, k + 1, m)) = m - k
          /\ \A j \in 1 .. m - k : SubSeq(u, k + 1, m)[j] = u[k + j]
      BY <1>6, <3>1, PartIs
    <3> QED BY <3>2 DEF k, m
  <2> HIDE DEF x, v
  <2>4. ASSUME NEW j \in 1 .. rd - s2
        PROVE  v[j] = x[j]
    <3>1. PICK k \in 1 .. rd - s : k = i + 1 + j /\ s + k = s2 + j
      <4>1. i + 1 + j \in 1 .. rd - s /\ s + (i + 1 + j) = s2 + j
        BY <1>5, <1>10 DEF s2
      <4> QED BY <4>1
    <3>2. v[j] = u[k]
      BY <1>10, <2>3, <3>1
    <3> QED BY <1>6, <2>2, <3>1, <3>2
  <2> DEFINE m == rd - s2
  <2>6. v \in Seq(Tokens) /\ x \in Seq(Tokens) /\ Len(v) = m /\ Len(x) = m /\ \A j \in 1 .. m : v[j] = x[j]
    BY <1>10, <2>2, <2>3, <2>4
  <2> HIDE DEF m
  <2>5. v = x
    BY <2>6, SeqEqual
  <2> QED BY <2>1, <2>5 DEF x
<1> DEFINE part == SubSeq(u, 0 + 1, i - 1)
           big == SubSeq(t, s + 1, b)
<1>13. part \in Seq(Tokens) /\ Len(part) = i - 1 /\ \A j \in 1 .. i - 1 : part[j] = u[j]
  <2>1. part \in Seq(Tokens) /\ Len(part) = (IF 0 <= i - 1 THEN i - 1 - 0 ELSE 0) /\ \A j \in 1 .. i - 1 - 0 : part[j] = u[0 + j]
    BY <1>6, <1>10, PartIs
  <2>2. i - 1 - 0 = i - 1 /\ 0 <= i - 1 /\ \A j \in 1 .. i - 1 : 0 + j = j
    BY <1>10
  <2> HIDE DEF part
  <2> QED BY <2>1, <2>2
<1>14. ev = parseSseBlock(part) /\ NoCr(part)
  <2>1. 0 + 1 = 1
    OBVIOUS
  <2>2. ev = parseSseBlock(part)
    BY <2>1 DEF ev
  <2>3. ASSUME NEW j \in 1 .. i - 1
        PROVE  part[j] # "r"
    <3>1. j \in 1 .. rd - s /\ s + j \in 1 .. Len(t)
      BY <1>5, <1>10
    <3>2. t[s + j] # "r"
      BY <1>8, <3>1 DEF NoCr
    <3> QED BY <3>1, <3>2, <1>6, <1>13
  <2> HIDE DEF part
  <2> QED BY <2>2, <2>3, <1>13 DEF NoCr
<1>15. big = Append(part, "n")
  <2>1. SubSeq(u, 0 + 1, i - 1 + 1) = Append(SubSeq(u, 0 + 1, i - 1), u[i - 1 + 1])
    BY <1>6, <1>10, LongerPart
  <2> DEFINE x == SubSeq(u, 0 + 1, i)
  <2>2. x \in Seq(Tokens) /\ Len(x) = i - 0 /\ \A j \in 1 .. i - 0 : x[j] = u[0 + j]
    BY <1>6, <1>10, PartIs
  <2>3. big \in Seq(Tokens) /\ Len(big) = b - s /\ \A j \in 1 .. b - s : big[j] = t[s + j]
    BY <1>5, <1>10, PartIs
  <2>4. x = Append(part, "n")
    BY <2>1, <1>9, <1>10
  <2> HIDE DEF x, big, part
  <2>5. i - 0 = i /\ \A j \in 1 .. i : 0 + j = j /\ j \in 1 .. rd - s
    BY <1>5, <1>10
  <2>6. ASSUME NEW j \in 1 .. i
        PROVE  x[j] = big[j]
    <3>1. j \in 1 .. i - 0 /\ 0 + j = j /\ j \in 1 .. rd - s /\ j \in 1 .. b - s
      BY <2>5, <1>10
    <3>2. x[j] = u[0 + j]
      BY <2>2, <3>1
    <3>3. u[j] = t[s + j] /\ big[j] = t[s + j]
      BY <2>3, <3>1, <1>6
    <3> QED BY <3>1, <3>2, <3>3
  <2>7. x = big
    BY <2>2, <2>3, <2>5, <2>6, <1>10, SeqEqual
  <2> QED BY <2>4, <2>7
<1> HIDE DEF part, big
<1>16. Agree(t, D[s], D[b], big)
  <2>1. \A j \in s + 1 .. b - 1 : ~Blank(t, j)
    <3> SUFFICES ASSUME NEW j \in s + 1 .. b - 1, Blank(t, j)
                 PROVE  FALSE
      OBVIOUS
    <3>1. PICK k \in 1 .. i - 1 : s + k = j /\ s + (k + 1) = j + 1
      <4>1. j - s \in 1 .. i - 1 /\ s + (j - s) = j /\ s + (j - s + 1) = j + 1
        BY <1>5, <1>10
      <4> QED BY <4>1
    <3>2. k \in 1 .. rd - s /\ k + 1 \in 1 .. rd - s /\ k \in 1 .. Len(u) - 1 /\ ~ (i <= k)
      BY <1>5, <1>6, <1>10, <3>1
    <3>3. u[k] = t[s + k] /\ u[k + 1] = t[s + (k + 1)]
      BY <1>6, <3>2
    <3>4. u[k] = "n" /\ u[k + 1] = "n"
      BY <3>1, <3>3 DEF Blank
    <3>5. k \in BoundariesOf(u)
      BY <3>2, <3>4 DEF BoundariesOf
    <3> QED BY <3>2, <3>5, <1>4
  <2> QED BY <2>1, <1>5, <1>8, <1>10, ParseAgrees DEF big
<1> DEFINE d == D[b]
           f == D[b + 1]
<1>17. d \in DecodersOf(Tokens) /\ f = EndLine(d)
  BY <1>10, <1>11, DecodedStep
<1>18. d.line = <<>> /\ d.event = ev /\ d.out = o
  <2>1. "n" \in Tokens
    BY DEF Tokens
  <2>2. /\ Parsed(Append(part, "n")) = TakeUnlessBlank(Parsed(part), Under(part))
        /\ Under(Append(part, "n")) = <<>>
        /\ EventOf(Split(part)) = TakeUnlessBlank(Parsed(part), Under(part))
    BY <2>1, <1>13, ParseStep
  <2>3. ev = EventOf(Split(part))
    BY <1>13, <1>14, ParsePlain
  <2> HIDE DEF d, f
  <2>4. d.out = D[s].out /\ d.event = Parsed(big) /\ d.line = Under(big)
    BY <1>16 DEF Agree, d
  <2> QED BY <2>2, <2>3, <2>4, <1>8, <1>15
<1> HIDE DEF d, f
<1>19. f.line = <<>> /\ f.event = NoEvent /\ f.out = y
  <2>1. Stripped(<<>>) = <<>>
    <3>1. <<>> \in Seq(Tokens) /\ \A j \in 1 .. Len(<<>>) : <<>>[j] \notin {"r", "n"}
      OBVIOUS
    <3> QED BY <3>1, StrippedIs
  <2>2. f.line = <<>> /\ f.event = NoEvent /\ f.out = Yielded(d.out, d.event)
    BY <1>17, <1>18, <2>1, EndLineIn
  <2> QED BY <1>18, <2>2 DEF y
<1>20. D[s2].line = <<>> /\ D[s2].event = NoEvent /\ y = D[s2].out
  BY <1>10, <1>19 DEF f
<1> HIDE DEF D
<1>21. TsAt(q, s2, a, st, e, t)
  <2>1. e # <<"r", "n">>
    BY <1>7
  <2> QED BY <1>1, <1>3, <1>10, <1>12, <1>20, <2>1 DEF TsAt, D
<1> QED
  BY <1>21 DEF q, s2

\* The end of the stream.
LEMMA EndKeepsTs ==
  ASSUME NEW t \in Seq(Tokens), NEW a \in 0 .. Len(t), NEW e \in Ends, TextHas(t, e), NEW p, NEW s,
         TsAt(p, s, a, "closed", e, t), p.at = "reading", BoundariesOf(p.buffer) = {}, p.read = a
  PROVE  TsAt([p EXCEPT !.out = Yielded(@, parseSseBlock(p.buffer)), !.at = "ended"], s, a, "closed", e, t)
<1> DEFINE D == Decoded(t)
           u == p.buffer
           o == p.out
           y == Yielded(o, parseSseBlock(u))
           q == [p EXCEPT !.out = Yielded(@, parseSseBlock(p.buffer)), !.at = "ended"]
<1>1. /\ p = [read |-> a, buffer |-> u, out |-> o, at |-> "reading"]
      /\ s \in 0 .. a /\ u = SubSeq(t, s + 1, a) /\ BoundariesOf(u) = {}
  BY DEF TsAt
<1>2. q = [p EXCEPT !.out = y, !.at = "ended"]
  OBVIOUS
<1> HIDE DEF q, y
<1>3. q = [read |-> a, buffer |-> u, out |-> y, at |-> "ended"]
  <2> HIDE DEF u, o
  <2>1. q = [[read |-> a, buffer |-> u, out |-> o, at |-> "reading"] EXCEPT !.out = y, !.at = "ended"]
    BY <1>1, <1>2
  <2> QED BY <2>1
<1>4. /\ e = <<"n">> => D[s].event = NoEvent /\ D[s].line = <<>> /\ o = D[s].out
      /\ e = <<"r", "n">> => s = 0 /\ o = <<>>
  BY DEF TsAt
<1> HIDE DEF u, o
<1>5. a \in Nat /\ Len(t) \in Nat /\ s \in Nat /\ s <= a /\ a <= Len(t) /\ a \in s .. Len(t) /\ a \in 0 .. a
      /\ s \in 0 .. Len(t) /\ 0 + 1 = 1
  BY <1>1
<1>6. ASSUME e = <<"n">>
      PROVE  D[s].event = NoEvent /\ D[s].line = <<>> /\ y = Told(D[a])
  <2>1. NoCr(t) /\ D[s].event = NoEvent /\ D[s].line = <<>> /\ o = D[s].out
    BY <1>4, <1>6 DEF TextHas
  <2>2. \A i \in s + 1 .. a - 1 : ~Blank(t, i)
    BY <1>1, <1>5, NoBlanks
  <2>3. Agree(t, D[s], D[a], u)
    BY <1>1, <1>5, <2>1, <2>2, ParseAgrees
  <2>4. D[s] \in DecodersOf(Tokens) /\ D[a] \in DecodersOf(Tokens)
    BY <1>5, DecodedAt
  <2>5. u \in Seq(Tokens) /\ Len(u) = a - s /\ \A j \in 1 .. a - s : u[j] = t[s + j]
    BY <1>1, <1>5, PartIs
  <2>6. NoCr(u)
    <3>1. ASSUME NEW j \in 1 .. a - s
          PROVE  u[j] # "r"
      <4>1. s + j \in 1 .. Len(t)
        BY <1>5
      <4>2. t[s + j] # "r"
        BY <2>1, <4>1 DEF NoCr
      <4> QED BY <4>2, <2>5
    <3> QED BY <3>1, <2>5 DEF NoCr
  <2> HIDE DEF D
  <2>7. Told(D[a]) = Yielded(D[s].out, parseSseBlock(u))
    BY <2>3, <2>4, <2>5, <2>6, ToldAgrees
  <2> QED BY <2>1, <2>7 DEF y
<1>7. ASSUME e = <<"r", "n">>
      PROVE  s = 0 /\ y = Yielded(<<>>, parseSseBlock(SubSeq(t, 1, a)))
  BY <1>1, <1>4, <1>5, <1>7 DEF y
<1>8. e = <<"n">> \/ e = <<"r", "n">>
  BY DEF Ends
<1> HIDE DEF D
<1>9. TsAt(q, s, a, "closed", e, t)
  BY <1>1, <1>3, <1>5, <1>6, <1>7, <1>8 DEF TsAt, D
<1> QED
  BY <1>9 DEF q

\* The other steps of the stream and of a reader.
LEMMA OthersKeepTs ==
  ASSUME NEW t, NEW a \in Nat, NEW st, NEW e, NEW p, NEW s, TsAt(p, s, a, st, e, t)
  PROVE  /\ p.at = "reading" => TsAt([p EXCEPT !.at = "raised"], s, a, st, e, t)
         /\ st = "open" => TsAt(p, s, a + 1, st, e, t)
         /\ st = "open" => \A st2 : TsAt(p, s, a, st2, e, t)
<1> DEFINE rd == p.read
           u == p.buffer
           o == p.out
<1>1. /\ p = [read |-> rd, buffer |-> u, out |-> o, at |-> p.at] /\ rd \in 0 .. a /\ s \in 0 .. rd
      /\ u = SubSeq(t, s + 1, rd) /\ p.at \in {"reading", "ended", "raised"}
  BY DEF TsAt
<1>2. ASSUME p.at # "ended"
      PROVE  /\ e = <<"n">> => Decoded(t)[s].event = NoEvent /\ Decoded(t)[s].line = <<>> /\ o = Decoded(t)[s].out
             /\ e = <<"r", "n">> => s = 0 /\ o = <<>>
  BY <1>2 DEF TsAt
<1>3. ASSUME p.at = "reading"
      PROVE  TsAt([p EXCEPT !.at = "raised"], s, a, st, e, t)
  <2> DEFINE q == [p EXCEPT !.at = "raised"]
  <2> HIDE DEF u, rd, o
  <2>1. q = [[read |-> rd, buffer |-> u, out |-> o, at |-> "reading"] EXCEPT !.at = "raised"]
    BY <1>1, <1>3
  <2>2. q = [read |-> rd, buffer |-> u, out |-> o, at |-> "raised"]
    BY <2>1
  <2> HIDE DEF q
  <2>3. TsAt(q, s, a, st, e, t)
    BY <1>1, <1>2, <1>3, <2>2 DEF TsAt
  <2> QED BY <2>3 DEF q
<1>4. st = "open" => p.at # "ended"
  BY DEF TsAt
<1>5. rd \in 0 .. a + 1
  BY <1>1
<1>6. ASSUME st = "open"
      PROVE  TsAt(p, s, a + 1, st, e, t)
  BY <1>1, <1>2, <1>4, <1>5, <1>6 DEF TsAt
<1>7. ASSUME st = "open", NEW st2
      PROVE  TsAt(p, s, a, st2, e, t)
  BY <1>1, <1>2, <1>4, <1>7 DEF TsAt
<1> QED
  BY <1>3, <1>6, <1>7

\* TsInv for a reader p.
TsFits(p, a, st, e, t) ==
  LET start == p.read - Len(p.buffer)
      d == Decoded(t)[start] IN
  /\ p \in [read : 0 .. a, buffer : {p.buffer}, out : {p.out}, at : {"reading", "ended", "raised"}]
  /\ start \in 0 .. p.read /\ p.buffer = SubSeq(t, start + 1, p.read)
  /\ p.at = "ended" => st = "closed" /\ p.read = a /\ BoundariesOf(p.buffer) = {}
  /\ e = <<"n">> =>
       /\ d.event = NoEvent /\ d.line = <<>>
       /\ p.out = IF p.at = "ended" THEN Told(Decoded(t)[a]) ELSE d.out
  /\ e = <<"r", "n">> =>
       /\ start = 0
       /\ p.out = IF p.at = "ended" THEN Yielded(<<>>, parseSseBlock(SubSeq(t, 1, a))) ELSE <<>>

\* Where its buffer begins is known from it.
LEMMA TsFitsAt ==
  ASSUME NEW p, NEW a, NEW st, NEW e, NEW t, TsFits(p, a, st, e, t)
  PROVE  TsAt(p, p.read - Len(p.buffer), a, st, e, t)
<1> DEFINE s == p.read - Len(p.buffer)
<1>1. s \in 0 .. p.read /\ p.buffer = SubSeq(t, s + 1, p.read)
  BY DEF TsFits
<1>2. /\ p = [read |-> p.read, buffer |-> p.buffer, out |-> p.out, at |-> p.at]
      /\ p.read \in 0 .. a /\ p.at \in {"reading", "ended", "raised"}
  BY DEF TsFits
<1>3. /\ p.at = "ended" => st = "closed" /\ p.read = a /\ BoundariesOf(p.buffer) = {}
      /\ e = <<"n">> =>
           /\ Decoded(t)[s].event = NoEvent /\ Decoded(t)[s].line = <<>>
           /\ p.out = IF p.at = "ended" THEN Told(Decoded(t)[a]) ELSE Decoded(t)[s].out
      /\ e = <<"r", "n">> =>
           /\ s = 0
           /\ p.out = IF p.at = "ended" THEN Yielded(<<>>, parseSseBlock(SubSeq(t, 1, a))) ELSE <<>>
  BY DEF TsFits
<1> HIDE DEF s
<1>4. TsAt(p, s, a, st, e, t)
  BY <1>1, <1>2, <1>3 DEF TsAt
<1> QED
  BY <1>4 DEF s

LEMMA TsAtFits ==
  ASSUME NEW t \in Seq(Tokens), NEW a \in 0 .. Len(t), NEW st, NEW e, NEW p, NEW s, TsAt(p, s, a, st, e, t)
  PROVE  TsFits(p, a, st, e, t)
<1> DEFINE rd == p.read
           u == p.buffer
<1>1. rd \in 0 .. a /\ s \in 0 .. rd /\ u = SubSeq(t, s + 1, rd)
      /\ p = [read |-> rd, buffer |-> u, out |-> p.out, at |-> p.at] /\ p.at \in {"reading", "ended", "raised"}
  BY DEF TsAt
<1>2. rd \in Nat /\ s \in Nat /\ s <= rd /\ rd <= Len(t)
  BY <1>1
<1>3. s = rd - Len(u)
  <2> HIDE DEF rd, u
  <2>1. Len(u) = rd - s
    BY <1>1, <1>2, PartIs
  <2> QED BY <1>2, <2>1
<1>4. p \in [read : 0 .. a, buffer : {p.buffer}, out : {p.out}, at : {"reading", "ended", "raised"}]
  BY <1>1
<1>5. /\ p.at = "ended" => st = "closed" /\ p.read = a /\ BoundariesOf(p.buffer) = {}
      /\ e = <<"n">> =>
           /\ Decoded(t)[s].event = NoEvent /\ Decoded(t)[s].line = <<>>
           /\ p.out = IF p.at = "ended" THEN Told(Decoded(t)[a]) ELSE Decoded(t)[s].out
      /\ e = <<"r", "n">> =>
           /\ s = 0
           /\ p.out = IF p.at = "ended" THEN Yielded(<<>>, parseSseBlock(SubSeq(t, 1, a))) ELSE <<>>
  BY DEF TsAt
<1>6. s \in 0 .. p.read /\ p.buffer = SubSeq(t, s + 1, p.read) /\ s = p.read - Len(p.buffer)
  BY <1>1, <1>3
<1> QED
  BY <1>4, <1>5, <1>6 DEF TsFits

\* What StreamInv says of the text.
LEMMA StreamFacts ==
  ASSUME StreamInv
  PROVE  /\ sent \in Seq(Blocks) /\ eol \in Ends /\ arrived \in 0 .. Len(Text) /\ arrived \in Nat
         /\ Text \in Seq(Tokens) /\ Len(Text) \in Nat /\ TextHas(Text, eol)
<1>1. sent \in Seq(Blocks) /\ eol \in Ends /\ arrived \in 0 .. Len(Text)
  BY DEF StreamInv, Ends
<1>2. Text \in Seq(Tokens) /\ Len(Text) \in Nat
  BY <1>1, BlocksAt
<1>3. TextHas(Text, eol)
  BY <1>1, TextIs DEF Text, TextHas
<1> QED
  BY <1>1, <1>2, <1>3

\* A step of the text, the stream and the TypeScript reader.
LEMMA TsInvStep ==
  ASSUME StreamInv, TsInv, [Next]_vars
  PROVE  TsInv'
<1> DEFINE s == ts.read - Len(ts.buffer)
           fits == \E s2 : TsAt(ts', s2, arrived', stream', eol, Text)
<1>1. /\ sent \in Seq(Blocks) /\ eol \in Ends /\ arrived \in 0 .. Len(Text) /\ arrived \in Nat
      /\ Text \in Seq(Tokens) /\ Len(Text) \in Nat /\ TextHas(Text, eol)
  BY StreamFacts
<1>2. TsAt(ts, s, arrived, stream, eol, Text)
  <2>1. TsFits(ts, arrived, stream, eol, Text)
    BY DEF TsInv, TsFits, Boundaries, BoundariesOf
  <2> QED BY <2>1, TsFitsAt
<1> HIDE DEF s
<1>3. UNCHANGED <<sent, eol>>
  BY DEF Next, vars, Arrive, End, PyLine, PyLastLine, PyEnd, PyRaise, PyTake,
         TsRead, TsBlock, TsEnd, TsRaise
<1>4. Text' = Text
  BY <1>3, TextStays
<1>5. fits /\ arrived' \in 0 .. Len(Text)
  <2>1. CASE UNCHANGED <<ts, arrived, stream>>
    BY <1>1, <1>2, <2>1
  <2>2. CASE Arrive
    <3>1. stream = "open" /\ arrived' = arrived + 1 /\ arrived < Len(Text) /\ UNCHANGED <<stream, ts>>
      BY <2>2 DEF Arrive
    <3>2. TsAt(ts, s, arrived + 1, stream, eol, Text)
      BY <1>1, <1>2, <3>1, OthersKeepTs
    <3>3. arrived + 1 \in 0 .. Len(Text)
      BY <1>1, <3>1
    <3> QED BY <3>1, <3>2, <3>3
  <2>3. CASE End
    <3>1. stream = "open" /\ UNCHANGED <<arrived, ts>>
      BY <2>3 DEF End
    <3>2. TsAt(ts, s, arrived, stream', eol, Text)
      BY <1>1, <1>2, <3>1, OthersKeepTs
    <3> QED BY <1>1, <3>1, <3>2
  <2>4. CASE TsRead
    <3>1. /\ ts.at = "reading" /\ UNCHANGED <<arrived, stream>>
          /\ \E n \in ts.read + 1 .. arrived :
               ts' = [ts EXCEPT !.read = n, !.buffer = @ \o SubSeq(Text, ts.read + 1, n)]
      BY <2>4 DEF TsRead
    <3>2. PICK n \in ts.read + 1 .. arrived :
            ts' = [ts EXCEPT !.read = n, !.buffer = @ \o SubSeq(Text, ts.read + 1, n)]
      BY <3>1
    <3>3. TsAt([ts EXCEPT !.read = n, !.buffer = @ \o SubSeq(Text, ts.read + 1, n)], s, arrived, stream, eol, Text)
      BY <1>1, <1>2, <3>1, ReadKeepsTs
    <3> QED BY <1>1, <3>1, <3>2, <3>3
  <2>5. CASE TsBlock
    <3> DEFINE B == BoundariesOf(ts.buffer)
               i == CHOOSE b \in B : \A c \in B : b <= c
               q == [ts EXCEPT !.buffer = SubSeq(@, i + 2, Len(@)),
                               !.out = Yielded(@, parseSseBlock(SubSeq(ts.buffer, 1, i - 1)))]
    <3>1. /\ ts.at = "reading" /\ UNCHANGED <<arrived, stream>> /\ B # {} /\ ts' = q
      BY <2>5 DEF TsBlock, Boundaries, BoundariesOf
    <3>2. B \in SUBSET Nat
      <4>1. \A n \in B : n \in Nat
        <5>1. \A m \in Nat : \A n \in 1 .. m - 1 : n \in Nat
          OBVIOUS
        <5>2. Len(ts.buffer) \in Nat
          <6>1. ts.read \in 0 .. arrived /\ s \in 0 .. ts.read /\ ts.buffer = SubSeq(Text, s + 1, ts.read)
            BY <1>2 DEF TsAt
          <6>2. s \in Nat /\ ts.read \in Nat /\ ts.read <= Len(Text)
            BY <1>1, <6>1
          <6>3. ts.buffer \in Seq(Tokens)
            BY <1>1, <6>1, <6>2, PartIs
          <6> QED BY <6>3
        <5> QED BY <5>1, <5>2 DEF BoundariesOf
      <4> QED BY <4>1
    <3>3. i \in B /\ \A c \in B : i <= c
      <4> HIDE DEF B
      <4>1. \E b \in B : \A c \in B : b <= c
        BY <3>1, <3>2, Least
      <4> QED BY <4>1
    <3> HIDE DEF i
    <3>4. TsAt(q, s + i + 1, arrived, stream, eol, Text)
      BY <1>1, <1>2, <3>1, <3>3, BlockKeepsTs
    <3> HIDE DEF q
    <3> QED BY <1>1, <3>1, <3>4
  <2>6. CASE TsEnd
    <3>1. /\ ts.at = "reading" /\ BoundariesOf(ts.buffer) = {} /\ stream = "closed" /\ ts.read = arrived
          /\ ts' = [ts EXCEPT !.out = Yielded(@, parseSseBlock(ts.buffer)), !.at = "ended"]
          /\ UNCHANGED <<arrived, stream>>
      BY <2>6 DEF TsEnd, Boundaries, BoundariesOf
    <3>2. TsAt([ts EXCEPT !.out = Yielded(@, parseSseBlock(ts.buffer)), !.at = "ended"], s, arrived, stream, eol, Text)
      BY <1>1, <1>2, <3>1, EndKeepsTs
    <3> QED BY <1>1, <3>1, <3>2
  <2>7. CASE TsRaise
    <3>1. ts.at = "reading" /\ ts' = [ts EXCEPT !.at = "raised"] /\ UNCHANGED <<arrived, stream>>
      BY <2>7 DEF TsRaise
    <3>2. TsAt([ts EXCEPT !.at = "raised"], s, arrived, stream, eol, Text)
      BY <1>1, <1>2, <3>1, OthersKeepTs
    <3> QED BY <1>1, <3>1, <3>2
  <2>8. CASE PyLine \/ PyLastLine \/ PyEnd \/ PyRaise
    BY <2>1, <2>8 DEF PyLine, PyLastLine, PyEnd, PyRaise, PyTake
  <2> QED
    BY <2>1, <2>2, <2>3, <2>4, <2>5, <2>6, <2>7, <2>8 DEF Next, vars
<1>6. TsFits(ts', arrived', stream', eol', Text')
  <2>1. TsFits(ts', arrived', stream', eol, Text)
    BY <1>1, <1>5, TsAtFits
  <2> QED BY <2>1, <1>3, <1>4
<1> QED
  BY <1>6 DEF TsInv, TsFits, Boundaries, BoundariesOf

\* WatchInv is inductive: it holds of the first state and every step keeps it.
LEMMA WatchInvInit == Init => WatchInv
<1> SUFFICES ASSUME Init
             PROVE  WatchInv
  OBVIOUS
<1>1. StreamInv
  <2>1. sent \in Seq(Blocks) /\ sent # <<>>
    <3>1. PICK n \in 1 .. MaxBlocks : sent \in [1 .. n -> Blocks]
      BY DEF Init
    <3>2. n \in Nat /\ n # 0
      BY BlocksAssumption
    <3>3. sent \in Seq(Blocks) /\ Len(sent) = n
      BY <3>1, <3>2
    <3> QED BY <3>2, <3>3
  <2>2. eol \in Ends
    BY DEF Init, Ends
  <2>3. Len(Text) \in Nat
    BY <2>1, <2>2, BlocksAt
  <2>4. arrived \in 0 .. Len(Text)
    BY <2>3 DEF Init
  <2> QED BY <2>1, <2>2, <2>4 DEF Init, StreamInv, Ends
<1>2. /\ arrived \in 0 .. Len(Text) /\ Text \in Seq(Tokens) /\ eol \in Ends /\ arrived = 0
  BY <1>1, StreamFacts DEF Init
<1>3. Decoded(Text)[0].out = <<>> /\ Decoded(Text)[0].event = NoEvent /\ Decoded(Text)[0].line = <<>>
  BY <1>2, DecodedAt
<1>4. PyInv
  <2>1. py = [read |-> 0, event |-> NoEvent, out |-> <<>>, at |-> "reading"]
    BY DEF Init
  <2>2. py.read = 0 /\ py.event = NoEvent /\ py.out = <<>> /\ py.at = "reading" /\ 0 \in 0 .. arrived
    BY <1>2, <2>1
  <2>3. py \in [read : 0 .. arrived, event : {py.event}, out : {py.out}, at : {"reading", "ended", "raised"}]
    BY <2>1, <2>2
  <2> QED BY <1>3, <2>2, <2>3 DEF PyInv
<1>5. TsInv
  <2>1. ts = [read |-> 0, buffer |-> <<>>, out |-> <<>>, at |-> "reading"]
    BY DEF Init
  <2>2. SubSeq(Text, 0 + 1, 0) = <<>>
    BY <1>2, PartIs
  <2>3. /\ ts = [read |-> ts.read, buffer |-> ts.buffer, out |-> ts.out, at |-> ts.at]
        /\ ts.read = 0 /\ ts.buffer = <<>> /\ ts.out = <<>> /\ ts.at = "reading"
    BY <2>1
  <2>4. 0 \in 0 .. arrived /\ 0 \in 0 .. 0
    BY <1>2
  <2>5. TsAt(ts, 0, arrived, stream, eol, Text)
    BY <1>3, <2>2, <2>3, <2>4 DEF TsAt
  <2>6. TsFits(ts, arrived, stream, eol, Text)
    BY <1>2, <2>5, TsAtFits
  <2> QED BY <2>6 DEF TsInv, TsFits, Boundaries, BoundariesOf
<1> QED
  BY <1>1, <1>4, <1>5 DEF WatchInv

LEMMA WatchInvStep == WatchInv /\ [Next]_vars => WatchInv'
<1> SUFFICES ASSUME WatchInv, [Next]_vars
             PROVE  WatchInv'
  OBVIOUS
<1>1. StreamInv'
  <2>1. UNCHANGED <<sent, eol>>
    BY DEF Next, vars, Arrive, End, PyLine, PyLastLine, PyEnd, PyRaise, PyTake,
           TsRead, TsBlock, TsEnd, TsRaise
  <2>2. Text' = Text
    BY <2>1, TextStays
  <2>3. StreamInv /\ Len(Text) \in Nat /\ arrived \in Nat /\ arrived \in 0 .. Len(Text)
    BY StreamFacts DEF WatchInv
  <2>4. arrived' \in 0 .. Len(Text)
    <3>1. CASE Arrive
      BY <2>3, <3>1 DEF Arrive
    <3>2. CASE UNCHANGED arrived
      BY <2>3, <3>2
    <3> QED
      BY <3>1, <3>2 DEF Next, vars, End, PyLine, PyLastLine, PyEnd, PyRaise, PyTake,
                        TsRead, TsBlock, TsEnd, TsRaise
  <2>5. stream' \in {"open", "closed", "broken"}
    <3>1. CASE End
      BY <3>1 DEF End
    <3>2. CASE UNCHANGED stream
      BY <2>3, <3>2 DEF StreamInv
    <3> QED
      BY <3>1, <3>2 DEF Next, vars, Arrive, PyLine, PyLastLine, PyEnd, PyRaise, PyTake,
                        TsRead, TsBlock, TsEnd, TsRaise
  <2> QED
    BY <2>1, <2>2, <2>3, <2>4, <2>5 DEF StreamInv
<1>2. PyInv'
  BY PyInvStep DEF WatchInv
<1>3. TsInv'
  BY TsInvStep DEF WatchInv
<1> QED
  BY <1>1, <1>2, <1>3 DEF WatchInv

\* However the text was cut and whatever the two readers did in whatever order,
\* each agrees with the decoder that takes it token by token.
THEOREM WatchInductive == Spec => []WatchInv
<1>1. Init => WatchInv
  BY WatchInvInit
<1>2. WatchInv /\ [Next]_vars => WatchInv'
  BY WatchInvStep
<1> QED
  BY <1>1, <1>2, PTL DEF Spec

-----------------------------------------------------------------------------
(* What it gives.                                                          *)

\* The first reader's yield is a decoder's.
LEMMA PyYield ==
  ASSUME StreamInv, PyInv
  PROVE  LET d == Decoded(Text)[py.read] IN
         /\ py.read \in 0 .. arrived /\ d \in DecodersOf(Tokens)
         /\ py.at = "ended" => py.out = Told(d) /\ py.read = arrived
         /\ py.at # "ended" =>
              \/ d.line = <<>> /\ py.out = d.out
              \/ py.read = arrived /\ d.line # <<>> /\ py.out = EndLine(d).out
<1>1. py.read \in 0 .. arrived
  BY DEF PyInv
<1>2. py.read \in 0 .. Len(Text) /\ Text \in Seq(Tokens)
  BY <1>1, StreamFacts
<1>3. Decoded(Text)[py.read] \in DecodersOf(Tokens)
  BY <1>2, DecodedAt
<1> QED
  BY <1>1, <1>3 DEF PyInv

\* What a reader yields are the events that were sent, in order, whole and once,
\* except for the part of one in which a stream closed (fiducia.py:246-265,
\* fiducia.ts:597-616).
LEMMA Faithfulness ==
  ASSUME WatchInv
  PROVE  EventsAsSent
<1> DEFINE D == Decoded(Text)
           d == D[py.read]
           s == ts.read - Len(ts.buffer)
<1>1. StreamInv /\ PyInv /\ TsInv /\ sent \in Seq(Blocks) /\ eol \in Ends /\ Text \in Seq(Tokens)
      /\ arrived \in 0 .. Len(Text)
  BY StreamFacts DEF WatchInv
<1>2. \A a \in 0 .. Len(Text) : Placed(D[a]) /\ D[a] \in DecodersOf(Tokens)
  BY <1>1, StreamRun, DecodedAt
<1>3. Faithful(py)
  <2>1. /\ py.read \in 0 .. arrived /\ d \in DecodersOf(Tokens)
        /\ py.at = "ended" => py.out = Told(d)
        /\ py.at # "ended" =>
             \/ d.line = <<>> /\ py.out = d.out
             \/ d.line # <<>> /\ py.out = EndLine(d).out
    BY <1>1, PyYield
  <2>2. Placed(d)
    <3>1. py.read \in 0 .. Len(Text)
      BY <1>1, <2>1
    <3> QED BY <1>2, <3>1
  <2> HIDE DEF d
  <2>3. /\ IsPrefix(d.out, Events(Len(sent)))
        /\ d.line # <<>> => IsPrefix(EndLine(d).out, Events(Len(sent)))
        /\ \/ IsPrefix(Told(d), Events(Len(sent)))
           \/ \E k \in 0 .. Len(sent) - 1 : \E c \in CutOffs(sent[k + 1]) :
                Told(d) = Append(Events(k), Said(c))
    BY <1>1, <2>1, <2>2, PlacedFacts
  <2> QED BY <2>1, <2>3 DEF Faithful
<1>4. ASSUME eol = <<"n">>
      PROVE  Faithful(ts)
  <2> DEFINE f == IF ts.at = "ended" THEN D[arrived] ELSE D[s]
  <2>1. ts.out = IF ts.at = "ended" THEN Told(f) ELSE f.out
    BY <1>1, <1>4 DEF TsInv
  <2>2. f \in DecodersOf(Tokens) /\ Placed(f)
    <3>1. s \in 0 .. ts.read /\ ts.read \in 0 .. arrived
      BY <1>1 DEF TsInv
    <3> HIDE DEF s
    <3>2. s \in 0 .. Len(Text)
      BY <1>1, <3>1
    <3> QED BY <1>1, <1>2, <3>2
  <2> HIDE DEF f
  <2>3. /\ IsPrefix(f.out, Events(Len(sent)))
        /\ \/ IsPrefix(Told(f), Events(Len(sent)))
           \/ \E k \in 0 .. Len(sent) - 1 : \E c \in CutOffs(sent[k + 1]) :
                Told(f) = Append(Events(k), Said(c))
    BY <1>1, <2>2, PlacedFacts
  <2> QED BY <2>1, <2>3 DEF Faithful
<1> QED
  BY <1>3, <1>4 DEF EventsAsSent

\* For every stream of a server's blocks, every cut of its text and every order
\* of the readers' steps.
THEOREM EventsComeAsSent == Spec => []EventsAsSent
<1>1. WatchInv => EventsAsSent
  BY Faithfulness
<1> QED
  BY <1>1, WatchInductive, PTL

\* Both clients make the same events of a stream they read to its end
\* (fiducia.py:246-265, fiducia.ts:597-616).
THEOREM ClientsMakeTheSame == Spec => []ClientsAgree
<1>1. WatchInv => ClientsAgree
  <2> SUFFICES ASSUME WatchInv, eol = <<"n">>, py.at = "ended", ts.at = "ended"
               PROVE  py.out = ts.out
    BY DEF ClientsAgree
  <2>1. py.out = Told(Decoded(Text)[arrived])
    <3>1. StreamInv /\ PyInv
      BY DEF WatchInv
    <3> QED BY <3>1, PyYield
  <2>2. ts.out = Told(Decoded(Text)[arrived])
    BY DEF WatchInv, TsInv
  <2> QED BY <2>1, <2>2
<1> QED
  BY <1>1, WatchInductive, PTL

\* An event whose blank line has arrived is among what the text gives so far.
LEMMA ArrivedIsDecoded ==
  ASSUME StreamInv, NEW n \in 0 .. Len(sent), Start(n) <= arrived
  PROVE  /\ IsPrefix(Events(n), Decoded(Text)[arrived].out)
         /\ Events(n) \in Seq(EventsOf(Tokens))
<1>1. /\ sent \in Seq(Blocks) /\ eol \in Ends /\ arrived \in 0 .. Len(Text) /\ arrived \in Nat
      /\ Text \in Seq(Tokens) /\ Len(Text) \in Nat
  BY StreamFacts
<1>2. Start(n) \in 0 .. Len(Text)
  BY <1>1, BlocksAt
<1> DEFINE a == Start(n)
<1>3. a \in Nat /\ arrived \in a .. Len(Text)
  BY <1>1, <1>2
<1>4. Decoded(Text)[a].out = Events(n)
  BY <1>1, StreamRun
<1> HIDE DEF a
<1>5. IsPrefix(Decoded(Text)[a].out, Decoded(Text)[arrived].out)
  BY <1>1, <1>3, Monotone
<1> QED
  BY <1>1, <1>4, <1>5, EventsGrow

\* A reader that has read what is there has yielded each event whose blank line
\* is there: nothing waits for later text (fiducia.py:246, fiducia.ts:604).
LEMMA Promptness ==
  ASSUME WatchInv
  PROVE  Prompt
<1> SUFFICES ASSUME NEW n \in 0 .. Len(sent), Start(n) <= arrived
             PROVE  /\ py.at = "reading" /\ ~Contains(PyUnread, "n") => IsPrefix(Events(n), py.out)
                    /\ eol = <<"n">> /\ ts.at = "reading" /\ ts.read = arrived /\ Boundaries = {}
                       => IsPrefix(Events(n), ts.out)
  BY DEF Prompt, Start
<1> DEFINE D == Decoded(Text)
           e == D[arrived]
<1>1. /\ StreamInv /\ PyInv /\ TsInv /\ eol \in Ends /\ Text \in Seq(Tokens) /\ Len(Text) \in Nat
      /\ arrived \in 0 .. Len(Text) /\ arrived \in Nat /\ TextHas(Text, eol)
  BY StreamFacts DEF WatchInv
<1>2. IsPrefix(Events(n), e.out) /\ Events(n) \in Seq(EventsOf(Tokens))
  BY <1>1, ArrivedIsDecoded
<1>3. ASSUME py.at = "reading", ~Contains(PyUnread, "n")
      PROVE  IsPrefix(Events(n), py.out)
  <2> DEFINE d == D[py.read]
             rd == py.read
  <2>1. /\ rd \in 0 .. arrived /\ d \in DecodersOf(Tokens)
        /\ \/ d.line = <<>> /\ py.out = d.out
           \/ rd = arrived /\ py.out = EndLine(d).out
    BY <1>1, <1>3, PyYield
  <2>2. CASE d.line = <<>> /\ py.out = d.out
    <3>1. rd \in Nat /\ arrived \in rd .. Len(Text) /\ rd <= arrived /\ arrived <= Len(Text)
      BY <1>1, <2>1
    <3> DEFINE u == SubSeq(Text, rd + 1, arrived)
    <3>2. \A i \in 1 .. Len(u) : u[i] # "n"
      BY <1>3 DEF Contains, PyUnread
    <3> HIDE DEF rd
    <3>3. Len(u) = arrived - rd /\ \A i \in 1 .. arrived - rd : u[i] = Text[rd + i]
      BY <1>1, <3>1, PartIs
    <3> HIDE DEF u
    <3>4. \A i \in rd + 1 .. arrived : Text[i] # "n"
      <4> SUFFICES ASSUME NEW i \in rd + 1 .. arrived
                   PROVE  Text[i] # "n"
        OBVIOUS
      <4>1. PICK j \in 1 .. arrived - rd : i = rd + j
        <5>1. i - rd \in 1 .. arrived - rd /\ i = rd + (i - rd)
          BY <1>1, <3>1
        <5> QED BY <5>1
      <4> QED BY <4>1, <3>2, <3>3
    <3>5. Decoded(Text)[rd].line = <<>>
      BY <2>2 DEF rd
    <3>6. Decoded(Text)[arrived].out = Decoded(Text)[rd].out
      BY <1>1, <3>1, <3>4, <3>5, Stretch
    <3> QED BY <1>2, <2>2, <3>6 DEF rd
  <2>3. CASE rd = arrived /\ py.out = EndLine(d).out
    <3>1. e \in DecodersOf(Tokens) /\ py.out = EndLine(e).out
      BY <2>1, <2>3
    <3> HIDE DEF e
    <3>2. IsPrefix(e.out, EndLine(e).out) /\ EndLine(e).out \in Seq(EventsOf(Tokens))
          /\ e.out \in Seq(EventsOf(Tokens))
      BY <3>1, ToldGrows DEF DecodersOf
    <3> QED BY <1>2, <3>1, <3>2, PrefixFacts
  <2> QED BY <2>1, <2>2, <2>3
<1>4. ASSUME eol = <<"n">>, ts.at = "reading", ts.read = arrived, Boundaries = {}
      PROVE  IsPrefix(Events(n), ts.out)
  <2> DEFINE s == ts.read - Len(ts.buffer)
  <2>1. /\ s \in 0 .. arrived /\ ts.buffer = SubSeq(Text, s + 1, arrived)
        /\ D[s].event = NoEvent /\ D[s].line = <<>> /\ ts.out = D[s].out
    BY <1>1, <1>4 DEF TsInv
  <2> HIDE DEF s
  <2>2. s \in Nat /\ arrived \in s .. Len(Text) /\ NoCr(Text)
    BY <1>1, <1>4, <2>1 DEF TextHas
  <2>3. BoundariesOf(SubSeq(Text, s + 1, arrived)) = {}
    BY <1>4, <2>1 DEF Boundaries, BoundariesOf
  <2>4. \A i \in s + 1 .. arrived - 1 : ~Blank(Text, i)
    BY <1>1, <2>2, <2>3, NoBlanks
  <2>5. Agree(Text, D[s], D[arrived], SubSeq(Text, s + 1, arrived))
    BY <1>1, <2>1, <2>2, <2>4, ParseAgrees
  <2> QED BY <1>2, <2>1, <2>5 DEF Agree
<1> QED
  BY <1>3, <1>4

\* However late the chunks come and however many blocks are in one.
THEOREM NothingWaits == Spec => []Prompt
<1>1. WatchInv => Prompt
  BY Promptness
<1> QED
  BY <1>1, WatchInductive, PTL

-----------------------------------------------------------------------------
(* How many data lines come, with CR LF.                                   *)

Datas(out) == [i \in DOMAIN out |-> out[i].data]
Count(out) == Len(FlattenSeq(Datas(out)))
LineData(line) == IF line # <<>> /\ Head(line) = "data:" THEN 1 ELSE 0

LEMMA DatasIs ==
  ASSUME NEW S, NEW out \in Seq(EventsOf(S))
  PROVE  /\ Datas(out) \in Seq(Seq(Seq(S))) /\ Len(Datas(out)) = Len(out) /\ Len(out) \in Nat
         /\ \A i \in 1 .. Len(out) : Datas(out)[i] = out[i].data
<1>1. DOMAIN out = 1 .. Len(out) /\ Len(out) \in Nat /\ \A i \in 1 .. Len(out) : out[i] \in EventsOf(S)
  OBVIOUS
<1>2. \A i \in 1 .. Len(out) : out[i].data \in Seq(Seq(S))
  BY <1>1 DEF EventsOf
<1> DEFINE n == Len(out)
           X == Seq(Seq(S))
<1>3. n \in Nat /\ Datas(out) \in [1 .. n -> X] /\ \A i \in 1 .. n : Datas(out)[i] = out[i].data
  BY <1>1, <1>2 DEF Datas
<1> HIDE DEF n, X
<1>4. Datas(out) \in Seq(X) /\ Len(Datas(out)) = n
  BY <1>3
<1> QED
  BY <1>3, <1>4 DEF n, X

LEMMA CountAppend ==
  ASSUME NEW S, NEW out \in Seq(EventsOf(S)), NEW e \in EventsOf(S)
  PROVE  /\ Count(out) \in Nat /\ Len(e.data) \in Nat
         /\ Count(Append(out, e)) = Count(out) + Len(e.data)
<1> DEFINE n == Len(out)
           o2 == Append(out, e)
           ss == Datas(o2)
           rr == Datas(out)
           X == Seq(S)
<1>1. /\ o2 \in Seq(EventsOf(S)) /\ Len(o2) = n + 1 /\ n \in Nat
      /\ \A i \in 1 .. n : o2[i] = out[i]
      /\ o2[n + 1] = e
  BY AppendIs
<1> HIDE DEF o2
<1>2. /\ ss \in Seq(Seq(X)) /\ Len(ss) = n + 1
      /\ \A i \in 1 .. n + 1 : ss[i] = o2[i].data
  BY <1>1, DatasIs
<1>3. rr \in Seq(Seq(X)) /\ Len(rr) = n /\ \A i \in 1 .. n : rr[i] = out[i].data
  BY DatasIs
<1> HIDE DEF ss, rr, n, X
<1>4. SubSeq(ss, 1, n) = rr
  <2> DEFINE q == SubSeq(ss, 0 + 1, n)
  <2>1. n <= Len(ss) /\ 0 \in Nat
    BY <1>1, <1>2
  <2> DEFINE Y == Seq(X)
  <2>7. ss \in Seq(Y) /\ n \in Nat
    BY <1>1, <1>2
  <2> HIDE DEF Y
  <2>8. q \in Seq(Y) /\ Len(q) = (IF 0 <= n THEN n - 0 ELSE 0) /\ \A i \in 1 .. n - 0 : q[i] = ss[0 + i]
    BY <2>1, <2>7, PartIs
  <2>2. q \in Seq(Seq(X)) /\ Len(q) = (IF 0 <= n THEN n - 0 ELSE 0) /\ \A i \in 1 .. n - 0 : q[i] = ss[0 + i]
    BY <2>8 DEF Y
  <2>3. n - 0 = n /\ 0 <= n /\ \A i \in 1 .. n : 0 + i = i /\ i \in 1 .. n + 1
    BY <1>1
  <2>4. q = SubSeq(ss, 1, n)
    OBVIOUS
  <2> HIDE DEF q
  <2>5. Len(q) = n /\ \A i \in 1 .. n : q[i] = rr[i]
    <3>1. Len(q) = n
      BY <2>2, <2>3
    <3>2. ASSUME NEW i \in 1 .. n
          PROVE  q[i] = rr[i]
      <4>1. q[i] = ss[i]
        BY <2>2, <2>3
      <4>2. ss[i] = o2[i].data /\ o2[i] = out[i] /\ rr[i] = out[i].data
        BY <1>1, <1>2, <1>3, <2>3
      <4> QED BY <4>1, <4>2
    <3> QED BY <3>1, <3>2
  <2>6. q = rr
    BY <2>2, <2>5, <1>3, SeqEqual
  <2> QED BY <2>4, <2>6
<1> DEFINE front(i) == FlattenSeq(SubSeq(ss, 1, i))
<1>5. n \in 0 .. Len(ss) /\ n + 1 \in 0 .. Len(ss) /\ n < Len(ss) /\ n + 1 \in 1 .. n + 1
  BY <1>1, <1>2
<1>6. Len(front(n + 1)) = Len(front(n)) + Len(ss[n + 1]) /\ front(Len(ss)) = FlattenSeq(ss)
  BY <1>2, <1>5, FlatAt, FlatPrefix
<1>7. FlattenSeq(rr) \in Seq(X)
  <2>1. 0 \in 0 .. Len(rr)
    BY <1>1, <1>3
  <2> QED BY <1>3, <2>1, FlatAt
<1>8. ss[n + 1] = e.data
  BY <1>1, <1>2, <1>5
<1>9. e.data \in Seq(Seq(S))
  BY DEF EventsOf
<1>10. Len(FlattenSeq(ss)) = Len(FlattenSeq(rr)) + Len(e.data)
  BY <1>2, <1>4, <1>6, <1>8
<1>11. Len(FlattenSeq(rr)) \in Nat /\ Len(e.data) \in Nat
  BY <1>7, <1>9
<1> QED
  BY <1>10, <1>11 DEF Count, ss, rr, o2

LEMMA CountEmpty == Count(<<>>) = 0
<1>1. Datas(<<>>) = <<>>
  BY DEF Datas
<1>2. FlattenSeq(<<>>) = <<>>
  <2>1. <<>> \in Seq(Seq(Tokens)) /\ 0 \in 0 .. Len(<<>>) /\ Len(<<>>) = 0
    OBVIOUS
  <2>2. FlattenSeq(SubSeq(<<>>, 1, 0)) = <<>>
    BY <2>1, FlatPrefix
  <2>3. SubSeq(<<>>, 1, 0) = <<>>
    OBVIOUS
  <2> QED BY <2>2, <2>3
<1> QED
  BY <1>1, <1>2 DEF Count

\* An event without data counts nothing.
LEMMA CountYielded ==
  ASSUME NEW S, NEW out \in Seq(EventsOf(S)), NEW e \in EventsOf(S)
  PROVE  /\ Yielded(out, e) \in Seq(EventsOf(S)) /\ Count(out) \in Nat /\ Len(e.data) \in Nat
         /\ Count(Yielded(out, e)) = Count(out) + Len(e.data)
<1>1. Count(out) \in Nat /\ Len(e.data) \in Nat /\ Count(Append(out, e)) = Count(out) + Len(e.data)
  BY CountAppend
<1>2. CASE e.data = <<>>
  <2>1. Len(e.data) = 0
    BY <1>2
  <2> QED BY <1>1, <1>2, <2>1, YieldedIn
<1>3. CASE e.data # <<>>
  BY <1>1, <1>3, YieldedIn
<1> QED
  BY <1>2, <1>3

LEMMA CountTaken ==
  ASSUME NEW S, NEW e \in EventsOf(S), NEW line \in Seq(S)
  PROVE  /\ Len(e.data) \in Nat /\ LineData(line) \in Nat
         /\ Len(TakeUnlessBlank(e, line).data) = Len(e.data) + LineData(line)
<1>1. NoEvent \in EventsOf(S) /\ Len(e.data) \in Nat
  BY NoEventIn, TakeLineIn
<1>2. CASE line = <<>>
  BY <1>1, <1>2 DEF LineData, TakeUnlessBlank
<1>3. CASE line # <<>>
  <2>0. ASSUME NEW field, NEW value \in Seq(S)
        PROVE  /\ field = "data:" => Len(TakeLine(e, field, value).data) = Len(e.data) + 1
               /\ field # "data:" => Len(TakeLine(e, field, value).data) = Len(e.data)
    BY TakeLineIn
  <2> DEFINE h == Head(line)
             v == Tail(line)
  <2>1. TakeUnlessBlank(e, line) = TakeLine(e, h, v) /\ v \in Seq(S)
    BY <1>3, TakeUnlessBlankIn
  <2>2. LineData(line) = IF h = "data:" THEN 1 ELSE 0
    BY <1>3 DEF LineData
  <2> HIDE DEF h, v
  <2>3. CASE h = "data:"
    <3>1. Len(TakeLine(e, h, v).data) = Len(e.data) + 1
      BY <2>0, <2>1, <2>3
    <3> QED BY <1>1, <2>1, <2>2, <2>3, <3>1
  <2>4. CASE h # "data:"
    <3>1. Len(TakeLine(e, h, v).data) = Len(e.data)
      BY <2>0, <2>1, <2>4
    <3> QED BY <1>1, <2>1, <2>2, <2>4, <3>1
  <2> QED BY <2>3, <2>4
<1> QED
  BY <1>2, <1>3

\* What a decoder holds and has told, in data lines.
Held(d) == Count(d.out) + Len(d.event.data)

LEMMA CountEnd ==
  ASSUME NEW S, NEW d \in DecodersOf(S)
  PROVE  /\ Held(d) \in Nat /\ LineData(Stripped(d.line)) \in Nat
         /\ Held(EndLine(d)) = Held(d) + LineData(Stripped(d.line))
         /\ Count(Told(d)) = Held(d) + LineData(Stripped(d.line))
<1> DEFINE l == Stripped(d.line)
           ev == d.event
           o == d.out
           f == EndLine(d)
<1>1. o \in Seq(EventsOf(S)) /\ ev \in EventsOf(S) /\ d.line \in Seq(S)
  BY DEF DecodersOf
<1>2. l \in Seq(S)
  BY <1>1, StrippedIs
<1>3. f \in DecodersOf(S)
  BY EndLineIn
<1>4. f.out \in Seq(EventsOf(S)) /\ f.event \in EventsOf(S)
  BY <1>3 DEF DecodersOf
<1> DEFINE fo == f.out
           fe == f.event
<1>5. /\ l = <<>> => fo = Yielded(o, ev) /\ fe = NoEvent
      /\ l # <<>> => fo = o /\ fe = TakeUnlessBlank(ev, l)
  BY EndLineIn DEF TakeUnlessBlank
<1>6. Told(d) = Yielded(fo, fe) /\ Held(d) = Count(o) + Len(ev.data) /\ Held(f) = Count(fo) + Len(fe.data)
  BY DEF Told, Held
<1> HIDE DEF l, ev, o, fo, fe
<1>7. Count(o) \in Nat /\ Len(ev.data) \in Nat /\ Count(Yielded(o, ev)) = Count(o) + Len(ev.data)
  BY <1>1, CountYielded DEF o, ev
<1>8. Count(Yielded(fo, fe)) = Count(fo) + Len(fe.data)
  BY <1>4, CountYielded DEF fo, fe
<1>9. LineData(l) \in Nat /\ Len(TakeUnlessBlank(ev, l).data) = Len(ev.data) + LineData(l)
  BY <1>1, <1>2, CountTaken DEF ev
<1>10. Count(fo) + Len(fe.data) = Count(o) + Len(ev.data) + LineData(l)
  <2>1. CASE l = <<>>
    <3>1. Len(NoEvent.data) = 0
      BY NoEventIn
    <3>2. LineData(l) = 0
      BY <2>1 DEF LineData
    <3> QED BY <1>5, <1>7, <2>1, <3>1, <3>2
  <2>2. CASE l # <<>>
    BY <1>5, <1>7, <1>9, <2>2
  <2> QED BY <2>1, <2>2
<1> QED
  BY <1>6, <1>7, <1>8, <1>9, <1>10 DEF l

\* The first a tokens without their CR.
Weeded(t, a) == Kept(SubSeq(t, 1, a), {i \in 1 .. Len(t) : t[i] # "r"})

LEMMA WeededStep ==
  ASSUME NEW S, NEW t \in Seq(S), NEW a \in Nat, a < Len(t)
  PROVE  /\ Weeded(t, a) \in Seq(S) /\ t[a + 1] \in S
         /\ Weeded(t, a + 1) = IF t[a + 1] = "r" THEN Weeded(t, a) ELSE Append(Weeded(t, a), t[a + 1])
<1> DEFINE I == {i \in 1 .. Len(t) : t[i] # "r"}
           p == SubSeq(t, 0 + 1, a)
           c == t[a + 1]
<1>1. Len(t) \in Nat /\ a + 1 \in 1 .. Len(t) /\ a <= Len(t) /\ 0 <= a /\ a - 0 = a /\ 0 \in Nat
  OBVIOUS
<1>2. p \in Seq(S) /\ Len(p) = IF 0 <= a THEN a - 0 ELSE 0
  BY <1>1, PartIs
<1>3. SubSeq(t, 0 + 1, a + 1) = Append(p, c)
  BY <1>1, LongerPart
<1>4. c \in S
  BY <1>1
<1>5. a + 1 \in I <=> c # "r"
  BY <1>1
<1>6. 0 + 1 = 1
  OBVIOUS
<1>7. Weeded(t, a) = Kept(p, I) /\ Weeded(t, a + 1) = Kept(Append(p, c), I)
  BY <1>3, <1>6 DEF Weeded
<1> HIDE DEF p, c, I
<1>8. Len(p) = a
  BY <1>1, <1>2
<1>9. /\ Kept(p, I) \in Seq(S)
      /\ Kept(Append(p, c), I) = IF Len(p) + 1 \in I THEN Append(Kept(p, I), c) ELSE Kept(p, I)
  BY <1>2, <1>4, KeptAppend
<1> QED
  BY <1>4, <1>5, <1>7, <1>8, <1>9 DEF c

\* The decoder agrees with the text without CR, in the line and in data lines.
Counted(t, D, a) ==
  LET w == Weeded(t, a) IN
  /\ w \in Seq(Tokens)
  /\ Under(w) = Stripped(D[a].line)
  /\ Len(Parsed(w).data) = Held(D[a])
  /\ a = 0 \/ t[a] # "r" => Plain(D[a].line)

LEMMA CountRun ==
  ASSUME NEW t \in Seq(Tokens), CrLf(t), NEW b \in 0 .. Len(t)
  PROVE  Counted(t, Decoded(t), b)
<1> DEFINE D == Decoded(t)
           G == {a \in 0 .. b : Counted(t, D, a)}
<1>1. Len(t) \in Nat /\ b \in Nat /\ b <= Len(t) /\ 0 \in 0 .. b /\ b \in 0 .. b
  OBVIOUS
<1>2. Stripped(<<>>) = <<>> /\ Plain(<<>>)
  <2>1. <<>> \in Seq(Tokens) /\ \A j \in 1 .. Len(<<>>) : <<>>[j] \notin {"r", "n"}
    OBVIOUS
  <2> QED BY <2>1, StrippedIs DEF Plain
<1>3. 0 \in G
  <2>1. D[0].out = <<>> /\ D[0].event = NoEvent /\ D[0].line = <<>>
    BY DecodedAt
  <2>2. Weeded(t, 0) = <<>>
    <3>1. SubSeq(t, 0 + 1, 0) = <<>>
      BY <1>1, PartIs
    <3>2. 0 + 1 = 1
      OBVIOUS
    <3>3. SubSeq(t, 1, 0) = <<>>
      BY <3>1, <3>2
    <3> QED BY <3>3, KeptEmpty DEF Weeded
  <2>3. Len(Parsed(<<>>).data) = 0 /\ Under(<<>>) = <<>>
    <3>1. Parsed(<<>>).data = <<>> /\ Under(<<>>) = <<>>
      BY ParseEmpty, NoEventIn
    <3> QED BY <3>1
  <2>4. Held(D[0]) = 0
    <3>1. Len(NoEvent.data) = 0
      BY NoEventIn
    <3> QED BY <2>1, <3>1, CountEmpty DEF Held
  <2>5. <<>> \in Seq(Tokens)
    OBVIOUS
  <2> HIDE DEF D
  <2>6. Counted(t, D, 0)
    BY <1>2, <2>1, <2>2, <2>3, <2>4, <2>5 DEF Counted
  <2> QED BY <1>1, <2>6
<1>4. ASSUME NEW a \in 0 .. b, a < b, a \in G
      PROVE  a + 1 \in G
  <2> DEFINE w == Weeded(t, a)
             c == t[a + 1]
             d == D[a]
             e == D[a + 1]
             l == d.line
             U == Under(w)
  <2>1. /\ a \in Nat /\ a < Len(t) /\ a + 1 \in 0 .. b /\ a + 1 \in 1 .. Len(t) /\ a + 1 # 0
        /\ a # 0 => a \in 1 .. Len(t)
    BY <1>1, <1>4
  <2>2. /\ w \in Seq(Tokens) /\ U = Stripped(l) /\ Len(Parsed(w).data) = Held(d)
        /\ a = 0 \/ t[a] # "r" => Plain(l)
    BY <1>4 DEF Counted
  <2>3. /\ d \in DecodersOf(Tokens) /\ e \in DecodersOf(Tokens) /\ c \in Tokens
        /\ c = "n" => e = EndLine(d)
        /\ c # "n" => e.out = d.out /\ e.event = d.event /\ e.line = Append(l, c)
    BY <2>1, DecodedStep
  <2>4. Weeded(t, a + 1) = IF c = "r" THEN w ELSE Append(w, c)
    BY <2>1, WeededStep
  <2>5. l \in Seq(Tokens)
    BY <2>3 DEF DecodersOf
  <2>6. c # "n" => Held(e) = Held(d)
    BY <2>3 DEF Held
  <2>10. /\ Parsed(w) \in EventsOf(Tokens) /\ Under(w) \in Seq(Tokens)
         /\ c = "n" => /\ Parsed(Append(w, c)) = TakeUnlessBlank(Parsed(w), Under(w))
                       /\ Under(Append(w, c)) = <<>>
         /\ c # "n" => /\ Parsed(Append(w, c)) = Parsed(w)
                       /\ Under(Append(w, c)) = Append(Under(w), c)
    BY <2>2, <2>3, ParseStep
  <2> HIDE DEF w, l, d, e, D
  <2>11. Append(w, c) \in Seq(Tokens)
    BY <2>2, <2>3, AppendIs
  <2>7. CASE c = "r"
    <3>1. Stripped(Append(l, c)) = Stripped(l)
      BY <2>3, <2>5, <2>7, StrippedIs
    <3>2. e.line = Append(l, c) /\ Held(e) = Held(d)
      BY <2>3, <2>6, <2>7
    <3>3. Counted(t, D, a + 1)
      BY <2>1, <2>2, <2>4, <2>7, <3>1, <3>2 DEF Counted, e
    <3> QED BY <2>1, <3>3
  <2>8. CASE c = "n"
    <3>1. e = EndLine(d) /\ e.line = <<>> /\ Held(e) = Held(d) + LineData(U)
      BY <2>2, <2>3, <2>8, EndLineIn, CountEnd DEF l
    <3>2. Parsed(Append(w, c)) = TakeUnlessBlank(Parsed(w), U) /\ Under(Append(w, c)) = <<>>
      BY <2>8, <2>10
    <3> HIDE DEF U
    <3>3. Len(Parsed(Append(w, c)).data) = Len(Parsed(w).data) + LineData(U)
      BY <2>10, <3>2, CountTaken DEF U
    <3>4. Len(Parsed(Append(w, c)).data) = Held(e)
      BY <2>2, <3>1, <3>3
    <3>5. Counted(t, D, a + 1)
      BY <1>2, <2>4, <2>8, <2>11, <3>1, <3>2, <3>4 DEF Counted, e
    <3> QED BY <2>1, <3>5
  <2>9. CASE c # "r" /\ c # "n"
    <3>1. a = 0 \/ t[a] # "r"
      <4>1. ASSUME a # 0, t[a] = "r"
            PROVE  FALSE
        <5>1. a \in 1 .. Len(t)
          BY <2>1, <4>1
        <5>2. t[a + 1] = "n"
          BY <5>1, <4>1 DEF CrLf
        <5> QED BY <5>2, <2>9 DEF c
      <4> QED BY <4>1
    <3>2. Plain(l) /\ Stripped(l) = l
      <4>1. Plain(l)
        BY <2>2, <3>1
      <4> QED BY <4>1, <2>5, StrippedIs DEF Plain
    <3>3. Append(l, c) \in Seq(Tokens) /\ Plain(Append(l, c))
      <4> DEFINE n == Len(l)
                 x == Append(l, c)
      <4>1. x \in Seq(Tokens) /\ Len(x) = n + 1 /\ n \in Nat /\ x[n + 1] = c /\ \A i \in 1 .. n : x[i] = l[i]
        BY <2>3, <2>5, AppendIs
      <4>2. \A i \in 1 .. n : l[i] \notin {"r", "n"}
        BY <3>2 DEF Plain
      <4> HIDE DEF n, x
      <4>3. ASSUME NEW i \in 1 .. n + 1
            PROVE  x[i] \notin {"r", "n"}
        <5>1. CASE i = n + 1
          BY <2>9, <4>1, <5>1
        <5>2. CASE i # n + 1
          <6>1. i \in 1 .. n
            BY <4>1, <5>2
          <6> QED BY <4>1, <4>2, <6>1
        <5> QED BY <5>1, <5>2
      <4>4. Plain(x)
        BY <4>1, <4>3 DEF Plain
      <4> QED BY <4>1, <4>4 DEF x
    <3>4. Stripped(Append(l, c)) = Append(l, c)
      BY <3>3, StrippedIs DEF Plain
    <3>5. e.line = Append(l, c) /\ Held(e) = Held(d)
      BY <2>3, <2>6, <2>9
    <3>6. Under(Append(w, c)) = Append(l, c) /\ Parsed(Append(w, c)) = Parsed(w)
      BY <2>2, <2>9, <2>10, <3>2
    <3>7. Counted(t, D, a + 1)
      BY <2>2, <2>4, <2>9, <2>11, <3>3, <3>4, <3>5, <3>6 DEF Counted, e
    <3> QED BY <2>1, <3>7
  <2> QED BY <2>7, <2>8, <2>9
<1>5. b \in G
  <2> HIDE DEF G
  <2>1. \A a \in 0 .. b : a \in G
    BY <1>1, <1>3, <1>4, Upwards
  <2> QED BY <1>1, <2>1
<1> QED
  BY <1>5

\* The text as one block, whether or not it ends within a CR LF.
LEMMA CountParsed ==
  ASSUME NEW t \in Seq(Tokens), CrLf(t), NEW a \in 0 .. Len(t)
  PROVE  Len(parseSseBlock(SubSeq(t, 1, a)).data) = Count(Told(Decoded(t)[a]))
<1> DEFINE D == Decoded(t)
           d == D[a]
           w == Weeded(t, a)
           U == Under(w)
           P == Parsed(w)
           T == SubSeq(t, 0 + 1, a)
           I == {i \in 1 .. Len(t) : t[i] # "r"}
           J == {i \in DOMAIN T : T[i] # "r" \/ i = Len(T) \/ T[i + 1] # "n"}
<1>1. a \in Nat /\ Len(t) \in Nat /\ a <= Len(t) /\ 0 \in Nat /\ 0 <= a /\ a - 0 = a /\ 0 + 1 = 1
  OBVIOUS
<1>2. T \in Seq(Tokens) /\ Len(T) = a /\ \A i \in 1 .. a : T[i] = t[i]
  <2>1. T \in Seq(Tokens) /\ Len(T) = (IF 0 <= a THEN a - 0 ELSE 0) /\ \A i \in 1 .. a - 0 : T[i] = t[0 + i]
    BY <1>1, PartIs
  <2>2. \A i \in 1 .. a : 0 + i = i
    OBVIOUS
  <2> HIDE DEF T
  <2> QED BY <1>1, <2>1, <2>2
<1>3. SubSeq(t, 1, a) = T
  BY <1>1
<1>4. parseSseBlock(T) = EventOf(Split(Kept(T, J)))
  BY DEF parseSseBlock, WithoutCR
<1>5. /\ w \in Seq(Tokens) /\ U = Stripped(d.line) /\ Len(P.data) = Held(d)
  BY CountRun DEF Counted
<1>6. w = Kept(T, I)
  BY <1>3 DEF Weeded
<1>7. d \in DecodersOf(Tokens) /\ "n" \in Tokens /\ "r" \in Tokens
  BY DecodedAt DEF Tokens
<1>8. DOMAIN T = 1 .. a
  BY <1>2
<1> HIDE DEF d, D, T
<1>9. Held(d) \in Nat /\ LineData(U) \in Nat /\ Count(Told(d)) = Held(d) + LineData(U)
  <2>1. Held(d) \in Nat /\ LineData(Stripped(d.line)) \in Nat /\ Count(Told(d)) = Held(d) + LineData(Stripped(d.line))
    BY <1>7, CountEnd
  <2> QED BY <1>5, <2>1
<1> HIDE DEF w, U, P, I, J
<1>10. /\ P \in EventsOf(Tokens) /\ U \in Seq(Tokens)
       /\ EventOf(Split(w)) = TakeUnlessBlank(P, U)
       /\ Parsed(Append(w, "r")) = P /\ Under(Append(w, "r")) = Append(U, "r")
  BY <1>5, <1>7, ParseStep DEF P, U
<1>11. ASSUME NEW i \in 1 .. a
       PROVE  /\ i \in I <=> T[i] # "r"
              /\ i \in J <=> T[i] # "r" \/ i = a
  <2>1. i \in 1 .. Len(t) /\ T[i] = t[i]
    BY <1>1, <1>2
  <2>2. i \in I <=> T[i] # "r"
    BY <2>1 DEF I
  <2>3. ASSUME T[i] = "r", i # a
        PROVE  T[i + 1] = "n"
    <3>1. i + 1 \in 1 .. a
      BY <1>1, <2>3
    <3>2. t[i + 1] = "n"
      BY <2>1, <2>3 DEF CrLf
    <3> QED BY <1>2, <3>1, <3>2
  <2>4. i \in J <=> T[i] # "r" \/ i = a
    BY <1>2, <1>8, <2>3 DEF J
  <2> QED BY <2>2, <2>4
<1>12. CASE a = 0 \/ T[a] # "r"
  <2>1. \A i \in 1 .. a : i \in I <=> i \in J
    BY <1>11, <1>12
  <2>2. Kept(T, J) = w
    BY <1>2, <1>6, <2>1, KeptWithin
  <2>3. parseSseBlock(T) = TakeUnlessBlank(P, U)
    BY <1>4, <1>10, <2>2
  <2> QED BY <1>3, <1>5, <1>9, <1>10, <2>3, CountTaken DEF d, D
<1>13. CASE a # 0 /\ T[a] = "r"
  <2> DEFINE b == a - 1
             V == SubSeq(t, 0 + 1, b)
  <2>1. b \in Nat /\ b + 1 = a /\ b < Len(t) /\ 0 <= b /\ b <= Len(t) /\ b - 0 = b /\ a \in 1 .. a
    BY <1>1, <1>13
  <2>2. T = Append(V, "r")
    <3>1. SubSeq(t, 0 + 1, b + 1) = Append(SubSeq(t, 0 + 1, b), t[b + 1])
      BY <1>1, <2>1, LongerPart
    <3>2. t[a] = "r"
      BY <1>2, <1>13, <2>1
    <3> QED BY <2>1, <3>1, <3>2 DEF T
  <2>3. V \in Seq(Tokens) /\ Len(V) = b
    <3>1. V \in Seq(Tokens) /\ Len(V) = IF 0 <= b THEN b - 0 ELSE 0
      BY <1>1, <2>1, PartIs
    <3> QED BY <2>1, <3>1
  <2> HIDE DEF V, b
  <2>4. /\ Kept(V, I) \in Seq(Tokens)
        /\ Kept(T, I) = IF Len(V) + 1 \in I THEN Append(Kept(V, I), "r") ELSE Kept(V, I)
        /\ Kept(T, J) = IF Len(V) + 1 \in J THEN Append(Kept(V, J), "r") ELSE Kept(V, J)
    BY <1>7, <2>2, <2>3, KeptAppend
  <2>5. a \notin I /\ a \in J
    BY <1>11, <1>13, <2>1
  <2>6. Kept(V, I) = Kept(V, J)
    <3>1. \A i \in 1 .. b : i \in 1 .. a /\ i # a
      BY <2>1
    <3>2. \A i \in 1 .. b : i \in I <=> i \in J
      BY <1>11, <3>1
    <3> QED BY <2>3, <3>2, KeptWithin
  <2>7. Kept(T, J) = Append(w, "r")
    BY <1>6, <2>1, <2>3, <2>4, <2>5, <2>6
  <2>8. Append(w, "r") \in Seq(Tokens) /\ Append(U, "r") \in Seq(Tokens)
    BY <1>5, <1>7, <1>10, AppendIs
  <2>9. EventOf(Split(Append(w, "r"))) = TakeUnlessBlank(P, Append(U, "r"))
    <3> DEFINE x == Append(w, "r")
    <3>1. x \in Seq(Tokens) /\ Parsed(x) = P /\ Under(x) = Append(U, "r")
      BY <1>10, <2>8
    <3> HIDE DEF x
    <3>2. EventOf(Split(x)) = TakeUnlessBlank(Parsed(x), Under(x))
      BY <1>7, <3>1, ParseStep
    <3> QED BY <3>1, <3>2 DEF x
  <2>10. LineData(Append(U, "r")) = LineData(U)
    <3>1. CASE U = <<>>
      <4>1. Head(Append(<<>>, "r")) = "r"
        OBVIOUS
      <4> QED BY <3>1, <4>1 DEF LineData
    <3>2. CASE U # <<>>
      <4>1. Head(Append(U, "r")) = Head(U) /\ Append(U, "r") # <<>>
        BY <1>10, <1>7, <3>2
      <4> QED BY <3>2, <4>1 DEF LineData
    <3> QED BY <3>1, <3>2
  <2> DEFINE x == Append(U, "r")
  <2>11. x \in Seq(Tokens) /\ LineData(x) = LineData(U) /\ parseSseBlock(T) = TakeUnlessBlank(P, x)
    BY <1>4, <2>7, <2>8, <2>9, <2>10
  <2> HIDE DEF x
  <2>12. Len(TakeUnlessBlank(P, x).data) = Len(P.data) + LineData(x)
    BY <1>10, <2>11, CountTaken
  <2> QED BY <1>3, <1>5, <1>9, <2>11, <2>12 DEF d, D
<1> QED
  BY <1>12, <1>13

\* What a block parses to is an event.
LEMMA ParseIn ==
  ASSUME NEW S, NEW t \in Seq(S), NEW x \in S
  PROVE  parseSseBlock(t) \in EventsOf(S)
<1> DEFINE J == {i \in DOMAIN t : t[i] # "r" \/ i = Len(t) \/ t[i + 1] # "n"}
           k == Kept(t, J)
<1>1. k \in Seq(S) /\ parseSseBlock(t) = EventOf(Split(k))
  <2> HIDE DEF J
  <2>1. k \in Seq(S)
    BY KeptAppend
  <2> QED BY <2>1 DEF parseSseBlock, WithoutCR, J
<1> HIDE DEF k
<1>2. /\ Parsed(k) \in EventsOf(S) /\ Under(k) \in Seq(S)
      /\ EventOf(Split(k)) = TakeUnlessBlank(Parsed(k), Under(k))
  BY <1>1, ParseStep
<1> QED
  BY <1>1, <1>2, TakeUnlessBlankIn

\* With CR LF line ends, which parseSseBlock accepts, TypeScript gives at most
\* one event, at the end, with the data lines Python's events have between them
\* (fiducia.ts:604, 1183).
LEMMA ComesAsOne ==
  ASSUME WatchInv
  PROVE  CrLfComesAsOne
<1> SUFFICES ASSUME eol = <<"r", "n">>
             PROVE  /\ Len(ts.out) <= 1
                    /\ ts.at # "ended" => ts.out = <<>>
                    /\ ts.at = "ended" /\ py.at = "ended" => Count(ts.out) = Count(py.out)
  BY DEF CrLfComesAsOne, Count, Datas
<1> DEFINE ev == parseSseBlock(SubSeq(Text, 1, arrived))
           e == Decoded(Text)[arrived]
<1>1. /\ StreamInv /\ PyInv /\ TsInv /\ Text \in Seq(Tokens) /\ arrived \in 0 .. Len(Text) /\ CrLf(Text)
      /\ arrived \in Nat /\ Len(Text) \in Nat
  <2>1. StreamInv /\ PyInv /\ TsInv /\ TextHas(Text, eol)
    BY StreamFacts DEF WatchInv
  <2> QED BY <2>1, StreamFacts DEF TextHas
<1>2. ts.out = IF ts.at = "ended" THEN Yielded(<<>>, ev) ELSE <<>>
  BY <1>1 DEF TsInv
<1>3. ev \in EventsOf(Tokens)
  <2>1. SubSeq(Text, 0 + 1, arrived) \in Seq(Tokens) /\ arrived <= Len(Text) /\ 0 + 1 = 1 /\ "n" \in Tokens
    BY <1>1, PartIs DEF Tokens
  <2>2. SubSeq(Text, 1, arrived) \in Seq(Tokens)
    BY <2>1
  <2> QED BY <2>1, <2>2, ParseIn
<1>4. Len(ev.data) = Count(Told(e))
  BY <1>1, CountParsed
<1> HIDE DEF ev, e
<1>5. <<>> \in Seq(EventsOf(Tokens)) /\ Len(<<>>) = 0
  OBVIOUS
<1>6. Len(Yielded(<<>>, ev)) <= 1
  <2>1. Yielded(<<>>, ev) = <<>> \/ Yielded(<<>>, ev) = <<ev>>
    BY DEF Yielded
  <2> QED BY <2>1
<1>7. ASSUME ts.at = "ended", py.at = "ended"
      PROVE  Count(ts.out) = Count(py.out)
  <2>1. py.out = Told(e)
    BY <1>1, <1>7, PyYield DEF e
  <2>2. Count(Yielded(<<>>, ev)) = Count(<<>>) + Len(ev.data) /\ Len(ev.data) \in Nat
    BY <1>3, <1>5, CountYielded
  <2> QED BY <1>2, <1>4, <1>7, <2>1, <2>2, CountEmpty
<1> QED
  BY <1>2, <1>5, <1>6, <1>7

\* Of every stream with CR LF line ends, cut anywhere.
THEOREM CrLfIsOneEvent == Spec => []CrLfComesAsOne
<1>1. WatchInv => CrLfComesAsOne
  BY ComesAsOne
<1> QED
  BY <1>1, WatchInductive, PTL

=============================================================================
