---------------------------- MODULE HardenProofs ----------------------------
(***************************************************************************)
(* Theorems about the hardening, for every fleet and every repository.     *)
(***************************************************************************)
EXTENDS HardenSystem, FiniteSetTheorems, SequenceTheorems, WellFoundedInduction, TLAPS

-----------------------------------------------------------------------------
(* Numbers and sequences.                                                  *)

\* A set of natural numbers has a least element.
LEMMA Least ==
  ASSUME NEW S \in SUBSET Nat, S # {}
  PROVE  \E x \in S : \A y \in S : x <= y
<1> DEFINE R == {ss \in Nat \X Nat : ss[1] < ss[2]}
<1>1. IsWellFoundedOn(R, Nat)
  BY NatLessThanWellFounded DEF OpToRel
<1>2. \E x \in S : \A y \in S : <<y, x>> \notin R
  <2> HIDE DEF R
  <2> QED BY <1>1, WFMin
<1>3. ASSUME NEW x \in S, NEW y \in S, <<y, x>> \notin R
      PROVE  x <= y
  <2>1. <<y, x>> \in Nat \X Nat /\ <<y, x>>[1] = y /\ <<y, x>>[2] = x
    OBVIOUS
  <2>2. ~(y < x)
    BY <2>1, <1>3
  <2> QED BY <2>2
<1> QED
  BY <1>2, <1>3

\* The least element of a set is in it, and below the others.
LEMMA MinIsThere ==
  ASSUME NEW S \in SUBSET Nat, S # {}
  PROVE  Min(S) \in S /\ \A y \in S : Min(S) <= y
BY Least DEF Min

\* A path is a sequence of at least one name.
LEMMA PathLength ==
  ASSUME NEW d
  PROVE  d \in Paths <=> d \in Seq(STRING) /\ Len(d) \in Nat /\ Len(d) >= 1
<1>1. ASSUME NEW S, NEW s \in Seq(S)
      PROVE  Len(s) \in Nat /\ (s # <<>> <=> Len(s) >= 1)
  OBVIOUS
<1> QED
  BY <1>1 DEF Paths, Root

\* The directory under clients/ that a path is in.
LEMMA TopOfPath ==
  ASSUME NEW d \in Paths
  PROVE  /\ SubSeq(d, 1, 1) \in Paths
         /\ Len(SubSeq(d, 1, 1)) = 1
         /\ SubSeq(d, 1, 1)[1] = d[1]
         /\ SubSeq(SubSeq(d, 1, 1), 1, 1) = SubSeq(d, 1, 1)
<1>1. d \in Seq(STRING) /\ Len(d) \in Nat /\ Len(d) >= 1
  BY PathLength
<1>2. ASSUME NEW S, NEW s \in Seq(S), Len(s) >= 1
      PROVE  \A i \in 1 .. 1 : s[i] \in S
  BY <1>2
<1>3. \A i \in 1 .. 1 : d[i] \in STRING
  BY <1>1, <1>2
<1>4. /\ SubSeq(d, 1, 1) \in Seq(STRING)
      /\ Len(SubSeq(d, 1, 1)) = IF 1 <= 1 THEN 1 - 1 + 1 ELSE 0
      /\ \A i \in 1 .. 1 - 1 + 1 : SubSeq(d, 1, 1)[i] = d[1 + i - 1]
  BY <1>3, SubSeqProperties
<1>5. SubSeq(SubSeq(d, 1, 1), 1, Len(SubSeq(d, 1, 1))) = SubSeq(d, 1, 1)
  BY <1>4, SubSeqFull
<1>6. /\ Len(SubSeq(d, 1, 1)) = 1
      /\ SubSeq(d, 1, 1)[1] = d[1]
  <2>1. Len(SubSeq(d, 1, 1)) = 1
    BY <1>4
  <2>2. 1 \in 1 .. 1 - 1 + 1 /\ 1 + 1 - 1 = 1
    OBVIOUS
  <2> QED
    BY <1>4, <2>1, <2>2
<1>7. SubSeq(SubSeq(d, 1, 1), 1, 1) = SubSeq(d, 1, 1)
  BY <1>5, <1>6
<1>8. SubSeq(d, 1, 1) \in Paths
  <2> DEFINE c == SubSeq(d, 1, 1)
  <2>1. c \in Seq(STRING) /\ Len(c) \in Nat /\ Len(c) >= 1
    BY <1>4, <1>6
  <2>2. c \in Paths
    <3> HIDE DEF c
    <3> QED BY <2>1, PathLength
  <2> QED
    BY <2>2
<1> QED
  BY <1>6, <1>7, <1>8

\* A prefix, element by element.
LEMMA PrefixByElements ==
  ASSUME NEW s \in Paths, NEW t \in Paths
  PROVE  IsPrefix(s, t) <=> Len(s) <= Len(t) /\ \A i \in 1 .. Len(s) : s[i] = t[i]
<1>1. s \in Seq(STRING) /\ t \in Seq(STRING) /\ Len(s) \in Nat /\ Len(t) \in Nat
  BY PathLength
<1>2. SubSeq(s, 1, Len(s)) = s
  BY <1>1, SubSeqFull
<1>3. ASSUME Len(s) <= Len(t)
      PROVE  SubSeq(t, 1, Len(s)) = s <=> \A i \in 1 .. Len(s) : s[i] = t[i]
  <2> DEFINE u == SubSeq(t, 1, Len(s))
  <2>1. \A i \in 1 .. Len(s) : t[i] \in STRING
    <3>1. ASSUME NEW S, NEW q \in Seq(S), NEW n \in Nat, n <= Len(q)
          PROVE  \A i \in 1 .. n : q[i] \in S
      BY <3>1
    <3> QED BY <1>1, <1>3, <3>1
  <2>2. /\ u \in Seq(STRING)
        /\ Len(u) = IF 1 <= Len(s) THEN Len(s) - 1 + 1 ELSE 0
        /\ \A i \in 1 .. Len(s) - 1 + 1 : u[i] = t[1 + i - 1]
    BY <1>1, <2>1, SubSeqProperties
  <2> HIDE DEF u
  <2>3. Len(u) = Len(s) /\ \A i \in 1 .. Len(s) : u[i] = t[i]
    <3>1. Len(s) - 1 + 1 = Len(s) /\ \A i \in 1 .. Len(s) : 1 + i - 1 = i
      BY <1>1
    <3>2. Len(u) = Len(s)
      BY <1>1, <2>2
    <3> QED BY <2>2, <3>1, <3>2
  <2>4. u = s <=> \A i \in 1 .. Len(s) : u[i] = s[i]
    BY <1>1, <2>2, <2>3, SeqEqual
  <2>5. u = s <=> \A i \in 1 .. Len(s) : s[i] = t[i]
    BY <2>3, <2>4
  <2> QED
    BY <2>5 DEF u
<1> QED
  BY <1>2, <1>3 DEF IsPrefix

\* Beginnings are transitive.
LEMMA PrefixOfPrefix ==
  ASSUME NEW s \in Paths, NEW t \in Paths, NEW u \in Paths, IsPrefix(s, t), IsPrefix(t, u)
  PROVE  IsPrefix(s, u)
<1>1. Len(s) \in Nat /\ Len(t) \in Nat /\ Len(u) \in Nat
  BY PathLength
<1>2. /\ Len(s) <= Len(t) /\ \A i \in 1 .. Len(s) : s[i] = t[i]
      /\ Len(t) <= Len(u) /\ \A i \in 1 .. Len(t) : t[i] = u[i]
  BY PrefixByElements
<1>3. Len(s) <= Len(u) /\ \A i \in 1 .. Len(s) : s[i] = u[i]
  BY <1>1, <1>2
<1> QED
  BY <1>3, PrefixByElements

\* A path lies in its directory under clients/, and in itself.
LEMMA TopIsPrefix ==
  ASSUME NEW d \in Paths
  PROVE  IsPrefix(SubSeq(d, 1, 1), d) /\ IsPrefix(d, d)
<1>1. Len(d) \in Nat /\ Len(d) >= 1
  BY PathLength
<1> DEFINE c == SubSeq(d, 1, 1)
<1>2. c \in Paths /\ Len(c) = 1 /\ c[1] = d[1]
  BY TopOfPath
<1> HIDE DEF c
<1>3. Len(c) <= Len(d) /\ \A i \in 1 .. Len(c) : c[i] = d[i]
  BY <1>1, <1>2
<1>4. IsPrefix(c, d)
  BY <1>2, <1>3, PrefixByElements
<1>5. IsPrefix(d, d)
  BY <1>1, PrefixByElements
<1> QED
  BY <1>4, <1>5 DEF c

-----------------------------------------------------------------------------
(* The directories that a run chooses.                                     *)

\* The form of a row.
LEMMA RowType ==
  ASSUME NEW s \in Specs
  PROVE  /\ s \in Row
         /\ s.name \in STRING /\ s.dir \in Paths /\ s.zed \in TargetNames
         /\ s.aliases \in Seq(Paths) /\ s.zedAliases \in Seq(STRING) /\ s.zed \in STRING
         /\ \A i \in 1 .. Len(s.zedAliases) : s.zedAliases[i] \in TargetNames
<1>1. s \in Row
  BY FleetAssumption DEF Specs, ToSet
<1>2. /\ s.name \in STRING /\ s.dir \in Paths
      /\ s.aliases \in Seq(Paths) /\ s.zedAliases \in Seq(STRING) /\ s.zed \in STRING
  BY <1>1 DEF Row
<1>3. {s.zed} \union ToSet(s.zedAliases) \subseteq TargetNames
  BY DEF TargetNames
<1>4. \A i \in 1 .. Len(s.zedAliases) : s.zedAliases[i] \in ToSet(s.zedAliases)
  BY <1>2 DEF ToSet
<1> QED
  BY <1>1, <1>2, <1>3, <1>4

\* choose_dir finds a path.
LEMMA ChosenIsPath ==
  ASSUME NEW r, IsRepo(r), NEW s \in Specs
  PROVE  ChooseDir(r, s) \in Paths
<1> DEFINE names == IF s.publish THEN <<s.zed>> \o s.zedAliases ELSE s.zedAliases
           given == {i \in 1 .. Len(names) :
                      names[i] \in DOMAIN r.targets /\ Exists(r, r.targets[names[i]])}
           older == {i \in 1 .. Len(s.aliases) : s.aliases[i] \in r.dirs}
<1>1. /\ given \in SUBSET Nat
      /\ older \in SUBSET Nat
      /\ ChooseDir(r, s) =
           CASE (IF given # {} THEN Min(given) ELSE 0) # 0 ->
                  r.targets[names[IF given # {} THEN Min(given) ELSE 0]]
             [] (IF given # {} THEN Min(given) ELSE 0) = 0 /\ s.dir \in r.dirs -> s.dir
             [] OTHER -> IF s.runtime \in r.runtimes THEN Typescript
                         ELSE IF (IF older # {} THEN Min(older) ELSE 0) # 0
                              THEN s.aliases[IF older # {} THEN Min(older) ELSE 0] ELSE s.dir
  BY DEF ChooseDir, SelectInSeq
<1>2. Typescript \in Paths /\ Outside \in Paths /\ s.dir \in Paths
  BY RowType, FleetAssumption
<1>3. ASSUME given # {}
      PROVE  r.targets[names[Min(given)]] \in Paths
  <2>1. Min(given) \in given
    BY <1>1, <1>3, MinIsThere
  <2>2. names[Min(given)] \in TargetNames
    <3>1. names \in Seq(STRING) /\ s.zedAliases \in Seq(STRING)
      <4>1. s.zedAliases \in Seq(STRING) /\ s.zed \in STRING
        BY RowType
      <4>2. ASSUME NEW S, NEW x \in S, NEW t \in Seq(S)
            PROVE  <<x>> \o t \in Seq(S)
        OBVIOUS
      <4>3. <<s.zed>> \o s.zedAliases \in Seq(STRING)
        BY <4>1, <4>2
      <4> QED BY <4>1, <4>3
    <3>2. \A i \in 1 .. Len(names) :
            names[i] = s.zed \/ \E j \in 1 .. Len(s.zedAliases) : names[i] = s.zedAliases[j]
      <4>1. CASE s.publish
        <5>1. names = <<s.zed>> \o s.zedAliases
          BY <4>1
        <5>2. \A i \in 1 .. Len(names) : i # 1 => i - 1 \in 1 .. Len(s.zedAliases) /\ names[i] = s.zedAliases[i - 1]
          BY <5>1, <3>1
        <5>3. names[1] = s.zed
          BY <5>1, <3>1
        <5> QED BY <5>2, <5>3
      <4>2. CASE ~s.publish
        BY <4>2
      <4> QED BY <4>1, <4>2
    <3> QED
      BY <3>2, <2>1, RowType
  <2> QED
    BY <2>1, <2>2, <1>2 DEF IsRepo, Exists
<1>4. ASSUME older # {}
      PROVE  s.aliases[Min(older)] \in Paths
  <2>1. Min(older) \in older
    BY <1>1, <1>4, MinIsThere
  <2> QED
    <3>1. s.aliases \in Seq(Paths)
      BY RowType
    <3>2. ASSUME NEW a \in Seq(Paths), NEW i \in 1 .. Len(a)
          PROVE  a[i] \in Paths
      OBVIOUS
    <3>3. Min(older) \in 1 .. Len(s.aliases)
      BY <2>1
    <3> HIDE DEF older
    <3> QED BY <3>1, <3>2, <3>3
<1> HIDE DEF given, older
<1> QED
  BY <1>1, <1>2, <1>3, <1>4

\* A row that does not raise claims a path.
LEMMA ClaimedIsPath ==
  ASSUME NEW r, IsRepo(r), NEW s \in Specs, NEW D, NEW chosen \in [D -> Paths],
         Claimed(r, chosen, s) # Raised
  PROVE  Claimed(r, chosen, s) \in [D \union {s.name} -> Paths]
<1>1. s.dir \in Paths /\ ChooseDir(r, s) \in Paths
  BY RowType, ChosenIsPath
<1>2. PICK d \in Paths : Claimed(r, chosen, s) = Over(chosen, [n \in {s.name} |-> d])
  BY <1>1 DEF Claimed
<1> QED
  BY <1>2 DEF Over

\* The choices of the first n rows.
Rows(r, f, n) ==
  f = [i \in 0 .. n |->
         IF i = 0 THEN <<>> ELSE Claimed(r, f[i - 1], TARGETS[i])]

\* The recursion over the rows has a solution.
LEMMA RowsExist ==
  ASSUME NEW r
  PROVE  \A n \in Nat : \E f : Rows(r, f, n)
<1> DEFINE Bad == {n \in Nat : ~\E f : Rows(r, f, n)}
<1> SUFFICES ASSUME Bad # {}
             PROVE  FALSE
  OBVIOUS
<1>1. PICK n \in Bad : \A m \in Bad : n <= m
  <2>1. Bad \in SUBSET Nat
    OBVIOUS
  <2> HIDE DEF Bad
  <2> QED BY <2>1, Least
<1>2. CASE n = 0
  <2>1. Rows(r, [i \in 0 .. 0 |-> <<>>], 0)
    BY DEF Rows
  <2> QED BY <2>1, <1>2
<1>3. CASE n # 0
  <2>1. n - 1 \in Nat /\ n - 1 \notin Bad
    BY <1>1, <1>3
  <2>2. PICK f : Rows(r, f, n - 1)
    BY <2>1
  <2> DEFINE last == Claimed(r, f[n - 1], TARGETS[n])
             g == [i \in 0 .. n |-> IF i = n THEN last ELSE f[i]]
  <2>3. \A i \in 0 .. n - 1 :
          f[i] = IF i = 0 THEN <<>> ELSE Claimed(r, f[i - 1], TARGETS[i])
    BY <2>2 DEF Rows
  <2>4. \A i \in 0 .. n :
          g[i] = IF i = 0 THEN <<>> ELSE Claimed(r, g[i - 1], TARGETS[i])
    <3> SUFFICES ASSUME NEW i \in 0 .. n
                 PROVE  g[i] = IF i = 0 THEN <<>> ELSE Claimed(r, g[i - 1], TARGETS[i])
      OBVIOUS
    <3>1. CASE i = n
      <4>1. g[i] = last /\ g[i - 1] = f[n - 1] /\ i # 0
        BY <3>1, <1>3, <2>1
      <4> QED BY <4>1, <3>1
    <3>2. CASE i # n
      <4>1. i \in 0 .. n - 1 /\ g[i] = f[i] /\ (i # 0 => g[i - 1] = f[i - 1])
        BY <3>2
      <4> HIDE DEF g
      <4> QED BY <4>1, <2>3
    <3> QED BY <3>1, <3>2
  <2>5. Rows(r, g, n)
    <3>1. g = [i \in 0 .. n |-> g[i]]
      OBVIOUS
    <3> HIDE DEF g
    <3> QED BY <2>4, <3>1 DEF Rows
  <2> QED
    BY <2>5
<1> QED
  BY <1>2, <1>3

\* What is chosen is what is claimed row by row.
LEMMA ChosenByRows ==
  ASSUME NEW r
  PROVE  \E f : Rows(r, f, Len(TARGETS)) /\ ChooseTargetDirs(r) = f[Len(TARGETS)]
<1> DEFINE N == Len(TARGETS)
           After == CHOOSE f : Rows(r, f, N)
<1>1. N \in Nat
  BY FleetAssumption
<1>2. Rows(r, After, N)
  BY <1>1, RowsExist
<1>3. ChooseTargetDirs(r) = After[N]
  BY DEF ChooseTargetDirs, Rows
<1> QED
  BY <1>2, <1>3

\* One row.
LEMMA RowStep ==
  ASSUME NEW r, NEW f, Rows(r, f, Len(TARGETS)), NEW i \in 0 .. Len(TARGETS)
  PROVE  /\ i = 0 => f[i] = <<>>
         /\ i # 0 /\ f[i] # Raised =>
              /\ i \in 1 .. Len(TARGETS) /\ i - 1 \in 0 .. Len(TARGETS) /\ TARGETS[i] \in Specs
              /\ f[i - 1] # Raised
              /\ f[i] = Claimed(r, f[i - 1], TARGETS[i])
<1>1. TARGETS \in Seq(Row) /\ Len(TARGETS) \in Nat
  BY FleetAssumption
<1>2. f[i] = IF i = 0 THEN <<>> ELSE Claimed(r, f[i - 1], TARGETS[i])
  BY DEF Rows
<1>4. f[i - 1] = Raised => Claimed(r, f[i - 1], TARGETS[i]) = Raised
  BY DEF Claimed
<1>3. i # 0 => i \in 1 .. Len(TARGETS) /\ i - 1 \in 0 .. Len(TARGETS) /\ TARGETS[i] \in Specs
  BY <1>1 DEF Specs, ToSet
<1> QED
  BY <1>2, <1>3, <1>4

Upto(i) == {TARGETS[j].name : j \in 1 .. i}

\* The names of one row more.
LEMMA UptoNext ==
  ASSUME NEW i \in Nat, i # 0
  PROVE  Upto(i) = Upto(i - 1) \union {TARGETS[i].name}
BY DEF Upto

\* Each row that does not raise adds a path.
LEMMA RowsArePaths ==
  ASSUME NEW r, IsRepo(r), NEW f, Rows(r, f, Len(TARGETS))
  PROVE  \A i \in 0 .. Len(TARGETS) : f[i] # Raised => f[i] \in [Upto(i) -> Paths]
<1> DEFINE N == Len(TARGETS)
           Bad == {i \in 0 .. N : f[i] # Raised /\ f[i] \notin [Upto(i) -> Paths]}
<1>1. N \in Nat
  BY FleetAssumption
<1> SUFFICES ASSUME Bad # {}
             PROVE  FALSE
  OBVIOUS
<1>2. PICK i \in Bad : \A j \in Bad : i <= j
  <2>1. Bad \in SUBSET Nat
    BY <1>1
  <2> HIDE DEF Bad
  <2> QED BY <2>1, Least
<1>3. i # 0
  <2>1. Upto(0) = {}
    BY DEF Upto
  <2>2. <<>> \in [{} -> Paths]
    OBVIOUS
  <2> QED BY <1>2, <2>1, <2>2, RowStep
<1>4. /\ i \in 0 .. N /\ i - 1 \in 0 .. N /\ f[i] # Raised /\ f[i - 1] # Raised
      /\ TARGETS[i] \in Specs
      /\ f[i] = Claimed(r, f[i - 1], TARGETS[i])
  BY <1>2, <1>3, RowStep
<1>5. i - 1 \notin Bad
  <2>1. ~(i <= i - 1)
    BY <1>4, <1>1
  <2> HIDE DEF Bad
  <2> QED BY <1>2, <2>1
<1>6. f[i - 1] \in [Upto(i - 1) -> Paths]
  BY <1>4, <1>5
<1>7. Claimed(r, f[i - 1], TARGETS[i]) \in [Upto(i - 1) \union {TARGETS[i].name} -> Paths]
  <2>1. Claimed(r, f[i - 1], TARGETS[i]) # Raised
    BY <1>4
  <2> HIDE DEF Bad
  <2> QED BY <2>1, <1>4, <1>6, ClaimedIsPath
<1>8. Upto(i) = Upto(i - 1) \union {TARGETS[i].name}
  BY <1>1, <1>3, <1>4, UptoNext
<1> QED
  BY <1>2, <1>4, <1>7, <1>8

\* A run that chooses directories chooses a path for each target.
LEMMA ChosenArePaths ==
  ASSUME NEW r, IsRepo(r), ChooseTargetDirs(r) # Raised
  PROVE  ChooseTargetDirs(r) \in [Names -> Paths]
<1>1. TARGETS \in Seq(Row) /\ Len(TARGETS) \in Nat
  BY FleetAssumption
<1>2. Upto(Len(TARGETS)) = Names
  BY <1>1 DEF Upto, Names, Specs, ToSet
<1>3. Len(TARGETS) \in 0 .. Len(TARGETS)
  BY <1>1
<1> QED
  BY <1>2, <1>3, ChosenByRows, RowsArePaths

\* The tables of the two package checks.
Tables == {RequiredTargets, RequiredPackages}

\* A required target that is where it must be, in a directory that no other target
\* was given.
InPlace(r, T, n) ==
  /\ n \in DOMAIN r.targets /\ r.targets[n] = T[n] /\ T[n] \in r.dirs
  /\ \A m \in DOMAIN r.targets : r.targets[m] = T[n] => m = n

\* The row that publishes a target.
RowOf(T, n, s) ==
  /\ s \in Specs /\ s.publish /\ s.zed = n
  /\ \A o \in Specs \ {s} :
       /\ ~(o.publish /\ o.zed = n) /\ n \notin ToSet(o.zedAliases)
       /\ T[n] \notin ToSet(o.aliases) \union {o.dir}

\* choose_dir leaves a required target where it is.
LEMMA OwnChoice ==
  ASSUME NEW r, NEW T \in Tables, NEW n \in DOMAIN T,
         InPlace(r, T, n), NEW s, RowOf(T, n, s)
  PROVE  ChooseDir(r, s) = T[n]
<1> DEFINE names == <<s.zed>> \o s.zedAliases
           given == {i \in 1 .. Len(names) :
                       names[i] \in DOMAIN r.targets /\ Exists(r, r.targets[names[i]])}
<1>1. ChooseDir(r, s) = IF (IF given # {} THEN Min(given) ELSE 0) # 0
                        THEN r.targets[names[IF given # {} THEN Min(given) ELSE 0]]
                        ELSE ChooseDir(r, s)
  BY DEF ChooseDir, SelectInSeq, RowOf
<1>2. Len(names) \in Nat /\ 1 \in 1 .. Len(names) /\ names[1] = n
  <2>1. s.zedAliases \in Seq(STRING) /\ s.zed = n
    BY RowType DEF RowOf
  <2>2. ASSUME NEW S, NEW t \in Seq(S), NEW x
        PROVE  Len(<<x>> \o t) \in Nat /\ Len(<<x>> \o t) >= 1 /\ (<<x>> \o t)[1] = x
    OBVIOUS
  <2>3. Len(names) \in Nat /\ Len(names) >= 1 /\ names[1] = n
    BY <2>1, <2>2
  <2> HIDE DEF names
  <2> QED BY <2>3
<1> HIDE DEF names
<1>3. 1 \in given /\ given \in SUBSET Nat
  BY <1>2 DEF InPlace, Exists
<1>4. Min(given) = 1
  <2>1. Min(given) \in given /\ Min(given) <= 1
    BY <1>3, MinIsThere
  <2>2. Min(given) \in 1 .. Len(names)
    BY <2>1
  <2> HIDE DEF given
  <2> QED BY <2>1, <2>2, <1>2
<1> HIDE DEF given
<1>5. (IF given # {} THEN Min(given) ELSE 0) = 1
  BY <1>3, <1>4
<1> QED
  BY <1>1, <1>2, <1>5 DEF InPlace

\* No other row prefers the directory of a required target.
LEMMA OthersChoice ==
  ASSUME NEW r, NEW T \in Tables, NEW n \in DOMAIN T,
         InPlace(r, T, n), NEW s, RowOf(T, n, s),
         NEW o \in Specs \ {s}
  PROVE  ChooseDir(r, o) # T[n] /\ o.dir # T[n]
<1> DEFINE names == IF o.publish THEN <<o.zed>> \o o.zedAliases ELSE o.zedAliases
           given == {i \in 1 .. Len(names) :
                      names[i] \in DOMAIN r.targets /\ Exists(r, r.targets[names[i]])}
           older == {i \in 1 .. Len(o.aliases) : o.aliases[i] \in r.dirs}
<1>1. /\ given \in SUBSET Nat
      /\ older \in SUBSET Nat
      /\ ChooseDir(r, o) =
           CASE (IF given # {} THEN Min(given) ELSE 0) # 0 ->
                  r.targets[names[IF given # {} THEN Min(given) ELSE 0]]
             [] (IF given # {} THEN Min(given) ELSE 0) = 0 /\ o.dir \in r.dirs -> o.dir
             [] OTHER -> IF o.runtime \in r.runtimes THEN Typescript
                         ELSE IF (IF older # {} THEN Min(older) ELSE 0) # 0
                              THEN o.aliases[IF older # {} THEN Min(older) ELSE 0] ELSE o.dir
  BY DEF ChooseDir, SelectInSeq
<1>2. o.dir # T[n] /\ Typescript # T[n]
  BY RequiredAssumption DEF RowOf, Tables
<1>3. ASSUME NEW i \in given
      PROVE  r.targets[names[i]] # T[n]
  <2>1. names[i] # n
    <3>1. o.zedAliases \in Seq(STRING) /\ (o.publish => o.zed # n)
          /\ \A j \in 1 .. Len(o.zedAliases) : o.zedAliases[j] # n
      BY RowType DEF RowOf, ToSet
    <3>2. CASE o.publish
      <4>1. ASSUME NEW S, NEW t \in Seq(S), NEW x, NEW k \in 1 .. Len(<<x>> \o t)
            PROVE  (<<x>> \o t)[k] = x \/ \E j \in 1 .. Len(t) : (<<x>> \o t)[k] = t[j]
        <5>1. CASE k = 1
          BY <5>1
        <5>2. CASE k # 1
          <6>1. k - 1 \in 1 .. Len(t) /\ (<<x>> \o t)[k] = t[k - 1]
            BY <5>2
          <6> QED BY <6>1
        <5> QED BY <5>1, <5>2
      <4>2. names = <<o.zed>> \o o.zedAliases /\ i \in 1 .. Len(names)
        BY <3>2
      <4> HIDE DEF names
      <4> QED BY <3>1, <3>2, <4>1, <4>2
    <3>3. CASE ~o.publish
      BY <3>1, <3>3
    <3> QED BY <3>2, <3>3
  <2> QED
    BY <2>1 DEF InPlace
<1>4. ASSUME NEW i \in older
      PROVE  o.aliases[i] # T[n]
  <2>1. o.aliases \in Seq(Paths) /\ i \in 1 .. Len(o.aliases)
    BY RowType
  <2>2. o.aliases[i] \in ToSet(o.aliases)
    BY <2>1 DEF ToSet
  <2> QED BY <2>2 DEF RowOf
<1>5. (given # {} => Min(given) \in given) /\ (older # {} => Min(older) \in older)
  BY <1>1, MinIsThere
<1> HIDE DEF names, given, older
<1>6. ChooseDir(r, o) # T[n]
  <2>1. CASE given # {}
    <3>1. (IF given # {} THEN Min(given) ELSE 0) # 0 => ChooseDir(r, o) = r.targets[names[Min(given)]]
      BY <1>1, <2>1
    <3>2. Min(given) # 0
      BY <1>5, <2>1 DEF given
    <3> QED
      BY <1>3, <1>5, <2>1, <3>1, <3>2
  <2>2. CASE given = {}
    <3>1. \/ ChooseDir(r, o) \in {o.dir, Typescript}
          \/ older # {} /\ ChooseDir(r, o) = o.aliases[Min(older)]
      BY <1>1, <2>2
    <3> QED
      BY <3>1, <1>2, <1>4, <1>5
  <2> QED BY <2>1, <2>2
<1> QED
  BY <1>2, <1>6

Only(x, d) == [m \in {x} |-> d]

\* A claim leaves the directory of a required target to its row.
LEMMA ClaimLeavesRequired ==
  ASSUME NEW r, NEW T \in Tables, NEW n \in DOMAIN T,
         InPlace(r, T, n), NEW s, RowOf(T, n, s),
         NEW o \in Specs, NEW chosen, Claimed(r, chosen, o) # Raised,
         \A m \in DOMAIN chosen : chosen[m] = T[n] => m = s.name,
         o = s => s.name \notin DOMAIN chosen
  PROVE  \E d : /\ Claimed(r, chosen, o) = Over(chosen, Only(o.name, d))
                /\ d = T[n] <=> o = s
<1> DEFINE preferred == ChooseDir(r, o)
           claimed == {chosen[m] : m \in DOMAIN chosen}
           others == {q.dir : q \in Specs \ {o}}
           d == IF preferred \in claimed \union {Outside} \union others THEN o.dir ELSE preferred
<1>1. Claimed(r, chosen, o) = Over(chosen, Only(o.name, d))
  BY DEF Claimed, Only
<1>2. CASE o = s
  <2>1. preferred = T[n]
    BY <1>2, OwnChoice
  <2>2. T[n] \notin claimed
    BY <1>2
  <2>3. T[n] # Outside /\ T[n] \notin others
    BY <1>2, OthersChoice, RequiredAssumption DEF Tables
  <2>4. d = T[n]
    <3> HIDE DEF preferred, claimed, others
    <3> QED BY <2>1, <2>2, <2>3
  <2> HIDE DEF d
  <2> QED BY <1>1, <1>2, <2>4
<1>3. CASE o # s
  <2>1. preferred # T[n] /\ o.dir # T[n]
    BY <1>3, OthersChoice
  <2>2. d # T[n]
    <3> HIDE DEF preferred, claimed, others
    <3> QED BY <2>1
  <2> HIDE DEF d
  <2> QED BY <1>1, <1>3, <2>2
<1> QED
  BY <1>2, <1>3

\* A required target that is in its place keeps it.
LEMMA RequiredIsChosen ==
  ASSUME NEW r, IsRepo(r), NEW T \in Tables, NEW n \in DOMAIN T,
         InPlace(r, T, n), NEW s, RowOf(T, n, s),
         ChooseTargetDirs(r) # Raised
  PROVE  ChooseTargetDirs(r)[s.name] = T[n]
<1> DEFINE N == Len(TARGETS)
<1>1. PICK f : Rows(r, f, N) /\ ChooseTargetDirs(r) = f[N]
  BY ChosenByRows
<1> DEFINE Good(i) == /\ \A m \in Upto(i) : f[i][m] = T[n] => m = s.name
                      /\ s.name \in Upto(i) => f[i][s.name] = T[n]
           Bad == {i \in 0 .. N : f[i] # Raised /\ ~Good(i)}
<1>2. TARGETS \in Seq(Row) /\ N \in Nat
  BY FleetAssumption
<1>3. Bad = {}
  <2> SUFFICES ASSUME Bad # {}
               PROVE  FALSE
    OBVIOUS
  <2>1. PICK i \in Bad : \A j \in Bad : i <= j
    <3>1. Bad \in SUBSET Nat
      BY <1>2
    <3> HIDE DEF Bad
    <3> QED BY <3>1, Least
  <2>2. i # 0
    <3>1. Upto(0) = {}
      BY DEF Upto
    <3> QED BY <2>1, <3>1
  <2>3. /\ i \in 1 .. N /\ i - 1 \in 0 .. N /\ f[i] # Raised /\ f[i - 1] # Raised
        /\ TARGETS[i] \in Specs
        /\ f[i] = Claimed(r, f[i - 1], TARGETS[i])
    BY <2>1, <2>2, <1>1, RowStep
  <2>4. Good(i - 1)
    <3>1. ~(i <= i - 1)
      BY <2>3, <1>2
    <3>2. i - 1 \notin Bad
      <4> HIDE DEF Bad
      <4> QED BY <2>1, <3>1
    <3> HIDE DEF Good
    <3> QED BY <2>3, <3>2
  <2>5. f[i - 1] \in [Upto(i - 1) -> Paths]
    BY <1>1, <2>3, RowsArePaths
  <2>6. TARGETS[i].name \notin Upto(i - 1)
    <3>1. \A j \in 1 .. i - 1 : j \in DOMAIN TARGETS /\ i \in DOMAIN TARGETS /\ j # i
      BY <2>3, <1>2
    <3> QED BY <3>1, FleetAssumption DEF Upto
  <2>7. TARGETS[i] = s <=> TARGETS[i].name = s.name
    <3>1. PICK k \in DOMAIN TARGETS : s = TARGETS[k]
      BY DEF RowOf, Specs, ToSet
    <3>2. i \in DOMAIN TARGETS
      BY <2>3, <1>2
    <3> QED BY <3>1, <3>2, FleetAssumption
  <2>8. PICK d : /\ f[i] = Over(f[i - 1], Only(TARGETS[i].name, d))
                 /\ d = T[n] <=> TARGETS[i] = s
    <3>1. \A m \in DOMAIN f[i - 1] : f[i - 1][m] = T[n] => m = s.name
      BY <2>4, <2>5
    <3>2. TARGETS[i] = s => s.name \notin DOMAIN f[i - 1]
      BY <2>5, <2>6
    <3>3. Claimed(r, f[i - 1], TARGETS[i]) # Raised
      BY <2>3
    <3> HIDE DEF Bad, Good
    <3> DEFINE g == f[i - 1]
               o == TARGETS[i]
    <3>4. o \in Specs /\ Claimed(r, g, o) # Raised
          /\ (\A m \in DOMAIN g : g[m] = T[n] => m = s.name)
          /\ (o = s => s.name \notin DOMAIN g)
      BY <2>3, <3>1, <3>2, <3>3
    <3> HIDE DEF g, o
    <3>5. \E d : /\ Claimed(r, g, o) = Over(g, Only(o.name, d))
                 /\ d = T[n] <=> o = s
      BY <3>4, ClaimLeavesRequired
    <3> QED BY <2>3, <3>5 DEF g, o
  <2>9. Upto(i) = Upto(i - 1) \union {TARGETS[i].name}
    BY <1>2, <2>2, <2>3, UptoNext
  <2>10. \A m \in Upto(i) : f[i][m] = IF m \in Upto(i - 1) THEN f[i - 1][m] ELSE d
    BY <2>5, <2>8, <2>9 DEF Over, Only
  <2>11. Good(i)
    BY <2>4, <2>6, <2>7, <2>8, <2>9, <2>10
  <2> QED
    BY <2>1, <2>11
<1>4. s.name \in Upto(N)
  BY <1>2 DEF Upto, RowOf, Specs, ToSet
<1>5. N \in 0 .. N
  BY <1>2
<1> QED
  BY <1>1, <1>3, <1>4, <1>5

-----------------------------------------------------------------------------
(* What each write leaves is a repository.                                 *)

\* The image of a finite set is finite.
LEMMA FiniteImage ==
  ASSUME NEW S, IsFiniteSet(S), NEW f, f = [x \in S |-> f[x]]
  PROVE  IsFiniteSet({f[x] : x \in S})
<1> DEFINE T == {f[x] : x \in S}
<1>1. f \in Surjection(S, T)
  BY DEF Surjection
<1> HIDE DEF T
<1>2. IsFiniteSet(T)
  BY <1>1, FS_Surjection
<1> QED
  BY <1>2 DEF T

\* There are finitely many targets, and directories of theirs.
LEMMA FinitelyMany ==
  /\ IsFiniteSet(Names)
  /\ \A c \in [Names -> Paths] :
       /\ IsFiniteSet({c[n] : n \in Names})
       /\ IsFiniteSet({SubSeq(d, 1, 1) : d \in {c[n] : n \in Names}})
<1>1. TARGETS \in Seq(Row) /\ Len(TARGETS) \in Nat
  BY FleetAssumption
<1>2. IsFiniteSet(Names)
  <2> DEFINE f == [i \in 1 .. Len(TARGETS) |-> TARGETS[i].name]
  <2>1. IsFiniteSet(1 .. Len(TARGETS))
    BY <1>1, FS_Interval
  <2>2. Names = {f[i] : i \in 1 .. Len(TARGETS)}
    BY <1>1 DEF Names, Specs, ToSet
  <2>3. f = [i \in 1 .. Len(TARGETS) |-> f[i]]
    OBVIOUS
  <2> HIDE DEF f
  <2> QED BY <2>1, <2>2, <2>3, FiniteImage
<1>3. ASSUME NEW c \in [Names -> Paths]
      PROVE  /\ IsFiniteSet({c[n] : n \in Names})
             /\ IsFiniteSet({SubSeq(d, 1, 1) : d \in {c[n] : n \in Names}})
  <2> DEFINE made == {c[n] : n \in Names}
             g == [d \in made |-> SubSeq(d, 1, 1)]
  <2>1. IsFiniteSet(made)
    BY <1>2, FiniteImage
  <2> HIDE DEF made
  <2>2. IsFiniteSet({g[d] : d \in made})
    <3>1. g = [d \in made |-> g[d]]
      OBVIOUS
    <3> HIDE DEF g
    <3> QED BY <2>1, <3>1, FiniteImage
  <2>3. {g[d] : d \in made} = {SubSeq(d, 1, 1) : d \in made}
    OBVIOUS
  <2> QED BY <2>1, <2>2, <2>3 DEF made
<1> QED
  BY <1>2, <1>3

\* What the form of a repository says nothing of can be anything.
LEMMA OtherParts ==
  ASSUME NEW r, IsRepo(r), NEW x
  PROVE  /\ IsRepo([r EXCEPT !.matrix = x])
         /\ x \in Surfaces \union {Nothing} => IsRepo([r EXCEPT !.surface = x])
         /\ IsRepo([r EXCEPT !.fingerprint = x])
         /\ IsRepo([r EXCEPT !.markers = x])
         /\ IsRepo([r EXCEPT !.manifest = x])
         /\ x \in Nat => IsRepo([r EXCEPT !.interfaces = x])
<1> DEFINE Same(q) == /\ q.dirs = r.dirs /\ q.impl = r.impl /\ q.targets = r.targets
                      /\ q.runtimes = r.runtimes
                      /\ q.surface \in Surfaces \union {Nothing} /\ q.interfaces \in Nat
           Whole(q) == q = [dirs |-> q.dirs, impl |-> q.impl, runtimes |-> q.runtimes,
                            targets |-> q.targets, interfaces |-> q.interfaces,
                            surface |-> q.surface, fingerprint |-> q.fingerprint,
                            markers |-> q.markers, manifest |-> q.manifest, matrix |-> q.matrix]
<1>1. ASSUME NEW q, Same(q), Whole(q)
      PROVE  IsRepo(q)
  BY <1>1 DEF IsRepo
<1>2. Whole(r) /\ r.surface \in Surfaces \union {Nothing} /\ r.interfaces \in Nat
  BY DEF IsRepo
<1>3. /\ Same([r EXCEPT !.matrix = x]) /\ Whole([r EXCEPT !.matrix = x])
      /\ x \in Surfaces \union {Nothing} => Same([r EXCEPT !.surface = x])
      /\ Whole([r EXCEPT !.surface = x])
      /\ Same([r EXCEPT !.fingerprint = x]) /\ Whole([r EXCEPT !.fingerprint = x])
      /\ Same([r EXCEPT !.markers = x]) /\ Whole([r EXCEPT !.markers = x])
      /\ Same([r EXCEPT !.manifest = x]) /\ Whole([r EXCEPT !.manifest = x])
      /\ x \in Nat => Same([r EXCEPT !.interfaces = x])
      /\ Whole([r EXCEPT !.interfaces = x])
  BY <1>2
<1> HIDE DEF Same, Whole
<1> QED
  BY <1>1, <1>3

\* A declaration with its documentation id is one.
LEMMA EnrichIsMembers ==
  ASSUME NEW m \in Seq([name : STRING, id : Nat \X STRING])
  PROVE  /\ Enrich(m) \in Seq([name : STRING, id : Nat \X STRING])
         /\ Enrich(Enrich(m)) = Enrich(m)
<1> DEFINE M == [name : STRING, id : Nat \X STRING]
           e(i) == IF m[i].id = NoId THEN [m[i] EXCEPT !.id = <<i, m[i].name>>] ELSE m[i]
<1>1. Len(m) \in Nat /\ DOMAIN m = 1 .. Len(m)
  OBVIOUS
<1>2. Enrich(m) = [i \in 1 .. Len(m) |-> e(i)]
  BY <1>1 DEF Enrich
<1>3. ASSUME NEW i \in 1 .. Len(m)
      PROVE  e(i) \in M /\ e(i).id # NoId
  <2>1. m[i] \in M /\ i \in Nat /\ i # 0
    <3>1. \A S : \A q \in Seq(S) : \A j \in 1 .. Len(q) : q[j] \in S
      OBVIOUS
    <3>2. m \in Seq(M) /\ i \in 1 .. Len(m)
      OBVIOUS
    <3> HIDE DEF M
    <3> QED BY <1>1, <3>1, <3>2
  <2>2. m[i].name \in STRING /\ m[i].id \in Nat \X STRING
    BY <2>1
  <2>3. <<i, m[i].name>> \in Nat \X STRING /\ <<i, m[i].name>> # NoId
    <3>1. PICK x : NoId = <<0, x>>
      BY DEF NoId
    <3>2. \A y : <<i, y>> # <<0, x>>
      BY <2>1
    <3> QED BY <2>1, <2>2, <3>1, <3>2
  <2>4. ASSUME NEW x \in Nat \X STRING
        PROVE  [m[i] EXCEPT !.id = x] \in M /\ [m[i] EXCEPT !.id = x].id = x
    BY <2>1
  <2> QED BY <2>1, <2>3, <2>4
<1> HIDE DEF e, M
<1>4. Enrich(m) \in Seq(M)
  <2>1. [i \in 1 .. Len(m) |-> e(i)] \in [1 .. Len(m) -> M]
    BY <1>3
  <2>2. \A n \in Nat : \A f \in [1 .. n -> M] : f \in Seq(M)
    OBVIOUS
  <2> QED BY <1>1, <1>2, <2>1, <2>2
<1>5. Enrich(Enrich(m)) = Enrich(m)
  <2> DEFINE w == [i \in 1 .. Len(m) |-> e(i)]
  <2>1. DOMAIN w = 1 .. Len(m) /\ \A i \in 1 .. Len(m) : w[i] = e(i)
    OBVIOUS
  <2> HIDE DEF w
  <2>2. Enrich(w) = [i \in DOMAIN w |-> IF w[i].id = NoId THEN [w[i] EXCEPT !.id = <<i, w[i].name>>]
                                         ELSE w[i]]
    BY DEF Enrich
  <2>3. Enrich(w) = [i \in 1 .. Len(m) |-> e(i)]
    BY <2>1, <2>2, <1>3
  <2> QED BY <1>2, <2>3 DEF w
<1> QED
  BY <1>4, <1>5 DEF M

\* What it makes of a surface, part by part.
WithParts(t, e, g, h) == [t EXCEPT !.names = e, !.members = g, !.interfaces = h]
LEMMA SurfaceParts ==
  ASSUME NEW a, NEW b, NEW c, NEW d, NEW e, NEW g, NEW h, NEW t,
         t = [names |-> a, uses |-> b, members |-> c, interfaces |-> d]
  PROVE  WithParts(t, e, g, h) = [names |-> e, uses |-> b, members |-> g, interfaces |-> h]
<1>1. [t EXCEPT !.names = e] = [names |-> e, uses |-> b, members |-> c, interfaces |-> d]
  OBVIOUS
<1>2. \A u : u = [names |-> e, uses |-> b, members |-> c, interfaces |-> d] =>
        [u EXCEPT !.members = g] = [names |-> e, uses |-> b, members |-> g, interfaces |-> d]
  OBVIOUS
<1>3. \A u : u = [names |-> e, uses |-> b, members |-> g, interfaces |-> d] =>
        [u EXCEPT !.interfaces = h] = [names |-> e, uses |-> b, members |-> g, interfaces |-> h]
  OBVIOUS
<1> QED
  BY <1>1, <1>2, <1>3 DEF WithParts

\* What the hardening writes is a surface, and it has nothing to add to its own.
LEMMA HardenedIsSurface ==
  ASSUME NEW r, IsRepo(r)
  PROVE  /\ Hardened(r) \in Surfaces
         /\ \A q : q.surface = Hardened(r) /\ q.interfaces = r.interfaces => Hardened(q) = Hardened(r)
<1> DEFINE Bare == [names |-> Standard, uses |-> {}, members |-> <<>>, interfaces |-> r.interfaces]
           Full(s) == WithParts(s, s.names \union Standard, Enrich(s.members), r.interfaces)
<1>1. r.surface \in Surfaces \union {Nothing} /\ r.interfaces \in Nat
  BY DEF IsRepo
<1>2. ASSUME NEW s \in Surfaces
      PROVE  Full(s) \in Surfaces /\ Full(Full(s)) = Full(s)
  <2> DEFINE m == Enrich(s.members)
             t == [names |-> s.names \union Standard, uses |-> s.uses, members |-> m,
                   interfaces |-> r.interfaces]
  <2>1. /\ s.members \in Seq([name : STRING, id : Nat \X STRING])
        /\ s.names \in SUBSET STRING /\ s.uses \in SUBSET STRING
        /\ s = [names |-> s.names, uses |-> s.uses, members |-> s.members,
                interfaces |-> s.interfaces]
    BY DEF Surfaces
  <2>2. m \in Seq([name : STRING, id : Nat \X STRING]) /\ Enrich(m) = m
    BY <2>1, EnrichIsMembers
  <2> HIDE DEF m
  <2>3. Full(s) = t
    <3>1. \A e, g, h : WithParts(s, e, g, h) = [names |-> e, uses |-> s.uses, members |-> g, interfaces |-> h]
      BY <2>1, SurfaceParts
    <3> QED BY <3>1 DEF m
  <2>4. Full(t) = t
    <3>1. t.names \union Standard = t.names /\ Enrich(t.members) = t.members
      BY <2>2
    <3>2. WithParts(t, t.names \union Standard, Enrich(t.members), r.interfaces)
            = [names |-> t.names \union Standard, uses |-> s.uses, members |-> Enrich(t.members),
               interfaces |-> r.interfaces]
      BY SurfaceParts
    <3>3. t.names = s.names \union Standard /\ t.members = m
      OBVIOUS
    <3> HIDE DEF t
    <3>4. Full(t) = [names |-> t.names \union Standard, uses |-> s.uses, members |-> Enrich(t.members),
               interfaces |-> r.interfaces]
      BY <3>2
    <3> QED BY <3>1, <3>3, <3>4 DEF t
  <2>5. t \in Surfaces
    BY <1>1, <2>1, <2>2, SurfaceAssumption DEF Surfaces
  <2> QED BY <2>3, <2>4, <2>5
<1>3. Bare \in Surfaces /\ Full(Bare) = Bare
  <2>1. Enrich(<<>>) = <<>> /\ <<>> \in Seq([name : STRING, id : Nat \X STRING])
    BY DEF Enrich
  <2>2. Bare \in Surfaces
    <3>1. Standard \in SUBSET STRING /\ {} \in SUBSET STRING
      BY SurfaceAssumption
    <3> QED BY <1>1, <2>1, <3>1 DEF Surfaces
  <2>3. Bare.names \union Standard = Bare.names /\ Enrich(Bare.members) = Bare.members
    BY <2>1
  <2>4. \A e, g, h : WithParts(Bare, e, g, h) = [names |-> e, uses |-> {}, members |-> g, interfaces |-> h]
    <3>1. \A a, b, c, d, e, g, h :
            WithParts([names |-> a, uses |-> b, members |-> c, interfaces |-> d], e, g, h)
              = [names |-> e, uses |-> b, members |-> g, interfaces |-> h]
      BY SurfaceParts
    <3> DEFINE none == {}
               empty == <<>>
               d == r.interfaces
               bare == [names |-> Standard, uses |-> none, members |-> empty, interfaces |-> d]
    <3> HIDE DEF none, empty, d
    <3>2. \A e, g, h :
            WithParts(bare, e, g, h) = [names |-> e, uses |-> none, members |-> g, interfaces |-> h]
      BY <3>1
    <3>3. bare = Bare
      BY DEF none, empty, d
    <3> HIDE DEF bare, Bare
    <3> QED BY <3>2, <3>3 DEF none
  <2>5. Bare.names = Standard /\ Bare.members = <<>>
    OBVIOUS
  <2> HIDE DEF Bare
  <2>6. Full(Bare) = [names |-> Bare.names \union Standard, uses |-> {},
                      members |-> Enrich(Bare.members), interfaces |-> r.interfaces]
    BY <2>4
  <2> QED BY <2>2, <2>3, <2>5, <2>6 DEF Bare
<1>4. Hardened(r) = IF r.surface = Nothing THEN Bare ELSE Full(r.surface)
  BY DEF Hardened, WithParts
<1>5. \A q : q.interfaces = r.interfaces =>
        Hardened(q) = IF q.surface = Nothing THEN Bare ELSE Full(q.surface)
  BY DEF Hardened, WithParts
<1> HIDE DEF Bare, Full
<1>6. Hardened(r) \in Surfaces /\ Full(Hardened(r)) = Hardened(r)
  BY <1>1, <1>2, <1>3, <1>4
<1> QED
  BY <1>5, <1>6, SurfaceAssumption

\* What is changed is the directories.
WithDirs(r, D, S, M, R) == [r EXCEPT !.dirs = D, !.impl = S, !.markers = M, !.runtimes = R]
LEMMA OtherDirs ==
  ASSUME NEW r, IsRepo(r), NEW D, NEW S, NEW M, NEW R,
         D \subseteq Paths, IsFiniteSet(D), \A e \in D : SubSeq(e, 1, 1) \in D, S \in [D -> Files],
         R # {} => Typescript \in D
  PROVE  /\ IsRepo(WithDirs(r, D, S, M, R))
         /\ R = r.runtimes => IsRepo([r EXCEPT !.dirs = D, !.impl = S])
<1> DEFINE Whole(x) == x = [dirs |-> x.dirs, impl |-> x.impl, runtimes |-> x.runtimes,
                            targets |-> x.targets, interfaces |-> x.interfaces,
                            surface |-> x.surface, fingerprint |-> x.fingerprint,
                            markers |-> x.markers, manifest |-> x.manifest, matrix |-> x.matrix]
           Same(x) == /\ x.targets = r.targets /\ x.interfaces = r.interfaces
                      /\ x.surface = r.surface
           o == [r EXCEPT !.dirs = D]
           p == [o EXCEPT !.impl = S]
           n == [p EXCEPT !.markers = M]
           m == [n EXCEPT !.runtimes = R]
<1>1. Whole(r)
  BY DEF IsRepo
<1>2. Whole(o) /\ Same(o) /\ o.dirs = D /\ o.runtimes = r.runtimes
  BY <1>1
<1> HIDE DEF o
<1>3. Whole(p) /\ Same(p) /\ p.dirs = D /\ p.runtimes = r.runtimes /\ p.impl = S
  BY <1>2
<1> HIDE DEF p
<1>4. Whole(n) /\ Same(n) /\ n.dirs = D /\ n.impl = S
  BY <1>3
<1> HIDE DEF n
<1>5. Whole(m) /\ Same(m) /\ m.dirs = D /\ m.runtimes = R /\ m.impl = S
  BY <1>4
<1> HIDE DEF m
<1>6. WithDirs(r, D, S, M, R) = m /\ [r EXCEPT !.dirs = D, !.impl = S] = p
  BY DEF m, n, p, o, WithDirs
<1>7. ASSUME NEW x, Whole(x), Same(x), x.dirs = D, x.impl = S, x.runtimes = R
      PROVE  IsRepo(x)
  BY <1>7 DEF IsRepo
<1> HIDE DEF Whole, Same
<1> QED
  BY <1>3, <1>5, <1>6, <1>7

\* A repository with more directories and files, in which hand-written ones are as
\* they were.
Kept(q, r, d) ==
  /\ r.impl[d].source > 0 => q.impl[d].source = r.impl[d].source
  /\ r.impl[d].metadata > 0 => q.impl[d].metadata = r.impl[d].metadata
  /\ q.impl[d].other = r.impl[d].other
  /\ HasProduct(r, d) => q.impl[d] = r.impl[d]
Grown(q, r) ==
  /\ q = [r EXCEPT !.dirs = q.dirs, !.impl = q.impl]
  /\ r.dirs \subseteq q.dirs
  /\ \A d \in r.dirs : Kept(q, r, d)

\* A path is seen from itself.
LEMMA SeesItself ==
  ASSUME NEW d \in Paths
  PROVE  Seen(d, d)
<1>1. Len(d) \in Nat /\ IsPrefix(d, d)
  BY PathLength, TopIsPrefix
<1>2. Len(d) + 1 .. Len(d) = {}
  BY <1>1
<1> QED
  BY <1>1, <1>2 DEF Seen

\* Sources are a product.
LEMMA SourcesAreProduct ==
  ASSUME NEW r, IsRepo(r), NEW d \in r.dirs, r.impl[d].source > 0
  PROVE  HasProduct(r, d)
BY SeesItself DEF HasProduct, IsRepo

\* Growing is transitive, and reflexive.
LEMMA GrownGrows ==
  ASSUME NEW r, IsRepo(r)
  PROVE  /\ Grown(r, r)
         /\ \A p, q : Grown(q, r) /\ Grown(p, q) /\ IsRepo(q) => Grown(p, r)
<1>1. Grown(r, r)
  BY DEF Grown, Kept, IsRepo
<1>2. ASSUME NEW p, NEW q, Grown(q, r), Grown(p, q), IsRepo(q)
      PROVE  Grown(p, r)
  <2>1. p = [r EXCEPT !.dirs = p.dirs, !.impl = p.impl]
    BY <1>2 DEF Grown, IsRepo
  <2>2. \A d : HasProduct(r, d) => HasProduct(q, d)
    BY <1>2 DEF Grown, Kept, HasProduct
  <2>3. \A d \in r.dirs : r.impl[d] \in Files /\ q.impl[d] \in Files
    BY <1>2 DEF Grown, IsRepo
  <2> QED
    BY <1>2, <2>1, <2>2, <2>3 DEF Grown, Kept
<1> QED
  BY <1>1, <1>2

\* A directory is made with the one that it is in.
LEMMA MadeDirIsRepo ==
  ASSUME NEW r, IsRepo(r), NEW d \in Paths
  PROVE  /\ IsRepo(MadeDir(r, d)) /\ Grown(MadeDir(r, d), r)
         /\ MadeDir(r, d).dirs = r.dirs \union {d, SubSeq(d, 1, 1)}
         /\ MadeDir(r, d).impl = [e \in r.dirs \union {d, SubSeq(d, 1, 1)} |->
                                    IF e \in r.dirs THEN r.impl[e] ELSE NoFiles]
<1> DEFINE top == SubSeq(d, 1, 1)
           dirs == r.dirs \union {d, top}
           files == [e \in dirs |-> IF e \in r.dirs THEN r.impl[e] ELSE NoFiles]
           q == [r EXCEPT !.dirs = dirs, !.impl = files]
<1>1. top \in Paths /\ SubSeq(top, 1, 1) = top
  BY TopOfPath
<1>2. MadeDir(r, d) = q
  BY DEF MadeDir
<1>3. files \in [dirs -> Files]
  <2>1. NoFiles \in Files
    BY DEF NoFiles, Files
  <2>2. \A e \in r.dirs : r.impl[e] \in Files
    BY DEF IsRepo
  <2> HIDE DEF dirs
  <2> QED BY <2>1, <2>2
<1>4. /\ dirs \subseteq Paths /\ \A e \in dirs : SubSeq(e, 1, 1) \in dirs
      /\ IsFiniteSet(dirs)
  <2>1. IsFiniteSet(r.dirs \union {d}) /\ dirs = (r.dirs \union {d}) \union {top}
    BY FS_AddElement DEF IsRepo
  <2>2. IsFiniteSet(dirs)
    <3> HIDE DEF top
    <3> QED BY <2>1, FS_AddElement
  <2> QED BY <1>1, <2>2 DEF IsRepo
<1>5. r.runtimes # {} => Typescript \in dirs
  BY DEF IsRepo
<1>6. /\ \A e \in r.dirs : files[e] = r.impl[e]
      /\ r.dirs \subseteq dirs
  OBVIOUS
<1> HIDE DEF dirs, files
<1>7. IsRepo(q)
  BY <1>3, <1>4, <1>5, OtherDirs
<1>8. q.dirs = dirs /\ q.impl = files
  BY DEF IsRepo
<1>9. Grown(q, r)
  BY <1>6, <1>8 DEF Grown, Kept, IsRepo
<1> HIDE DEF q
<1> QED
  BY <1>2, <1>7, <1>8, <1>9 DEF dirs, files

\* What has been written of a scaffold.
LEMMA ScaffoldedIsRepo ==
  ASSUME NEW r, IsRepo(r), NEW s \in Specs, NEW d \in r.dirs,
         NEW n \in 0 .. s.metadata + s.sources
  PROVE  /\ IsRepo(Scaffolded(r, s, d, n)) /\ Grown(Scaffolded(r, s, d, n), r)
         /\ Scaffolded(r, s, d, n).dirs = r.dirs
<1>1. CASE HasProduct(r, d) \/ (s.runtime # NoRuntime /\ d = Typescript)
  BY <1>1, GrownGrows DEF Scaffolded
<1>2. CASE ~(HasProduct(r, d) \/ (s.runtime # NoRuntime /\ d = Typescript))
  <2> DEFINE b == Begin(r.impl[d], s, n)
             files == [r.impl EXCEPT ![d] = b]
             q == [r EXCEPT !.impl = files]
  <2>1. Scaffolded(r, s, d, n) = q
    BY <1>2 DEF Scaffolded
  <2>2. s.metadata \in Nat /\ s.sources \in Nat /\ n \in Nat
    BY RowType DEF Row
  <2>3. r.impl[d] \in Files /\ r.impl \in [r.dirs -> Files]
    BY DEF IsRepo
  <2>4. /\ b \in Files
        /\ b.other = r.impl[d].other
        /\ r.impl[d].metadata > 0 => b.metadata = r.impl[d].metadata
    <3>1. /\ (IF r.impl[d].metadata > 0 \/ n = 0 THEN r.impl[d].metadata ELSE s.metadata) \in Nat
          /\ (IF n > s.metadata THEN n - s.metadata ELSE 0) \in Nat
      BY <2>2, <2>3 DEF Files
    <3> QED
      BY <2>3, <3>1 DEF Begin, Files
  <2> HIDE DEF b
  <2>5. files \in [r.dirs -> Files] /\ \A e \in r.dirs : files[e] = IF e = d THEN b ELSE r.impl[e]
    BY <2>3, <2>4
  <2>6. ~(r.impl[d].source > 0)
    BY <1>2, SourcesAreProduct
  <2> HIDE DEF files
  <2>7. q.dirs = r.dirs /\ q.impl = files /\ q = [r EXCEPT !.dirs = r.dirs, !.impl = files]
    BY DEF IsRepo
  <2>8. IsRepo(q)
    <3>1. /\ r.dirs \subseteq Paths /\ IsFiniteSet(r.dirs)
          /\ \A e \in r.dirs : SubSeq(e, 1, 1) \in r.dirs
          /\ r.runtimes # {} => Typescript \in r.dirs
      BY DEF IsRepo
    <3>2. IsRepo([r EXCEPT !.dirs = r.dirs, !.impl = files])
      BY <2>5, <3>1, OtherDirs
    <3> QED BY <2>7, <3>2
  <2> HIDE DEF q
  <2>9. Grown(q, r)
    BY <1>2, <2>4, <2>5, <2>6, <2>7 DEF Grown, Kept
  <2> QED
    BY <2>1, <2>7, <2>8, <2>9
<1> QED
  BY <1>1, <1>2

\* The repository row by row.
Scaffolds(r, c, f, n) ==
  f = [i \in 0 .. n |->
         IF i = 0 THEN r ELSE ScaffoldRow(f[i - 1], TARGETS[i], c[TARGETS[i].name])]

LEMMA ScaffoldsExist ==
  ASSUME NEW r, NEW c
  PROVE  \A n \in Nat : \E f : Scaffolds(r, c, f, n)
<1> DEFINE Bad == {n \in Nat : ~\E f : Scaffolds(r, c, f, n)}
           Row1(q, i) == ScaffoldRow(q, TARGETS[i], c[TARGETS[i].name])
<1> SUFFICES ASSUME Bad # {}
             PROVE  FALSE
  OBVIOUS
<1>1. PICK n \in Bad : \A m \in Bad : n <= m
  <2>1. Bad \in SUBSET Nat
    OBVIOUS
  <2> HIDE DEF Bad
  <2> QED BY <2>1, Least
<1>2. CASE n = 0
  <2>1. Scaffolds(r, c, [i \in 0 .. 0 |-> r], 0)
    BY DEF Scaffolds
  <2> QED BY <2>1, <1>2
<1>3. CASE n # 0
  <2>1. n - 1 \in Nat /\ n - 1 \notin Bad
    BY <1>1, <1>3
  <2>2. PICK f : Scaffolds(r, c, f, n - 1)
    BY <2>1
  <2> DEFINE last == Row1(f[n - 1], n)
             g == [i \in 0 .. n |-> IF i = n THEN last ELSE f[i]]
  <2>3. \A i \in 0 .. n - 1 : f[i] = IF i = 0 THEN r ELSE Row1(f[i - 1], i)
    BY <2>2 DEF Scaffolds
  <2>4. \A i \in 0 .. n : g[i] = IF i = 0 THEN r ELSE Row1(g[i - 1], i)
    <3> SUFFICES ASSUME NEW i \in 0 .. n
                 PROVE  g[i] = IF i = 0 THEN r ELSE Row1(g[i - 1], i)
      OBVIOUS
    <3>1. CASE i = n
      <4>1. g[i] = last /\ g[i - 1] = f[n - 1] /\ i # 0
        BY <3>1, <1>3, <2>1
      <4> QED BY <4>1, <3>1
    <3>2. CASE i # n
      <4>1. i \in 0 .. n - 1 /\ g[i] = f[i] /\ (i # 0 => g[i - 1] = f[i - 1])
        BY <3>2
      <4> HIDE DEF g, Row1
      <4> QED BY <4>1, <2>3
    <3> QED BY <3>1, <3>2
  <2>5. Scaffolds(r, c, g, n)
    <3>1. g = [i \in 0 .. n |-> g[i]]
      OBVIOUS
    <3> HIDE DEF g
    <3> QED BY <2>4, <3>1 DEF Scaffolds
  <2> QED
    BY <2>5
<1> QED
  BY <1>2, <1>3

\* Two solutions agree where both are defined.
LEMMA ScaffoldsAgree ==
  ASSUME NEW r, NEW c, NEW n \in Nat, NEW m \in 0 .. n, NEW f, NEW g,
         Scaffolds(r, c, f, n), Scaffolds(r, c, g, m)
  PROVE  f[m] = g[m]
<1> DEFINE Bad == {i \in 0 .. m : f[i] # g[i]}
<1>1. \A i \in 0 .. m :
        /\ f[i] = IF i = 0 THEN r ELSE ScaffoldRow(f[i - 1], TARGETS[i], c[TARGETS[i].name])
        /\ g[i] = IF i = 0 THEN r ELSE ScaffoldRow(g[i - 1], TARGETS[i], c[TARGETS[i].name])
  BY DEF Scaffolds
<1>2. Bad = {}
  <2> SUFFICES ASSUME Bad # {}
               PROVE  FALSE
    OBVIOUS
  <2>1. PICK i \in Bad : \A j \in Bad : i <= j
    <3>1. Bad \in SUBSET Nat
      OBVIOUS
    <3> HIDE DEF Bad
    <3> QED BY <3>1, Least
  <2>2. i # 0
    BY <2>1, <1>1
  <2>3. i - 1 \in 0 .. m /\ i - 1 \notin Bad
    BY <2>1, <2>2
  <2> QED
    BY <1>1, <2>1, <2>2, <2>3
<1> QED
  BY <1>2

\* One row more.
LEMMA ScaffoldNext ==
  ASSUME NEW r, NEW c
  PROVE  /\ ScaffoldTo(r, c, 0) = r
         /\ \A n \in Nat \ {0} :
              ScaffoldTo(r, c, n) =
                ScaffoldRow(ScaffoldTo(r, c, n - 1), TARGETS[n], c[TARGETS[n].name])
<1> DEFINE After(n) == CHOOSE f : Scaffolds(r, c, f, n)
<1>1. \A n \in Nat : ScaffoldTo(r, c, n) = After(n)[n] /\ Scaffolds(r, c, After(n), n)
  <2> SUFFICES ASSUME NEW n \in Nat
               PROVE  ScaffoldTo(r, c, n) = After(n)[n] /\ Scaffolds(r, c, After(n), n)
    OBVIOUS
  <2>1. Scaffolds(r, c, After(n), n)
    BY ScaffoldsExist
  <2>2. ScaffoldTo(r, c, n) = After(n)[n]
    BY DEF ScaffoldTo, Scaffolds
  <2> QED BY <2>1, <2>2
<1> HIDE DEF After
<1>2. ScaffoldTo(r, c, 0) = r
  BY <1>1 DEF Scaffolds
<1>3. ASSUME NEW n \in Nat \ {0}
      PROVE  ScaffoldTo(r, c, n) =
               ScaffoldRow(ScaffoldTo(r, c, n - 1), TARGETS[n], c[TARGETS[n].name])
  <2>1. n \in 0 .. n /\ n - 1 \in 0 .. n /\ n - 1 \in Nat
    OBVIOUS
  <2>2. After(n)[n] = ScaffoldRow(After(n)[n - 1], TARGETS[n], c[TARGETS[n].name])
    BY <1>1, <2>1 DEF Scaffolds
  <2>3. After(n)[n - 1] = After(n - 1)[n - 1]
    BY <1>1, <2>1, ScaffoldsAgree
  <2> QED BY <1>1, <2>1, <2>2, <2>3
<1> QED
  BY <1>2, <1>3

\* A row's scaffold.
LEMMA RowIsRepo ==
  ASSUME NEW r, IsRepo(r), NEW s \in Specs, NEW d \in Paths
  PROVE  /\ IsRepo(ScaffoldRow(r, s, d)) /\ Grown(ScaffoldRow(r, s, d), r)
         /\ ScaffoldRow(r, s, d).dirs = r.dirs \union {d, SubSeq(d, 1, 1)}
<1> DEFINE q == MadeDir(r, d)
           n == s.metadata + s.sources
<1>1. IsRepo(q) /\ Grown(q, r) /\ q.dirs = r.dirs \union {d, SubSeq(d, 1, 1)}
  BY MadeDirIsRepo
<1>2. n \in 0 .. n
  BY RowType DEF Row
<1>3. d \in q.dirs
  BY <1>1
<1> HIDE DEF q
<1>4. /\ IsRepo(Scaffolded(q, s, d, n)) /\ Grown(Scaffolded(q, s, d, n), q)
      /\ Scaffolded(q, s, d, n).dirs = q.dirs
  BY <1>1, <1>2, <1>3, ScaffoldedIsRepo
<1>5. Grown(Scaffolded(q, s, d, n), r)
  BY <1>1, <1>4, GrownGrows
<1> QED
  BY <1>1, <1>4, <1>5 DEF ScaffoldRow, q

\* The directories of the first rows, and those that they are in.
DirsOf(c, n) ==
  UNION {{c[TARGETS[i].name], SubSeq(c[TARGETS[i].name], 1, 1)} : i \in 1 .. n}

\* The repository after each row.
LEMMA ScaffoldToIsRepo ==
  ASSUME NEW r, IsRepo(r), NEW c \in [Names -> Paths]
  PROVE  \A n \in 0 .. Len(TARGETS) :
           /\ IsRepo(ScaffoldTo(r, c, n)) /\ Grown(ScaffoldTo(r, c, n), r)
           /\ ScaffoldTo(r, c, n).dirs = r.dirs \union DirsOf(c, n)
<1> DEFINE Good(n) == /\ IsRepo(ScaffoldTo(r, c, n)) /\ Grown(ScaffoldTo(r, c, n), r)
                      /\ ScaffoldTo(r, c, n).dirs = r.dirs \union DirsOf(c, n)
           Bad == {n \in 0 .. Len(TARGETS) : ~Good(n)}
<1>1. TARGETS \in Seq(Row) /\ Len(TARGETS) \in Nat
  BY FleetAssumption
<1> SUFFICES ASSUME Bad # {}
             PROVE  FALSE
  OBVIOUS
<1>2. PICK n \in Bad : \A m \in Bad : n <= m
  <2>1. Bad \in SUBSET Nat
    BY <1>1
  <2> HIDE DEF Bad
  <2> QED BY <2>1, Least
<1>3. n # 0
  <2>1. DirsOf(c, 0) = {}
    BY DEF DirsOf
  <2> QED BY <1>2, <2>1, ScaffoldNext, GrownGrows
<1>4. n \in 1 .. Len(TARGETS) /\ n - 1 \in 0 .. Len(TARGETS) /\ n \in Nat \ {0}
  BY <1>1, <1>2, <1>3
<1>5. Good(n - 1)
  <2>1. ~(n <= n - 1)
    BY <1>4
  <2>2. n - 1 \notin Bad
    <3> HIDE DEF Bad
    <3> QED BY <1>2, <2>1
  <2> HIDE DEF Good
  <2> QED BY <1>4, <2>2
<1> DEFINE q == ScaffoldTo(r, c, n - 1)
           s == TARGETS[n]
           d == c[s.name]
<1>6. s \in Specs /\ d \in Paths
  BY <1>1, <1>4 DEF Specs, Names, ToSet
<1>7. ScaffoldTo(r, c, n) = ScaffoldRow(q, s, d)
  <2> HIDE DEF Bad
  <2> QED BY <1>4, ScaffoldNext
<1>8. DirsOf(c, n) = DirsOf(c, n - 1) \union {d, SubSeq(d, 1, 1)}
  <2>1. 1 .. n = (1 .. n - 1) \union {n}
    BY <1>4
  <2> QED BY <2>1 DEF DirsOf
<1>9. IsRepo(q) /\ Grown(q, r) /\ q.dirs = r.dirs \union DirsOf(c, n - 1)
  BY <1>5
<1>10. ~Good(n)
  BY <1>2
<1> HIDE DEF q, s, d, Bad
<1>11. /\ IsRepo(ScaffoldRow(q, s, d)) /\ Grown(ScaffoldRow(q, s, d), q)
       /\ ScaffoldRow(q, s, d).dirs = q.dirs \union {d, SubSeq(d, 1, 1)}
  BY <1>6, <1>9, RowIsRepo
<1>12. Grown(ScaffoldRow(q, s, d), r)
  BY <1>9, <1>11, GrownGrows
<1> QED
  BY <1>7, <1>8, <1>9, <1>10, <1>11, <1>12

\* The directories that scaffolds are made in come with their ancestors.
LEMMA ScaffoldIsRepo ==
  ASSUME NEW r, IsRepo(r), NEW chosen \in [Names -> Paths]
  PROVE  /\ IsRepo(Scaffold(r, chosen)) /\ Grown(Scaffold(r, chosen), r)
         /\ Scaffold(r, chosen).dirs = r.dirs \union DirsOf(chosen, Len(TARGETS))
<1>1. Len(TARGETS) \in 0 .. Len(TARGETS)
  BY FleetAssumption
<1> QED
  BY <1>1, ScaffoldToIsRepo DEF Scaffold

\* A manifest that is written anew gives no target of the fleet the repository itself.
LEMMA ManifestIsRepo ==
  ASSUME NEW r, IsRepo(r), NEW chosen \in [Names -> Paths]
  PROVE  IsRepo(EnsureManifest(r, chosen))
<1> DEFINE published == {t \in Specs : t.publish}
           placed == [z \in {s.zed : s \in published} |->
                        chosen[(CHOOSE s \in Specs : s.publish /\ s.zed = z).name]]
<1>1. \A z \in DOMAIN placed : placed[z] \in Paths
  <2> SUFFICES ASSUME NEW z \in {s.zed : s \in published}
               PROVE  placed[z] \in Paths
    OBVIOUS
  <2>1. (CHOOSE s \in Specs : s.publish /\ s.zed = z) \in Specs
    OBVIOUS
  <2> QED BY <2>1 DEF Names
<1>2. PICK kept \in SUBSET DOMAIN r.targets :
        \/ EnsureManifest(r, chosen) = r
        \/ EnsureManifest(r, chosen) =
             [r EXCEPT !.targets = Over([n \in {"repository"} |-> Root],
                                        Over(placed, [n \in kept |-> r.targets[n]]))]
  BY DEF EnsureManifest
<1> HIDE DEF placed
<1>3. ASSUME NEW t,
             t = Over([n \in {"repository"} |-> Root], Over(placed, [n \in kept |-> r.targets[n]])),
             NEW n \in DOMAIN t \intersect TargetNames
      PROVE  t[n] # Root
  <2>1. n # "repository"
    BY FleetAssumption
  <2>2. \/ n \in DOMAIN placed /\ t[n] = placed[n]
        \/ n \in kept /\ t[n] = r.targets[n]
    BY <1>3, <2>1 DEF Over
  <2> QED
    BY <2>2, <1>1 DEF IsRepo, Paths
<1>4. ASSUME NEW t, \A n \in DOMAIN t \intersect TargetNames : t[n] # Root
      PROVE  IsRepo([r EXCEPT !.targets = t])
  BY <1>4 DEF IsRepo
<1> QED
  BY <1>2, <1>3, <1>4

-----------------------------------------------------------------------------
(* The writes of a run.                                                    *)

\* What each write of Writes is.
LEMMA WriteAt ==
  ASSUME NEW q, NEW c
  PROVE  /\ Len(Writes) = 7
         /\ Written(q, c, Writes[1]) = Scaffold(q, c)
         /\ Written(q, c, Writes[2]) = EnsureManifest(q, c)
         /\ Written(q, c, Writes[3]) = EnsureMatrix(q, c)
         /\ Written(q, c, Writes[4]) = WriteSurface(q)
         /\ Written(q, c, Writes[5]) = WriteFingerprint(q)
         /\ Written(q, c, Writes[6]) = WriteMarkers(q, c)
         /\ Written(q, c, Writes[7]) = WriteContractManifest(q, c)
<1>1. /\ Len(Writes) = 7
      /\ Writes[1] = "scaffold" /\ Writes[2] = "manifest" /\ Writes[3] = "matrix"
      /\ Writes[4] = "surface" /\ Writes[5] = "fingerprint" /\ Writes[6] = "markers"
      /\ Writes[7] = "contract"
  BY DEF Writes
<1> QED
  BY <1>1 DEF Written

\* The disk after each of the first n writes.
Further(steps, c, w) == Append(steps, Written(Last(steps), c, w))
Steps(r, c, f, n) ==
  f = [i \in 0 .. n |-> IF i = 0 THEN <<r>> ELSE Further(f[i - 1], c, Writes[i])]
\* The steps of s are the writes.
Made(r, c, s) ==
  /\ Len(s) = 8 /\ s[1] = r
  /\ \A k \in 1 .. 7 : s[k + 1] = Written(s[k], c, Writes[k])

Beginnings(s, n) == [i \in 0 .. n |-> SubSeq(s, 1, i + 1)]

\* A prefix of a sequence, and the one that is longer by an element.
LEMMA LongerPrefix ==
  ASSUME NEW S, NEW s \in Seq(S), NEW i \in 1 .. Len(s), i < Len(s)
  PROVE  /\ Append(SubSeq(s, 1, i), s[i + 1]) = SubSeq(s, 1, i + 1)
         /\ Last(SubSeq(s, 1, i)) = s[i]
<1>1. i \in Nat /\ i >= 1 /\ Len(s) \in Nat /\ \A j \in 1 .. i + 1 : s[j] \in S
  OBVIOUS
<1> DEFINE p == SubSeq(s, 1, i)
           q == SubSeq(s, 1, i + 1)
<1>2. p \in Seq(S) /\ Len(p) = i /\ \A j \in 1 .. i : p[j] = s[j]
  BY <1>1, SubSeqProperties
<1>3. q \in Seq(S) /\ Len(q) = i + 1 /\ \A j \in 1 .. i + 1 : q[j] = s[j]
  BY <1>1, SubSeqProperties
<1> HIDE DEF p, q
<1>4. /\ Append(p, s[i + 1]) \in Seq(S) /\ Len(Append(p, s[i + 1])) = i + 1
      /\ \A j \in 1 .. i : Append(p, s[i + 1])[j] = p[j]
      /\ Append(p, s[i + 1])[i + 1] = s[i + 1]
  BY <1>1, <1>2, AppendProperties
<1>5. Append(p, s[i + 1]) = q
  <2>1. \A j \in 1 .. i + 1 : Append(p, s[i + 1])[j] = q[j]
    BY <1>1, <1>2, <1>3, <1>4
  <2> QED BY <2>1, <1>3, <1>4, SeqEqual
<1>6. Last(p) = s[i]
  BY <1>1, <1>2 DEF Last
<1> QED
  BY <1>5, <1>6 DEF p, q

\* What is on the disk after i writes is the beginning of what is there after all.
LEMMA StepsArePrefixes ==
  ASSUME NEW r, NEW c, NEW S, NEW s \in Seq(S), Made(r, c, s),
         NEW n \in 0 .. 7, NEW f
  PROVE  Steps(r, c, f, n) <=> f = Beginnings(s, n)
<1>1. SubSeq(s, 1, 1) = <<r>>
  <2>1. s[1] \in S
    <3>1. Len(s) = 8
      BY DEF Made
    <3>2. \A j \in 1 .. Len(s) : s[j] \in S
      OBVIOUS
    <3>3. 1 \in 1 .. Len(s)
      BY <3>1
    <3> QED BY <3>2, <3>3
  <2>2. \A j \in 1 .. 1 : s[j] \in S
    BY <2>1
  <2>3. SubSeq(s, 1, 1) \in Seq(S) /\ Len(SubSeq(s, 1, 1)) = 1 /\ SubSeq(s, 1, 1)[1] = s[1]
    BY <2>2, SubSeqProperties
  <2>4. <<r>> \in Seq(S) /\ Len(<<r>>) = 1 /\ <<r>>[1] = s[1]
    BY <2>1 DEF Made
  <2> HIDE DEF Made
  <2>5. \A x, y : x \in Seq(S) /\ y \in Seq(S) /\ Len(x) = 1 /\ Len(y) = 1 /\ x[1] = y[1] => x = y
    BY SeqEqual
  <2> QED BY <2>3, <2>4, <2>5
<1>2. ASSUME NEW i \in 1 .. 7
      PROVE  Further(SubSeq(s, 1, i), c, Writes[i]) = SubSeq(s, 1, i + 1)
  <2>1. i \in 1 .. Len(s) /\ i < Len(s) /\ s[i + 1] = Written(s[i], c, Writes[i])
    BY DEF Made
  <2> QED BY <2>1, LongerPrefix DEF Further
<1> DEFINE g == [i \in 0 .. n |-> SubSeq(s, 1, i + 1)]
<1>3. Steps(r, c, g, n)
  <2>1. ASSUME NEW i \in 0 .. n
        PROVE  g[i] = IF i = 0 THEN <<r>> ELSE Further(g[i - 1], c, Writes[i])
    <3>1. CASE i = 0
      BY <3>1, <1>1
    <3>2. CASE i # 0
      <4>1. i \in 1 .. 7 /\ i - 1 \in 0 .. n /\ i - 1 + 1 = i
        BY <3>2
      <4>2. g[i - 1] = SubSeq(s, 1, i)
        BY <4>1
      <4>3. g[i] = SubSeq(s, 1, i + 1)
        OBVIOUS
      <4> HIDE DEF g
      <4> QED BY <4>1, <4>2, <4>3, <1>2, <3>2
    <3> QED BY <3>1, <3>2
  <2>2. g = [i \in 0 .. n |-> g[i]]
    OBVIOUS
  <2> HIDE DEF g
  <2> QED BY <2>1, <2>2 DEF Steps
<1>4. ASSUME Steps(r, c, f, n)
      PROVE  f = g
  <2>1. f = [i \in 0 .. n |-> f[i]]
    BY <1>4 DEF Steps
  <2>2. \A i \in 0 .. n : f[i] = IF i = 0 THEN <<r>> ELSE Further(f[i - 1], c, Writes[i])
    BY <1>4 DEF Steps
  <2>3. \A i \in 0 .. n : f[i] = SubSeq(s, 1, i + 1)
    <3> DEFINE Bad == {i \in 0 .. n : f[i] # SubSeq(s, 1, i + 1)}
    <3> SUFFICES ASSUME Bad # {}
                 PROVE  FALSE
      OBVIOUS
    <3>1. PICK i \in Bad : \A j \in Bad : i <= j
      <4>1. Bad \in SUBSET Nat
        OBVIOUS
      <4> HIDE DEF Bad
      <4> QED BY <4>1, Least
    <3>2. i # 0
      <4>1. 0 \in 0 .. n /\ 0 + 1 = 1
        OBVIOUS
      <4>2. f[0] = SubSeq(s, 1, 0 + 1)
        BY <4>1, <2>2, <1>1
      <4> QED BY <4>2
    <3>3. i \in 1 .. 7 /\ i - 1 \in 0 .. n /\ i - 1 \notin Bad /\ i - 1 + 1 = i
      BY <3>1, <3>2
    <3>4. f[i - 1] = SubSeq(s, 1, i)
      BY <3>3
    <3> QED BY <2>2, <3>2, <3>3, <3>4, <1>2
  <2> QED BY <2>1, <2>3
<1> QED
  BY <1>3, <1>4 DEF Beginnings

\* A run writes nothing, or the scaffolds, .zpkg.toml and the matrix, or all seven.
LEMMA StepByStep ==
  ASSUME NEW r
  PROVE  LET chosen == ChooseTargetDirs(r)
             scaffolded == Scaffold(r, chosen)
             targeted == EnsureManifest(scaffolded, chosen)
             listed == EnsureMatrix(targeted, chosen)
             surfaced == WriteSurface(listed)
             printed == WriteFingerprint(surfaced)
             marked == WriteMarkers(printed, chosen)
             attested == WriteContractManifest(marked, chosen)
             all == <<r, scaffolded, targeted, listed, surfaced, printed, marked, attested>>
         IN  \E n \in {0, 3, 7} :
               /\ n = WritesMade(r)
               /\ n # 0 => chosen # Raised
               /\ Len(HardenSteps(r)) = n + 1
               /\ \A i \in 1 .. n + 1 : HardenSteps(r)[i] = all[i]
<1> DEFINE chosen == ChooseTargetDirs(r)
           scaffolded == Scaffold(r, chosen)
           targeted == EnsureManifest(scaffolded, chosen)
           listed == EnsureMatrix(targeted, chosen)
           surfaced == WriteSurface(listed)
           printed == WriteFingerprint(surfaced)
           marked == WriteMarkers(printed, chosen)
           attested == WriteContractManifest(marked, chosen)
           all == <<r, scaffolded, targeted, listed, surfaced, printed, marked, attested>>
           S == {r, scaffolded, targeted, listed, surfaced, printed, marked, attested}
           n == WritesMade(r)
           After == CHOOSE f : Steps(r, chosen, f, n)
<1>1. n \in {0, 3, 7} /\ (n # 0 => chosen # Raised)
  BY WriteAt DEF WritesMade
<1>2. Made(r, chosen, all)
  <2>1. /\ scaffolded = Written(r, chosen, Writes[1])
        /\ targeted = Written(scaffolded, chosen, Writes[2])
        /\ listed = Written(targeted, chosen, Writes[3])
        /\ surfaced = Written(listed, chosen, Writes[4])
        /\ printed = Written(surfaced, chosen, Writes[5])
        /\ marked = Written(printed, chosen, Writes[6])
        /\ attested = Written(marked, chosen, Writes[7])
    BY WriteAt
  <2> HIDE DEF chosen, scaffolded, targeted, listed, surfaced, printed, marked, attested
  <2> QED BY <2>1 DEF Made
<1>3. HardenSteps(r) = After[n] /\ n = WritesMade(r)
  BY DEF HardenSteps, Steps, Further
<1> HIDE DEF n
<1>4. all \in Seq(S)
  <2> HIDE DEF chosen, scaffolded, targeted, listed, surfaced, printed, marked, attested
  <2> QED OBVIOUS
<1> HIDE DEF chosen
<1>5. n \in 0 .. 7
  BY <1>1
<1> HIDE DEF all, S
<1>6. After = Beginnings(all, n)
  <2>1. ASSUME NEW f
        PROVE  Steps(r, chosen, f, n) <=> f = Beginnings(all, n)
    <3> HIDE DEF scaffolded, targeted, listed, surfaced, printed, marked, attested
    <3> QED BY <1>2, <1>4, <1>5, StepsArePrefixes
  <2> QED BY <2>1
<1> HIDE DEF scaffolded, targeted, listed, surfaced, printed, marked, attested, After
<1>7. HardenSteps(r) = SubSeq(all, 1, n + 1)
  <2>1. n \in 0 .. n
    BY <1>5
  <2> QED BY <1>3, <1>6, <2>1 DEF Beginnings
<1>8. /\ Len(HardenSteps(r)) = n + 1
      /\ \A i \in 1 .. n + 1 : HardenSteps(r)[i] = all[i]
  <2>1. n \in Nat /\ n + 1 \in Int /\ 1 <= n + 1 /\ n + 1 - 1 + 1 = n + 1
    BY <1>5
  <2>2. Len(all) = 8
    BY <1>2 DEF Made
  <2>3. \A i \in 1 .. n + 1 : all[i] \in S
    <3>1. \A i \in 1 .. Len(all) : all[i] \in S
      BY <1>4
    <3> QED BY <3>1, <1>5, <2>2
  <2>4. /\ Len(SubSeq(all, 1, n + 1)) = n + 1
        /\ \A i \in 1 .. n + 1 : SubSeq(all, 1, n + 1)[i] = all[1 + i - 1]
    BY <2>1, <2>3, SubSeqProperties
  <2>5. \A i \in 1 .. n + 1 : 1 + i - 1 = i
    BY <2>1
  <2> QED BY <1>7, <2>4, <2>5
<1> QED
  BY <1>1, <1>3, <1>8 DEF chosen, all, scaffolded, targeted, listed, surfaced, printed, marked, attested

\* What a run ends with.
LEMMA HardenEnds ==
  ASSUME NEW r
  PROVE  LET chosen == ChooseTargetDirs(r)
             scaffolded == Scaffold(r, chosen)
             targeted == EnsureManifest(scaffolded, chosen)
             listed == EnsureMatrix(targeted, chosen)
             surfaced == WriteSurface(listed)
             printed == WriteFingerprint(surfaced)
             marked == WriteMarkers(printed, chosen)
             attested == WriteContractManifest(marked, chosen)
         IN  /\ Len(HardenSteps(r)) \in 1 .. Len(HardenSteps(r))
             /\ Harden(r).repo = HardenSteps(r)[Len(HardenSteps(r))]
             /\ \/ Harden(r).repo = r
                \/ chosen # Raised /\ Harden(r).repo \in {listed, attested}
<1> DEFINE chosen == ChooseTargetDirs(r)
           scaffolded == Scaffold(r, chosen)
           targeted == EnsureManifest(scaffolded, chosen)
           listed == EnsureMatrix(targeted, chosen)
           surfaced == WriteSurface(listed)
           printed == WriteFingerprint(surfaced)
           marked == WriteMarkers(printed, chosen)
           attested == WriteContractManifest(marked, chosen)
           all == <<r, scaffolded, targeted, listed, surfaced, printed, marked, attested>>
<1>1. Harden(r).repo = HardenSteps(r)[Len(HardenSteps(r))]
  BY DEF Harden, Outcome, Result, Last
<1>2. PICK n \in {0, 3, 7} :
        /\ n # 0 => chosen # Raised
        /\ Len(HardenSteps(r)) = n + 1
        /\ \A i \in 1 .. n + 1 : HardenSteps(r)[i] = all[i]
  BY StepByStep
<1>3. all[1] = r /\ all[4] = listed /\ all[8] = attested
  OBVIOUS
<1> HIDE DEF chosen, scaffolded, targeted, listed, surfaced, printed, marked, attested, all
<1>4. /\ Len(HardenSteps(r)) \in 1 .. Len(HardenSteps(r))
      /\ Harden(r).repo = all[n + 1]
  <2>1. n + 1 \in 1 .. n + 1
    BY <1>2
  <2> QED BY <1>1, <1>2, <2>1
<1>5. \/ Harden(r).repo = r
      \/ chosen # Raised /\ Harden(r).repo \in {listed, attested}
  BY <1>2, <1>3, <1>4
<1> QED
  BY <1>1, <1>4, <1>5 DEF chosen, scaffolded, targeted, listed, surfaced, printed, marked, attested

\* A kill between any two writes leaves a repository.
LEMMA StepsAreRepos ==
  ASSUME NEW r, IsRepo(r), NEW i \in 1 .. Len(HardenSteps(r))
  PROVE  IsRepo(HardenSteps(r)[i])
<1> DEFINE chosen == ChooseTargetDirs(r)
           scaffolded == Scaffold(r, chosen)
           targeted == EnsureManifest(scaffolded, chosen)
           listed == EnsureMatrix(targeted, chosen)
           surfaced == WriteSurface(listed)
           printed == WriteFingerprint(surfaced)
           marked == WriteMarkers(printed, chosen)
           attested == WriteContractManifest(marked, chosen)
<1> DEFINE all == <<r, scaffolded, targeted, listed, surfaced, printed, marked, attested>>
<1>1. \/ HardenSteps(r)[i] = r
      \/ /\ chosen # Raised
         /\ HardenSteps(r)[i] \in {scaffolded, targeted, listed, surfaced, printed, marked, attested}
  <2>1. PICK n \in {0, 3, 7} :
          /\ n # 0 => chosen # Raised
          /\ Len(HardenSteps(r)) = n + 1
          /\ \A k \in 1 .. n + 1 : HardenSteps(r)[k] = all[k]
    BY StepByStep
  <2> HIDE DEF chosen, scaffolded, targeted, listed, surfaced, printed, marked, attested
  <2>2. /\ all[1] = r
        /\ \A k \in 2 .. 8 :
             all[k] \in {scaffolded, targeted, listed, surfaced, printed, marked, attested}
    OBVIOUS
  <2> HIDE DEF all
  <2>3. i \in 1 .. n + 1 /\ (i = 1 \/ (n # 0 /\ i \in 2 .. 8))
    BY <2>1
  <2> QED BY <2>1, <2>2, <2>3
<1>2. ASSUME chosen # Raised
      PROVE  /\ IsRepo(scaffolded) /\ IsRepo(targeted) /\ IsRepo(listed) /\ IsRepo(surfaced)
             /\ IsRepo(printed) /\ IsRepo(marked) /\ IsRepo(attested)
  <2>1. chosen \in [Names -> Paths]
    BY <1>2, ChosenArePaths
  <2> HIDE DEF chosen
  <2>2. IsRepo(scaffolded)
    BY <2>1, ScaffoldIsRepo
  <2> HIDE DEF scaffolded
  <2>3. IsRepo(targeted)
    BY <2>1, <2>2, ManifestIsRepo
  <2> HIDE DEF targeted
  <2>4. IsRepo(listed)
    BY <2>3, OtherParts DEF EnsureMatrix
  <2> HIDE DEF listed
  <2>5. IsRepo(surfaced)
    BY <2>4, HardenedIsSurface, OtherParts DEF WriteSurface
  <2> HIDE DEF surfaced
  <2>6. IsRepo(printed)
    BY <2>5, OtherParts DEF WriteFingerprint
  <2> HIDE DEF printed
  <2>7. IsRepo(marked)
    BY <2>6, OtherParts DEF WriteMarkers, Marked
  <2> HIDE DEF marked
  <2>8. IsRepo(attested)
    BY <2>7, OtherParts DEF WriteContractManifest
  <2> QED
    BY <2>2, <2>3, <2>4, <2>5, <2>6, <2>7, <2>8
<1> HIDE DEF chosen, scaffolded, targeted, listed, surfaced, printed, marked, attested
<1> QED
  BY <1>1, <1>2

\* So does a run that ends.
LEMMA HardenIsRepo ==
  ASSUME NEW r, IsRepo(r)
  PROVE  IsRepo(Harden(r).repo)
<1>1. /\ Len(HardenSteps(r)) \in 1 .. Len(HardenSteps(r))
      /\ Harden(r).repo = HardenSteps(r)[Len(HardenSteps(r))]
  BY HardenEnds
<1> QED
  BY <1>1, StepsAreRepos

\* And so does a kill, among the scaffolds,
LEMMA KilledScaffoldingIsRepo ==
  ASSUME NEW r, IsRepo(r), NEW k \in KilledScaffolding(r)
  PROVE  /\ IsRepo(k)
         /\ \E i, q, s, d :
              /\ i \in DOMAIN TARGETS
              /\ q = ScaffoldTo(r, ChooseTargetDirs(r), i - 1)
              /\ s = TARGETS[i] /\ d = ChooseTargetDirs(r)[s.name]
              /\ IsRepo(q) /\ s \in Specs /\ d \in Paths
              /\ k \in RowStages(q, s, d)
<1> DEFINE c == ChooseTargetDirs(r)
<1>1. c # Raised
  BY DEF KilledScaffolding
<1>2. c \in [Names -> Paths]
  BY <1>1, ChosenArePaths
<1>3. PICK i \in DOMAIN TARGETS :
        k \in RowStages(ScaffoldTo(r, c, i - 1), TARGETS[i], c[TARGETS[i].name])
  BY <1>1 DEF KilledScaffolding
<1> HIDE DEF c
<1> DEFINE q == ScaffoldTo(r, c, i - 1)
           s == TARGETS[i]
           d == c[s.name]
<1>4. s \in Specs /\ d \in Paths /\ i - 1 \in 0 .. Len(TARGETS)
  <2>1. TARGETS \in Seq(Row) /\ DOMAIN TARGETS = 1 .. Len(TARGETS) /\ Len(TARGETS) \in Nat
    BY FleetAssumption
  <2> QED BY <1>2, <2>1 DEF Specs, Names, ToSet
<1>5. IsRepo(q)
  BY <1>2, <1>4, ScaffoldToIsRepo
<1> HIDE DEF q, s, d
<1>6. IsRepo(k)
  <2>1. \/ k = MadeDir(q, SubSeq(d, 1, 1))
        \/ \E n \in 0 .. s.metadata + s.sources : k = Scaffolded(MadeDir(q, d), s, d, n)
    BY <1>3 DEF RowStages, q, s, d
  <2>2. CASE k = MadeDir(q, SubSeq(d, 1, 1))
    BY <1>4, <1>5, <2>2, TopOfPath, MadeDirIsRepo
  <2>3. ASSUME NEW n \in 0 .. s.metadata + s.sources, k = Scaffolded(MadeDir(q, d), s, d, n)
        PROVE  IsRepo(k)
    <3> DEFINE p == MadeDir(q, d)
    <3>1. IsRepo(p) /\ p.dirs = q.dirs \union {d, SubSeq(d, 1, 1)}
      BY <1>4, <1>5, MadeDirIsRepo
    <3>2. d \in p.dirs
      BY <3>1
    <3> HIDE DEF p
    <3>3. IsRepo(Scaffolded(p, s, d, n))
      BY <3>1, <3>2, <1>4, ScaffoldedIsRepo
    <3> QED BY <2>3, <3>3 DEF p
  <2> QED BY <2>1, <2>2, <2>3
<1> QED
  BY <1>3, <1>4, <1>5, <1>6 DEF q, s, d, c

\* or after them.
LEMMA KilledWritingIsRepo ==
  ASSUME NEW r, IsRepo(r), NEW k \in KilledWriting(r)
  PROVE  IsRepo(k)
<1> DEFINE steps == HardenSteps(r)
<1>1. \A i \in 1 .. Len(steps) : IsRepo(steps[i])
  BY StepsAreRepos
<1>2. PICK n \in {0, 3, 7} : Len(steps) = n + 1
  BY StepByStep
<1>3. \/ \E i \in 2 .. Len(steps) - 1 : k = steps[i]
      \/ Len(steps) > Len(Writes) /\ \E begun : k = Marked(steps[6], begun)
  BY <1>2, WriteAt DEF KilledWriting
<1>4. Len(Writes) = 7
  BY WriteAt
<1> HIDE DEF steps
<1>5. CASE \E i \in 2 .. Len(steps) - 1 : k = steps[i]
  BY <1>1, <1>2, <1>5
<1>6. CASE Len(steps) > Len(Writes) /\ \E begun : k = Marked(steps[6], begun)
  <2> DEFINE q == steps[6]
  <2>1. IsRepo(q)
    BY <1>1, <1>2, <1>4, <1>6
  <2>2. PICK m : k = [q EXCEPT !.markers = m]
    BY <1>6 DEF Marked
  <2> HIDE DEF q
  <2>3. IsRepo([q EXCEPT !.markers = m])
    BY <2>1, OtherParts
  <2> QED BY <2>2, <2>3
<1> QED
  BY <1>3, <1>5, <1>6

-----------------------------------------------------------------------------
(* Every state holds a repository.                                         *)

\* At the beginning,
LEMMA InitTypeOK == Init => TypeOK
BY RepositoryAssumption DEF Init, TypeOK

\* The ancestor of a directory that is kept is kept.
LEMMA RemoveDirIsRepo ==
  ASSUME TypeOK, NEW d \in repo.dirs, RemoveDir(d)
  PROVE  TypeOK'
<1> DEFINE kept == {e \in repo.dirs : ~IsPrefix(d, e)}
           dirs == {e \in kept : \E f \in kept : IsPrefix(e, f) /\ repo.impl[f] # NoFiles}
           sources == [e \in dirs |-> repo.impl[e]]
<1>1. dirs \subseteq repo.dirs /\ repo.dirs \subseteq Paths
  BY DEF TypeOK, IsRepo
<1>2. ASSUME NEW e \in dirs
      PROVE  SubSeq(e, 1, 1) \in dirs
  <2> DEFINE c == SubSeq(e, 1, 1)
  <2>1. /\ e \in Paths /\ e \in repo.dirs /\ ~IsPrefix(d, e) /\ d \in Paths
        /\ c \in repo.dirs /\ c \in Paths /\ IsPrefix(c, e)
    BY <1>1, TopIsPrefix DEF TypeOK, IsRepo
  <2>2. PICK f \in kept : IsPrefix(e, f) /\ repo.impl[f] # NoFiles
    OBVIOUS
  <2>3. f \in Paths
    BY <1>1
  <2> HIDE DEF c
  <2>4. ~IsPrefix(d, c)
    BY <2>1, PrefixOfPrefix
  <2>5. IsPrefix(c, f)
    BY <2>1, <2>2, <2>3, PrefixOfPrefix
  <2>6. c \in dirs
    BY <2>1, <2>2, <2>4, <2>5
  <2> QED
    BY <2>6 DEF c
<1>3. sources \in [dirs -> Files]
  <2>1. \A e \in dirs : repo.impl[e] \in Files
    BY <1>1 DEF TypeOK, IsRepo
  <2> HIDE DEF dirs
  <2> QED BY <2>1
<1>4. PICK m, q :
        /\ repo' = WithDirs(repo, dirs, sources, m, q)
        /\ q # {} => Typescript \in dirs
  BY DEF RemoveDir, Edited, WithDirs
<1> HIDE DEF dirs, sources
<1>5. dirs \subseteq Paths /\ IsFiniteSet(dirs) /\ IsRepo(repo)
  BY <1>1, FS_Subset DEF TypeOK, IsRepo
<1>6. \A e \in dirs : SubSeq(e, 1, 1) \in dirs
  BY <1>2
<1>7. IsRepo(WithDirs(repo, dirs, sources, m, q))
  BY <1>3, <1>4, <1>5, <1>6, OtherDirs
<1> QED
  BY <1>4, <1>7 DEF TypeOK

\* Other files in the directories.
LEMMA OtherFiles ==
  ASSUME NEW r, IsRepo(r), NEW d \in r.dirs, NEW x \in Files
  PROVE  IsRepo([r EXCEPT !.impl[d] = x])
<1> DEFINE files == [r.impl EXCEPT ![d] = x]
<1>1. files \in [r.dirs -> Files]
  BY DEF IsRepo
<1>2. /\ r.dirs \subseteq Paths /\ IsFiniteSet(r.dirs)
      /\ \A e \in r.dirs : SubSeq(e, 1, 1) \in r.dirs
      /\ r.runtimes # {} => Typescript \in r.dirs
  BY DEF IsRepo
<1> HIDE DEF files
<1>3. IsRepo([r EXCEPT !.dirs = r.dirs, !.impl = files])
  BY <1>1, <1>2, OtherDirs
<1>4. [r EXCEPT !.dirs = r.dirs, !.impl = files] = [r EXCEPT !.impl = files]
  BY DEF IsRepo
<1> QED
  BY <1>3, <1>4 DEF files

\* Files are edited.
LEMMA EditFilesIsRepo ==
  ASSUME TypeOK, NEW e \in Edits, EditFiles(e)
  PROVE  TypeOK'
<1> DEFINE x == [repo.impl[e.dir] EXCEPT ![e.kind] = @ + ByHand]
<1>1. IsRepo(repo) /\ e.dir \in repo.dirs /\ repo.impl[e.dir] \in Files
  BY DEF TypeOK, IsRepo, EditFiles
<1>2. e.kind \in {"source", "metadata", "other"}
  BY RepositoryAssumption
<1>3. x \in Files
  BY <1>1, <1>2 DEF Files, ByHand
<1>4. repo' = [repo EXCEPT !.impl[e.dir] = x]
  BY DEF EditFiles, Edited
<1> HIDE DEF x
<1>5. IsRepo([repo EXCEPT !.impl[e.dir] = x])
  BY <1>1, <1>3, OtherFiles
<1> QED
  BY <1>4, <1>5 DEF TypeOK

\* A directory is made with its ancestor.
LEMMA MakeDirIsRepo ==
  ASSUME TypeOK, NEW d \in NewDirs, MakeDir(d)
  PROVE  TypeOK'
<1> DEFINE q == MadeDir(repo, d)
<1>1. d \in Paths /\ IsRepo(repo)
  BY RepositoryAssumption DEF TypeOK
<1>2. IsRepo(q) /\ q.dirs = repo.dirs \union {d, SubSeq(d, 1, 1)}
  BY <1>1, MadeDirIsRepo
<1>3. repo' = [q EXCEPT !.impl[d] = NewFiles]
  BY DEF MakeDir, Edited
<1> HIDE DEF q
<1>4. NewFiles \in Files
  BY DEF NewFiles, Files, ByHand
<1>5. IsRepo([q EXCEPT !.impl[d] = NewFiles])
  BY <1>2, <1>4, OtherFiles
<1> QED
  BY <1>3, <1>5 DEF TypeOK

\* Edits of the surface and of the interfaces.
LEMMA EditSurfaceIsRepo ==
  ASSUME TypeOK, EditSurface \/ EditInterfaces
  PROVE  TypeOK'
<1> DEFINE s == repo.surface
           M == [name : STRING, id : Nat \X STRING]
<1>1. IsRepo(repo)
  BY DEF TypeOK
<1>2. CASE EditInterfaces
  <2>1. PICK x \in {0, 2} : repo' = [repo EXCEPT !.interfaces = x]
    BY <1>2 DEF EditInterfaces, Edited
  <2>2. x \in Nat
    OBVIOUS
  <2>3. IsRepo([repo EXCEPT !.interfaces = x])
    BY <1>1, <2>2, OtherParts
  <2> QED BY <2>1, <2>3 DEF TypeOK
<1>3. CASE EditSurface
  <2>1. /\ s \in Surfaces
        /\ \/ repo' = [repo EXCEPT !.surface.members = Append(@, Member("lock"))]
           \/ repo' = [repo EXCEPT !.surface.members = <<Member("lock")>> \o @]
           \/ s.members # <<>> /\ repo' = [repo EXCEPT !.surface.members = Tail(@)]
           \/ repo' = [repo EXCEPT !.surface.names = @ \union {"Lease"}, !.surface.uses = {"Lease"}]
           \/ \E n \in s.names : repo' = [repo EXCEPT !.surface.names = @ \ {n}]
    BY <1>1, <1>3 DEF EditSurface, Edited, IsRepo
  <2>2. \A m \in Seq(M) : [s EXCEPT !.members = m] \in Surfaces
    BY <2>1 DEF Surfaces
  <2>3. \A n, u : n \in SUBSET STRING /\ u \in SUBSET STRING =>
          [s EXCEPT !.names = n] \in Surfaces /\ [s EXCEPT !.names = n, !.uses = u] \in Surfaces
    BY <2>1 DEF Surfaces
  <2>4. /\ s.members \in Seq(M) /\ s.names \in SUBSET STRING /\ {"Lease"} \in SUBSET STRING
        /\ Member("lock") \in M
    <3>1. s.members \in Seq(M) /\ s.names \in SUBSET STRING
      BY <2>1 DEF Surfaces
    <3>2. NoId \in Nat \X STRING /\ "lock" \in STRING /\ "Lease" \in STRING
      BY SurfaceAssumption DEF NoId
    <3> HIDE DEF s
    <3>3. Member("lock") \in M
      BY <3>2 DEF Member
    <3> HIDE DEF M
    <3> QED BY <3>1, <3>2, <3>3
  <2> HIDE DEF M
  <2>5. /\ Append(s.members, Member("lock")) \in Seq(M)
        /\ <<Member("lock")>> \o s.members \in Seq(M)
        /\ s.members # <<>> => Tail(s.members) \in Seq(M)
    BY <2>4
  <2>6. \E x \in Surfaces : repo' = [repo EXCEPT !.surface = x]
    <3>1. CASE repo' = [repo EXCEPT !.surface.members = Append(@, Member("lock"))]
      BY <3>1, <2>2, <2>5
    <3>2. CASE repo' = [repo EXCEPT !.surface.members = <<Member("lock")>> \o @]
      BY <3>2, <2>2, <2>5
    <3>3. CASE s.members # <<>> /\ repo' = [repo EXCEPT !.surface.members = Tail(@)]
      BY <3>3, <2>2, <2>5
    <3>4. CASE repo' = [repo EXCEPT !.surface.names = @ \union {"Lease"}, !.surface.uses = {"Lease"}]
      <4> DEFINE x == [s EXCEPT !.names = @ \union {"Lease"}, !.uses = {"Lease"}]
      <4>1. s.names \union {"Lease"} \in SUBSET STRING
        BY <2>4
      <4>2. x \in Surfaces
        BY <4>1, <2>3, <2>4
      <4>3. repo' = [repo EXCEPT !.surface = x]
        BY <3>4, <1>1 DEF IsRepo
      <4> QED BY <4>2, <4>3
    <3>5. CASE \E n \in s.names : repo' = [repo EXCEPT !.surface.names = @ \ {n}]
      <4>1. PICK n \in s.names : repo' = [repo EXCEPT !.surface.names = @ \ {n}]
        BY <3>5
      <4>2. s.names \ {n} \in SUBSET STRING
        BY <2>4
      <4> QED BY <4>1, <4>2, <2>3
    <3> QED BY <2>1, <3>1, <3>2, <3>3, <3>4, <3>5
  <2>7. PICK x \in Surfaces : repo' = [repo EXCEPT !.surface = x]
    BY <2>6
  <2>8. IsRepo([repo EXCEPT !.surface = x])
    BY <1>1, OtherParts
  <2> QED BY <2>7, <2>8 DEF TypeOK
<1> QED
  BY <1>2, <1>3

\* and with every step.
LEMMA NextTypeOK == TypeOK /\ [Next]_vars => TypeOK'
<1> SUFFICES ASSUME TypeOK, [Next]_vars
             PROVE  TypeOK'
  OBVIOUS
<1> USE DEF TypeOK
<1>1. ASSUME NEW e \in Edits, EditFiles(e)
      PROVE  TypeOK'
  BY <1>1, EditFilesIsRepo
<1>2. ASSUME NEW d \in repo.dirs, RemoveDir(d)
      PROVE  TypeOK'
  BY <1>2, RemoveDirIsRepo
<1>3. ASSUME NEW d \in NewDirs, MakeDir(d)
      PROVE  TypeOK'
  BY <1>3, MakeDirIsRepo
<1>4. ASSUME NEW t \in Places, EditTarget(t)
      PROVE  TypeOK'
  BY <1>4, RepositoryAssumption DEF EditTarget, Edited, IsRepo, Over
<1>5. CASE EditInterfaces
  BY <1>5, EditSurfaceIsRepo
<1>6. CASE EditSurface
  BY <1>6, EditSurfaceIsRepo
<1>7. CASE HardenWrite
  BY <1>7, HardenIsRepo DEF HardenWrite
<1>8. CASE HardenDies
  <2>1. PICK killed \in KilledScaffolding(repo) \union KilledWriting(repo) : repo' = killed
    BY <1>8 DEF HardenDies, Edited
  <2> QED BY <2>1, KilledScaffoldingIsRepo, KilledWritingIsRepo
<1>9. CASE Refresh
  BY <1>9 DEF Refresh
<1>10. CASE Install
  BY <1>10, OtherParts DEF Install
<1>11. CASE UNCHANGED vars
  BY <1>11 DEF vars
<1> QED
  BY <1>1, <1>2, <1>3, <1>4, <1>5, <1>6, <1>7, <1>8, <1>9, <1>10, <1>11 DEF Next

\* However people edit the repository and wherever a hardening is killed, each
\* directory's ancestor is there, its files are numbered, and no target of the fleet is
\* the repository itself.
THEOREM HardenTyping == Spec => []TypeOK
BY InitTypeOK, NextTypeOK, PTL DEF Spec

-----------------------------------------------------------------------------
(* What people wrote.                                                      *)

\* What a hardening leaves of directories, files and interfaces, and where the
\* targets come from.
LEMMA HardenLeaves ==
  ASSUME NEW r, IsRepo(r)
  PROVE  \/ Harden(r).repo = r
         \/ /\ ChooseTargetDirs(r) # Raised
            /\ Harden(r).repo.dirs = Scaffold(r, ChooseTargetDirs(r)).dirs
            /\ Harden(r).repo.impl = Scaffold(r, ChooseTargetDirs(r)).impl
            /\ Harden(r).repo.interfaces = r.interfaces
            /\ Harden(r).repo.targets =
                 EnsureManifest(Scaffold(r, ChooseTargetDirs(r)), ChooseTargetDirs(r)).targets
            /\ Scaffold(r, ChooseTargetDirs(r)).targets = r.targets
<1> DEFINE chosen == ChooseTargetDirs(r)
           scaffolded == Scaffold(r, chosen)
           targeted == EnsureManifest(scaffolded, chosen)
           listed == EnsureMatrix(targeted, chosen)
           surfaced == WriteSurface(listed)
           printed == WriteFingerprint(surfaced)
           marked == WriteMarkers(printed, chosen)
           attested == WriteContractManifest(marked, chosen)
           Same(p, q) == /\ p.dirs = q.dirs /\ p.impl = q.impl
                         /\ p.interfaces = q.interfaces /\ p.targets = q.targets
<1>1. Harden(r).repo = r \/ (chosen # Raised /\ Harden(r).repo \in {listed, attested})
  BY HardenEnds
<1>2. chosen # Raised => scaffolded.interfaces = r.interfaces /\ scaffolded.targets = r.targets
  <2> SUFFICES ASSUME chosen # Raised
               PROVE  scaffolded.interfaces = r.interfaces /\ scaffolded.targets = r.targets
    OBVIOUS
  <2>1. chosen \in [Names -> Paths]
    BY ChosenArePaths
  <2> HIDE DEF chosen
  <2>2. Grown(scaffolded, r)
    BY <2>1, ScaffoldIsRepo
  <2> HIDE DEF scaffolded
  <2> QED BY <2>2 DEF Grown, IsRepo
<1> HIDE DEF chosen, scaffolded
<1>3. /\ targeted.dirs = scaffolded.dirs /\ targeted.interfaces = scaffolded.interfaces
      /\ targeted.impl = scaffolded.impl
  BY DEF EnsureManifest
<1> HIDE DEF targeted
<1>4. Same(listed, targeted)
  BY DEF EnsureMatrix
<1> HIDE DEF listed
<1>5. Same(surfaced, listed)
  BY DEF WriteSurface
<1> HIDE DEF surfaced
<1>6. Same(printed, surfaced)
  BY DEF WriteFingerprint
<1> HIDE DEF printed
<1>7. Same(marked, printed)
  BY DEF WriteMarkers, Marked
<1> HIDE DEF marked
<1>8. Same(attested, marked)
  BY DEF WriteContractManifest
<1> HIDE DEF attested
<1>9. Harden(r).repo = r \/ (chosen # Raised /\ Same(Harden(r).repo, targeted))
  BY <1>1, <1>4, <1>5, <1>6, <1>7, <1>8
<1> QED
  BY <1>2, <1>3, <1>9 DEF chosen, scaffolded, targeted

\* No write but the scaffolds touches files.
LEMMA HardenKeeps ==
  ASSUME NEW r, IsRepo(r)
  PROVE  /\ r.dirs \subseteq Harden(r).repo.dirs
         /\ \A d \in r.dirs : Kept(Harden(r).repo, r, d)
<1> DEFINE chosen == ChooseTargetDirs(r)
           scaffolded == Scaffold(r, chosen)
           q == Harden(r).repo
<1>1. \/ q = r
      \/ chosen # Raised /\ q.dirs = scaffolded.dirs /\ q.impl = scaffolded.impl
  BY HardenLeaves
<1>2. Grown(r, r)
  BY GrownGrows
<1>3. chosen # Raised => Grown(scaffolded, r)
  <2>1. chosen # Raised => chosen \in [Names -> Paths]
    BY ChosenArePaths
  <2> HIDE DEF chosen
  <2> QED BY <2>1, ScaffoldIsRepo
<1> HIDE DEF q, scaffolded, chosen
<1>4. r.dirs \subseteq q.dirs /\ \A d \in r.dirs : Kept(q, r, d)
  BY <1>1, <1>2, <1>3 DEF Grown, Kept
<1> QED
  BY <1>4 DEF q

\* "It never replaces existing product implementation files", nor adds a scaffold
\* beside those that it sees, whatever the manifest says and whatever a killed run has
\* left.
THEOREM HandWork == Spec => []HandWorkStands
<1>1. TypeOK => HandWorkStands
  BY HardenKeeps DEF TypeOK, HandWorkStands, StandsIn, Kept
<1> QED
  BY <1>1, HardenTyping, PTL

-----------------------------------------------------------------------------
(* What the second verifier attests.                                       *)

\* In a repository that passes, the entry of a client's directory has the version of
\* its listed sources and metadata, unless they are in something ignored, and a marker
\* of the surface; for what is outside clients/, and for sources with other suffixes,
\* there is none.
THEOREM Attested == Spec => []SourcesAttested
<1>1. ASSUME TypeOK, VerifiesContract(repo), NEW d \in repo.dirs,
             <<repo.impl[d].source, repo.impl[d].metadata>> # <<0, 0>>,
             InClients(d), Seen(SubSeq(d, 1, 1), d),
             ~\E e \in repo.manifest.entries : e.dir[1] = d[1] /\ Len(e.dir) > 1
      PROVE  \E e \in repo.manifest.entries :
               /\ IsPrefix(e.dir, d) /\ d \in DOMAIN e.evidence
               /\ e.evidence[d] = <<repo.impl[d].source, repo.impl[d].metadata>>
               /\ \E p \in DOMAIN repo.markers :
                    p[1] = e.dir /\ repo.markers[p].surface = repo.surface
  <2> DEFINE c == SubSeq(d, 1, 1)
  <2>1. /\ d \in Paths /\ repo.dirs \subseteq Paths /\ c \in repo.dirs
        /\ c \in Paths /\ Len(c) = 1 /\ c[1] = d[1] /\ IsPrefix(c, d) /\ Seen(c, d)
    BY <1>1, TopOfPath, TopIsPrefix DEF TypeOK, IsRepo
  <2>2. repo.impl[d].source + repo.impl[d].metadata > 0
    <3>1. repo.impl[d].source \in Nat /\ repo.impl[d].metadata \in Nat
      BY <1>1 DEF TypeOK, IsRepo, Files
    <3> QED BY <3>1, <1>1
  <2> HIDE DEF c
  <2>3. InClients(c)
    BY <1>1, <2>1 DEF InClients, Paths
  <2>4. PICK e \in repo.manifest.entries : IsPrefix(c, e.dir)
    BY <1>1, <2>1, <2>3 DEF VerifiesContract, AllDeclared
  <2>5. /\ e.dir \in Paths
        /\ e.evidence = Evidence(repo, e.dir)
        /\ MarkerRoot(repo, e) \in DOMAIN repo.markers
        /\ repo.markers[MarkerRoot(repo, e)] = Marker(e, repo.surface)
    BY <1>1, <2>1 DEF VerifiesContract
  <2>6. e.dir = c
    <3>1. Len(e.dir) \in Nat /\ Len(e.dir) >= 1 /\ e.dir[1] = c[1]
      BY <2>1, <2>4, <2>5, PathLength, PrefixByElements
    <3>2. Len(e.dir) = 1
      <4>1. e.dir[1] = d[1]
        BY <2>1, <3>1
      <4>2. ~(Len(e.dir) > 1)
        BY <1>1, <4>1
      <4>3. \A n \in Nat : n >= 1 /\ ~(n > 1) => n = 1
        OBVIOUS
      <4> QED BY <4>2, <4>3, <3>1
    <3> QED
      BY <2>1, <2>5, <3>1, <3>2, PathLength, SeqEqual
  <2>7. /\ d \in DOMAIN e.evidence
        /\ e.evidence[d] = <<repo.impl[d].source, repo.impl[d].metadata>>
    BY <2>1, <2>2, <2>5, <2>6 DEF Evidence
  <2>8. MarkerRoot(repo, e)[1] = e.dir
    BY DEF MarkerRoot
  <2>9. repo.markers[MarkerRoot(repo, e)].surface = repo.surface
    BY <2>5 DEF Marker
  <2> QED
    BY <2>1, <2>5, <2>6, <2>7, <2>8, <2>9
<1>2. TypeOK => SourcesAttested
  BY <1>1 DEF SourcesAttested
<1> QED
  BY <1>2, HardenTyping, PTL

-----------------------------------------------------------------------------
(* The package checks.                                                     *)

\* A manifest that is written anew has the required targets where they were.
LEMMA ManifestKeepsRequired ==
  ASSUME NEW r, IsRepo(r), NEW chosen \in [Names -> Paths],
         NEW T \in Tables, NEW n \in DOMAIN T, n \in DOMAIN r.targets, r.targets[n] = T[n],
         NEW s, RowOf(T, n, s), chosen[s.name] = T[n]
  PROVE  /\ n \in DOMAIN EnsureManifest(r, chosen).targets
         /\ EnsureManifest(r, chosen).targets[n] = T[n]
<1> DEFINE published == {t \in Specs : t.publish}
           placed == [z \in {q.zed : q \in published} |->
                        chosen[(CHOOSE q \in Specs : q.publish /\ q.zed = z).name]]
<1>1. n \in DOMAIN placed /\ placed[n] = T[n]
  <2>1. s \in Specs /\ s.publish /\ s.zed = n
    BY DEF RowOf
  <2>2. \A q \in Specs : q.publish /\ q.zed = n => q = s
    BY DEF RowOf
  <2>3. (CHOOSE q \in Specs : q.publish /\ q.zed = n) = s
    BY <2>1, <2>2
  <2> QED
    BY <2>1, <2>3
<1>2. n # "repository"
  BY RowType, FleetAssumption DEF RowOf
<1>3. PICK kept \in SUBSET DOMAIN r.targets :
        \/ EnsureManifest(r, chosen) = r
        \/ EnsureManifest(r, chosen) =
             [r EXCEPT !.targets = Over([m \in {"repository"} |-> Root],
                                        Over(placed, [m \in kept |-> r.targets[m]]))]
  BY DEF EnsureManifest
<1> HIDE DEF placed
<1>4. ASSUME NEW t,
             t = Over([m \in {"repository"} |-> Root], Over(placed, [m \in kept |-> r.targets[m]]))
      PROVE  n \in DOMAIN t /\ t[n] = T[n]
  BY <1>1, <1>2, <1>4 DEF Over
<1>5. ASSUME NEW t PROVE [r EXCEPT !.targets = t].targets = t
  BY DEF IsRepo
<1> QED
  BY <1>3, <1>4, <1>5

\* The targets of a manifest that is written anew are old ones or published ones.
LEMMA ManifestAddsPublished ==
  ASSUME NEW r, IsRepo(r), NEW chosen
  PROVE  DOMAIN EnsureManifest(r, chosen).targets \subseteq
           DOMAIN r.targets \union {"repository"} \union {s.zed : s \in {t \in Specs : t.publish}}
<1> DEFINE published == {t \in Specs : t.publish}
           placed == [z \in {q.zed : q \in published} |->
                        chosen[(CHOOSE q \in Specs : q.publish /\ q.zed = z).name]]
<1>1. PICK kept \in SUBSET DOMAIN r.targets :
        \/ EnsureManifest(r, chosen) = r
        \/ EnsureManifest(r, chosen) =
             [r EXCEPT !.targets = Over([m \in {"repository"} |-> Root],
                                        Over(placed, [m \in kept |-> r.targets[m]]))]
  BY DEF EnsureManifest
<1>2. DOMAIN placed = {s.zed : s \in published}
  OBVIOUS
<1> HIDE DEF placed
<1>3. ASSUME NEW t PROVE [r EXCEPT !.targets = t].targets = t
  BY DEF IsRepo
<1>4. ASSUME NEW t,
             t = Over([m \in {"repository"} |-> Root], Over(placed, [m \in kept |-> r.targets[m]]))
      PROVE  DOMAIN t \subseteq DOMAIN r.targets \union {"repository"} \union DOMAIN placed
  BY <1>4 DEF Over
<1> QED
  BY <1>1, <1>2, <1>3, <1>4

\* Files that are there keep some version, and those that are sources for a package
\* check stay such.
LEMMA FilesStay ==
  ASSUME NEW r, IsRepo(r), NEW d \in r.dirs
  PROVE  /\ r.impl[d] # NoFiles => Harden(r).repo.impl[d] # NoFiles
         /\ r.impl[d].source + r.impl[d].other > 0 =>
              Harden(r).repo.impl[d].source + Harden(r).repo.impl[d].other > 0
<1> DEFINE q == Harden(r).repo
<1>1. IsRepo(q) /\ d \in q.dirs /\ Kept(q, r, d)
  BY HardenIsRepo, HardenKeeps
<1> HIDE DEF q
<1>2. r.impl[d] \in Files /\ q.impl[d] \in Files
  BY <1>1 DEF IsRepo
<1>3. r.impl[d] # NoFiles => q.impl[d] # NoFiles
  BY <1>1, <1>2 DEF Kept, Files, NoFiles
<1>4. r.impl[d].source + r.impl[d].other > 0 => q.impl[d].source + q.impl[d].other > 0
  BY <1>1, <1>2 DEF Kept, Files
<1> QED
  BY <1>3, <1>4 DEF q

\* Required targets stay in their places.
LEMMA RoutedStays ==
  ASSUME NEW r, IsRepo(r), NEW T \in Tables, Routed(r, T), Unshared(r, T)
  PROVE  Routed(Harden(r).repo, T)
<1> DEFINE q == Harden(r).repo
           chosen == ChooseTargetDirs(r)
           scaffolded == Scaffold(r, chosen)
<1>1. CASE q = r
  BY <1>1
<1>2. CASE q # r
  <2>1. /\ chosen # Raised
        /\ r.dirs \subseteq q.dirs /\ q.interfaces = r.interfaces
        /\ q.targets = EnsureManifest(scaffolded, chosen).targets
        /\ scaffolded.targets = r.targets
    BY <1>2, HardenLeaves, HardenKeeps
  <2>2. chosen \in [Names -> Paths]
    BY <2>1, ChosenArePaths
  <2>3. IsRepo(scaffolded)
    <3> HIDE DEF chosen
    <3> QED BY <2>1, <2>2, ScaffoldIsRepo
  <2>4. ASSUME NEW n \in DOMAIN T
        PROVE  n \in DOMAIN q.targets /\ q.targets[n] = T[n]
    <3>1. InPlace(r, T, n)
      BY DEF Routed, Unshared, InPlace
    <3>2. PICK s : RowOf(T, n, s)
      BY RequiredAssumption DEF RowOf, Tables
    <3>3. chosen[s.name] = T[n]
      BY <2>1, <3>1, <3>2, RequiredIsChosen
    <3>4. n \in DOMAIN scaffolded.targets /\ scaffolded.targets[n] = T[n]
      BY <2>1, <3>1 DEF InPlace
    <3> HIDE DEF chosen, scaffolded, q
    <3> QED BY <2>1, <2>2, <2>3, <3>2, <3>3, <3>4, ManifestKeepsRequired
  <2>5. DOMAIN q.targets \intersect RuntimeOnly = {}
    <3>1. DOMAIN q.targets \subseteq
            DOMAIN r.targets \union {"repository"} \union {s.zed : s \in {t \in Specs : t.publish}}
      <4> HIDE DEF chosen, scaffolded, q
      <4> QED BY <2>1, <2>3, ManifestAddsPublished
    <3>2. DOMAIN r.targets \intersect RuntimeOnly = {}
      BY DEF Routed
    <3> HIDE DEF q
    <3> QED BY <3>1, <3>2, RequiredAssumption
  <2>6. r.interfaces # 0 /\ \A n \in DOMAIN T : T[n] \in r.dirs /\ r.impl[T[n]] # NoFiles
    BY DEF Routed
  <2>7. \A n \in DOMAIN T : q.impl[T[n]] # NoFiles
    BY <2>6, FilesStay
  <2> HIDE DEF q, chosen, scaffolded
  <2>8. Routed(q, T)
    BY <2>1, <2>4, <2>5, <2>6, <2>7 DEF Routed
  <2> QED BY <2>8 DEF q
<1> QED
  BY <1>1, <1>2

\* A package that passes either of the package checks still does once it is hardened,
\* whatever the manifest says beside the required targets, if only no two of its
\* targets share a required directory.
THEOREM PackageStays == Spec => []PackageStaysValid
<1>1. ASSUME TypeOK, MatrixValid(repo), Unshared(repo, RequiredTargets)
      PROVE  MatrixValid(Harden(repo).repo)
  BY <1>1, RoutedStays DEF TypeOK, MatrixValid, Tables
<1>2. ASSUME TypeOK, PackageValid(repo), Unshared(repo, RequiredPackages)
      PROVE  PackageValid(Harden(repo).repo)
  <2> DEFINE q == Harden(repo).repo
  <2>1. Routed(q, RequiredPackages)
    BY <1>2, RoutedStays DEF TypeOK, PackageValid, Tables
  <2>2. ASSUME NEW n \in DOMAIN RequiredPackages
        PROVE  \E e \in q.dirs :
                 IsPrefix(RequiredPackages[n], e) /\ q.impl[e].source + q.impl[e].other > 0
    <3>1. PICK e \in repo.dirs :
            IsPrefix(RequiredPackages[n], e) /\ repo.impl[e].source + repo.impl[e].other > 0
      BY <1>2 DEF PackageValid
    <3>2. q.impl[e].source + q.impl[e].other > 0 /\ e \in q.dirs
      BY <1>2, <3>1, FilesStay, HardenKeeps DEF TypeOK
    <3> HIDE DEF q
    <3> QED BY <3>1, <3>2
  <2> HIDE DEF q
  <2>3. PackageValid(q)
    BY <2>1, <2>2 DEF PackageValid
  <2> QED BY <2>3 DEF q
<1>3. TypeOK => PackageStaysValid
  BY <1>1, <1>2 DEF PackageStaysValid, StaysValidIn
<1> QED
  BY <1>3, HardenTyping, PTL

-----------------------------------------------------------------------------
(* What another run chooses.                                               *)

\* What choose_dir asks of the manifest for a row, and what it finds there and among
\* the older names.
Asked(s) == IF s.publish THEN <<s.zed>> \o s.zedAliases ELSE s.zedAliases
Given(r, s) ==
  {i \in 1 .. Len(Asked(s)) :
     Asked(s)[i] \in DOMAIN r.targets /\ Exists(r, r.targets[Asked(s)[i]])}
Older(r, s) == {i \in 1 .. Len(s.aliases) : s.aliases[i] \in r.dirs}
\* Where a row is if the manifest says nothing.
Elsewhere(r, s) ==
  IF s.dir \in r.dirs THEN s.dir
  ELSE IF s.runtime \in r.runtimes THEN Typescript
  ELSE IF Older(r, s) # {} THEN s.aliases[Min(Older(r, s))] ELSE s.dir

\* choose_dir by its parts.
LEMMA ChoiceParts ==
  ASSUME NEW r, NEW s \in Specs
  PROVE  /\ Given(r, s) # {} =>
              /\ Min(Given(r, s)) \in Given(r, s)
              /\ \A i \in Given(r, s) : Min(Given(r, s)) <= i
              /\ ChooseDir(r, s) = r.targets[Asked(s)[Min(Given(r, s))]]
         /\ Given(r, s) = {} => ChooseDir(r, s) = Elsewhere(r, s)
         /\ Older(r, s) # {} => Min(Older(r, s)) = 1 /\ s.aliases[1] \in r.dirs
<1> DEFINE given == Given(r, s)
           older == Older(r, s)
<1>1. given \in SUBSET Nat /\ older \in SUBSET Nat /\ 0 \notin given /\ 0 \notin older
  BY DEF Given, Older
<1>2. ChooseDir(r, s) =
        CASE (IF given # {} THEN Min(given) ELSE 0) # 0 ->
               r.targets[Asked(s)[IF given # {} THEN Min(given) ELSE 0]]
          [] (IF given # {} THEN Min(given) ELSE 0) = 0 /\ s.dir \in r.dirs -> s.dir
          [] OTHER -> IF s.runtime \in r.runtimes THEN Typescript
                      ELSE IF (IF older # {} THEN Min(older) ELSE 0) # 0
                           THEN s.aliases[IF older # {} THEN Min(older) ELSE 0] ELSE s.dir
  BY DEF ChooseDir, SelectInSeq, Given, Older, Asked
<1>3. older # {} => Min(older) = 1 /\ s.aliases[1] \in r.dirs
  <2>1. Len(s.aliases) \in Nat /\ Len(s.aliases) <= 1
    BY RowType, RowsAssumption
  <2>2. \A i \in older : i = 1 /\ s.aliases[i] \in r.dirs
    BY <2>1 DEF Older
  <2> HIDE DEF older
  <2> QED BY <1>1, <2>2, MinIsThere
<1>4. given # {} => Min(given) \in given /\ (\A i \in given : Min(given) <= i) /\ Min(given) # 0
  <2> HIDE DEF given
  <2> QED BY <1>1, MinIsThere
<1> HIDE DEF given, older
<1>5. given # {} => ChooseDir(r, s) = r.targets[Asked(s)[Min(given)]]
  BY <1>2, <1>4
<1>6. given = {} => ChooseDir(r, s) = Elsewhere(r, s)
  <2>1. older # {} => (IF older # {} THEN Min(older) ELSE 0) # 0
    BY <1>3
  <2> QED BY <1>2, <1>3, <2>1 DEF Elsewhere, older
<1> QED
  BY <1>3, <1>4, <1>5, <1>6 DEF given, older

\* The names asked for are names of targets, and a row that publishes asks for its own
\* first.
LEMMA AskedNames ==
  ASSUME NEW s \in Specs
  PROVE  /\ \A i \in 1 .. Len(Asked(s)) : Asked(s)[i] \in TargetNames
         /\ s.publish => 1 \in 1 .. Len(Asked(s)) /\ Asked(s)[1] = s.zed
         /\ ~s.publish => \A i \in 1 .. Len(Asked(s)) : Asked(s)[i] \in ToSet(s.zedAliases)
<1>1. s.zedAliases \in Seq(STRING) /\ s.zed \in STRING /\ s.zed \in TargetNames
  BY RowType
<1>2. \A i \in 1 .. Len(s.zedAliases) :
        s.zedAliases[i] \in TargetNames /\ s.zedAliases[i] \in ToSet(s.zedAliases)
  BY <1>1, RowType DEF ToSet
<1>3. CASE s.publish
  <2>1. ASSUME NEW S, NEW x \in S, NEW t \in Seq(S)
        PROVE  /\ 1 \in 1 .. Len(<<x>> \o t) /\ (<<x>> \o t)[1] = x
               /\ \A i \in 1 .. Len(<<x>> \o t) :
                    i = 1 \/ (i - 1 \in 1 .. Len(t) /\ (<<x>> \o t)[i] = t[i - 1])
    OBVIOUS
  <2>2. Asked(s) = <<s.zed>> \o s.zedAliases
    BY <1>3 DEF Asked
  <2>3. /\ 1 \in 1 .. Len(Asked(s)) /\ Asked(s)[1] = s.zed
        /\ \A i \in 1 .. Len(Asked(s)) :
             i = 1 \/ (i - 1 \in 1 .. Len(s.zedAliases) /\ Asked(s)[i] = s.zedAliases[i - 1])
    BY <1>1, <2>1, <2>2
  <2> QED BY <1>1, <1>2, <1>3, <2>3
<1>4. CASE ~s.publish
  BY <1>2, <1>4 DEF Asked
<1> QED
  BY <1>3, <1>4

\* What a row may have claimed: its canonical place, or what it prefers and is no other
\* row's.
ClaimOf(r, s, d) ==
  d = s.dir \/ (d = ChooseDir(r, s) /\ d # Outside /\ \A o \in Specs \ {s} : d # o.dir)

\* A run that prefers what another one prefers, or what that one has claimed, claims
\* the same.
LEMMA ClaimedAnew ==
  ASSUME NEW r, NEW chosen, NEW s \in Specs, Claimed(r, chosen, s) # Raised
  PROVE  \E d : /\ Claimed(r, chosen, s) = Over(chosen, Only(s.name, d))
                /\ ClaimOf(r, s, d)
                /\ \A n \in DOMAIN chosen : chosen[n] # d
                /\ \A q : ChooseDir(q, s) \in {ChooseDir(r, s), d} =>
                            Claimed(q, chosen, s) = Claimed(r, chosen, s)
<1> DEFINE claimed == {chosen[n] : n \in DOMAIN chosen}
           taken == claimed \union {Outside} \union {o.dir : o \in Specs \ {s}}
           free(p) == IF p \in taken THEN s.dir ELSE p
           d == free(ChooseDir(r, s))
<1>1. \A q : Claimed(q, chosen, s) =
               IF chosen = Raised THEN Raised
               ELSE IF free(ChooseDir(q, s)) \in claimed THEN Raised
               ELSE Over(chosen, Only(s.name, free(ChooseDir(q, s))))
  BY DEF Claimed, Only
<1>2. d \notin claimed /\ Claimed(r, chosen, s) = Over(chosen, Only(s.name, d)) /\ chosen # Raised
  <2> HIDE DEF claimed, free
  <2> QED BY <1>1
<1>3. ClaimOf(r, s, d)
  BY DEF ClaimOf
<1>4. free(d) = d
  BY <1>2
<1>5. ASSUME NEW q, ChooseDir(q, s) \in {ChooseDir(r, s), d}
      PROVE  Claimed(q, chosen, s) = Claimed(r, chosen, s)
  <2>1. free(ChooseDir(q, s)) = d
    BY <1>4, <1>5
  <2> HIDE DEF claimed, free, d
  <2> QED BY <1>1, <1>2, <2>1
<1>6. \A n \in DOMAIN chosen : chosen[n] # d
  <2> HIDE DEF d
  <2> QED BY <1>2
<1> QED
  BY <1>2, <1>3, <1>5, <1>6

\* What a row has claimed stays.
LEMMA ClaimsStay ==
  ASSUME NEW r, IsRepo(r), NEW f, Rows(r, f, Len(TARGETS))
  PROVE  \A j \in 0 .. Len(TARGETS) : f[j] # Raised =>
           \A i \in 0 .. j : f[i] # Raised /\ \A m \in Upto(i) : f[j][m] = f[i][m]
<1> DEFINE N == Len(TARGETS)
           Good(j) == \A i \in 0 .. j : f[i] # Raised /\ \A m \in Upto(i) : f[j][m] = f[i][m]
           Bad == {j \in 0 .. N : f[j] # Raised /\ ~Good(j)}
<1>1. N \in Nat
  BY FleetAssumption
<1> SUFFICES ASSUME Bad # {}
             PROVE  FALSE
  OBVIOUS
<1>2. PICK j \in Bad : \A k \in Bad : j <= k
  <2>1. Bad \in SUBSET Nat
    BY <1>1
  <2> HIDE DEF Bad
  <2> QED BY <2>1, Least
<1>3. j # 0
  <2>1. f[0] # Raised => Good(0)
    OBVIOUS
  <2> HIDE DEF Good
  <2> QED BY <1>2, <2>1
<1>4. /\ j \in 1 .. N /\ j - 1 \in 0 .. N /\ f[j] # Raised /\ f[j - 1] # Raised
      /\ TARGETS[j] \in Specs
      /\ f[j] = Claimed(r, f[j - 1], TARGETS[j])
  BY <1>2, <1>3, RowStep
<1>5. Good(j - 1)
  <2>1. ~(j <= j - 1)
    BY <1>4, <1>1
  <2>2. j - 1 \notin Bad
    <3> HIDE DEF Bad
    <3> QED BY <1>2, <2>1
  <2> HIDE DEF Good
  <2> QED BY <1>4, <2>2
<1>6. f[j - 1] \in [Upto(j - 1) -> Paths]
  BY <1>4, RowsArePaths
<1>7. PICK d : f[j] = Over(f[j - 1], Only(TARGETS[j].name, d))
  <2>1. Claimed(r, f[j - 1], TARGETS[j]) # Raised
    BY <1>4
  <2> HIDE DEF Bad, Good
  <2> QED BY <1>4, <2>1, ClaimedAnew
<1>8. \A m \in Upto(j - 1) : f[j][m] = f[j - 1][m]
  BY <1>6, <1>7 DEF Over
<1>9. \A i \in 0 .. j - 1 : Upto(i) \subseteq Upto(j - 1)
  BY <1>1, <1>4 DEF Upto
<1>10. Good(j)
  <2> SUFFICES ASSUME NEW i \in 0 .. j
               PROVE  f[i] # Raised /\ \A m \in Upto(i) : f[j][m] = f[i][m]
    OBVIOUS
  <2>1. CASE i = j
    BY <2>1, <1>4
  <2>2. CASE i # j
    <3>1. i \in 0 .. j - 1
      BY <2>2, <1>4
    <3> QED BY <3>1, <1>5, <1>8, <1>9
  <2> QED BY <2>1, <2>2
<1> QED
  BY <1>2, <1>10

\* A name is not among those of the rows before.
LEMMA NewName ==
  ASSUME NEW i \in 1 .. Len(TARGETS)
  PROVE  TARGETS[i].name \notin Upto(i - 1) /\ TARGETS[i].name \in Upto(i)
<1>1. TARGETS \in Seq(Row) /\ Len(TARGETS) \in Nat
  BY FleetAssumption
<1>2. \A j \in 1 .. i - 1 : j \in DOMAIN TARGETS /\ i \in DOMAIN TARGETS /\ j # i
  BY <1>1
<1> QED
  BY <1>1, <1>2, FleetAssumption DEF Upto

\* A run that prefers for a row what another one prefers or has chosen claims the same.
Repeats(r, f, i) ==
  \A q : ChooseDir(q, TARGETS[i]) \in
           {ChooseDir(r, TARGETS[i]), f[Len(TARGETS)][TARGETS[i].name]} =>
             Claimed(q, f[i - 1], TARGETS[i]) = f[i]

\* A row of a run that does not raise: what it claims, and that it is what is chosen.
LEMMA RowClaims ==
  ASSUME NEW r, IsRepo(r), NEW f, Rows(r, f, Len(TARGETS)),
         f[Len(TARGETS)] # Raised, NEW i \in 1 .. Len(TARGETS)
  PROVE  /\ TARGETS[i] \in Specs /\ i - 1 \in 0 .. Len(TARGETS) /\ i \in 0 .. Len(TARGETS)
         /\ f[i] # Raised /\ f[i] = Claimed(r, f[i - 1], TARGETS[i])
         /\ ClaimOf(r, TARGETS[i], f[Len(TARGETS)][TARGETS[i].name])
         /\ \A m \in Upto(i - 1) :
              f[Len(TARGETS)][m] # f[Len(TARGETS)][TARGETS[i].name]
         /\ Repeats(r, f, i)
<1> DEFINE N == Len(TARGETS)
<1>1. N \in Nat /\ N \in 0 .. N /\ i \in 0 .. N /\ i # 0
  BY FleetAssumption
<1>2. f[i] # Raised /\ \A m \in Upto(i) : f[N][m] = f[i][m]
  BY <1>1, ClaimsStay
<1>3. /\ i - 1 \in 0 .. N /\ f[i - 1] # Raised /\ TARGETS[i] \in Specs
      /\ f[i] = Claimed(r, f[i - 1], TARGETS[i])
  BY <1>1, <1>2, RowStep
<1>4. PICK d : /\ f[i] = Over(f[i - 1], Only(TARGETS[i].name, d))
               /\ ClaimOf(r, TARGETS[i], d)
               /\ \A m \in DOMAIN f[i - 1] : f[i - 1][m] # d
               /\ \A q : ChooseDir(q, TARGETS[i]) \in {ChooseDir(r, TARGETS[i]), d} =>
                           Claimed(q, f[i - 1], TARGETS[i]) = f[i]
  <2>1. Claimed(r, f[i - 1], TARGETS[i]) # Raised
    BY <1>2, <1>3
  <2> QED BY <1>3, <2>1, ClaimedAnew
<1>5. f[i - 1] \in [Upto(i - 1) -> Paths]
  BY <1>3, RowsArePaths
<1>6. f[N][TARGETS[i].name] = d
  <2>1. TARGETS[i].name \notin Upto(i - 1) /\ TARGETS[i].name \in Upto(i)
    BY NewName
  <2>2. f[i][TARGETS[i].name] = d
    BY <1>4, <1>5, <2>1 DEF Over, Only
  <2> QED BY <1>2, <2>1, <2>2
<1>7. \A m \in Upto(i - 1) : f[N][m] # d
  <2>1. \A m \in Upto(i - 1) : m \in Upto(i) /\ f[i][m] = f[i - 1][m]
    BY <1>4, <1>5 DEF Upto, Over
  <2> QED BY <1>2, <1>4, <1>5, <2>1
<1> QED
  BY <1>1, <1>2, <1>3, <1>4, <1>6, <1>7 DEF Repeats

\* What is chosen for a row is what it claims.
LEMMA ChosenFrom ==
  ASSUME NEW r, IsRepo(r), ChooseTargetDirs(r) # Raised, NEW s \in Specs
  PROVE  ClaimOf(r, s, ChooseTargetDirs(r)[s.name])
<1>1. PICK f : Rows(r, f, Len(TARGETS)) /\ ChooseTargetDirs(r) = f[Len(TARGETS)]
  BY ChosenByRows
<1>2. PICK i \in 1 .. Len(TARGETS) : s = TARGETS[i]
  BY FleetAssumption DEF Specs, ToSet
<1> QED
  BY <1>1, <1>2, RowClaims

\* No two rows are given the same directory.
LEMMA ChosenApart ==
  ASSUME NEW r, IsRepo(r), NEW c, c = ChooseTargetDirs(r), c # Raised,
         NEW s \in Specs, NEW t \in Specs, c[s.name] = c[t.name]
  PROVE  s = t
<1>1. PICK f : Rows(r, f, Len(TARGETS)) /\ c = f[Len(TARGETS)]
  BY ChosenByRows
<1>2. PICK i \in 1 .. Len(TARGETS), j \in 1 .. Len(TARGETS) : s = TARGETS[i] /\ t = TARGETS[j]
  BY FleetAssumption DEF Specs, ToSet
<1>3. ASSUME NEW k \in 1 .. Len(TARGETS), NEW l \in 1 .. Len(TARGETS), k < l
      PROVE  c[TARGETS[k].name] # c[TARGETS[l].name]
  <2>1. TARGETS[k].name \in Upto(l - 1)
    BY <1>3, FleetAssumption DEF Upto
  <2>2. \A m \in Upto(l - 1) : c[m] # c[TARGETS[l].name]
    BY <1>1, RowClaims
  <2> QED BY <2>1, <2>2
<1>4. i = j
  <2>1. i \in Nat /\ j \in Nat
    OBVIOUS
  <2> QED BY <1>2, <1>3, <2>1
<1> QED
  BY <1>2, <1>4

\* A run that prefers, for each row, what another one prefers or has chosen, chooses
\* the same.
LEMMA SameChoice ==
  ASSUME NEW r, IsRepo(r), ChooseTargetDirs(r) # Raised, NEW q,
         \A s \in Specs : ChooseDir(q, s) \in {ChooseDir(r, s), ChooseTargetDirs(r)[s.name]}
  PROVE  ChooseTargetDirs(q) = ChooseTargetDirs(r)
<1> DEFINE N == Len(TARGETS)
<1>1. N \in Nat /\ N \in 0 .. N
  BY FleetAssumption
<1>2. PICK f : Rows(r, f, N) /\ ChooseTargetDirs(r) = f[N]
  BY ChosenByRows
<1>3. PICK g : Rows(q, g, N) /\ ChooseTargetDirs(q) = g[N]
  BY ChosenByRows
<1> DEFINE Bad == {i \in 0 .. N : g[i] # f[i]}
<1>4. Bad = {}
  <2> SUFFICES ASSUME Bad # {}
               PROVE  FALSE
    OBVIOUS
  <2>1. PICK i \in Bad : \A j \in Bad : i <= j
    <3>1. Bad \in SUBSET Nat
      BY <1>1
    <3> HIDE DEF Bad
    <3> QED BY <3>1, Least
  <2>2. i # 0
    <3>1. 0 \in 0 .. N
      BY <1>1
    <3>2. f[0] = <<>> /\ g[0] = <<>>
      BY <1>2, <1>3, <3>1, RowStep
    <3> QED BY <2>1, <3>2
  <2>3. i \in 1 .. N /\ i - 1 \in 0 .. N /\ i - 1 \notin Bad
    <3>1. i \in 1 .. N /\ i - 1 \in 0 .. N /\ ~(i <= i - 1)
      BY <2>1, <2>2, <1>1
    <3> HIDE DEF Bad
    <3> QED BY <2>1, <3>1
  <2>4. g[i - 1] = f[i - 1]
    BY <2>3
  <2>5. Claimed(q, f[i - 1], TARGETS[i]) = f[i]
    <3>1. TARGETS[i] \in Specs
      BY <1>2, <2>3, RowClaims
    <3>2. ChooseDir(q, TARGETS[i]) \in {ChooseDir(r, TARGETS[i]), f[N][TARGETS[i].name]}
      BY <1>2, <3>1
    <3>3. Repeats(r, f, i)
      <4>1. f[Len(TARGETS)] # Raised
        BY <1>2
      <4> HIDE DEF Bad
      <4> QED BY <1>2, <2>3, <4>1, RowClaims
    <3> HIDE DEF Bad
    <3> QED BY <3>2, <3>3 DEF Repeats
  <2>6. g[i] = Claimed(q, g[i - 1], TARGETS[i])
    <3>1. \A j \in 0 .. N : g[j] = IF j = 0 THEN <<>> ELSE Claimed(q, g[j - 1], TARGETS[j])
      BY <1>3 DEF Rows
    <3> QED BY <2>1, <2>2, <3>1
  <2> QED
    BY <2>1, <2>4, <2>5, <2>6
<1> QED
  BY <1>1, <1>2, <1>3, <1>4

\* What a row prefers is there, or outside, or its canonical place.
LEMMA PreferredIsThere ==
  ASSUME NEW r, IsRepo(r), NEW s \in Specs
  PROVE  ChooseDir(r, s) \in r.dirs \union {Outside, s.dir}
<1>1. CASE Given(r, s) # {}
  <2> DEFINE i == Min(Given(r, s))
  <2>1. i \in Given(r, s) /\ ChooseDir(r, s) = r.targets[Asked(s)[i]]
    BY <1>1, ChoiceParts
  <2> HIDE DEF i
  <2>2. /\ i \in 1 .. Len(Asked(s)) /\ Asked(s)[i] \in DOMAIN r.targets
        /\ r.targets[Asked(s)[i]] \in r.dirs \union {Root, Outside}
    BY <2>1 DEF Given, Exists
  <2>3. Asked(s)[i] \in TargetNames
    BY <2>2, AskedNames
  <2>4. r.targets[Asked(s)[i]] # Root
    BY <2>2, <2>3 DEF IsRepo
  <2> QED BY <2>1, <2>2, <2>4
<1>2. CASE Given(r, s) = {}
  <2>1. ChooseDir(r, s) = Elsewhere(r, s) /\ (Older(r, s) # {} => s.aliases[Min(Older(r, s))] \in r.dirs)
    BY <1>2, ChoiceParts
  <2>2. s.runtime \in r.runtimes => Typescript \in r.dirs
    BY DEF IsRepo
  <2> QED BY <2>1, <2>2 DEF Elsewhere
<1> QED
  BY <1>1, <1>2

\* The directories that scaffolds are made in; what else a scaffold leaves as it is.
LEMMA ScaffoldParts ==
  ASSUME NEW r, IsRepo(r), NEW c \in [Names -> Paths], NEW q, q = Scaffold(r, c)
  PROVE  /\ q.dirs = r.dirs \union {c[n] : n \in Names}
                       \union {SubSeq(d, 1, 1) : d \in {c[n] : n \in Names}}
         /\ q.runtimes = r.runtimes /\ q.targets = r.targets /\ q.interfaces = r.interfaces
         /\ q.surface = r.surface /\ q.fingerprint = r.fingerprint /\ q.markers = r.markers
         /\ q.manifest = r.manifest /\ q.matrix = r.matrix
<1>1. Grown(q, r) /\ q.dirs = r.dirs \union DirsOf(c, Len(TARGETS))
  BY ScaffoldIsRepo
<1>2. DirsOf(c, Len(TARGETS)) =
        {c[n] : n \in Names} \union {SubSeq(d, 1, 1) : d \in {c[n] : n \in Names}}
  <2>1. Names = {TARGETS[i].name : i \in 1 .. Len(TARGETS)}
    BY FleetAssumption DEF Names, Specs, ToSet
  <2>2. \A x : x \in DirsOf(c, Len(TARGETS)) <=>
          \E i \in 1 .. Len(TARGETS) :
            x = c[TARGETS[i].name] \/ x = SubSeq(c[TARGETS[i].name], 1, 1)
    BY DEF DirsOf
  <2>3. \A x : x \in DirsOf(c, Len(TARGETS)) <=>
          \E n \in Names : x = c[n] \/ x = SubSeq(c[n], 1, 1)
    BY <2>1, <2>2
  <2> QED BY <2>3
<1> QED
  BY <1>1, <1>2 DEF Grown, IsRepo

\* A canonical place that scaffolds have brought into being is what its row was given.
LEMMA OwnPlace ==
  ASSUME NEW r, IsRepo(r), NEW c, c = ChooseTargetDirs(r), c # Raised, NEW s \in Specs,
         s.dir \in Scaffold(r, c).dirs, s.dir \notin r.dirs
  PROVE  s.dir = c[s.name]
<1>1. PICK n \in Names : s.dir = c[n] \/ s.dir = SubSeq(c[n], 1, 1)
  BY ChosenArePaths, ScaffoldParts
<1>2. PICK t \in Specs : n = t.name
  BY DEF Names
<1>3. ClaimOf(r, t, c[n])
  BY <1>2, ChosenFrom
<1>4. CASE s = t
  <2>1. c[n] = t.dir => s.dir = c[s.name]
    BY <1>2, <1>4
  <2>2. ASSUME c[n] # t.dir
        PROVE  FALSE
    <3>1. c[n] = ChooseDir(r, t) /\ c[n] # Outside
      BY <2>2, <1>3 DEF ClaimOf
    <3>2. c[n] \in r.dirs
      BY <3>1, <2>2, PreferredIsThere
    <3> QED BY <3>2, <1>1, <1>4, <2>2 DEF IsRepo
  <2> QED BY <2>1, <2>2
<1>5. CASE s # t
  <2>1. s.dir # t.dir /\ s.dir # SubSeq(t.dir, 1, 1)
    BY <1>5, RowsAssumption
  <2>2. c[n] # t.dir
    BY <1>1, <2>1
  <2>3. c[n] = ChooseDir(r, t) /\ c[n] # Outside /\ c[n] # s.dir
    BY <1>3, <1>5, <2>2 DEF ClaimOf
  <2>4. c[n] \in r.dirs
    BY <2>2, <2>3, PreferredIsThere
  <2> QED BY <1>1, <2>3, <2>4 DEF IsRepo
<1> QED
  BY <1>4, <1>5

\* A row that the manifest says nothing of prefers after the scaffolds what it did
\* before or was given.
LEMMA ElsewhereAgain ==
  ASSUME NEW r, IsRepo(r), NEW c, c = ChooseTargetDirs(r), c # Raised, NEW s \in Specs,
         Given(r, s) = {}, NEW q, q.dirs = Scaffold(r, c).dirs, q.runtimes = r.runtimes
  PROVE  Elsewhere(q, s) \in {Elsewhere(r, s), c[s.name]}
<1>1. r.dirs \subseteq q.dirs /\ c[s.name] \in q.dirs
  <2>1. c \in [Names -> Paths] /\ s.name \in Names
    BY ChosenArePaths DEF Names
  <2> QED BY <2>1, ScaffoldParts
<1>2. ChooseDir(r, s) = Elsewhere(r, s)
  BY ChoiceParts
<1>3. CASE s.dir \in r.dirs
  BY <1>1, <1>3 DEF Elsewhere
<1>4. CASE s.dir \notin r.dirs /\ s.dir \in q.dirs
  BY <1>4, OwnPlace DEF Elsewhere
<1>5. CASE s.dir \notin q.dirs
  <2>1. c[s.name] = Elsewhere(r, s) /\ Elsewhere(r, s) # s.dir
    BY <1>1, <1>2, <1>5, ChosenFrom DEF ClaimOf
  <2>2. CASE s.runtime \in r.runtimes
    BY <1>1, <1>5, <2>2 DEF Elsewhere
  <2>3. CASE s.runtime \notin r.runtimes
    <3>1. Older(r, s) # {}
      BY <1>1, <1>5, <2>1, <2>3 DEF Elsewhere
    <3>2. Older(r, s) \subseteq Older(q, s)
      BY <1>1 DEF Older
    <3>3. Min(Older(r, s)) = 1 /\ Min(Older(q, s)) = 1 /\ Older(q, s) # {}
      BY <3>1, <3>2, ChoiceParts
    <3> QED BY <1>1, <1>5, <2>3, <3>1, <3>3 DEF Elsewhere
  <2> QED BY <2>2, <2>3
<1> QED
  BY <1>1, <1>3, <1>4, <1>5

-----------------------------------------------------------------------------
(* What ensure_manifest makes of the targets.                              *)

Mature(t) ==
  LET configured == {n \in DOMAIN t : t[n] # Root}
  IN  /\ Cardinality(configured) >= MinimumTargets - 2
      /\ \A n \in configured : InClients(t[n])
Placed(c) == [z \in {s.zed : s \in {t \in Specs : t.publish}} |->
                c[(CHOOSE s \in Specs : s.publish /\ s.zed = z).name]]
Dropped(t) == (UNION {ToSet(s.zedAliases) : s \in Specs})
                \union (IF "contract" \in DOMAIN t \ {n \in DOMAIN t : t[n] # Root}
                        THEN {"contract"} ELSE {})
Targeted(t, c) ==
  IF Mature(t) THEN t
  ELSE Over([n \in {"repository"} |-> Root],
            Over(Placed(c), [n \in DOMAIN t \ Dropped(t) |-> t[n]]))

\* It looks at nothing else and changes nothing else.
LEMMA ManifestByTargets ==
  ASSUME NEW r, IsRepo(r), NEW c
  PROVE  EnsureManifest(r, c) = [r EXCEPT !.targets = Targeted(r.targets, c)]
<1>1. EnsureManifest(r, c) = IF Mature(r.targets) THEN r
                             ELSE [r EXCEPT !.targets = Targeted(r.targets, c)]
  BY DEF EnsureManifest, Mature, Targeted, Placed, Dropped
<1>2. r = [r EXCEPT !.targets = r.targets]
  BY DEF IsRepo
<1> QED
  BY <1>1, <1>2 DEF Targeted

\* It has nothing to say to its own.
LEMMA TargetedTwice ==
  ASSUME NEW t, NEW c
  PROVE  Targeted(Targeted(t, c), c) = Targeted(t, c)
<1> DEFINE w == Targeted(t, c)
           v == Targeted(w, c)
<1>1. CASE Mature(t)
  BY <1>1 DEF Targeted
<1>2. CASE Mature(w)
  BY <1>2 DEF Targeted
<1>3. CASE ~Mature(t) /\ ~Mature(w)
  <2>1. /\ w = [n \in DOMAIN w |-> w[n]]
        /\ DOMAIN w = {"repository"} \union DOMAIN Placed(c) \union (DOMAIN t \ Dropped(t))
        /\ \A n \in DOMAIN w :
              w[n] = IF n = "repository" THEN Root
                     ELSE IF n \in DOMAIN Placed(c) THEN Placed(c)[n] ELSE t[n]
    BY <1>3 DEF Targeted, Over
  <2>2. /\ v = [n \in DOMAIN v |-> v[n]]
        /\ DOMAIN v = {"repository"} \union DOMAIN Placed(c) \union (DOMAIN w \ Dropped(w))
        /\ \A n \in DOMAIN v :
              v[n] = IF n = "repository" THEN Root
                     ELSE IF n \in DOMAIN Placed(c) THEN Placed(c)[n] ELSE w[n]
    <3> HIDE DEF w
    <3> QED BY <1>3 DEF Targeted, Over
  <2> HIDE DEF v, w
  <2>3. ASSUME NEW n \in DOMAIN w, n # "repository", n \notin DOMAIN Placed(c)
        PROVE  n \notin Dropped(w)
    <3>1. n \in DOMAIN t /\ n \notin Dropped(t) /\ w[n] = t[n]
      BY <2>1, <2>3
    <3> QED BY <2>3, <3>1 DEF Dropped
  <2>4. DOMAIN v = DOMAIN w
    BY <2>1, <2>2, <2>3
  <2>5. \A n \in DOMAIN w : v[n] = w[n]
    BY <2>1, <2>2, <2>4
  <2>6. v = w
    BY <2>1, <2>2, <2>4, <2>5
  <2> QED BY <2>6 DEF v, w
<1> QED
  BY <1>1, <1>2, <1>3

-----------------------------------------------------------------------------
(* A run after another, to its end or killed.                              *)

\* What is preferred after the scaffolds, and after the manifest, is what was preferred
\* before or was chosen.
LEMMA ChoiceAgain ==
  ASSUME NEW r, IsRepo(r), ManifestStands(r), NEW c, c = ChooseTargetDirs(r), c # Raised,
         Harden(r).repo.targets = Targeted(r.targets, c),
         NEW q, q.dirs = Scaffold(r, c).dirs, q.runtimes = r.runtimes,
         q.targets \in {r.targets, Targeted(r.targets, c)},
         NEW s \in Specs
  PROVE  ChooseDir(q, s) \in {ChooseDir(r, s), c[s.name]}
<1>1. r.dirs \subseteq q.dirs /\ c[s.name] \in q.dirs
  <2>1. c \in [Names -> Paths] /\ s.name \in Names
    BY ChosenArePaths DEF Names
  <2> QED BY <2>1, ScaffoldParts
<1>2. ASSUME Given(r, s) = {}, Given(q, s) = {}
      PROVE  ChooseDir(q, s) \in {ChooseDir(r, s), c[s.name]}
  <2>1. ChooseDir(q, s) = Elsewhere(q, s) /\ ChooseDir(r, s) = Elsewhere(r, s)
    BY <1>2, ChoiceParts
  <2> QED BY <1>2, <2>1, ElsewhereAgain
<1>3. CASE q.targets = r.targets
  <2>1. \A n \in DOMAIN r.targets : Exists(r, r.targets[n]) /\ Exists(q, r.targets[n])
    BY <1>1 DEF ManifestStands, Exists
  <2>2. Given(q, s) = Given(r, s)
    BY <1>3, <2>1 DEF Given
  <2>3. CASE Given(r, s) # {}
    BY <1>3, <2>2, <2>3, ChoiceParts
  <2> QED BY <1>2, <2>2, <2>3
<1>4. CASE q.targets # r.targets
  <2>1. ~Mature(r.targets) /\ q.targets = Targeted(r.targets, c)
    BY <1>4 DEF Targeted
  <2>2. /\ DOMAIN q.targets =
             {"repository"} \union DOMAIN Placed(c) \union (DOMAIN r.targets \ Dropped(r.targets))
        /\ \A n \in DOMAIN Placed(c) \ {"repository"} : q.targets[n] = Placed(c)[n]
    BY <2>1 DEF Targeted, Over
  <2>3. DOMAIN Placed(c) = {o.zed : o \in {t \in Specs : t.publish}}
    BY DEF Placed
  <2>4. CASE s.publish
    <3>1. s.zed \in DOMAIN Placed(c) /\ Placed(c)[s.zed] = c[s.name]
      <4>1. \A o \in Specs : o.publish /\ o.zed = s.zed => o = s
        BY <2>4, RowsAssumption
      <4>2. (CHOOSE o \in Specs : o.publish /\ o.zed = s.zed) = s
        BY <2>4, <4>1
      <4> QED BY <2>3, <2>4, <4>2 DEF Placed
    <3>2. s.zed # "repository"
      BY RowType, FleetAssumption
    <3>3. 1 \in Given(q, s) /\ Asked(s)[1] = s.zed /\ q.targets[s.zed] = c[s.name]
      BY <1>1, <2>2, <2>4, <3>1, <3>2, AskedNames DEF Given, Exists
    <3>4. Min(Given(q, s)) = 1 /\ Given(q, s) # {}
      <4>1. Min(Given(q, s)) \in Given(q, s) /\ Min(Given(q, s)) <= 1
        BY <3>3, ChoiceParts
      <4>2. \A i \in Given(q, s) : i \in Nat /\ i >= 1
        BY DEF Given
      <4> QED BY <3>3, <4>1, <4>2
    <3> QED BY <3>3, <3>4, ChoiceParts
  <2>5. CASE ~s.publish
    <3>1. ASSUME NEW n \in ToSet(s.zedAliases)
          PROVE  n \notin DOMAIN q.targets /\ n \notin DOMAIN r.targets
      <4>1. n \in TargetNames /\ n # "repository"
        BY FleetAssumption DEF TargetNames
      <4>2. n \in Dropped(r.targets)
        BY DEF Dropped
      <4>3. n \notin DOMAIN Placed(c)
        BY <2>3, <2>5, RowsAssumption
      <4>4. n \notin DOMAIN q.targets
        BY <2>2, <4>1, <4>2, <4>3
      <4>5. ToSet(s.zedAliases) \intersect DOMAIN r.targets \subseteq DOMAIN q.targets
        BY <2>1, <2>5 DEF ManifestStands
      <4> QED BY <4>4, <4>5
    <3>2. \A i \in 1 .. Len(Asked(s)) : Asked(s)[i] \in ToSet(s.zedAliases)
      BY <2>5, AskedNames
    <3>3. Given(r, s) = {} /\ Given(q, s) = {}
      BY <3>1, <3>2 DEF Given
    <3> QED BY <1>2, <3>3
  <2> QED BY <2>4, <2>5
<1> QED
  BY <1>3, <1>4

\* The package that runtimes share has no scaffold.
Shared(s, d) == s.runtime # NoRuntime /\ d = Typescript

\* What is made already is not made again.
LEMMA MadeOnce ==
  ASSUME NEW r, IsRepo(r), NEW d \in r.dirs
  PROVE  MadeDir(r, d) = r
<1>1. r.dirs \union {d, SubSeq(d, 1, 1)} = r.dirs
  BY DEF IsRepo
<1>2. [e \in r.dirs |-> IF e \in r.dirs THEN r.impl[e] ELSE NoFiles] = r.impl
  BY DEF IsRepo
<1>3. MadeDir(r, d) = [r EXCEPT !.dirs = r.dirs, !.impl = r.impl]
  BY <1>1, <1>2 DEF MadeDir
<1> QED
  BY <1>3 DEF IsRepo

\* A row that has its directory, and a product or no scaffold, adds nothing.
LEMMA RowOnce ==
  ASSUME NEW r, IsRepo(r), NEW s, NEW d \in r.dirs, HasProduct(r, d) \/ Shared(s, d)
  PROVE  ScaffoldRow(r, s, d) = r
BY MadeOnce DEF ScaffoldRow, Scaffolded, Shared

\* A row leaves a product, or no scaffold.
LEMMA RowHasProduct ==
  ASSUME NEW r, IsRepo(r), NEW s \in Specs, NEW d \in Paths
  PROVE  HasProduct(ScaffoldRow(r, s, d), d) \/ Shared(s, d)
<1> DEFINE p == MadeDir(r, d)
           n == s.metadata + s.sources
           q == Scaffolded(p, s, d, n)
<1>1. IsRepo(p) /\ p.dirs = r.dirs \union {d, SubSeq(d, 1, 1)}
  BY MadeDirIsRepo
<1>2. s.metadata \in Nat /\ s.sources \in Nat \ {0}
  BY RowType DEF Row
<1>3. d \in p.dirs /\ p.impl[d] \in Files
  BY <1>1 DEF IsRepo
<1> HIDE DEF p
<1>4. CASE HasProduct(p, d) \/ Shared(s, d)
  BY <1>4 DEF Scaffolded, ScaffoldRow, Shared, p
<1>5. CASE ~HasProduct(p, d) /\ ~Shared(s, d)
  <2>1. q = [p EXCEPT !.impl[d] = Begin(p.impl[d], s, n)]
    BY <1>5 DEF Scaffolded, Shared
  <2>2. Begin(p.impl[d], s, n).source > 0
    <3>1. n > s.metadata /\ n - s.metadata = s.sources /\ s.sources > 0
      BY <1>2
    <3> HIDE DEF n
    <3> QED BY <1>3, <3>1 DEF Begin, Files
  <2> HIDE DEF q, n
  <2>3. q.dirs = p.dirs /\ q.impl[d].source > 0
    BY <1>1, <1>3, <2>1, <2>2 DEF IsRepo
  <2>4. Seen(d, d)
    BY SeesItself
  <2>5. HasProduct(q, d)
    BY <1>3, <2>3, <2>4 DEF HasProduct
  <2> QED BY <2>5 DEF q, n, p, ScaffoldRow
<1> QED
  BY <1>4, <1>5

\* A product stays when a repository grows.
LEMMA ProductGrows ==
  ASSUME NEW r, IsRepo(r), NEW q, Grown(q, r), NEW d, HasProduct(r, d)
  PROVE  HasProduct(q, d)
BY DEF Grown, Kept, HasProduct

\* A row's directory and name.
LEMMA RowAt ==
  ASSUME NEW c \in [Names -> Paths], NEW i \in 1 .. Len(TARGETS)
  PROVE  /\ TARGETS[i] \in Specs /\ c[TARGETS[i].name] \in Paths
         /\ i \in Nat \ {0} /\ i - 1 \in 0 .. Len(TARGETS) /\ i \in 0 .. Len(TARGETS)
<1>1. TARGETS \in Seq(Row) /\ DOMAIN TARGETS = 1 .. Len(TARGETS) /\ Len(TARGETS) \in Nat
  BY FleetAssumption
<1> QED
  BY <1>1 DEF Specs, Names, ToSet

\* The rows done have their directories, and products or no scaffolds.
RowsDone(q, c, n) ==
  \A i \in 1 .. n : LET s == TARGETS[i]
                        d == c[s.name]
                    IN  d \in q.dirs /\ (HasProduct(q, d) \/ Shared(s, d))

LEMMA RowsAreDone ==
  ASSUME NEW r, IsRepo(r), NEW c \in [Names -> Paths]
  PROVE  \A n \in 0 .. Len(TARGETS) : RowsDone(ScaffoldTo(r, c, n), c, n)
<1> DEFINE Bad == {n \in 0 .. Len(TARGETS) : ~RowsDone(ScaffoldTo(r, c, n), c, n)}
<1>1. Len(TARGETS) \in Nat
  BY FleetAssumption
<1> SUFFICES ASSUME Bad # {}
             PROVE  FALSE
  OBVIOUS
<1>2. PICK n \in Bad : \A m \in Bad : n <= m
  <2>1. Bad \in SUBSET Nat
    BY <1>1
  <2> HIDE DEF Bad
  <2> QED BY <2>1, Least
<1>3. n # 0
  BY <1>2 DEF RowsDone
<1>4. n \in 1 .. Len(TARGETS) /\ n - 1 \in 0 .. Len(TARGETS)
  BY <1>1, <1>2, <1>3
<1> DEFINE q == ScaffoldTo(r, c, n - 1)
           s == TARGETS[n]
           d == c[s.name]
<1>5. RowsDone(q, c, n - 1)
  BY <1>2, <1>4
<1>6. s \in Specs /\ d \in Paths /\ n \in Nat \ {0}
  BY <1>4, RowAt
<1>7. IsRepo(q)
  BY <1>4, ScaffoldToIsRepo
<1>8. ScaffoldTo(r, c, n) = ScaffoldRow(q, s, d) /\ ~RowsDone(ScaffoldTo(r, c, n), c, n)
  <2>1. ~RowsDone(ScaffoldTo(r, c, n), c, n)
    BY <1>2
  <2> HIDE DEF Bad
  <2> QED BY <1>6, <2>1, ScaffoldNext
<1> HIDE DEF q, Bad
<1> DEFINE p == ScaffoldRow(q, s, d)
<1>9. Grown(p, q) /\ p.dirs = q.dirs \union {d, SubSeq(d, 1, 1)}
  BY <1>6, <1>7, RowIsRepo
<1>10. HasProduct(p, d) \/ Shared(s, d)
  BY <1>6, <1>7, RowHasProduct
<1> HIDE DEF p
<1>11. RowsDone(p, c, n)
  <2> SUFFICES ASSUME NEW i \in 1 .. n
               PROVE  /\ c[TARGETS[i].name] \in p.dirs
                      /\ HasProduct(p, c[TARGETS[i].name]) \/ Shared(TARGETS[i], c[TARGETS[i].name])
    BY DEF RowsDone
  <2>1. CASE i = n
    BY <1>9, <1>10, <2>1
  <2>2. CASE i # n
    <3>1. i \in 1 .. n - 1
      BY <2>2, <1>4
    <3> DEFINE e == c[TARGETS[i].name]
    <3>2. e \in q.dirs /\ (HasProduct(q, e) \/ Shared(TARGETS[i], e))
      BY <1>5, <3>1 DEF RowsDone
    <3> HIDE DEF e
    <3>3. e \in p.dirs /\ (HasProduct(p, e) \/ Shared(TARGETS[i], e))
      BY <1>7, <1>9, <3>2, ProductGrows
    <3> QED BY <3>3 DEF e
  <2> QED BY <2>1, <2>2
<1> QED
  BY <1>8, <1>11 DEF p

\* Rows that are done add nothing.
LEMMA DoneIsOnce ==
  ASSUME NEW k, IsRepo(k), NEW c \in [Names -> Paths],
         NEW m \in 0 .. Len(TARGETS), RowsDone(k, c, m)
  PROVE  \A n \in 0 .. m : ScaffoldTo(k, c, n) = k
<1> DEFINE Bad == {n \in 0 .. m : ScaffoldTo(k, c, n) # k}
<1>1. Len(TARGETS) \in Nat /\ m \in Nat
  BY FleetAssumption
<1> SUFFICES ASSUME Bad # {}
             PROVE  FALSE
  OBVIOUS
<1>2. PICK n \in Bad : \A l \in Bad : n <= l
  <2>1. Bad \in SUBSET Nat
    BY <1>1
  <2> HIDE DEF Bad
  <2> QED BY <2>1, Least
<1>3. n # 0
  BY <1>2, ScaffoldNext
<1>4. n \in 1 .. m /\ n - 1 \in 0 .. m /\ n \in Nat \ {0}
  BY <1>1, <1>2, <1>3
<1>5. ScaffoldTo(k, c, n - 1) = k
  BY <1>2, <1>4
<1>6. ScaffoldTo(k, c, n) = ScaffoldRow(k, TARGETS[n], c[TARGETS[n].name])
  <2>1. n \in Nat \ {0}
    BY <1>4
  <2> HIDE DEF Bad
  <2>2. ScaffoldTo(k, c, n) = ScaffoldRow(ScaffoldTo(k, c, n - 1), TARGETS[n], c[TARGETS[n].name])
    BY <2>1, ScaffoldNext
  <2> QED BY <1>5, <2>2
<1>7. ScaffoldRow(k, TARGETS[n], c[TARGETS[n].name]) = k
  <2> DEFINE s == TARGETS[n]
             d == c[s.name]
  <2>1. d \in k.dirs /\ (HasProduct(k, d) \/ Shared(s, d))
    BY <1>4 DEF RowsDone
  <2> HIDE DEF s, d
  <2>2. ScaffoldRow(k, s, d) = k
    BY <2>1, RowOnce
  <2> QED BY <2>2 DEF s, d
<1> QED
  BY <1>2, <1>6, <1>7

\* Where the scaffolds are, no other is made.
LEMMA ScaffoldOnce ==
  ASSUME NEW r, IsRepo(r), NEW c \in [Names -> Paths], NEW k, IsRepo(k),
         k.dirs = Scaffold(r, c).dirs, k.impl = Scaffold(r, c).impl
  PROVE  /\ Scaffold(k, c) = k
         /\ \A t \in Specs : HasProduct(k, c[t.name]) \/ Shared(t, c[t.name])
<1> DEFINE N == Len(TARGETS)
<1>1. N \in 0 .. N /\ N \in Nat
  BY FleetAssumption
<1>2. RowsDone(Scaffold(r, c), c, N)
  BY <1>1, RowsAreDone DEF Scaffold
<1>3. RowsDone(k, c, N)
  BY <1>2 DEF RowsDone, HasProduct
<1>4. Scaffold(k, c) = k
  BY <1>1, <1>3, DoneIsOnce DEF Scaffold
<1>5. \A t \in Specs : HasProduct(k, c[t.name]) \/ Shared(t, c[t.name])
  <2>1. \A t \in Specs : \E i \in 1 .. N : t = TARGETS[i]
    BY FleetAssumption DEF Specs, ToSet
  <2> QED BY <1>3, <2>1 DEF RowsDone
<1> QED
  BY <1>4, <1>5

\* What each write looks at.
CoveredIn(dirs, chosen) == Covered([dirs |-> dirs], chosen)
HardenedOf(surface, interfaces) == Hardened([surface |-> surface, interfaces |-> interfaces])
NewMarkers(dirs, chosen, surface) ==
  LET covered == CoveredIn(dirs, chosen)
      places == {t.place : t \in covered}
  IN  [p \in places |-> Marker(CHOOSE t \in covered : t.place = p, surface)]
NewManifest(dirs, impl, chosen, surface) ==
  [surface |-> surface,
   entries |-> {[target |-> t.target, zed |-> t.zed, runtime |-> t.runtime, dir |-> t.dir,
                 evidence |-> Evidence([dirs |-> dirs, impl |-> impl], t.dir)] :
                  t \in CoveredIn(dirs, chosen)}]

LEMMA WritesLookAt ==
  ASSUME NEW r, NEW c
  PROVE  /\ Covered(r, c) = CoveredIn(r.dirs, c)
         /\ Hardened(r) = HardenedOf(r.surface, r.interfaces)
         /\ WriteMarkers(r, c) =
              [r EXCEPT !.markers = Over(NewMarkers(r.dirs, c, r.surface), r.markers)]
         /\ WriteContractManifest(r, c) =
              [r EXCEPT !.manifest = NewManifest(r.dirs, r.impl, c, r.surface)]
<1>1. Covered(r, c) = CoveredIn(r.dirs, c)
  BY DEF Covered, CoveredIn, ExtensionDirs
<1>2. Hardened(r) = HardenedOf(r.surface, r.interfaces)
  BY DEF Hardened, HardenedOf
<1>3. WriteMarkers(r, c) =
        [r EXCEPT !.markers = Over(NewMarkers(r.dirs, c, r.surface), r.markers)]
  BY <1>1 DEF WriteMarkers, Marked, NewMarkers
<1>4. \A d : Evidence(r, d) = Evidence([dirs |-> r.dirs, impl |-> r.impl], d)
  BY DEF Evidence
<1>5. WriteContractManifest(r, c) =
        [r EXCEPT !.manifest = NewManifest(r.dirs, r.impl, c, r.surface)]
  <2> DEFINE entry(p, t) == [target |-> t.target, zed |-> t.zed, runtime |-> t.runtime, dir |-> t.dir,
                             evidence |-> Evidence(p, t.dir)]
             bare == [dirs |-> r.dirs, impl |-> r.impl]
  <2>1. \A t : entry(r, t) = entry(bare, t)
    BY <1>4
  <2>2. WriteContractManifest(r, c) =
          [r EXCEPT !.manifest = [surface |-> r.surface,
                                  entries |-> {entry(r, t) : t \in Covered(r, c)}]]
    BY DEF WriteContractManifest
  <2>3. NewManifest(r.dirs, r.impl, c, r.surface) =
          [surface |-> r.surface, entries |-> {entry(bare, t) : t \in CoveredIn(r.dirs, c)}]
    BY DEF NewManifest
  <2> HIDE DEF entry, bare
  <2>4. {entry(r, t) : t \in Covered(r, c)} = {entry(bare, t) : t \in CoveredIn(r.dirs, c)}
    BY <1>1, <2>1
  <2> QED BY <2>2, <2>3, <2>4
<1> QED
  BY <1>1, <1>2, <1>3, <1>5

\* A disk with the directories and sources of s.
Disk(r, s, t, u, f, m, n, x) ==
  [dirs |-> s.dirs, impl |-> s.impl, runtimes |-> r.runtimes, targets |-> t,
   interfaces |-> r.interfaces, surface |-> u, fingerprint |-> f, markers |-> m,
   manifest |-> n, matrix |-> x]

\* Its parts.
LEMMA DiskParts ==
  ASSUME NEW r, NEW s, NEW t, NEW u, NEW f, NEW m, NEW n, NEW x, NEW q,
         q = Disk(r, s, t, u, f, m, n, x)
  PROVE  /\ q.dirs = s.dirs /\ q.impl = s.impl /\ q.runtimes = r.runtimes
         /\ q.interfaces = r.interfaces /\ q.targets = t /\ q.surface = u
         /\ q.fingerprint = f /\ q.markers = m /\ q.manifest = n /\ q.matrix = x
BY DEF Disk

\* What a run that goes through leaves.
Finished(r, c) ==
  LET s == Scaffold(r, c)
      u == Hardened(r)
  IN  Disk(r, s, Targeted(r.targets, c), u, u, Over(NewMarkers(s.dirs, c, u), r.markers),
           NewManifest(s.dirs, s.impl, c, u), c)

\* What it leaves if it is killed after some of its writes.
Begun(r, c, k) ==
  /\ IsRepo(k)
  /\ k.dirs = Scaffold(r, c).dirs /\ k.impl = Scaffold(r, c).impl
  /\ k.runtimes = r.runtimes /\ k.interfaces = r.interfaces
  /\ k.targets \in {r.targets, Targeted(r.targets, c)}
  /\ k.surface \in {r.surface, Hardened(r)}
  /\ Over(NewMarkers(k.dirs, c, Hardened(r)), k.markers)
       = Over(NewMarkers(k.dirs, c, Hardened(r)), r.markers)

\* What is written twice, first in part, is written once.
LEMMA OverTwice ==
  ASSUME NEW f, NEW g
  PROVE  /\ Over(f, Over(f, g)) = Over(f, g)
         /\ \A h : DOMAIN h \subseteq DOMAIN f => Over(f, Over(h, g)) = Over(f, g)
<1> SUFFICES ASSUME NEW h, DOMAIN h \subseteq DOMAIN f
             PROVE  Over(f, Over(h, g)) = Over(f, g)
  OBVIOUS
<1>1. DOMAIN Over(h, g) = DOMAIN h \union DOMAIN g
  BY DEF Over
<1>2. DOMAIN f \union DOMAIN Over(h, g) = DOMAIN f \union DOMAIN g
  BY <1>1
<1>3. \A x \in DOMAIN g \ DOMAIN f : Over(h, g)[x] = g[x]
  BY DEF Over
<1> HIDE DEF Over
<1> QED
  BY <1>2, <1>3 DEF Over

\* The writes one by one.
LEMMA RunParts ==
  ASSUME NEW r, IsRepo(r), NEW c \in [Names -> Paths]
  PROVE  LET scaffolded == Scaffold(r, c)
             targeted == EnsureManifest(scaffolded, c)
             listed == EnsureMatrix(targeted, c)
             surfaced == WriteSurface(listed)
             printed == WriteFingerprint(surfaced)
             marked == WriteMarkers(printed, c)
             attested == WriteContractManifest(marked, c)
         IN  /\ \A k \in {scaffolded, targeted, listed, surfaced, printed, marked, attested} :
                  IsRepo(k) => Begun(r, c, k)
             /\ attested = Finished(r, c)
<1> DEFINE scaffolded == Scaffold(r, c)
           targeted == EnsureManifest(scaffolded, c)
           listed == EnsureMatrix(targeted, c)
           surfaced == WriteSurface(listed)
           printed == WriteFingerprint(surfaced)
           marked == WriteMarkers(printed, c)
           attested == WriteContractManifest(marked, c)
           T == Targeted(r.targets, c)
           u == Hardened(r)
           M == Over(NewMarkers(scaffolded.dirs, c, u), r.markers)
           C == NewManifest(scaffolded.dirs, scaffolded.impl, c, u)
           D(t, w, f, m, n, x) == Disk(r, scaffolded, t, w, f, m, n, x)
<1>1. scaffolded = D(r.targets, r.surface, r.fingerprint, r.markers, r.manifest, r.matrix)
  <2>1. IsRepo(scaffolded)
    BY ScaffoldIsRepo
  <2>2. /\ scaffolded.runtimes = r.runtimes /\ scaffolded.targets = r.targets
        /\ scaffolded.interfaces = r.interfaces /\ scaffolded.surface = r.surface
        /\ scaffolded.fingerprint = r.fingerprint /\ scaffolded.markers = r.markers
        /\ scaffolded.manifest = r.manifest /\ scaffolded.matrix = r.matrix
    BY ScaffoldParts
  <2> HIDE DEF scaffolded
  <2> QED BY <2>1, <2>2 DEF IsRepo, Disk
<1>2. targeted = D(T, r.surface, r.fingerprint, r.markers, r.manifest, r.matrix)
  <2>1. targeted = [scaffolded EXCEPT !.targets = Targeted(scaffolded.targets, c)]
    BY ScaffoldIsRepo, ManifestByTargets
  <2>2. scaffolded.targets = r.targets
    BY ScaffoldParts
  <2> HIDE DEF scaffolded, targeted
  <2> QED BY <1>1, <2>1, <2>2 DEF Disk
<1>3. listed = D(T, r.surface, r.fingerprint, r.markers, r.manifest, c)
  <2> HIDE DEF scaffolded, targeted, T
  <2> QED BY <1>2 DEF Disk, EnsureMatrix
<1>4. surfaced = D(T, u, r.fingerprint, r.markers, r.manifest, c)
  <2>1. surfaced = [listed EXCEPT !.surface = Hardened(listed)]
    BY DEF WriteSurface
  <2> HIDE DEF scaffolded, listed, surfaced, T
  <2>2. listed.surface = r.surface /\ listed.interfaces = r.interfaces
    BY <1>3, DiskParts
  <2>3. Hardened(listed) = u
    BY <2>2, WritesLookAt
  <2> HIDE DEF u
  <2> QED BY <1>3, <2>1, <2>3 DEF Disk
<1>5. printed = D(T, u, u, r.markers, r.manifest, c)
  <2>1. printed = [surfaced EXCEPT !.fingerprint = surfaced.surface]
    BY DEF WriteFingerprint
  <2> HIDE DEF scaffolded, surfaced, printed, T, u
  <2>2. surfaced.surface = u
    BY <1>4, DiskParts
  <2> QED BY <1>4, <2>1, <2>2 DEF Disk
<1>6. marked = D(T, u, u, M, r.manifest, c)
  <2>1. marked = [printed EXCEPT !.markers = Over(NewMarkers(printed.dirs, c, printed.surface),
                                                  printed.markers)]
    BY WritesLookAt
  <2> HIDE DEF scaffolded, printed, marked, T, u
  <2>2. printed.dirs = scaffolded.dirs /\ printed.surface = u /\ printed.markers = r.markers
    BY <1>5, DiskParts
  <2> QED BY <1>5, <2>1, <2>2 DEF Disk
<1>7. attested = D(T, u, u, M, C, c)
  <2>1. attested = [marked EXCEPT !.manifest = NewManifest(marked.dirs, marked.impl, c, marked.surface)]
    BY WritesLookAt
  <2> HIDE DEF scaffolded, marked, attested, T, u, M
  <2>2. marked.dirs = scaffolded.dirs /\ marked.impl = scaffolded.impl /\ marked.surface = u
    BY <1>6, DiskParts
  <2> QED BY <1>6, <2>1, <2>2 DEF Disk
<1>8. attested = Finished(r, c)
  <2>1. Finished(r, c) = D(T, u, u, M, C, c)
    BY DEF Finished
  <2> QED BY <1>7, <2>1
<1>9. ASSUME NEW k, IsRepo(k), NEW t, NEW w, NEW f, NEW m, NEW n, NEW x, k = D(t, w, f, m, n, x),
             t \in {r.targets, T}, w \in {r.surface, u}, m \in {r.markers, M}
      PROVE  Begun(r, c, k)
  <2>1. /\ k.dirs = scaffolded.dirs /\ k.impl = scaffolded.impl /\ k.runtimes = r.runtimes
        /\ k.interfaces = r.interfaces /\ k.targets = t /\ k.surface = w /\ k.markers = m
    BY <1>9, DiskParts
  <2>2. Over(NewMarkers(scaffolded.dirs, c, u), m) = Over(NewMarkers(scaffolded.dirs, c, u), r.markers)
    BY <1>9, OverTwice
  <2> HIDE DEF scaffolded, T, u, M
  <2> QED BY <1>9, <2>1, <2>2 DEF Begun, scaffolded, T, u
<1> HIDE DEF scaffolded, targeted, listed, surfaced, printed, marked, attested, T, u, M, C, D
<1>10. \A k \in {scaffolded, targeted, listed, surfaced, printed, marked, attested} :
         IsRepo(k) => Begun(r, c, k)
  BY <1>1, <1>2, <1>3, <1>4, <1>5, <1>6, <1>7, <1>9
<1> QED
  BY <1>8, <1>10 DEF scaffolded, targeted, listed, surfaced, printed, marked, attested

\* A run that goes through: what it ends with, and what is on the disk when it is killed.
LEMMA RunThrough ==
  ASSUME NEW r, IsRepo(r), NEW c, c = ChooseTargetDirs(r), WritesMade(r) = 7
  PROVE  /\ c \in [Names -> Paths] /\ c # Raised
         /\ Len(HardenSteps(r)) = 8
         /\ \A i \in 2 .. 8 : Begun(r, c, HardenSteps(r)[i])
         /\ HardenSteps(r)[1] = r
         /\ Harden(r) = Result(Finished(r, c), TRUE)
         /\ Begun(r, c, Finished(r, c))
<1> DEFINE scaffolded == Scaffold(r, c)
           targeted == EnsureManifest(scaffolded, c)
           listed == EnsureMatrix(targeted, c)
           surfaced == WriteSurface(listed)
           printed == WriteFingerprint(surfaced)
           marked == WriteMarkers(printed, c)
           attested == WriteContractManifest(marked, c)
           all == <<r, scaffolded, targeted, listed, surfaced, printed, marked, attested>>
<1>1. /\ c # Raised /\ Len(HardenSteps(r)) = 8
      /\ \A i \in 1 .. 8 : HardenSteps(r)[i] = all[i]
  <2>1. \E n \in {0, 3, 7} :
          /\ n = WritesMade(r)
          /\ n # 0 => c # Raised
          /\ Len(HardenSteps(r)) = n + 1
          /\ \A i \in 1 .. n + 1 : HardenSteps(r)[i] = all[i]
    BY StepByStep
  <2> HIDE DEF all
  <2> QED BY <2>1
<1>2. c \in [Names -> Paths]
  BY <1>1, ChosenArePaths
<1>3. /\ \A k \in {scaffolded, targeted, listed, surfaced, printed, marked, attested} :
           IsRepo(k) => Begun(r, c, k)
      /\ attested = Finished(r, c)
  BY <1>2, RunParts
<1> HIDE DEF scaffolded, targeted, listed, surfaced, printed, marked, attested
<1>4. /\ all[1] = r /\ all[8] = attested
      /\ \A i \in 2 .. 8 :
           all[i] \in {scaffolded, targeted, listed, surfaced, printed, marked, attested}
  OBVIOUS
<1> HIDE DEF all
<1>5. ASSUME NEW i \in 2 .. 8
      PROVE  Begun(r, c, HardenSteps(r)[i])
  <2>1. i \in 1 .. 8 /\ i \in 1 .. Len(HardenSteps(r))
    BY <1>1
  <2>2. IsRepo(HardenSteps(r)[i])
    BY <2>1, StepsAreRepos
  <2> QED BY <1>1, <1>3, <1>4, <2>1, <2>2
<1>6. HardenSteps(r)[1] = r /\ HardenSteps(r)[8] = Finished(r, c)
  BY <1>1, <1>3, <1>4
<1>7. Harden(r) = Result(Finished(r, c), TRUE)
  <2>1. Len(HardenSteps(r)) > Len(Writes)
    <3>1. Len(Writes) = 7
      BY WriteAt
    <3> QED BY <1>1, <3>1
  <2>2. Last(HardenSteps(r)) = Finished(r, c)
    BY <1>1, <1>6 DEF Last
  <2> QED BY <2>1, <2>2 DEF Harden, Outcome, Result
<1>8. 8 \in 2 .. 8
  OBVIOUS
<1> QED
  BY <1>1, <1>2, <1>5, <1>6, <1>7, <1>8

\* A run without errors goes through.
LEMMA NoErrorIsThrough ==
  ASSUME NEW r, Harden(r).exit = 0
  PROVE  WritesMade(r) = 7
<1>1. Harden(r).exit = IF ~(Len(HardenSteps(r)) > Len(Writes)) THEN 2
                       ELSE IF Verifies(Last(HardenSteps(r))) THEN 0 ELSE 1
  BY DEF Harden, Outcome, Result
<1>2. Len(HardenSteps(r)) > Len(Writes) /\ Len(Writes) = 7
  BY <1>1, WriteAt
<1>3. \E n \in {0, 3, 7} : n = WritesMade(r) /\ Len(HardenSteps(r)) = n + 1
  BY StepByStep
<1> QED
  BY <1>2, <1>3

\* A run over what another has begun or finished ends as that one.
LEMMA RunAgain ==
  ASSUME NEW r, IsRepo(r), ManifestStands(r), WritesMade(r) = 7,
         NEW c, c = ChooseTargetDirs(r), NEW k, Begun(r, c, k)
  PROVE  Harden(k) = Harden(r)
<1> DEFINE s == Scaffold(r, c)
           u == Hardened(r)
           M == NewMarkers(s.dirs, c, u)
<1>1. /\ c \in [Names -> Paths] /\ c # Raised /\ Harden(r) = Result(Finished(r, c), TRUE)
  BY RunThrough
<1>2. Harden(r).repo.targets = Targeted(r.targets, c)
  <2>1. Harden(r).repo = Finished(r, c)
    BY <1>1 DEF Result
  <2> QED BY <2>1, DiskParts DEF Finished
<1>3. /\ IsRepo(k) /\ k.dirs = s.dirs /\ k.impl = s.impl
      /\ k.runtimes = r.runtimes /\ k.interfaces = r.interfaces
      /\ k.targets \in {r.targets, Targeted(r.targets, c)}
      /\ k.surface \in {r.surface, u}
      /\ Over(M, k.markers) = Over(M, r.markers)
  BY DEF Begun
<1>4. ChooseTargetDirs(k) = c
  <2>1. \A t \in Specs : ChooseDir(k, t) \in {ChooseDir(r, t), c[t.name]}
    BY <1>1, <1>2, <1>3, ChoiceAgain
  <2> QED BY <1>1, <2>1, SameChoice
<1>5. Scaffold(k, c) = k
  BY <1>1, <1>3, ScaffoldOnce
<1>6. Hardened(k) = u
  <2>1. CASE k.surface = r.surface
    BY <1>3, <2>1, WritesLookAt
  <2>2. CASE k.surface = u
    BY <1>3, <2>2, HardenedIsSurface
  <2> QED BY <1>3, <2>1, <2>2
<1>7. Targeted(k.targets, c) = Targeted(r.targets, c)
  BY <1>3, TargetedTwice
<1>8. Over(M, k.markers) = Over(M, r.markers)
  BY <1>3
<1>9. Finished(k, c) = Finished(r, c)
  <2>1. Finished(k, c) = Disk(k, k, Targeted(k.targets, c), Hardened(k), Hardened(k),
                              Over(NewMarkers(k.dirs, c, Hardened(k)), k.markers),
                              NewManifest(k.dirs, k.impl, c, Hardened(k)), c)
    BY <1>5 DEF Finished
  <2>2. Finished(r, c) = Disk(r, s, Targeted(r.targets, c), u, u, Over(M, r.markers),
                              NewManifest(s.dirs, s.impl, c, u), c)
    BY DEF Finished
  <2> HIDE DEF s, u, M
  <2>3. NewMarkers(k.dirs, c, Hardened(k)) = M
    BY <1>3, <1>6 DEF M
  <2> QED BY <1>3, <1>6, <1>7, <1>8, <2>1, <2>2, <2>3 DEF Disk
<1>10. WritesMade(k) = 7
  <2>1. Len(Writes) = 7
    BY WriteAt
  <2>2. ~(r.interfaces = 0 \/ SemanticErrors(u))
    BY <1>1, <2>1 DEF WritesMade
  <2> QED BY <1>1, <1>3, <1>4, <1>6, <2>1, <2>2 DEF WritesMade
<1>11. Harden(k) = Result(Finished(k, c), TRUE)
  BY <1>3, <1>4, <1>10, RunThrough
<1> QED
  BY <1>1, <1>9, <1>11

\* "Safe to run repeatedly": another run over what a run without errors has left, with
\* whatever edits were before, writes the same and finds no error either.
THEOREM HardenedStays == Spec => []HardenSettles
<1>1. ASSUME TypeOK, Harden(repo).exit = 0, ManifestStands(repo)
      PROVE  Harden(Harden(repo).repo) = Harden(repo)
  <2> DEFINE c == ChooseTargetDirs(repo)
  <2>1. IsRepo(repo) /\ WritesMade(repo) = 7
    BY <1>1, NoErrorIsThrough DEF TypeOK
  <2>2. Begun(repo, c, Finished(repo, c)) /\ Harden(repo).repo = Finished(repo, c)
    BY <2>1, RunThrough DEF Result
  <2> QED BY <1>1, <2>1, <2>2, RunAgain
<1>2. TypeOK => HardenSettles
  BY <1>1 DEF HardenSettles, SettledBy
<1> QED
  BY <1>2, HardenTyping, PTL

-----------------------------------------------------------------------------
(* A run after one that was killed.                                        *)

\* What a run that goes through leaves if it is killed after the scaffolds.
LEMMA WritingKilled ==
  ASSUME NEW r, IsRepo(r), WritesMade(r) = 7, NEW c, c = ChooseTargetDirs(r),
         NEW k \in KilledWriting(r)
  PROVE  Begun(r, c, k)
<1> DEFINE steps == HardenSteps(r)
<1>1. /\ Len(steps) = 8 /\ Len(Writes) = 7
      /\ \A i \in 2 .. 8 : Begun(r, c, steps[i])
  BY RunThrough, WriteAt
<1>2. IsRepo(k)
  BY KilledWritingIsRepo
<1>3. \/ \E i \in 2 .. Len(steps) - 1 : k = steps[i]
      \/ \E begun \in MarkersBegun(steps[6], c) : k = Marked(steps[6], begun)
  BY <1>1 DEF KilledWriting
<1> HIDE DEF steps
<1>4. CASE \E i \in 2 .. Len(steps) - 1 : k = steps[i]
  BY <1>1, <1>4
<1>5. ASSUME NEW begun \in MarkersBegun(steps[6], c), k = Marked(steps[6], begun)
      PROVE  Begun(r, c, k)
  <2> DEFINE q == steps[6]
             u == Hardened(r)
             M == NewMarkers(q.dirs, c, u)
             P == [p \in {t.place : t \in begun} |->
                     Marker(CHOOSE t \in begun : t.place = p, q.surface)]
  <2>1. Begun(r, c, q)
    BY <1>1
  <2>2. begun \subseteq Covered(q, c)
    <3>1. TARGETS \in Seq(Row) /\ DOMAIN TARGETS = 1 .. Len(TARGETS) /\ Len(TARGETS) \in Nat
      BY FleetAssumption
    <3>2. \A n \in DOMAIN TARGETS : \A i \in 1 .. n : TARGETS[i] \in Specs
      BY <3>1 DEF Specs, ToSet
    <3>3. \A i \in 1 .. Len(TARGETS) : TARGETS[i] \in Specs
      BY <3>1 DEF Specs, ToSet
    <3> QED BY <3>2, <3>3, <1>5 DEF MarkersBegun, Covered
  <2>3. Covered(q, c) = CoveredIn(q.dirs, c)
    BY WritesLookAt
  <2>4. DOMAIN P \subseteq DOMAIN M
    <3>1. DOMAIN M = {t.place : t \in CoveredIn(q.dirs, c)}
      BY DEF NewMarkers
    <3> QED BY <3>1, <2>2, <2>3
  <2>5. k = [q EXCEPT !.markers = Over(P, q.markers)]
    BY <1>5 DEF Marked
  <2>6. Over(M, Over(P, q.markers)) = Over(M, q.markers) /\ Over(M, q.markers) = Over(M, r.markers)
    <3>1. Over(M, q.markers) = Over(M, r.markers)
      BY <2>1 DEF Begun
    <3> HIDE DEF M, P, q
    <3> QED BY <3>1, <2>4, OverTwice
  <2> HIDE DEF P, q, u
  <2>7. /\ k.dirs = q.dirs /\ k.impl = q.impl /\ k.runtimes = q.runtimes
        /\ k.interfaces = q.interfaces /\ k.targets = q.targets /\ k.surface = q.surface
        /\ k.markers = Over(P, q.markers)
    BY <2>1, <2>5 DEF Begun, IsRepo
  <2> QED
    BY <1>2, <2>1, <2>6, <2>7 DEF Begun, u
<1> QED
  BY <1>3, <1>4, <1>5

\* The directory that another one is in can be made first.
LEMMA TopFirst ==
  ASSUME NEW r, IsRepo(r), NEW d \in Paths
  PROVE  MadeDir(MadeDir(r, SubSeq(d, 1, 1)), d) = MadeDir(r, d)
<1> DEFINE top == SubSeq(d, 1, 1)
           p == MadeDir(r, top)
           files(D) == [e \in D |-> IF e \in r.dirs THEN r.impl[e] ELSE NoFiles]
           D1 == r.dirs \union {top}
           D2 == r.dirs \union {d, top}
<1>1. top \in Paths /\ SubSeq(top, 1, 1) = top
  BY TopOfPath
<1>2. /\ IsRepo(p) /\ p.dirs = r.dirs \union {top, SubSeq(top, 1, 1)}
      /\ p.impl = [e \in r.dirs \union {top, SubSeq(top, 1, 1)} |->
                     IF e \in r.dirs THEN r.impl[e] ELSE NoFiles]
      /\ Grown(p, r)
  <2> HIDE DEF top, p
  <2>1. top \in Paths
    BY <1>1
  <2> QED BY <2>1, MadeDirIsRepo DEF p
<1> HIDE DEF p
<1>3. p.dirs = D1 /\ p.impl = files(D1)
  <2> HIDE DEF top
  <2> QED BY <1>1, <1>2
<1>4. p.dirs \union {d, top} = D2
  BY <1>3
<1>5. [e \in D2 |-> IF e \in p.dirs THEN p.impl[e] ELSE NoFiles] = files(D2)
  <2> HIDE DEF top
  <2> QED BY <1>3
<1>6. MadeDir(p, d) = [p EXCEPT !.dirs = D2, !.impl = files(D2)]
  BY <1>4, <1>5 DEF MadeDir
<1>7. MadeDir(r, d) = [r EXCEPT !.dirs = D2, !.impl = files(D2)]
  BY DEF MadeDir
<1>8. p = [r EXCEPT !.dirs = p.dirs, !.impl = p.impl]
  BY <1>2 DEF Grown
<1> HIDE DEF D2, files
<1>9. [p EXCEPT !.dirs = D2, !.impl = files(D2)] = [r EXCEPT !.dirs = D2, !.impl = files(D2)]
  BY <1>8 DEF IsRepo
<1> QED
  BY <1>6, <1>7, <1>9 DEF p

\* A scaffold of which no source is written goes on where it was.
LEMMA BeginAgain ==
  ASSUME NEW x \in Files, NEW s \in Specs, NEW n \in 0 .. s.metadata + s.sources
  PROVE  LET whole == s.metadata + s.sources
         IN  /\ Begin(Begin(x, s, n), s, whole) = Begin(x, s, whole)
             /\ Begin(x, s, whole).source = s.sources
             /\ n <= s.metadata => Begin(x, s, n).source = 0
             /\ n > s.metadata => Begin(x, s, n).source = n - s.metadata
<1> DEFINE whole == s.metadata + s.sources
<1>1. s.metadata \in 0 .. 1 /\ s.sources \in Nat \ {0} /\ n \in Nat
  BY RowType DEF Row
<1>2. whole \in Nat /\ whole # 0 /\ whole > s.metadata /\ whole - s.metadata = s.sources
  BY <1>1
<1>3. x.source \in Nat /\ x.metadata \in Nat /\ x.other \in Nat
      /\ x = [source |-> x.source, metadata |-> x.metadata, other |-> x.other]
  BY DEF Files
<1> DEFINE B(y, m) == [source |-> IF m > s.metadata THEN m - s.metadata ELSE 0,
                       metadata |-> IF y.metadata > 0 \/ m = 0 THEN y.metadata ELSE s.metadata,
                       other |-> y.other]
<1>4. ASSUME NEW y, NEW m, y = [source |-> y.source, metadata |-> y.metadata, other |-> y.other]
      PROVE  Begin(y, s, m) = B(y, m)
  <2> DEFINE u == IF m > s.metadata THEN m - s.metadata ELSE 0
             v == IF y.metadata > 0 \/ m = 0 THEN y.metadata ELSE s.metadata
  <2>1. Begin(y, s, m) = [y EXCEPT !.metadata = v, !.source = u]
    BY DEF Begin
  <2>2. B(y, m) = [source |-> u, metadata |-> v, other |-> y.other]
    OBVIOUS
  <2> HIDE DEF u, v, B
  <2>3. \A a, b, o : [[source |-> a, metadata |-> b, other |-> o] EXCEPT !.metadata = v]
                      = [source |-> a, metadata |-> v, other |-> o]
    OBVIOUS
  <2>4. \A z, a, b, o : z = [source |-> a, metadata |-> b, other |-> o] =>
                        [z EXCEPT !.source = u] = [source |-> u, metadata |-> b, other |-> o]
    OBVIOUS
  <2>5. [y EXCEPT !.metadata = v] = [source |-> y.source, metadata |-> v, other |-> y.other]
    BY <1>4, <2>3
  <2>6. [[y EXCEPT !.metadata = v] EXCEPT !.source = u]
          = [source |-> u, metadata |-> v, other |-> y.other]
    <3> DEFINE z == [y EXCEPT !.metadata = v]
    <3>1. z = [source |-> y.source, metadata |-> v, other |-> y.other]
      BY <2>5
    <3> HIDE DEF z
    <3>2. [z EXCEPT !.source = u] = [source |-> u, metadata |-> v, other |-> y.other]
      BY <2>4, <3>1
    <3> QED BY <3>2 DEF z
  <2> QED BY <2>1, <2>2, <2>6
<1>5. Begin(x, s, n) = B(x, n) /\ Begin(x, s, whole) = B(x, whole)
  BY <1>3, <1>4
<1>6. Begin(B(x, n), s, whole) = B(B(x, n), whole)
  BY <1>4
<1> HIDE DEF whole
<1>7. B(B(x, n), whole) = B(x, whole)
  BY <1>1, <1>2, <1>3
<1>8. /\ B(x, whole).source = s.sources
      /\ n <= s.metadata => B(x, n).source = 0
      /\ n > s.metadata => B(x, n).source = n - s.metadata
  BY <1>1, <1>2
<1> HIDE DEF B
<1> QED
  BY <1>5, <1>6, <1>7, <1>8 DEF whole

\* A row that was cut goes on to its end, unless a part of its sources is there.
LEMMA StageResumes ==
  ASSUME NEW q, IsRepo(q), NEW s \in Specs, NEW d \in Paths, NEW k \in RowStages(q, s, d),
         NEW S, Grown(S, ScaffoldRow(q, s, d)),
         d \in k.dirs => k.impl[d].source \in {0, S.impl[d].source}
  PROVE  ScaffoldRow(k, s, d) = ScaffoldRow(q, s, d) /\ Grown(k, q)
<1> DEFINE p == MadeDir(q, d)
           whole == s.metadata + s.sources
<1>1. \/ k = MadeDir(q, SubSeq(d, 1, 1))
      \/ \E n \in 0 .. whole : k = Scaffolded(p, s, d, n)
  BY DEF RowStages
<1>2. CASE k = MadeDir(q, SubSeq(d, 1, 1))
  <2>1. MadeDir(k, d) = p
    BY <1>2, TopFirst
  <2>2. Grown(k, q)
    BY <1>2, TopOfPath, MadeDirIsRepo
  <2> QED BY <2>1, <2>2 DEF ScaffoldRow
<1>3. ASSUME NEW n \in 0 .. whole, k = Scaffolded(p, s, d, n)
      PROVE  ScaffoldRow(k, s, d) = ScaffoldRow(q, s, d) /\ Grown(k, q)
  <2>1. IsRepo(p) /\ Grown(p, q) /\ p.dirs = q.dirs \union {d, SubSeq(d, 1, 1)}
    BY MadeDirIsRepo
  <2>2. ScaffoldRow(q, s, d) = Scaffolded(p, s, d, whole)
    BY DEF ScaffoldRow
  <2>3. d \in p.dirs
    BY <2>1
  <2> HIDE DEF p
  <2>4. IsRepo(k) /\ Grown(k, p) /\ k.dirs = p.dirs
    BY <1>3, <2>1, <2>3, ScaffoldedIsRepo
  <2>5. Grown(k, q)
    BY <2>1, <2>4, GrownGrows
  <2>6. CASE HasProduct(p, d) \/ Shared(s, d)
    <3>1. k = p /\ ScaffoldRow(q, s, d) = p
      BY <1>3, <2>2, <2>6 DEF Scaffolded, Shared
    <3> QED BY <2>1, <2>3, <2>5, <2>6, <3>1, RowOnce
  <2>7. CASE ~HasProduct(p, d) /\ ~Shared(s, d)
    <3> DEFINE x == p.impl[d]
               w == ScaffoldRow(q, s, d)
    <3>1. x \in Files
      BY <2>1, <2>3 DEF IsRepo
    <3>2. k = [p EXCEPT !.impl[d] = Begin(x, s, n)] /\ w = [p EXCEPT !.impl[d] = Begin(x, s, whole)]
      BY <1>3, <2>2, <2>7 DEF Scaffolded, Shared
    <3>3. k.impl[d] = Begin(x, s, n) /\ w.impl[d] = Begin(x, s, whole) /\ d \in w.dirs
      <4> HIDE DEF x, w, whole
      <4> QED BY <2>1, <2>3, <3>2 DEF IsRepo
    <3> HIDE DEF x, w
    <3>4. /\ Begin(Begin(x, s, n), s, whole) = Begin(x, s, whole)
          /\ Begin(x, s, whole).source = s.sources
          /\ n <= s.metadata => Begin(x, s, n).source = 0
          /\ n > s.metadata => Begin(x, s, n).source = n - s.metadata
      BY <3>1, BeginAgain
    <3>5. s.metadata \in Nat /\ s.sources \in Nat \ {0} /\ n \in Nat
      BY RowType DEF Row
    <3>6. CASE n <= s.metadata
      <4>1. ~HasProduct(k, d)
        <5>1. \A e \in p.dirs : k.impl[e].source > 0 => p.impl[e].source > 0
          <6>1. \A e \in p.dirs : e # d => k.impl[e] = p.impl[e]
            <7> HIDE DEF whole
            <7> QED BY <2>1, <3>2 DEF IsRepo
          <6>2. ~(k.impl[d].source > 0)
            BY <3>3, <3>4, <3>6
          <6> QED BY <6>1, <6>2
        <5> QED BY <2>4, <2>7, <5>1 DEF HasProduct
      <4>2. MadeDir(k, d) = k
        BY <2>3, <2>4, MadeOnce
      <4>3. ScaffoldRow(k, s, d) = [k EXCEPT !.impl[d] = Begin(k.impl[d], s, whole)]
        BY <2>7, <4>1, <4>2 DEF ScaffoldRow, Scaffolded, Shared
      <4>4. [k EXCEPT !.impl[d] = Begin(x, s, whole)] = [p EXCEPT !.impl[d] = Begin(x, s, whole)]
        <5> DEFINE a == Begin(x, s, n)
                   b == Begin(x, s, whole)
        <5> HIDE DEF a, b
        <5>1. k = [p EXCEPT !.impl[d] = a]
          BY <3>2 DEF a
        <5>2. [k EXCEPT !.impl[d] = b] = [p EXCEPT !.impl[d] = b]
          <6>1. k.impl = [p.impl EXCEPT ![d] = a] /\ p.impl \in [p.dirs -> Files]
            BY <2>1, <5>1 DEF IsRepo
          <6>2. [k.impl EXCEPT ![d] = b] = [p.impl EXCEPT ![d] = b]
            BY <6>1, <2>3
          <6> DEFINE f == [k.impl EXCEPT ![d] = b]
                     g == [p.impl EXCEPT ![d] = a]
          <6>3. [k EXCEPT !.impl = f] = [p EXCEPT !.impl = f]
            <7>1. k = [p EXCEPT !.impl = g]
              BY <5>1
            <7> HIDE DEF f, g
            <7> QED BY <2>1, <7>1 DEF IsRepo
          <6> QED BY <6>2, <6>3
        <5> QED BY <5>2 DEF b
      <4> QED BY <2>5, <3>2, <3>3, <3>4, <4>3, <4>4 DEF w
    <3>7. CASE n > s.metadata
      <4>1. k.impl[d].source = n - s.metadata /\ n - s.metadata > 0 /\ w.impl[d].source = s.sources
        BY <3>3, <3>4, <3>5, <3>7
      <4>2. S.impl[d].source = s.sources
        <5>1. Kept(S, w, d)
          BY <3>3 DEF Grown, w
        <5> QED BY <4>1, <5>1, <3>5 DEF Kept
      <4>3. n = whole
        <5>1. n - s.metadata = s.sources
          BY <2>3, <2>4, <4>1, <4>2
        <5> QED BY <5>1, <3>5
      <4>4. k = w
        BY <3>2, <4>3
      <4>5. HasProduct(k, d) /\ d \in k.dirs
        BY <2>3, <2>4, <4>1, SourcesAreProduct
      <4> QED BY <2>4, <2>5, <4>4, <4>5, RowOnce DEF w
    <3>8. n <= s.metadata \/ n > s.metadata
      BY <3>5
    <3> QED BY <3>6, <3>7, <3>8
  <2> QED BY <2>6, <2>7
<1> QED
  BY <1>1, <1>2, <1>3

\* The later rows only add.
LEMMA StagesGrow ==
  ASSUME NEW r, IsRepo(r), NEW c \in [Names -> Paths], NEW i \in 0 .. Len(TARGETS)
  PROVE  Grown(Scaffold(r, c), ScaffoldTo(r, c, i))
<1> DEFINE N == Len(TARGETS)
           q == ScaffoldTo(r, c, i)
           Bad == {j \in i .. N : ~Grown(ScaffoldTo(r, c, j), q)}
<1>1. N \in Nat /\ i \in Nat /\ N \in i .. N
  BY FleetAssumption
<1>2. IsRepo(q)
  BY ScaffoldToIsRepo
<1>3. Bad = {}
  <2> SUFFICES ASSUME Bad # {}
               PROVE  FALSE
    OBVIOUS
  <2>1. PICK j \in Bad : \A l \in Bad : j <= l
    <3>1. Bad \in SUBSET Nat
      BY <1>1
    <3> HIDE DEF Bad
    <3> QED BY <3>1, Least
  <2>2. j # i
    BY <2>1, <1>2, GrownGrows
  <2>3. j \in 1 .. N /\ j - 1 \in i .. N /\ j \in Nat \ {0} /\ j - 1 \in 0 .. N
    BY <1>1, <2>1, <2>2
  <2> DEFINE p == ScaffoldTo(r, c, j - 1)
             s == TARGETS[j]
             d == c[s.name]
  <2>4. Grown(p, q)
    BY <2>1, <2>3
  <2>5. IsRepo(p)
    BY <2>3, ScaffoldToIsRepo
  <2>6. s \in Specs /\ d \in Paths
    BY <2>3, RowAt
  <2>7. ScaffoldTo(r, c, j) = ScaffoldRow(p, s, d) /\ ~Grown(ScaffoldTo(r, c, j), q)
    <3>1. ~Grown(ScaffoldTo(r, c, j), q)
      BY <2>1
    <3>2. j \in Nat \ {0}
      BY <2>3
    <3> HIDE DEF Bad
    <3>3. ScaffoldTo(r, c, j) = ScaffoldRow(p, s, d)
      BY <3>2, ScaffoldNext
    <3> QED BY <3>1, <3>3
  <2> HIDE DEF Bad, q, p, s, d
  <2>8. Grown(ScaffoldRow(p, s, d), p)
    BY <2>5, <2>6, RowIsRepo
  <2> QED BY <1>2, <2>4, <2>5, <2>7, <2>8, GrownGrows
<1> QED
  BY <1>1, <1>3 DEF Scaffold

\* What one row makes of what the rows before it have made.
LEMMA RowNext ==
  ASSUME NEW r, NEW c, NEW i, i \in Nat \ {0}
  PROVE  ScaffoldTo(r, c, i) = ScaffoldRow(ScaffoldTo(r, c, i - 1), TARGETS[i], c[TARGETS[i].name])
BY ScaffoldNext

\* Rows that are added to the same repository are the same.
LEMMA SameTail ==
  ASSUME NEW r, NEW k, NEW c, NEW i \in 0 .. Len(TARGETS),
         ScaffoldTo(k, c, i) = ScaffoldTo(r, c, i)
  PROVE  Scaffold(k, c) = Scaffold(r, c)
<1> DEFINE N == Len(TARGETS)
           Bad == {j \in i .. N : ScaffoldTo(k, c, j) # ScaffoldTo(r, c, j)}
<1>1. N \in Nat /\ i \in Nat /\ N \in i .. N
  BY FleetAssumption
<1>2. Bad = {}
  <2> SUFFICES ASSUME Bad # {}
               PROVE  FALSE
    OBVIOUS
  <2>1. PICK j \in Bad : \A l \in Bad : j <= l
    <3>1. Bad \in SUBSET Nat
      BY <1>1
    <3> HIDE DEF Bad
    <3> QED BY <3>1, Least
  <2>2. j # i
    BY <2>1
  <2>3. j - 1 \in i .. N /\ j \in Nat \ {0}
    BY <1>1, <2>1, <2>2
  <2>4. ScaffoldTo(k, c, j - 1) = ScaffoldTo(r, c, j - 1)
    BY <2>1, <2>3
  <2>5. ScaffoldTo(k, c, j) # ScaffoldTo(r, c, j)
    BY <2>1
  <2>6. j \in Nat \ {0}
    BY <2>3
  <2> HIDE DEF Bad
  <2>7. ScaffoldTo(k, c, j) =
          ScaffoldRow(ScaffoldTo(k, c, j - 1), TARGETS[j], c[TARGETS[j].name])
    BY <2>6, RowNext
  <2>8. ScaffoldTo(r, c, j) =
          ScaffoldRow(ScaffoldTo(r, c, j - 1), TARGETS[j], c[TARGETS[j].name])
    BY <2>6, RowNext
  <2> QED BY <2>4, <2>5, <2>7, <2>8
<1> QED
  BY <1>1, <1>2 DEF Scaffold

\* Scaffolds that a kill has cut are made whole by a run with the same choice, unless
\* one of them is there in part.
LEMMA ScaffoldingResumes ==
  ASSUME NEW r, IsRepo(r), NEW c, c = ChooseTargetDirs(r), NEW k \in KilledScaffolding(r),
         \A d \in k.dirs : k.impl[d].source \in {0, Scaffold(r, c).impl[d].source}
  PROVE  Scaffold(k, c) = Scaffold(r, c) /\ Grown(k, r)
<1>1. c # Raised
  BY DEF KilledScaffolding
<1>2. c \in [Names -> Paths]
  BY <1>1, ChosenArePaths
<1>3. PICK i, q, s, d :
        /\ i \in DOMAIN TARGETS
        /\ q = ScaffoldTo(r, c, i - 1) /\ s = TARGETS[i] /\ d = c[s.name]
        /\ IsRepo(q) /\ s \in Specs /\ d \in Paths
        /\ k \in RowStages(q, s, d)
  BY KilledScaffoldingIsRepo
<1>4. i \in 1 .. Len(TARGETS)
  BY <1>3, FleetAssumption
<1>5. i \in Nat \ {0} /\ i - 1 \in 0 .. Len(TARGETS) /\ i \in 0 .. Len(TARGETS)
  BY <1>2, <1>4, RowAt
<1>6. ScaffoldTo(r, c, i) = ScaffoldRow(q, s, d)
  <2>1. i \in Nat \ {0}
    BY <1>5
  <2>2. ScaffoldTo(r, c, i) = ScaffoldRow(ScaffoldTo(r, c, i - 1), TARGETS[i], c[TARGETS[i].name])
    BY <2>1, RowNext
  <2> QED BY <1>3, <2>2
<1> DEFINE S == Scaffold(r, c)
<1>7. Grown(S, ScaffoldRow(q, s, d))
  BY <1>2, <1>5, <1>6, StagesGrow
<1>8. d \in k.dirs => k.impl[d].source \in {0, S.impl[d].source}
  OBVIOUS
<1> HIDE DEF S
<1>9. ScaffoldRow(k, s, d) = ScaffoldRow(q, s, d) /\ Grown(k, q)
  BY <1>3, <1>7, <1>8, StageResumes
<1>10. IsRepo(k)
  BY KilledScaffoldingIsRepo
<1>11. RowsDone(k, c, i - 1)
  <2>1. RowsDone(q, c, i - 1)
    BY <1>2, <1>3, <1>5, RowsAreDone
  <2> SUFFICES ASSUME NEW j \in 1 .. i - 1
               PROVE  /\ c[TARGETS[j].name] \in k.dirs
                      /\ \/ HasProduct(k, c[TARGETS[j].name])
                         \/ Shared(TARGETS[j], c[TARGETS[j].name])
    BY DEF RowsDone
  <2> DEFINE e == c[TARGETS[j].name]
  <2>2. e \in q.dirs /\ (HasProduct(q, e) \/ Shared(TARGETS[j], e))
    BY <2>1 DEF RowsDone
  <2> HIDE DEF e
  <2>3. e \in k.dirs /\ (HasProduct(k, e) \/ Shared(TARGETS[j], e))
    BY <1>3, <1>9, <2>2, ProductGrows DEF Grown
  <2> QED BY <2>3 DEF e
<1>12. ScaffoldTo(k, c, i - 1) = k
  <2>1. i - 1 \in 0 .. i - 1
    BY <1>5
  <2> QED BY <1>2, <1>5, <1>10, <1>11, <2>1, DoneIsOnce
<1>13. ScaffoldTo(k, c, i) = ScaffoldTo(r, c, i)
  <2>1. ScaffoldTo(k, c, i) = ScaffoldRow(ScaffoldTo(k, c, i - 1), TARGETS[i], c[TARGETS[i].name])
    <3>1. i \in Nat \ {0}
      BY <1>5
    <3> QED BY <3>1, RowNext
  <2> QED BY <1>3, <1>6, <1>9, <1>12, <2>1
<1>14. Scaffold(k, c) = Scaffold(r, c)
  BY <1>5, <1>13, SameTail
<1>15. Grown(k, r)
  <2>1. Grown(q, r)
    BY <1>2, <1>3, <1>5, ScaffoldToIsRepo
  <2> QED BY <1>3, <1>9, <2>1, GrownGrows
<1> QED
  BY <1>14, <1>15

\* A run that makes of the scaffolds what another one did ends as that one.
LEMMA SameScaffoldSameEnd ==
  ASSUME NEW r, IsRepo(r), WritesMade(r) = 7, NEW c, c = ChooseTargetDirs(r),
         NEW k, IsRepo(k), ChooseTargetDirs(k) = c, Scaffold(k, c) = Scaffold(r, c),
         Grown(k, r)
  PROVE  Harden(k) = Harden(r)
<1> DEFINE s == Scaffold(r, c)
           u == Hardened(r)
<1>1. c # Raised /\ Harden(r) = Result(Finished(r, c), TRUE)
  BY RunThrough
<1>2. /\ k.runtimes = r.runtimes /\ k.targets = r.targets /\ k.interfaces = r.interfaces
      /\ k.surface = r.surface /\ k.markers = r.markers
  BY DEF Grown, IsRepo
<1>3. Hardened(k) = u
  BY <1>2, WritesLookAt
<1>4. Finished(k, c) = Finished(r, c)
  <2>1. Finished(k, c) = Disk(k, s, Targeted(k.targets, c), Hardened(k), Hardened(k),
                              Over(NewMarkers(s.dirs, c, Hardened(k)), k.markers),
                              NewManifest(s.dirs, s.impl, c, Hardened(k)), c)
    BY DEF Finished
  <2>2. Finished(r, c) = Disk(r, s, Targeted(r.targets, c), u, u,
                              Over(NewMarkers(s.dirs, c, u), r.markers),
                              NewManifest(s.dirs, s.impl, c, u), c)
    BY DEF Finished
  <2> HIDE DEF s, u
  <2> QED BY <1>2, <1>3, <2>1, <2>2 DEF Disk
<1>5. WritesMade(k) = 7
  <2>1. Len(Writes) = 7
    BY WriteAt
  <2>2. ~(r.interfaces = 0 \/ SemanticErrors(u))
    BY <1>1, <2>1 DEF WritesMade
  <2> QED BY <1>1, <1>2, <1>3, <2>1, <2>2 DEF WritesMade
<1>6. Harden(k) = Result(Finished(k, c), TRUE)
  BY <1>5, RunThrough
<1> QED
  BY <1>1, <1>4, <1>6

\* A run that was killed, run again, leaves what it would have left: always, if the
\* manifest stands and the kill came after the scaffolds; and if it came among them
\* exactly when the choice of directories is still the same and no scaffold's sources
\* are there in part.
THEOREM KilledRunsComplete == Spec => []RerunCompletes
<1> DEFINE c == ChooseTargetDirs(repo)
           once == Harden(repo)
<1>1. ASSUME TypeOK, once.exit = 0
      PROVE  /\ IsRepo(repo) /\ WritesMade(repo) = 7
             /\ once.repo = Finished(repo, c)
             /\ once.repo.matrix = c /\ once.repo.impl = Scaffold(repo, c).impl
  <2>1. IsRepo(repo) /\ WritesMade(repo) = 7
    BY <1>1, NoErrorIsThrough DEF TypeOK
  <2>2. once.repo = Finished(repo, c)
    BY <2>1, RunThrough DEF Result
  <2> QED BY <2>1, <2>2, DiskParts DEF Finished
<1>2. ASSUME TypeOK, once.exit = 0, ManifestStands(repo), NEW killed \in KilledWriting(repo)
      PROVE  Harden(killed) = once
  BY <1>1, <1>2, WritingKilled, RunAgain
<1>3. ASSUME TypeOK, once.exit = 0, NEW killed \in KilledScaffolding(repo),
             ChooseTargetDirs(killed) = c, ~HalfWritten(killed, once.repo)
      PROVE  Harden(killed) = once
  <2>1. \A d \in killed.dirs : killed.impl[d].source \in {0, Scaffold(repo, c).impl[d].source}
    BY <1>1, <1>3 DEF HalfWritten
  <2>2. IsRepo(killed)
    BY <1>1, <1>3, KilledScaffoldingIsRepo
  <2>3. Scaffold(killed, c) = Scaffold(repo, c) /\ Grown(killed, repo)
    BY <1>1, <1>3, <2>1, ScaffoldingResumes
  <2> QED BY <1>1, <1>3, <2>2, <2>3, SameScaffoldSameEnd
<1>4. ASSUME TypeOK, once.exit = 0, NEW killed \in KilledScaffolding(repo), Harden(killed) = once
      PROVE  ChooseTargetDirs(killed) = c /\ ~HalfWritten(killed, once.repo)
  <2>1. IsRepo(killed)
    BY <1>1, <1>4, KilledScaffoldingIsRepo
  <2>2. ChooseTargetDirs(killed) = c
    <3>1. WritesMade(killed) = 7
      BY <1>4, NoErrorIsThrough
    <3> DEFINE e == ChooseTargetDirs(killed)
    <3>2. Harden(killed).repo = Finished(killed, e)
      BY <2>1, <3>1, RunThrough DEF Result
    <3>3. Finished(killed, e).matrix = e
      BY DiskParts DEF Finished
    <3> QED BY <1>1, <1>4, <3>2, <3>3
  <2>3. \A d \in killed.dirs : Kept(once.repo, killed, d) /\ killed.impl[d].source \in Nat
    BY <1>4, <2>1, HardenKeeps DEF IsRepo, Files
  <2>4. ~HalfWritten(killed, once.repo)
    <3> HIDE DEF once
    <3> QED BY <2>3 DEF HalfWritten, Kept
  <2> QED BY <2>2, <2>4
<1>5. TypeOK => RerunCompletes
  BY <1>2, <1>3, <1>4 DEF RerunCompletes, CompletedBy
<1> QED
  BY <1>5, HardenTyping, PTL

-----------------------------------------------------------------------------
(* What the second verifier finds.                                         *)

\* What the contract covers, by its directory, which no two of it share.
LEMMA CoveredParts ==
  ASSUME NEW r, IsRepo(r), NEW c, c = ChooseTargetDirs(r), c # Raised,
         NEW q, q.dirs \subseteq Paths, NEW t \in Covered(q, c)
  PROVE  /\ \/ \E s \in Specs : t = TargetOf(s, c)
            \/ \E d \in ExtensionDirs(q, c) : t = ExtensionOf(d)
         /\ t.place[1] = t.dir
         /\ \A o \in Covered(q, c) : o.dir = t.dir => o = t
<1>1. c \in [Names -> Paths]
  BY ChosenArePaths
<1>2. \A o \in Covered(q, c) : \/ \E s \in Specs : o = TargetOf(s, c)
                               \/ \E d \in ExtensionDirs(q, c) : o = ExtensionOf(d)
  BY DEF Covered
<1>3. /\ \A s \in Specs : TargetOf(s, c).dir = c[s.name] /\ TargetOf(s, c).place[1] = c[s.name]
      /\ \A d : ExtensionOf(d).dir = d /\ ExtensionOf(d).place[1] = d
  BY DEF TargetOf, ExtensionOf, MarkerDir
<1>4. \A s \in Specs, d \in ExtensionDirs(q, c) : c[s.name] # d
  BY <1>1, TopIsPrefix DEF ExtensionDirs, Names
<1>5. \A s, o \in Specs : c[s.name] = c[o.name] => s = o
  BY ChosenApart
<1>6. ASSUME NEW o \in Covered(q, c), o.dir = t.dir
      PROVE  o = t
  <2>1. CASE \E s \in Specs : t = TargetOf(s, c)
    BY <1>2, <1>3, <1>4, <1>5, <1>6, <2>1
  <2>2. CASE \E d \in ExtensionDirs(q, c) : t = ExtensionOf(d)
    BY <1>2, <1>3, <1>4, <1>6, <2>2
  <2> QED BY <1>2, <2>1, <2>2
<1> QED
  BY <1>2, <1>3, <1>6

\* A hardened surface has the interfaces of the repository.
LEMMA HardenedInterfaces ==
  ASSUME NEW r, IsRepo(r)
  PROVE  Hardened(r).interfaces = r.interfaces
<1>1. CASE r.surface = Nothing
  BY <1>1 DEF Hardened
<1>2. CASE r.surface # Nothing
  BY <1>2 DEF Hardened, IsRepo, Surfaces
<1> QED
  BY <1>1, <1>2

Entry(q, t) == [target |-> t.target, zed |-> t.zed, runtime |-> t.runtime, dir |-> t.dir,
                evidence |-> Evidence(q, t.dir)]

\* The marker and the manifest that a finished run leaves.
LEMMA FinishedParts ==
  ASSUME NEW r, IsRepo(r), NEW c, c = ChooseTargetDirs(r), WritesMade(r) = 7,
         NEW q, q = Finished(r, c)
  PROVE  /\ q.surface = Hardened(r) /\ q.fingerprint = q.surface /\ q.interfaces = r.interfaces
         /\ q.manifest.surface = q.surface
         /\ q.manifest.entries = {Entry(q, t) : t \in Covered(q, c)}
         /\ \A p \in DOMAIN q.markers :
              p \in DOMAIN r.markers \/ \E t \in Covered(q, c) : t.place = p
         /\ \A t \in Covered(q, c) :
              t.place \in DOMAIN q.markers /\ q.markers[t.place] = Marker(t, q.surface)
<1> DEFINE M == NewMarkers(q.dirs, c, q.surface)
           covered == Covered(q, c)
<1>1. /\ c \in [Names -> Paths] /\ c # Raised
      /\ Begun(r, c, q)
  BY RunThrough
<1>2. /\ q.surface = Hardened(r) /\ q.fingerprint = q.surface /\ q.interfaces = r.interfaces
      /\ q.markers = Over(M, r.markers)
      /\ q.manifest = NewManifest(q.dirs, q.impl, c, q.surface)
  <2> DEFINE s == Scaffold(r, c)
             u == Hardened(r)
  <2>1. /\ q.dirs = s.dirs /\ q.impl = s.impl /\ q.surface = u /\ q.fingerprint = u
        /\ q.interfaces = r.interfaces
        /\ q.markers = Over(NewMarkers(s.dirs, c, u), r.markers)
        /\ q.manifest = NewManifest(s.dirs, s.impl, c, u)
    BY DiskParts DEF Finished
  <2> QED BY <2>1
<1>3. covered = CoveredIn(q.dirs, c)
  BY WritesLookAt
<1>4. /\ q.manifest.surface = q.surface
      /\ q.manifest.entries = {Entry(q, t) : t \in covered}
  <2> DEFINE bare == [dirs |-> q.dirs, impl |-> q.impl]
  <2>1. \A t : Entry(q, t) = Entry(bare, t)
    BY DEF Entry, Evidence
  <2>2. NewManifest(q.dirs, q.impl, c, q.surface) =
          [surface |-> q.surface, entries |-> {Entry(bare, t) : t \in CoveredIn(q.dirs, c)}]
    BY DEF NewManifest, Entry
  <2> HIDE DEF bare, covered
  <2>3. {Entry(q, t) : t \in covered} = {Entry(bare, t) : t \in CoveredIn(q.dirs, c)}
    BY <1>3, <2>1
  <2> QED BY <1>2, <2>2, <2>3
<1>5. M = [p \in {t.place : t \in covered} |->
             Marker(CHOOSE t \in covered : t.place = p, q.surface)]
  BY <1>3 DEF NewMarkers
<1> HIDE DEF M
<1>6. \A p \in DOMAIN q.markers : p \in DOMAIN r.markers \/ \E t \in covered : t.place = p
  BY <1>2, <1>5 DEF Over
<1>7. ASSUME NEW t \in covered
      PROVE  t.place \in DOMAIN q.markers /\ q.markers[t.place] = Marker(t, q.surface)
  <2>1. \A o \in covered : o.place = t.place => o = t
    <3>1. q.dirs \subseteq Paths
      BY <1>1 DEF Begun, IsRepo
    <3>2. \A o \in covered : o.place[1] = o.dir
      BY <1>1, <3>1, CoveredParts
    <3>3. \A o \in covered : o.dir = t.dir => o = t
      BY <1>1, <3>1, CoveredParts
    <3> HIDE DEF covered
    <3> QED BY <3>2, <3>3
  <2> HIDE DEF covered
  <2>2. (CHOOSE o \in covered : o.place = t.place) = t
    BY <2>1
  <2>3. t.place \in DOMAIN M /\ M[t.place] = Marker(t, q.surface)
    BY <1>5, <2>2
  <2> QED BY <1>2, <2>3 DEF Over
<1> QED
  BY <1>2, <1>4, <1>6, <1>7

\* The manifest has an entry of each target.
LEMMA EntriesEnough ==
  ASSUME NEW r, IsRepo(r), NEW c, NEW q, IsRepo(q),
         NEW E, E = {Entry(q, t) : t \in Covered(q, c)}
  PROVE  IsFiniteSet(E) /\ Cardinality(Names) <= Cardinality(E)
<1> DEFINE rows == {TargetOf(s, c) : s \in Specs}
           more == {ExtensionOf(d) : d \in ExtensionDirs(q, c)}
           row(n) == CHOOSE s \in Specs : s.name = n
           f == [n \in Names |-> Entry(q, TargetOf(row(n), c))]
<1>1. Covered(q, c) = rows \union more
  BY DEF Covered
<1>2. \A n \in Names : row(n) \in Specs /\ row(n).name = n
  BY DEF Names
<1>3. \A s \in Specs : row(s.name) = s
  <2>1. ASSUME NEW s \in Specs, NEW t \in Specs, s.name = t.name
        PROVE  s = t
    BY <2>1, FleetAssumption DEF Specs, ToSet
  <2>2. \A s \in Specs : s.name \in Names
    BY DEF Names
  <2> HIDE DEF row
  <2> QED BY <1>2, <2>1, <2>2
<1> HIDE DEF row
<1>4. IsFiniteSet(rows)
  <2> DEFINE g == [n \in Names |-> TargetOf(row(n), c)]
  <2>1. g = [n \in Names |-> g[n]]
    OBVIOUS
  <2>2. rows = {g[n] : n \in Names}
    <3>1. \A s \in Specs : s.name \in Names /\ g[s.name] = TargetOf(s, c)
      BY <1>3 DEF Names
    <3>2. \A n \in Names : g[n] = TargetOf(row(n), c)
      OBVIOUS
    <3> HIDE DEF g
    <3> QED BY <1>2, <3>1, <3>2
  <2> HIDE DEF g
  <2> QED BY <2>1, <2>2, FinitelyMany, FiniteImage
<1>5. IsFiniteSet(more)
  <2> DEFINE dirs == ExtensionDirs(q, c)
             g == [d \in dirs |-> ExtensionOf(d)]
  <2>1. IsFiniteSet(dirs)
    BY FS_Subset DEF ExtensionDirs, IsRepo
  <2> HIDE DEF dirs
  <2>2. g = [d \in dirs |-> g[d]]
    OBVIOUS
  <2>3. more = {g[d] : d \in dirs}
    BY DEF dirs
  <2> HIDE DEF g, more
  <2> QED BY <2>1, <2>2, <2>3, FiniteImage
<1>6. IsFiniteSet(E)
  <2> DEFINE all == Covered(q, c)
             g == [t \in all |-> Entry(q, t)]
  <2>1. IsFiniteSet(all)
    <3> HIDE DEF rows, more
    <3> QED BY <1>1, <1>4, <1>5, FS_Union
  <2> HIDE DEF all
  <2>2. g = [t \in all |-> g[t]]
    OBVIOUS
  <2>3. E = {g[t] : t \in all}
    BY DEF all
  <2> HIDE DEF g
  <2> QED BY <2>1, <2>2, <2>3, FiniteImage
<1>7. f \in Injection(Names, E)
  <2>1. ASSUME NEW n \in Names
        PROVE  f[n] \in E /\ f[n].target = <<"target", n>>
    <3>1. TargetOf(row(n), c) \in Covered(q, c)
      BY <1>1, <1>2
    <3>2. f[n].target = <<"target", n>>
      BY <1>2 DEF Entry, TargetOf
    <3>3. f[n] = Entry(q, TargetOf(row(n), c))
      OBVIOUS
    <3> QED BY <3>1, <3>2, <3>3
  <2>2. f \in [Names -> E]
    BY <2>1
  <2>3. \A m, n \in Names : f[m] = f[n] => m = n
    <3> SUFFICES ASSUME NEW m \in Names, NEW n \in Names, f[m] = f[n]
                 PROVE  m = n
      OBVIOUS
    <3> HIDE DEF f
    <3>1. <<"target", m>> = <<"target", n>>
      BY <2>1
    <3> QED BY <3>1
  <2> HIDE DEF f
  <2> QED BY <2>2, <2>3 DEF Injection, IsInjective
<1> HIDE DEF f
<1> QED
  BY <1>6, <1>7, FS_Injection

\* A directory in which there is something in evidence.
LEMMA EvidenceThere ==
  ASSUME NEW q, NEW d
  PROVE  Evidence(q, d) # <<>> <=>
           \E e \in q.dirs : Seen(d, e) /\ q.impl[e].source + q.impl[e].metadata > 0
<1> DEFINE at == {e \in q.dirs : Seen(d, e) /\ q.impl[e].source + q.impl[e].metadata > 0}
           f == [e \in at |-> <<q.impl[e].source, q.impl[e].metadata>>]
<1>1. Evidence(q, d) = f
  BY DEF Evidence
<1>2. at # {} => f # <<>>
  <2>1. DOMAIN f = at /\ DOMAIN <<>> = {}
    OBVIOUS
  <2> HIDE DEF f, at
  <2> QED BY <2>1
<1>3. at = {} => f = <<>>
  <2> SUFFICES ASSUME at = {}
               PROVE  f = <<>>
    OBVIOUS
  <2>1. f = [e \in {} |-> <<q.impl[e].source, q.impl[e].metadata>>]
    OBVIOUS
  <2> HIDE DEF f, at
  <2> QED BY <2>1
<1> HIDE DEF f
<1> QED
  BY <1>1, <1>2, <1>3

\* What the second verifier asks of each entry.
LEMMA EntryPasses ==
  ASSUME NEW r, IsRepo(r), NEW c, c = ChooseTargetDirs(r), WritesMade(r) = 7,
         SharedStands(r), NEW q, q = Finished(r, c), NEW t \in Covered(q, c),
         NEW e, e = Entry(q, t)
  PROVE  /\ InClients(e.dir) /\ e.dir \in q.dirs
         /\ IsExtension(e) \/ Evidence(q, e.dir) # <<>>
         /\ e.evidence = Evidence(q, e.dir)
         /\ MarkerRoot(q, e) \in DOMAIN q.markers
         /\ q.markers[MarkerRoot(q, e)] = Marker(e, q.surface)
<1>1. /\ c \in [Names -> Paths] /\ c # Raised /\ Harden(r) = Result(q, TRUE)
      /\ Begun(r, c, q)
  BY RunThrough
<1>2. q.dirs \subseteq Paths /\ IsRepo(q) /\ q.dirs = Scaffold(r, c).dirs
      /\ q.impl = Scaffold(r, c).impl
  BY <1>1 DEF Begun, IsRepo
<1>3. /\ e.target = t.target /\ e.zed = t.zed /\ e.runtime = t.runtime /\ e.dir = t.dir
      /\ e.evidence = Evidence(q, e.dir)
  BY DEF Entry
<1>4. /\ t.place \in DOMAIN q.markers /\ q.markers[t.place] = Marker(e, q.surface)
      /\ \A p \in DOMAIN q.markers :
           p \in DOMAIN r.markers \/ \E o \in Covered(q, c) : o.place = p
  BY <1>3, FinishedParts DEF Marker
<1>5. ASSUME NEW d \in ExtensionDirs(q, c), t = ExtensionOf(d)
      PROVE  InClients(e.dir) /\ e.dir \in q.dirs /\ IsExtension(e) /\ MarkerRoot(q, e) = t.place
  <2>1. /\ t.target = <<"extension", kebab(d[1])>> /\ t.dir = d
        /\ t.place = <<d, NoRuntime>> /\ d \in q.dirs /\ InClients(d)
    BY <1>5 DEF ExtensionOf, ExtensionDirs
  <2>2. IsExtension(e)
    BY <1>3, <2>1 DEF IsExtension
  <2> QED BY <1>3, <1>4, <2>1, <2>2 DEF MarkerRoot
<1>6. ASSUME NEW s \in Specs, t = TargetOf(s, c)
      PROVE  /\ InClients(e.dir) /\ e.dir \in q.dirs /\ Evidence(q, e.dir) # <<>>
             /\ MarkerRoot(q, e) = t.place
  <2>1. t.dir = c[s.name] /\ t.place = MarkerDir(s, c[s.name])
        /\ (s.runtime # NoRuntime => t.runtime = s.runtime)
    BY <1>6 DEF TargetOf
  <2>2. c[s.name] \in q.dirs
    BY <1>2, <1>1, ScaffoldParts DEF Names
  <2>3. InClients(c[s.name])
    BY DEF SharedStands
  <2>4. CASE ~Shared(s, c[s.name])
    <3>1. HasProduct(q, c[s.name])
      BY <1>1, <1>2, <2>4, ScaffoldOnce
    <3>2. Evidence(q, c[s.name]) # <<>>
      <4>1. PICK d \in q.dirs : Seen(c[s.name], d) /\ q.impl[d].source > 0
        BY <3>1 DEF HasProduct
      <4>2. q.impl[d].source + q.impl[d].metadata > 0
        BY <1>2, <4>1 DEF IsRepo, Files
      <4> QED BY <4>1, <4>2, EvidenceThere
    <3>3. t.place = <<t.dir, NoRuntime>>
      BY <2>1, <2>4 DEF MarkerDir, Shared
    <3> QED BY <1>3, <1>4, <2>1, <2>2, <2>3, <3>2, <3>3 DEF MarkerRoot
  <2>5. CASE Shared(s, c[s.name])
    <3>1. /\ c[s.name] = Typescript /\ s.runtime # NoRuntime
          /\ Evidence(r, Typescript) # <<>> /\ <<Typescript, NoRuntime>> \notin DOMAIN r.markers
      BY <2>5 DEF SharedStands, Shared
    <3>2. Evidence(q, Typescript) # <<>>
      <4>1. PICK d \in r.dirs : /\ Seen(Typescript, d)
                                /\ r.impl[d].source + r.impl[d].metadata > 0
        BY <3>1, EvidenceThere
      <4>2. Harden(r).repo = q
        BY <1>1 DEF Result
      <4>3. d \in q.dirs /\ Kept(q, r, d)
        BY <4>1, <4>2, HardenKeeps
      <4>4. /\ r.impl[d].source \in Nat /\ r.impl[d].metadata \in Nat
            /\ q.impl[d].source \in Nat /\ q.impl[d].metadata \in Nat
        BY <1>2, <4>1, <4>3 DEF IsRepo, Files
      <4>5. /\ r.impl[d].source > 0 => q.impl[d].source = r.impl[d].source
            /\ r.impl[d].metadata > 0 => q.impl[d].metadata = r.impl[d].metadata
        BY <4>3 DEF Kept
      <4>6. q.impl[d].source + q.impl[d].metadata > 0
        BY <4>1, <4>4, <4>5
      <4> QED BY <4>1, <4>3, <4>6, EvidenceThere
    <3>3. t.place = <<Typescript, s.runtime>> /\ t.place # <<Typescript, NoRuntime>>
      BY <2>1, <3>1 DEF MarkerDir
    <3>4. <<Typescript, NoRuntime>> \notin DOMAIN q.markers
      <4> SUFFICES ASSUME NEW o \in Covered(q, c), o.place = <<Typescript, NoRuntime>>
                   PROVE  FALSE
        BY <1>4, <3>1
      <4>1. o.dir = t.dir
        <5>1. o.place[1] = o.dir
          BY <1>1, <1>2, CoveredParts
        <5> QED BY <2>1, <3>1, <5>1
      <4>2. o = t
        BY <1>1, <1>2, <4>1, CoveredParts
      <4> QED BY <3>3, <4>2
    <3> QED BY <1>3, <1>4, <2>1, <2>2, <2>3, <3>1, <3>2, <3>3, <3>4 DEF MarkerRoot
  <2> QED BY <2>4, <2>5
<1>7. \/ \E s \in Specs : t = TargetOf(s, c)
      \/ \E d \in ExtensionDirs(q, c) : t = ExtensionOf(d)
  BY <1>1, <1>2, CoveredParts
<1> QED
  BY <1>3, <1>4, <1>5, <1>6, <1>7

\* No two entries are of one target.
LEMMA EntriesDiffer ==
  ASSUME NEW r, IsRepo(r), NEW c, c = ChooseTargetDirs(r), WritesMade(r) = 7,
         SharedStands(r), NEW q, q = Finished(r, c),
         NEW t \in Covered(q, c), NEW o \in Covered(q, c), t.target = o.target
  PROVE  t = o
<1>1. Harden(r).repo = q
  BY RunThrough DEF Result
<1>2. \A d, e \in ExtensionDirs(q, c) : kebab(d[1]) = kebab(e[1]) => d = e
  BY <1>1 DEF SharedStands
<1>3. /\ (\E s \in Specs : t = TargetOf(s, c)) \/ (\E d \in ExtensionDirs(q, c) : t = ExtensionOf(d))
      /\ (\E s \in Specs : o = TargetOf(s, c)) \/ (\E d \in ExtensionDirs(q, c) : o = ExtensionOf(d))
  BY DEF Covered
<1>4. \A s : TargetOf(s, c).target[1] = "target" /\ TargetOf(s, c).target[2] = s.name
  BY DEF TargetOf
<1>5. \A d : ExtensionOf(d).target[1] = "extension" /\ ExtensionOf(d).target[2] = kebab(d[1])
  BY DEF ExtensionOf
<1>6. t.target[1] = o.target[1] /\ t.target[2] = o.target[2]
  OBVIOUS
<1>7. \A s, u \in Specs : s.name = u.name => s = u
  BY FleetAssumption DEF Specs, ToSet
<1>8. "target" # "extension"
  OBVIOUS
<1>9. CASE \E s \in Specs : t = TargetOf(s, c)
  <2>1. PICK s \in Specs : t = TargetOf(s, c)
    BY <1>9
  <2>2. t.target[1] = "target" /\ t.target[2] = s.name
    BY <1>4, <2>1
  <2>3. PICK u \in Specs : o = TargetOf(u, c)
    BY <1>3, <1>5, <1>6, <1>8, <2>2
  <2>4. s.name = u.name
    BY <1>4, <1>6, <2>2, <2>3
  <2> QED BY <1>7, <2>1, <2>3, <2>4
<1>10. CASE \E d \in ExtensionDirs(q, c) : t = ExtensionOf(d)
  <2>1. PICK d \in ExtensionDirs(q, c) : t = ExtensionOf(d)
    BY <1>10
  <2>2. t.target[1] = "extension" /\ t.target[2] = kebab(d[1])
    BY <1>5, <2>1
  <2>3. PICK e \in ExtensionDirs(q, c) : o = ExtensionOf(e)
    BY <1>3, <1>4, <1>6, <1>8, <2>2
  <2>4. kebab(d[1]) = kebab(e[1])
    BY <1>5, <1>6, <2>2, <2>3
  <2>5. d = e
    BY <1>2, <2>4
  <2> QED BY <2>1, <2>3, <2>5
<1> QED
  BY <1>3, <1>9, <1>10

\* What a hardening finds no error in passes the second verifier, unless a target is
\* outside clients/, two extensions are called the same, or a package that runtimes
\* share has nothing in evidence, or a marker that is not theirs.
THEOREM BothVerifiersAgree == Spec => []HardenedVerifies
<1>1. ASSUME TypeOK, Harden(repo).exit = 0, SharedStands(repo)
      PROVE  VerifiesContract(Harden(repo).repo)
  <2> DEFINE c == ChooseTargetDirs(repo)
             q == Finished(repo, c)
             E == q.manifest.entries
  <2>1. IsRepo(repo) /\ WritesMade(repo) = 7
    BY <1>1, NoErrorIsThrough DEF TypeOK
  <2>2. c \in [Names -> Paths] /\ c # Raised /\ Harden(repo) = Result(q, TRUE) /\ Begun(repo, c, q)
    BY <2>1, RunThrough
  <2>3. Harden(repo).repo = q /\ Verifies(q)
    BY <1>1, <2>2 DEF Result
  <2>4. /\ q.surface = Hardened(repo) /\ q.fingerprint = q.surface /\ q.interfaces = repo.interfaces
        /\ q.manifest.surface = q.surface
        /\ E = {Entry(q, t) : t \in Covered(q, c)}
    BY <2>1, FinishedParts
  <2>5. q.surface.interfaces = q.interfaces /\ q.interfaces # 0
    <3>1. Len(Writes) = 7
      BY WriteAt
    <3>2. repo.interfaces # 0
      BY <2>1, <3>1 DEF WritesMade
    <3> QED BY <2>1, <2>4, <3>2, HardenedInterfaces
  <2> HIDE DEF c, q
  <2>6. Cardinality(E) >= MinimumTargets
    <3>1. IsFiniteSet(E) /\ Cardinality(Names) <= Cardinality(E)
      <4>1. IsRepo(q)
        BY <2>2 DEF Begun
      <4> QED BY <2>1, <2>4, <4>1, EntriesEnough
    <3>2. Cardinality(Names) >= MinimumTargets
      BY <2>3 DEF Verifies
    <3>3. Cardinality(E) \in Nat /\ Cardinality(Names) \in Nat /\ MinimumTargets \in Nat
      BY <3>1, FinitelyMany, FS_CardinalityType, FleetAssumption
    <3> QED BY <3>1, <3>2, <3>3
  <2>7. ASSUME NEW e \in E
        PROVE  /\ InClients(e.dir) /\ e.dir \in q.dirs
               /\ IsExtension(e) \/ Evidence(q, e.dir) # <<>>
               /\ e.evidence = Evidence(q, e.dir)
               /\ MarkerRoot(q, e) \in DOMAIN q.markers
               /\ q.markers[MarkerRoot(q, e)] = Marker(e, q.surface)
    <3>1. PICK t \in Covered(q, c) : e = Entry(q, t)
      BY <2>4
    <3> QED BY <1>1, <2>1, <3>1, EntryPasses DEF c, q
  <2>8. /\ q.surface # Nothing /\ q.manifest # Nothing
        /\ AllDeclared(q, {e.dir : e \in E})
    BY <2>3 DEF Verifies
  <2>9. ASSUME NEW e \in E, NEW o \in E, e.target = o.target
        PROVE  e = o
    <3>1. PICK t \in Covered(q, c) : e = Entry(q, t)
      BY <2>4
    <3>2. PICK u \in Covered(q, c) : o = Entry(q, u)
      BY <2>4
    <3>3. t.target = u.target
      BY <2>9, <3>1, <3>2 DEF Entry
    <3>4. t = u
      BY <1>1, <2>1, <3>3, EntriesDiffer DEF c, q
    <3> QED BY <3>1, <3>2, <3>4
  <2>10. VerifiesContract(q)
    BY <2>4, <2>5, <2>6, <2>7, <2>8, <2>9 DEF VerifiesContract
  <2> QED BY <2>3, <2>10
<1>2. TypeOK => HardenedVerifies
  BY <1>1 DEF HardenedVerifies, VerifiedBy
<1> QED
  BY <1>2, HardenTyping, PTL
=============================================================================
