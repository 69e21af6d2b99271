---------------------------- MODULE SurfaceProofs ----------------------------
(***************************************************************************)
(* Theorems about the contract tools, for every repository of clients.     *)
(***************************************************************************)
EXTENDS SurfaceSystem, FiniteSetTheorems, WellFoundedInduction, TLAPS

-----------------------------------------------------------------------------
(* Finite sets.                                                            *)

\* The image of a finite set is finite.
LEMMA ImageFinite ==
  ASSUME NEW S, IsFiniteSet(S), NEW f, f = [x \in S |-> f[x]]
  PROVE  IsFiniteSet({f[x] : x \in S})
<1> DEFINE T == {f[x] : x \in S}
<1>1. f \in Surjection(S, T)
  BY DEF Surjection
<1> QED
  BY <1>1, FS_Surjection

\* A finite set of integers has a greatest element: one above which there are
\* as few others as possible.
LEMMA Greatest ==
  ASSUME NEW S \in SUBSET Int, IsFiniteSet(S), S # {}
  PROVE  \E x \in S : \A y \in S : x >= y
<1> DEFINE Above(x) == {y \in S : y > x}
           T == {Above(x) : x \in S}
<1>1. T \subseteq FiniteSubsetsOf(S) /\ T # {}
  <2>1. ASSUME NEW x \in S PROVE Above(x) \in FiniteSubsetsOf(S)
    <3>1. Above(x) \in SUBSET S
      OBVIOUS
    <3> HIDE DEF Above
    <3> QED BY <3>1, FS_Subset DEF FiniteSubsetsOf
  <2> QED BY <2>1
<1>2. \E t \in T : \A u \in T : <<u, t>> \notin StrictSubsetOrdering(S)
  <2> HIDE DEF T
  <2> QED BY <1>1, FS_StrictSubsetOrderingWellFounded, WFMin
<1>3. PICK x \in S : \A y \in S : <<Above(y), Above(x)>> \notin StrictSubsetOrdering(S)
  BY <1>2
<1>4. ASSUME NEW y \in S, ~(x >= y)
      PROVE  FALSE
  <2>1. y > x /\ ~(y > y) /\ \A z \in S : z > y => z > x
    BY <1>4
  <2>2. Above(y) \subseteq Above(x) /\ y \in Above(x) /\ y \notin Above(y)
    BY <2>1, <1>4
  <2> QED
    BY <2>2, <1>3 DEF StrictSubsetOrdering
<1> QED
  BY <1>4

LEMMA MaxIsGreatest ==
  ASSUME NEW S \in SUBSET Int, IsFiniteSet(S), S # {}
  PROVE  Max(S) \in S /\ \A y \in S : Max(S) >= y
BY Greatest DEF Max

LEMMA MinIsLeast ==
  ASSUME NEW S \in SUBSET Int, IsFiniteSet(S), S # {}
  PROVE  Min(S) \in S /\ \A y \in S : Min(S) <= y
<1> DEFINE minus == [x \in S |-> 0 - x]
           T == {minus[x] : x \in S}
<1>1. IsFiniteSet(T)
  <2> HIDE DEF minus
  <2>1. minus = [x \in S |-> minus[x]]
    BY DEF minus
  <2> QED BY <2>1, ImageFinite
<1>2. T \in SUBSET Int /\ T # {}
  OBVIOUS
<1>3. PICK t \in T : \A u \in T : t >= u
  <2> HIDE DEF T
  <2> QED BY <1>1, <1>2, Greatest
<1>4. PICK x \in S : t = 0 - x
  BY <1>3
<1>5. \A y \in S : x <= y
  <2> TAKE y \in S
  <2>1. t >= 0 - y
    BY <1>3
  <2> QED BY <2>1, <1>4
<1> QED
  BY <1>5 DEF Min

\* Of a finite set one element is the greatest by a measure.
LEMMA GreatestBy ==
  ASSUME NEW S, IsFiniteSet(S), S # {}, NEW f \in [S -> Int]
  PROVE  \E x \in S : \A y \in S : f[y] <= f[x]
<1> DEFINE T == {f[x] : x \in S}
<1>1. IsFiniteSet(T) /\ T \in SUBSET Int /\ T # {}
  BY ImageFinite
<1>2. PICK t \in T : \A u \in T : t >= u
  <2> HIDE DEF T
  <2> QED BY <1>1, Greatest
<1> QED
  BY <1>2

-----------------------------------------------------------------------------
(* The exit code of a check.                                               *)

LEMMA ExitZero ==
  ASSUME NEW c, NEW r, NEW d, NEW selected, NEW strict, NEW lucky,
         Exit(c, r, d, selected, strict, lucky) = 0
  PROVE  /\ c # NoContract
         /\ Valid(c)
         /\ \A f \in Findings(c, r, d, selected, lucky) : ~Fatal(c, f, strict)
BY DEF Exit

LEMMA ExitOne ==
  ASSUME NEW c, NEW r, NEW d, NEW selected, NEW strict, NEW lucky,
         c # NoContract, Valid(c),
         NEW f \in Findings(c, r, d, selected, lucky), Fatal(c, f, strict)
  PROVE  Exit(c, r, d, selected, strict, lucky) = 1
BY DEF Exit

LEMMA ExitClean ==
  ASSUME NEW c, NEW r, NEW d, NEW selected, NEW strict, NEW lucky,
         c # NoContract, Valid(c),
         \A f \in Findings(c, r, d, selected, lucky) : ~Fatal(c, f, strict)
  PROVE  Exit(c, r, d, selected, strict, lucky) = 0
BY DEF Exit

\* What a whole check finds of one client.
LEMMA ClientIsChecked ==
  ASSUME NEW c, NEW r, NEW d, NEW lucky,
         NEW l \in DOMAIN c.languages, c.languages[l].tier # "off",
         NEW f \in CheckLanguage(c, r.clients, l, d, lucky)
  PROVE  f \in Findings(c, r, d, {}, lucky)
BY DEF Findings

-----------------------------------------------------------------------------
\* A check that passes is of today: no waiver is over, and neither the source
\* nor a vendored schema was changed behind the contract.
THEOREM GreenIsOfToday == Spec => []GreenIsCurrent
<1>1. GreenIsCurrent
  <2> SUFFICES ASSUME contract # NoContract, Passes(contract, repo, day)
               PROVE  /\ \A w \in contract.waivers : w.expires >= day
                      /\ contract.source # NoSource =>
                           Current(contract, repo) \in {contract.source.content, NoSource}
                      /\ contract.schemas => repo.copy = "same"
    BY DEF GreenIsCurrent
  <2>1. \A f \in Findings(contract, repo, day, {}, TRUE) : ~Fatal(contract, f, FALSE)
    BY ExitZero DEF Passes
  <2>2. ASSUME NEW w \in contract.waivers, ~(w.expires >= day)
        PROVE  FALSE
    <3> DEFINE f == Finding("error", w.language, w.operation, "expired")
    <3>1. f \in Findings(contract, repo, day, {}, TRUE)
      BY <2>2 DEF Findings, Expired, Usable
    <3> QED
      BY <3>1, <2>1 DEF Fatal, Finding
  <2>3. ASSUME contract.source # NoSource,
               Current(contract, repo) \notin {contract.source.content, NoSource}
        PROVE  FALSE
    <3> DEFINE f == Finding("error", NoLang, NoOp, "source changed")
    <3>1. f \in Findings(contract, repo, day, {}, TRUE)
      BY <2>3 DEF Findings, Provenance
    <3> QED
      BY <3>1, <2>1 DEF Fatal, Finding
  <2>4. ASSUME contract.schemas, repo.copy # "same"
        PROVE  FALSE
    <3> DEFINE f == Finding("error", NoLang, NoOp, "schema")
    <3>1. f \in Findings(contract, repo, day, {}, TRUE)
      BY <2>4 DEF Findings, InterfaceSchemas
    <3> QED
      BY <3>1, <2>1 DEF Fatal, Finding
  <2> QED
    BY <2>2, <2>3, <2>4
<1> QED
  BY <1>1, PTL

-----------------------------------------------------------------------------
(* What the check finds of a client that it can read.                      *)

CanRead(c, r, l) ==
  /\ l \in DOMAIN r.clients
  /\ DetectLanguage(l, r.clients[l].census) # "none"
  /\ Present(c, r.clients[l], l) # {}

LEMMA FourParts ==
  ASSUME NEW A, NEW B, NEW C, NEW D
  PROVE  UNION {A, B, C, D} = A \union B \union C \union D
OBVIOUS

LEMMA ChecksClient ==
  ASSUME NEW c, NEW r, NEW l, NEW d, NEW lucky, CanRead(c, r, l)
  PROVE  CheckLanguage(c, r.clients, l, d, lucky) =
           OpFindings(c, r.clients[l], l, d, lucky)
             \union (IF Regressed(c, r.clients[l], l, d)
                     THEN {Finding("error", l, NoOp, "regressed")} ELSE {})
             \union TypeFindings(c, r.clients[l], l)
             \union ExtraFindings(c, r.clients[l], l)
<1> DEFINE A == OpFindings(c, r.clients[l], l, d, lucky)
           B == IF Regressed(c, r.clients[l], l, d)
                THEN {Finding("error", l, NoOp, "regressed")} ELSE {}
           C == TypeFindings(c, r.clients[l], l)
           D == ExtraFindings(c, r.clients[l], l)
<1>1. CheckLanguage(c, r.clients, l, d, lucky) = UNION {A, B, C, D}
  BY DEF CheckLanguage, CanRead
<1> HIDE DEF A, B, C, D
<1>2. CheckLanguage(c, r.clients, l, d, lucky) = A \union B \union C \union D
  BY <1>1, FourParts
<1> QED
  BY <1>2 DEF A, B, C, D

LEMMA CheckedParts ==
  ASSUME NEW c, NEW r, NEW l, NEW d, NEW lucky, CanRead(c, r, l),
         NEW f \in CheckLanguage(c, r.clients, l, d, lucky)
  PROVE  \/ f \in OpFindings(c, r.clients[l], l, d, lucky)
         \/ Regressed(c, r.clients[l], l, d) /\ f = Finding("error", l, NoOp, "regressed")
         \/ f \in TypeFindings(c, r.clients[l], l)
         \/ f \in ExtraFindings(c, r.clients[l], l)
<1> DEFINE A == OpFindings(c, r.clients[l], l, d, lucky)
           B == IF Regressed(c, r.clients[l], l, d)
                THEN {Finding("error", l, NoOp, "regressed")} ELSE {}
           C == TypeFindings(c, r.clients[l], l)
           D == ExtraFindings(c, r.clients[l], l)
<1>1. f \in A \union B \union C \union D
  BY ChecksClient
<1>2. f \in B => Regressed(c, r.clients[l], l, d) /\ f = Finding("error", l, NoOp, "regressed")
  OBVIOUS
<1> HIDE DEF A, B, C, D
<1>3. f \in A \/ f \in B \/ f \in C \/ f \in D
  BY <1>1
<1> QED
  BY <1>2, <1>3 DEF A, C, D

LEMMA TypesAreWarnings ==
  ASSUME NEW c, NEW client, NEW l, NEW f \in TypeFindings(c, client, l)
  PROVE  f.severity = "warning"
<1>1. f \in {Finding("warning", l, NoOp, "client type"), Finding("warning", l, NoOp, "error type")}
  BY DEF TypeFindings
<1>2. \A kind : Finding("warning", l, NoOp, kind).severity = "warning"
  BY DEF Finding
<1> QED
  BY <1>1, <1>2

LEMMA OperationErrors ==
  ASSUME NEW c, NEW client, NEW l, NEW d, NEW lucky,
         NEW f \in OpFindings(c, client, l, d, lucky), f.severity = "error"
  PROVE  \/ \E o \in Absent(c, client, l, d) : f = Finding("error", l, o, "absent")
         \/ c.languages[l].arity
<1>1. \/ \E o : f = Finding("notice", l, o, "waived")
      \/ \E o \in Absent(c, client, l, d) : f = Finding("error", l, o, "absent")
      \/ \E o : f = Finding("warning", l, o, "cased")
      \/ \E o \in Required(c, d, l) : TooNarrow(c, client, l, o, lucky)
  BY DEF OpFindings
<1>2. \A o : Finding("notice", l, o, "waived").severity = "notice"
             /\ Finding("warning", l, o, "cased").severity = "warning"
  BY DEF Finding
<1>3. \A o : TooNarrow(c, client, l, o, lucky) => c.languages[l].arity
  BY DEF TooNarrow
<1> QED
  BY <1>1, <1>2, <1>3

LEMMA FindsOfOperations ==
  ASSUME NEW c, NEW r, NEW l, NEW d, NEW lucky, CanRead(c, r, l)
  PROVE  /\ \A o \in Absent(c, r.clients[l], l, d) :
              Finding("error", l, o, "absent") \in CheckLanguage(c, r.clients, l, d, lucky)
         /\ \A o \in Required(c, d, l) :
              Hits(c, r.clients[l], l, o) = {} /\ FoundByCase(c, r.clients[l], l, o) =>
                Finding("warning", l, o, "cased") \in CheckLanguage(c, r.clients, l, d, lucky)
         /\ \A o \in Required(c, d, l) :
              TooNarrow(c, r.clients[l], l, o, lucky) =>
                Finding("error", l, o, "arity") \in CheckLanguage(c, r.clients, l, d, lucky)
         /\ Regressed(c, r.clients[l], l, d) =>
              Finding("error", l, NoOp, "regressed") \in CheckLanguage(c, r.clients, l, d, lucky)
<1> DEFINE found == CheckLanguage(c, r.clients, l, d, lucky)
<1>1. OpFindings(c, r.clients[l], l, d, lucky) \subseteq found
  <2> DEFINE A == OpFindings(c, r.clients[l], l, d, lucky)
             B == IF Regressed(c, r.clients[l], l, d)
                  THEN {Finding("error", l, NoOp, "regressed")} ELSE {}
             C == TypeFindings(c, r.clients[l], l)
             D == ExtraFindings(c, r.clients[l], l)
  <2>1. found = A \union B \union C \union D
    BY ChecksClient
  <2> HIDE DEF A, B, C, D, found
  <2>2. A \subseteq found
    BY <2>1
  <2> QED
    BY <2>2 DEF A
<1>2. \A o \in Absent(c, r.clients[l], l, d) :
        Finding("error", l, o, "absent") \in OpFindings(c, r.clients[l], l, d, lucky)
  BY DEF OpFindings
<1>3. \A o \in Required(c, d, l) :
        Hits(c, r.clients[l], l, o) = {} /\ FoundByCase(c, r.clients[l], l, o) =>
          Finding("warning", l, o, "cased") \in OpFindings(c, r.clients[l], l, d, lucky)
  BY DEF OpFindings
<1>4. \A o \in Required(c, d, l) :
        TooNarrow(c, r.clients[l], l, o, lucky) =>
          Finding("error", l, o, "arity") \in OpFindings(c, r.clients[l], l, d, lucky)
  BY DEF OpFindings
<1>5. Regressed(c, r.clients[l], l, d) => Finding("error", l, NoOp, "regressed") \in found
  BY ChecksClient
<1> QED
  BY <1>1, <1>2, <1>3, <1>4, <1>5

\* The guard before a publication lets only a client pass that exports every
\* required operation under an accepted spelling, whatever its tier, unless that is
\* "off".  Of what it exports beyond that the guard says nothing.
THEOREM PublicationIsComplete == Spec => []PublishedIsComplete
<1>1. PublishedIsComplete
  <2> SUFFICES ASSUME NEW l \in EditLangs,
                      contract # NoContract,
                      Exit(contract, repo, day, {l}, TRUE, TRUE) = 0,
                      Tier(contract, l) # "off"
               PROVE  /\ l \in DOMAIN contract.languages
                      /\ repo.clients[l].decls # {}
                      /\ \A o \in Required(contract, day, l) :
                           CandidateSet(contract, l, o)
                             \intersect Symbols(repo.clients[l], contract.languages[l].exclude) # {}
    BY DEF PublishedIsComplete
  <2> DEFINE check == CheckLanguage(contract, repo.clients, l, day, TRUE)
  <2>1. \A f \in Findings(contract, repo, day, {l}, TRUE) : f.severity \notin {"error", "warning"}
    BY ExitZero DEF Fatal
  <2>2. l \in DOMAIN contract.languages
    <3> SUFFICES ASSUME l \notin DOMAIN contract.languages
                 PROVE  FALSE
      OBVIOUS
    <3> DEFINE f == Finding("error", l, NoOp, "undeclared")
    <3>1. f \in Findings(contract, repo, day, {l}, TRUE)
      BY DEF Findings
    <3> QED
      BY <3>1, <2>1 DEF Finding
  <2>3. \A f \in check : f.severity \notin {"error", "warning"}
    <3>1. check \subseteq Findings(contract, repo, day, {l}, TRUE)
      BY <2>2 DEF Findings, Tier
    <3> QED
      BY <3>1, <2>1
  <2>4. CanRead(contract, repo, l)
    <3> SUFFICES ASSUME ~CanRead(contract, repo, l)
                 PROVE  FALSE
      OBVIOUS
    <3>1. CASE l \notin DOMAIN repo.clients
      <4>1. Finding("error", l, NoOp, "no directory") \in check
        BY <3>1 DEF CheckLanguage
      <4> QED
        BY <4>1, <2>3 DEF Finding
    <3>2. CASE l \in DOMAIN repo.clients
      <4>1. Finding("warning", l, NoOp, "no symbols") \in check
        BY <3>2 DEF CheckLanguage, CanRead
      <4> QED
        BY <4>1, <2>3 DEF Finding
    <3> QED
      BY <3>1, <3>2
  <2>5. repo.clients[l].decls # {}
    BY <2>4 DEF CanRead, Present, Symbols, Sources
  <2>6. ASSUME NEW o \in Required(contract, day, l), Hits(contract, repo.clients[l], l, o) = {}
        PROVE  FALSE
    <3>1. CASE FoundByCase(contract, repo.clients[l], l, o)
      <4>1. Finding("warning", l, o, "cased") \in check
        BY <2>4, <2>6, <3>1, FindsOfOperations
      <4> QED
        BY <4>1, <2>3 DEF Finding
    <3>2. CASE ~FoundByCase(contract, repo.clients[l], l, o)
      <4>1. o \in Absent(contract, repo.clients[l], l, day)
        BY <2>6, <3>2 DEF Absent
      <4>2. Finding("error", l, o, "absent") \in check
        BY <2>4, <4>1, FindsOfOperations
      <4> QED
        BY <4>2, <2>3 DEF Finding
    <3> QED
      BY <3>1, <3>2
  <2> QED
    BY <2>2, <2>5, <2>6 DEF Hits, Present
<1> QED
  BY <1>1, PTL

-----------------------------------------------------------------------------
(* A passing check and the clients.                                        *)

LEMMA ExportedIsNotAbsent ==
  ASSUME NEW l
  PROVE  Exported(l) = Required(contract, day, l) \ Absent(contract, repo.clients[l], l, day)
<1>1. ASSUME NEW o \in Required(contract, day, l)
      PROVE  (\E n \in Symbols(repo.clients[l], contract.languages[l].exclude) :
                n \in CandidateSet(contract, l, o) \union {[op |-> o, spelling |-> "cased"]})
             <=> ~(Hits(contract, repo.clients[l], l, o) = {}
                   /\ ~FoundByCase(contract, repo.clients[l], l, o))
  BY DEF Hits, FoundByCase, Present
<1> QED
  BY <1>1 DEF Exported, Absent

LEMMA RequiredFinite ==
  ASSUME NEW c, NEW client, NEW d, NEW l, IsFiniteSet(DOMAIN c.ops)
  PROVE  /\ IsFiniteSet(Required(c, d, l))
         /\ IsFiniteSet(Absent(c, client, l, d))
         /\ Cardinality(Required(c, d, l)) \in Nat
         /\ Cardinality(Absent(c, client, l, d)) \in Nat
         /\ Cardinality(Absent(c, client, l, d)) <= Cardinality(Required(c, d, l))
<1>1. Required(c, d, l) \in SUBSET DOMAIN c.ops
  BY DEF Required
<1>2. IsFiniteSet(Required(c, d, l))
  BY <1>1, FS_Subset
<1>3. Absent(c, client, l, d) \in SUBSET Required(c, d, l)
  BY DEF Absent
<1> QED
  BY <1>2, <1>3, FS_Subset, FS_CardinalityType

\* The arity that is compared is one of those seen, and no less than any of them.
LEMMA ArityIsSeen ==
  ASSUME NEW client \in Clients, NEW exclude, NEW lang, lang \notin NoParen,
         NEW n \in Symbols(client, exclude)
  PROVE  \E d \in Sources(client, exclude) :
           /\ d.public
           /\ Name(d) = n
           /\ d.arity = Arity(client, exclude, lang, n)
           /\ \A e \in Sources(client, exclude) :
                e.public /\ Name(e) = n => e.arity <= d.arity
<1> DEFINE named == {d \in Sources(client, exclude) : d.public /\ Name(d) = n}
           arity == [d \in named |-> d.arity]
           seen == {arity[d] : d \in named}
<1>1. named \in SUBSET client.decls /\ IsFiniteSet(client.decls)
  BY DEF Clients, Sources
<1>2. IsFiniteSet(named) /\ named # {}
  <2>1. named # {}
    BY DEF Symbols
  <2> HIDE DEF named
  <2> QED BY <1>1, <2>1, FS_Subset
<1>3. \A d \in named : d.arity \in Int
  BY <1>1 DEF Clients, Declarations, NoArity
<1>4. IsFiniteSet(seen)
  <2>1. arity = [d \in named |-> arity[d]]
    OBVIOUS
  <2> HIDE DEF named, arity
  <2> QED BY <1>2, <2>1, ImageFinite
<1>5. seen \in SUBSET Int /\ seen # {}
  BY <1>2, <1>3
<1>6. Max(seen) \in seen /\ \A a \in seen : Max(seen) >= a
  <2> HIDE DEF seen
  <2> QED BY <1>4, <1>5, MaxIsGreatest
<1>7. seen = {d.arity : d \in {e \in Sources(client, exclude) : e.public /\ Name(e) = n}}
  OBVIOUS
<1>8. Arity(client, exclude, lang, n) = Max(seen)
  <2> HIDE DEF seen
  <2> QED BY <1>7 DEF Arity
<1>9. PICK d \in named : d.arity = Max(seen)
  BY <1>6
<1>10. \A e \in named : e.arity <= d.arity
  <2> TAKE e \in named
  <2>1. Max(seen) >= e.arity
    BY <1>6
  <2> QED BY <2>1, <1>9, <1>3
<1> QED
  BY <1>8, <1>9, <1>10

\* An operation that is not found too narrow has a spelling that is wide enough.
LEMMA NotTooNarrow ==
  ASSUME TypeOK, contract # NoContract, NEW l \in Dirs, NEW o \in DOMAIN contract.ops,
         contract.languages[l].arity,
         ~TooNarrow(contract, repo.clients[l], l, o, TRUE)
  PROVE  WideEnough(l, o)
<1> DEFINE client == repo.clients[l]
           exclude == contract.languages[l].exclude
           lang == DetectLanguage(l, client.census)
           required == contract.ops[o].required
           hits == Hits(contract, client, l, o)
           exports == {d \in Sources(client, exclude) :
                         d.public /\ Name(d) \in CandidateSet(contract, l, o)}
<1>1. client \in Clients /\ required \in Nat
  BY DEF TypeOK, IsRepo, IsContract, OpTypes
<1>2. \A d \in exports : Name(d) \in hits
  BY DEF Hits, Present, Symbols
<1>3. SUFFICES ASSUME exports # {}, lang \notin NoParen
               PROVE  \E d \in exports :
                        \/ d.arity >= required
                        \/ \A e \in exports : Name(e) = Name(d) => e.arity = NoArity
  BY DEF WideEnough
<1>4. hits # {}
  BY <1>2, <1>3
<1>5. PICK n \in hits : ~(/\ Arity(client, exclude, lang, n) # NoArity
                          /\ Arity(client, exclude, lang, n) < required)
  BY <1>4 DEF TooNarrow
<1>6. n \in Symbols(client, exclude) /\ n \in CandidateSet(contract, l, o)
  BY DEF Hits, Present
<1>7. PICK d \in Sources(client, exclude) :
        /\ d.public
        /\ Name(d) = n
        /\ d.arity = Arity(client, exclude, lang, n)
        /\ \A e \in Sources(client, exclude) :
             e.public /\ Name(e) = n => e.arity <= d.arity
  <2> HIDE DEF client, exclude, lang
  <2> QED BY <1>1, <1>3, <1>6, ArityIsSeen
<1>8. d \in exports
  BY <1>6, <1>7
<1>9. \A e \in exports : e.arity \in Nat \union {NoArity}
  BY <1>1 DEF Sources, Clients, Declarations
<1>10. CASE d.arity = NoArity
  <2>1. \A e \in exports : Name(e) = Name(d) => e.arity = NoArity
    <3> TAKE e \in exports
    <3> HAVE Name(e) = Name(d)
    <3>1. e.arity <= d.arity
      BY <1>7
    <3> QED BY <3>1, <1>9, <1>10 DEF NoArity
  <2> QED BY <1>8, <2>1
<1>11. CASE d.arity # NoArity
  <2>1. ~(d.arity < required)
    BY <1>5, <1>7, <1>11
  <2>2. d.arity >= required
    BY <2>1, <1>1, <1>8, <1>9 DEF NoArity
  <2> QED BY <1>8, <2>2
<1> QED
  BY <1>10, <1>11

LEMMA Conformance ==
  ASSUME TypeOK
  PROVE  GreenClientsConform
<1> SUFFICES ASSUME contract # NoContract, Passes(contract, repo, day),
                    NEW l \in DOMAIN contract.languages,
                    contract.languages[l].tier # "off",
                    DetectLanguage(l, repo.clients[l].census) # "none",
                    Symbols(repo.clients[l], contract.languages[l].exclude) # {}
             PROVE  /\ AboveFloor(l)
                    /\ contract.languages[l].tier = "gate" =>
                         /\ Exported(l) = Required(contract, day, l)
                         /\ contract.languages[l].arity =>
                              \A o \in Exported(l) : WideEnough(l, o)
  BY DEF GreenClientsConform
<1> DEFINE client == repo.clients[l]
           cfg == contract.languages[l]
           check == CheckLanguage(contract, repo.clients, l, day, TRUE)
           required == Required(contract, day, l)
           absent == Absent(contract, client, l, day)
<1>1. l \in Dirs /\ DOMAIN repo.clients = Dirs /\ cfg \in Settings
      /\ IsFiniteSet(DOMAIN contract.ops)
  BY DEF TypeOK, IsRepo, IsContract
<1>2. CanRead(contract, repo, l)
  BY <1>1 DEF CanRead, Present
<1>3. \A f \in check : ~Fatal(contract, f, FALSE)
  BY ExitZero, ClientIsChecked DEF Passes
<1>4. ~Regressed(contract, client, l, day)
  <2>1. Fatal(contract, Finding("error", l, NoOp, "regressed"), FALSE)
    BY DEF Fatal, Finding
  <2> QED
    BY <1>2, <1>3, <2>1, FindsOfOperations
<1>5. Exported(l) = required \ absent
  BY ExportedIsNotAbsent
<1>6. AboveFloor(l)
  <2> DEFINE n == Cardinality(required)
             m == Cardinality(absent)
  <2>1. n \in Nat /\ m \in Nat /\ m <= n /\ IsFiniteSet(required)
    BY <1>1, RequiredFinite
  <2>2. Cardinality(Exported(l)) = n - m
    <3>1. absent = required \intersect absent
      BY DEF Absent
    <3> QED
      BY <1>5, <2>1, <3>1, FS_Difference
  <2>3. SUFFICES ASSUME cfg.floor # NoFloor
                 PROVE  2000 * (n - m) + n >= 20 * cfg.floor * n
    BY <2>2 DEF AboveFloor
  <2>4. cfg.floor \in Nat
    BY <1>1, <2>3 DEF Settings
  <2>5. ~Trips(n, m, cfg.floor)
    BY <1>4 DEF Regressed
  <2> HIDE DEF n, m, cfg
  <2>6. CASE n = 0
    BY <2>1, <2>4, <2>6
  <2>7. CASE n > 0
    <3>1. ~(2000 * (n - m) + n < 20 * cfg.floor * n)
      BY <2>3, <2>5, <2>7 DEF Trips
    <3>2. 2000 * (n - m) + n \in Int /\ 20 * cfg.floor * n \in Int
      BY <2>1, <2>4
    <3> QED BY <3>1, <3>2
  <2> QED BY <2>1, <2>6, <2>7
<1>7. ASSUME cfg.tier = "gate"
      PROVE  /\ Exported(l) = required
             /\ cfg.arity => \A o \in Exported(l) : WideEnough(l, o)
  <2>1. \A o, kind : Fatal(contract, Finding("error", l, o, kind), FALSE)
    BY <1>7 DEF Fatal, Finding, Tier
  <2>2. absent = {}
    BY <1>2, <1>3, <2>1, FindsOfOperations
  <2>3. ASSUME cfg.arity, NEW o \in required
        PROVE  WideEnough(l, o)
    <3>1. ~TooNarrow(contract, client, l, o, TRUE)
      BY <1>2, <1>3, <2>1, FindsOfOperations
    <3>2. o \in DOMAIN contract.ops
      BY DEF Required
    <3> QED
      BY <1>1, <2>3, <3>1, <3>2, NotTooNarrow
  <2> QED
    BY <1>5, <2>2, <2>3
<1> QED
  BY <1>6, <1>7

-----------------------------------------------------------------------------
(* The operations of a derived contract.                                   *)

\* Operations as every derivation writes them: finitely many, none of them excused
\* and none with an alias.
FreshOps(ops) ==
  /\ ops \in [DOMAIN ops -> {Operation(n) : n \in Nat}]
  /\ IsFiniteSet(DOMAIN ops)

LEMMA MaxOfTwo ==
  ASSUME NEW a \in Int, NEW b \in Int
  PROVE  Max({a, b}) \in {a, b} /\ Max({a, b}) >= a
<1> DEFINE S == {a, b}
<1>1. \E x \in S : \A y \in S : x >= y
  <2>1. CASE a >= b
    BY <2>1
  <2>2. CASE b >= a
    BY <2>2
  <2> QED BY <2>1, <2>2
<1>2. Max(S) \in S /\ \A y \in S : Max(S) >= y
  <2> HIDE DEF S
  <2> QED BY <1>1 DEF Max
<1> QED
  BY <1>2

LEMMA MinOfTwo ==
  ASSUME NEW a \in Int, NEW b \in Int
  PROVE  Min({a, b}) \in {a, b} /\ (a <= b => Min({a, b}) = a)
<1> DEFINE S == {a, b}
<1>1. \E x \in S : \A y \in S : x <= y
  <2>1. CASE a >= b
    BY <2>1
  <2>2. CASE b >= a
    BY <2>2
  <2> QED BY <2>1, <2>2
<1>2. Min(S) \in S /\ \A y \in S : Min(S) <= y
  <2> HIDE DEF S
  <2> QED BY <1>1 DEF Min
<1> QED
  BY <1>2

\* The operations that are named in a finite set of entries or of symbols.
LEMMA NamesFinite ==
  ASSUME NEW S, IsFiniteSet(S)
  PROVE  IsFiniteSet({e.op : e \in S})
<1> DEFINE f == [e \in S |-> e.op]
<1>1. f = [e \in S |-> f[e]]
  OBVIOUS
<1>2. {e.op : e \in S} = {f[e] : e \in S}
  OBVIOUS
<1>3. IsFiniteSet({f[e] : e \in S})
  <2> HIDE DEF f
  <2> QED BY <1>1, ImageFinite
<1> QED
  BY <1>2, <1>3, Zenon

LEMMA SymbolsFinite ==
  ASSUME NEW client \in Clients, NEW exclude
  PROVE  IsFiniteSet(Symbols(client, exclude))
<1> DEFINE S == {e \in Sources(client, exclude) : e.public}
           f == [d \in S |-> Name(d)]
<1>1. S \in SUBSET client.decls /\ IsFiniteSet(client.decls)
  BY DEF Clients, Sources
<1>2. IsFiniteSet(S)
  <2> HIDE DEF S
  <2> QED BY <1>1, FS_Subset
<1>3. f = [d \in S |-> f[d]]
  OBVIOUS
<1>4. Symbols(client, exclude) = {f[d] : d \in S}
  BY DEF Symbols
<1> HIDE DEF S, f
<1> QED
  BY <1>2, <1>3, <1>4, ImageFinite

LEMMA UnprefixedFinite ==
  ASSUME NEW client \in Clients
  PROVE  IsFiniteSet(Unprefixed(client))
<1> DEFINE S == {e \in Sources(client, {}) : e.public}
           f == [d \in S |-> IF d.spelling = "odd" THEN Other(d.op) ELSE d.op]
<1>1. S \in SUBSET client.decls /\ IsFiniteSet(client.decls)
  BY DEF Clients, Sources
<1>2. IsFiniteSet(S)
  <2> HIDE DEF S
  <2> QED BY <1>1, FS_Subset
<1>3. f = [d \in S |-> f[d]]
  OBVIOUS
<1>4. Unprefixed(client) = {f[d] : d \in S}
  BY DEF Unprefixed
<1> HIDE DEF S, f
<1> QED
  BY <1>2, <1>3, <1>4, ImageFinite

LEMMA LiftIsFresh ==
  ASSUME NEW es \in Contents
  PROVE  FreshOps(Lift(es)) /\ DOMAIN Lift(es) = {e.op : e \in es}
<1>1. DOMAIN Lift(es) = {e.op : e \in es} /\ IsFiniteSet(es) /\ es \subseteq Entries
  BY DEF Lift, Contents
<1>2. IsFiniteSet(DOMAIN Lift(es))
  BY <1>1, NamesFinite
<1>3. ASSUME NEW o \in DOMAIN Lift(es)
      PROVE  Lift(es)[o] \in {Operation(n) : n \in Nat}
  <2> DEFINE same == {e \in es : e.op = o}
             params == [e \in same |-> e.params]
  <2>1. same \in SUBSET es /\ same # {}
    BY <1>1, <1>3
  <2>2. IsFiniteSet(same)
    BY <1>1, <2>1, FS_Subset
  <2>3. params \in [same -> Int]
    BY <1>1 DEF Entries
  <2>4. \E x \in same : \A y \in same : params[y] <= params[x]
    <3> HIDE DEF same, params
    <3> QED BY <2>1, <2>2, <2>3, GreatestBy
  <2>5. \E x \in same : \A y \in same : y.params <= x.params
    BY <2>4
  <2>6. Richest(es, o) \in same
    BY <2>5 DEF Richest
  <2>7. Richest(es, o).params - Richest(es, o).optional \in Nat
    BY <1>1, <2>6 DEF Entries
  <2>8. Lift(es)[o] = Operation(Richest(es, o).params - Richest(es, o).optional)
    BY <1>1, <1>3 DEF Lift
  <2> QED
    BY <2>7, <2>8
<1> QED
  BY <1>1, <1>2, <1>3 DEF FreshOps, Lift

LEMMA ArityIsInt ==
  ASSUME NEW client \in Clients, NEW lang, NEW n \in Symbols(client, {})
  PROVE  Arity(client, {}, lang, n) \in Int
<1>1. CASE lang \in NoParen
  BY <1>1 DEF Arity, NoArity
<1>2. CASE lang \notin NoParen
  <2>1. PICK d \in Sources(client, {}) : d.arity = Arity(client, {}, lang, n)
    BY <1>2, ArityIsSeen
  <2>2. d.arity \in Int
    BY DEF Clients, Declarations, Sources, NoArity
  <2> QED BY <2>1, <2>2
<1> QED
  BY <1>1, <1>2

LEMMA FromLanguageIsFresh ==
  ASSUME NEW client \in Clients, NEW lang
  PROVE  FreshOps(OpsFromLanguage(client, lang))
<1> DEFINE names == {n.op : n \in Symbols(client, {})}
           ops == OpsFromLanguage(client, lang)
<1>1. DOMAIN ops = names \ Noise
  BY DEF OpsFromLanguage
<1>2. IsFiniteSet(names)
  BY SymbolsFinite, NamesFinite
<1>3. IsFiniteSet(DOMAIN ops)
  BY <1>1, <1>2, FS_Subset
<1>4. ASSUME NEW o \in DOMAIN ops
      PROVE  ops[o] \in {Operation(n) : n \in Nat}
  <2> DEFINE n == CHOOSE m \in Symbols(client, {}) : m.op = o
             a == Arity(client, {}, lang, n)
  <2>1. n \in Symbols(client, {})
    BY <1>1, <1>4
  <2>2. a \in Int
    BY <2>1, ArityIsInt
  <2> HIDE DEF a, n
  <2> DEFINE b == Max({0, a})
  <2>3. b \in Nat
    <3>1. Max({0, a}) \in {0, a} /\ Max({0, a}) >= 0
      BY <2>2, MaxOfTwo
    <3> QED BY <2>2, <3>1
  <2> HIDE DEF b
  <2>4. Min({6, b}) \in Nat
    <3>1. Min({6, b}) \in {6, b}
      BY <2>3, MinOfTwo
    <3> QED BY <2>3, <3>1
  <2>5. ops[o] = Operation(Min({6, b}))
    BY <1>1, <1>4 DEF OpsFromLanguage, a, b, n
  <2> QED
    BY <2>4, <2>5
<1> QED
  BY <1>3, <1>4 DEF FreshOps, OpsFromLanguage

LEMMA EnrichIsFresh ==
  ASSUME NEW ops, FreshOps(ops), NEW clients \in [Dirs -> Clients]
  PROVE  FreshOps(Enrich(ops, clients))
<1> DEFINE active == {d \in DOMAIN clients : Symbols(clients[d], {}) # {}}
           exporting(o) == {d \in active : o \in Unprefixed(clients[d])}
           needed == Max({MinLanguages, RoundHalf(6 * Cardinality(active), 10)})
           names(d) == Unprefixed(clients[d])
           all == UNION {names(d) : d \in active}
           agreed == {o \in all : /\ o \notin EnrichNoise \union DOMAIN ops
                                  /\ Cardinality(exporting(o)) >= needed}
           more == [o \in DOMAIN ops \union agreed |->
                      IF o \in agreed THEN Operation(0) ELSE ops[o]]
<1>1. Enrich(ops, clients) = ops \/ Enrich(ops, clients) = more
  BY Zenon DEF Enrich
<1>2. IsFiniteSet(active)
  <2>1. active \in SUBSET Dirs
    OBVIOUS
  <2> HIDE DEF active
  <2> QED BY <2>1, RepoAssumption, FS_Subset
<1>3. IsFiniteSet(all)
  <2> DEFINE f == [d \in active |-> names(d)]
             sets == {f[d] : d \in active}
  <2>1. all = UNION sets
    OBVIOUS
  <2>2. IsFiniteSet(sets)
    <3>1. f = [d \in active |-> f[d]]
      OBVIOUS
    <3> HIDE DEF f, active
    <3> QED BY <1>2, <3>1, ImageFinite
  <2>3. \A S \in sets : IsFiniteSet(S)
    BY UnprefixedFinite
  <2> HIDE DEF sets, all
  <2> QED BY <2>1, <2>2, <2>3, FS_UNION
<1>4. IsFiniteSet(agreed)
  <2>1. agreed \in SUBSET all
    OBVIOUS
  <2> HIDE DEF agreed, all
  <2> QED BY <1>3, <2>1, FS_Subset
<1>5. FreshOps(more)
  <2> HIDE DEF agreed
  <2>1. DOMAIN more = DOMAIN ops \union agreed
    OBVIOUS
  <2>2. IsFiniteSet(DOMAIN more)
    BY <1>4, <2>1, FS_Union DEF FreshOps
  <2>3. \A o \in DOMAIN more : more[o] \in {Operation(n) : n \in Nat}
    BY DEF FreshOps
  <2> QED
    BY <2>2, <2>3 DEF FreshOps
<1> QED
  BY <1>1, <1>5

LEMMA PickedReference ==
  ASSUME NEW clients \in [Dirs -> Clients]
  PROVE  PickReference(clients) \in Dirs
<1> DEFINE preferred == {i \in DOMAIN PreferredReference : PreferredReference[i] \in DOMAIN clients}
           size == [d \in Dirs |-> Cardinality(Symbols(clients[d], {}))]
<1>1. CASE preferred # {}
  <2>1. preferred \in SUBSET DOMAIN PreferredReference
    OBVIOUS
  <2>2. IsFiniteSet(preferred) /\ preferred \in SUBSET Int
    <3> HIDE DEF preferred
    <3> QED BY <2>1, ToolAssumption, FS_Subset
  <2>3. Min(preferred) \in preferred
    <3> HIDE DEF preferred
    <3> QED BY <1>1, <2>2, MinIsLeast
  <2> QED
    BY <1>1, <2>3 DEF PickReference
<1>2. CASE preferred = {}
  <2>1. size \in [Dirs -> Int]
    BY SymbolsFinite, FS_CardinalityType
  <2>2. \E d \in Dirs : \A e \in Dirs : size[e] <= size[d]
    <3> HIDE DEF size
    <3> QED BY <2>1, RepoAssumption, GreatestBy
  <2>3. \E d \in DOMAIN clients : \A e \in DOMAIN clients :
          Cardinality(Symbols(clients[e], {})) <= Cardinality(Symbols(clients[d], {}))
    BY <2>2
  <2> QED
    BY <1>2, <2>3 DEF PickReference
<1> QED
  BY <1>1, <1>2

-----------------------------------------------------------------------------
(* The ratchet, of n operations with e errors when its floor was recorded. *)

LEMMA Division ==
  ASSUME NEW a \in Nat, NEW b \in Nat, b > 0
  PROVE  /\ a \div b \in Nat
         /\ b * (a \div b) <= a
         /\ a < b * (a \div b) + b
BY SMTT(30)

\* What is recorded, as a share of n operations.
LEMMA RecordedFloor ==
  ASSUME NEW n \in Nat, n > 0, NEW e \in Nat, e <= n
  PROVE  /\ Tenths(e, n) \in Nat
         /\ FloorOf(e, n) \in 0 .. 100
         /\ 20 * FloorOf(e, n) * n <= 2000 * (n - e) + n
         /\ 2000 * (n - e) < 20 * FloorOf(e, n) * n + 19 * n
<1> DEFINE a == 2000 * (n - e) + n
           t == a \div (2 * n)
           f == t \div 10
<1>1. Tenths(e, n) = t
  <2>1. Min({e, n}) = e
    BY MinOfTwo
  <2>2. 2 * (1000 * (n - e)) + n = a
    OBVIOUS
  <2> QED
    BY <2>1, <2>2 DEF Tenths, RoundHalf
<1>2. a \in Nat /\ 2 * n \in Nat /\ 2 * n > 0
  OBVIOUS
<1>3. t \in Nat /\ (2 * n) * t <= a /\ a < (2 * n) * t + 2 * n
  <2> HIDE DEF a
  <2> QED BY <1>2, Division
<1>4. f \in Nat /\ 10 * f <= t /\ t <= 10 * f + 9
  <2> HIDE DEF t
  <2> QED BY <1>3
<1>5. FloorOf(e, n) = f
  BY <1>1 DEF FloorOf
<1> HIDE DEF t, f
<1>6. (2 * n) * (10 * f) <= (2 * n) * t /\ (2 * n) * t <= (2 * n) * (10 * f + 9)
  BY <1>3, <1>4
<1>7. (2 * n) * (10 * f) = 20 * f * n /\ (2 * n) * (10 * f + 9) = 20 * f * n + 18 * n
  BY <1>4
<1>8. 20 * f * n <= a /\ a < 20 * f * n + 20 * n
  BY <1>3, <1>4, <1>6, <1>7
<1>9. f <= 100
  <2> SUFFICES ASSUME f >= 101
               PROVE  FALSE
    BY <1>4
  <2>1. 20 * f * n >= 2020 * n
    BY <1>4
  <2>2. a <= 2001 * n /\ a \in Nat
    OBVIOUS
  <2> HIDE DEF a
  <2>3. 20 * f * n <= a
    BY <1>8
  <2> QED
    BY <1>4, <2>1, <2>2, <2>3
<1> QED
  BY <1>1, <1>3, <1>4, <1>5, <1>8, <1>9

LEMMA FloorInRange ==
  ASSUME NEW n \in Nat, n > 0, NEW e \in Nat, e <= n
  PROVE  FloorOf(e, n) \in 0 .. 100
BY RecordedFloor

LEMMA FloorBelow ==
  ASSUME NEW n \in Nat, n > 0, NEW e \in Nat, e <= n
  PROVE  20 * FloorOf(e, n) * n <= 2000 * (n - e) + n
BY RecordedFloor

LEMMA FloorClose ==
  ASSUME NEW n \in Nat, n > 0, NEW e \in Nat, e <= n
  PROVE  2000 * (n - e) < 20 * FloorOf(e, n) * n + 19 * n
BY RecordedFloor

\* Rounded down, a floor does not trip over what it was measured from.
LEMMA FloorHolds ==
  ASSUME NEW n \in Nat, NEW e \in Nat, e <= n
  PROVE  ~Trips(n, e, FloorOf(e, n))
<1> SUFFICES ASSUME n > 0
             PROVE  ~(2000 * (n - e) + n < 20 * FloorOf(e, n) * n)
  BY DEF Trips
<1> DEFINE f == FloorOf(e, n)
<1>1. f \in 0 .. 100
  BY FloorInRange
<1>2. 20 * f * n <= 2000 * (n - e) + n
  BY FloorBelow
<1> HIDE DEF f
<1>3. ~(2000 * (n - e) + n < 20 * f * n)
  BY <1>1, <1>2
<1> QED
  BY <1>3 DEF f

\* Up to a hundred operations it trips over one more that is absent.
LEMMA OneMoreTrips ==
  ASSUME NEW n \in 1 .. 100, NEW e \in Nat, NEW m \in Nat, e < m, m <= n
  PROVE  Trips(n, m, FloorOf(e, n))
<1> DEFINE f == FloorOf(e, n)
<1>1. n \in Nat /\ n > 0 /\ e <= n
  OBVIOUS
<1>2. f \in 0 .. 100
  BY <1>1, FloorInRange
<1>3. f # NoFloor
  BY <1>2, ToolAssumption
<1>4. 2000 * (n - e) < 20 * f * n + 19 * n
  BY <1>1, FloorClose
<1> HIDE DEF f
<1>5. 2000 * (n - m) + 2000 <= 2000 * (n - e) /\ 20 * n <= 2000
  OBVIOUS
<1>6. 2000 * (n - m) + n < 20 * f * n
  BY <1>2, <1>5, <1>4
<1> QED
  BY <1>3, <1>6 DEF Trips, f

\* Of more operations it need not: with 101 of them, 95 absent, one more passes.
LEMMA HundredIsSharp == ~Trips(101, 96, FloorOf(95, 101))
<1>1. Min({95, 101}) = 95
  BY MinOfTwo
<1>2. FloorOf(95, 101) = 5
  BY <1>1 DEF FloorOf, Tenths, RoundHalf
<1> QED
  BY <1>2 DEF Trips

-----------------------------------------------------------------------------
(* What a derived contract records of a client.                            *)

\* build before it measures the clients.
Draft(r, cmd) ==
  LET reference == Reference(r, cmd.given, cmd.from)
      lifted == Operations(r, cmd.given, reference)
      ctype == ClientType(r.clients, cmd.given, reference)
  IN  [ops |-> IF cmd.enrich THEN Enrich(lifted, r.clients) ELSE lifted,
       waivers |-> {}, source |-> Source(r, cmd.given),
       schemas |-> cmd.interfaces /\ r.upstream # "none",
       languages |-> [l \in DOMAIN r.clients |-> Provisional(r.clients[l], ctype)]]

LEMMA BuildIsMeasured ==
  ASSUME NEW r, NEW cmd, NEW d, Build(r, cmd, d) # NoContract
  PROVE  /\ cmd.given \in {"api", "openapi"} => HasSource(r, cmd.given)
         /\ DOMAIN Draft(r, cmd).ops # {}
         /\ Build(r, cmd, d) =
              [Draft(r, cmd) EXCEPT !.languages =
                 [l \in DOMAIN r.clients |-> Measured(Draft(r, cmd), r.clients, l, d)]]
BY DEF Build, Draft

LEMMA DraftIsFresh ==
  ASSUME NEW r, IsRepo(r), NEW cmd \in CommandLines,
         cmd.given \in {"api", "openapi"} => HasSource(r, cmd.given)
  PROVE  /\ FreshOps(Draft(r, cmd).ops)
         /\ cmd.given = "manifest" /\ HasSource(r, cmd.given) /\ ~cmd.enrich =>
              DOMAIN Draft(r, cmd).ops = {e.op : e \in {x \in r.sources["manifest"] : x.listed}}
<1> DEFINE reference == Reference(r, cmd.given, cmd.from)
           lifted == Operations(r, cmd.given, reference)
<1>1. r.clients \in [Dirs -> Clients] /\ r.sources \in [DOMAIN r.sources -> Contents]
      /\ DOMAIN r.sources \subseteq Kinds /\ cmd.from \in Dirs \union {NoLang}
  BY DEF IsRepo, CommandLines
<1>2. \A es \in Contents : \A part \in SUBSET es : part \in Contents
  BY FS_Subset DEF Contents
<1>3. CASE ~HasSource(r, cmd.given)
  <2>1. reference \in Dirs
    BY <1>1, <1>3, PickedReference DEF Reference
  <2>2. lifted = OpsFromLanguage(r.clients[reference],
                   DetectLanguage(reference, r.clients[reference].census))
    BY <1>3 DEF Operations
  <2>3. FreshOps(lifted)
    BY <1>1, <2>1, <2>2, FromLanguageIsFresh
  <2> QED
    BY <1>1, <1>3, <2>3, EnrichIsFresh DEF Draft
<1>4. CASE HasSource(r, cmd.given)
  <2> DEFINE es == r.sources[cmd.given]
  <2>1. es \in Contents /\ cmd.given \in {"manifest", "api", "openapi"}
    BY <1>1, <1>4 DEF HasSource, Kinds
  <2>2. PICK part \in SUBSET es :
          /\ lifted = Lift(part)
          /\ cmd.given = "manifest" => part = {x \in es : x.listed}
    <3>1. CASE cmd.given = "manifest"
      BY <1>4, <3>1 DEF Operations, OpsFromManifest
    <3>2. CASE cmd.given = "api"
      BY <1>4, <3>2 DEF Operations, OpsFromApiSurface
    <3>3. CASE cmd.given = "openapi"
      BY <1>4, <3>3 DEF Operations, OpsFromOpenapi
    <3> QED BY <2>1, <3>1, <3>2, <3>3
  <2>3. FreshOps(lifted) /\ DOMAIN lifted = {e.op : e \in part}
    BY <1>2, <2>1, <2>2, LiftIsFresh
  <2>4. FreshOps(Draft(r, cmd).ops)
    BY <1>1, <2>3, EnrichIsFresh DEF Draft
  <2> QED
    BY <2>2, <2>3, <2>4 DEF Draft
<1> QED
  BY <1>3, <1>4

\* Without waivers and excuses every operation is required.
LEMMA AllRequired ==
  ASSUME NEW c, c.waivers = {}, FreshOps(c.ops), NEW d, NEW l
  PROVE  Required(c, d, l) = DOMAIN c.ops
<1>1. \A o \in DOMAIN c.ops : c.ops[o].optionalIn = {}
  BY DEF FreshOps, Operation
<1>2. ~\E w \in Usable(c, d) : TRUE
  BY DEF Usable
<1> QED
  BY <1>1, <1>2 DEF Required, Waived

\* The errors of a client while the contract is not yet measured: what is absent.
Errors(p, r, l, d, lucky) ==
  {f \in CheckLanguage(p, r.clients, l, d, lucky) : f.severity = "error"}

LEMMA DraftErrors ==
  ASSUME NEW p, NEW r, NEW l \in DOMAIN r.clients, NEW d, NEW lucky, NEW ctype,
         p.languages[l] = Provisional(r.clients[l], ctype)
  PROVE  Errors(p, r, l, d, lucky) =
           IF CanRead(p, r, l)
           THEN {Finding("error", l, o, "absent") : o \in Absent(p, r.clients[l], l, d)}
           ELSE {}
<1> DEFINE client == r.clients[l]
           absent == {Finding("error", l, o, "absent") : o \in Absent(p, client, l, d)}
<1>1. /\ p.languages[l].floor = NoFloor
      /\ p.languages[l].arity = FALSE
      /\ p.languages[l].forbidExtra = FALSE
  BY DEF Provisional
<1>2. CASE CanRead(p, r, l)
  <2>1. ASSUME NEW f \in Errors(p, r, l, d, lucky)
        PROVE  f \in absent
    <3>1. f \in CheckLanguage(p, r.clients, l, d, lucky) /\ f.severity = "error"
      BY DEF Errors
    <3>2. ~Regressed(p, client, l, d)
      BY <1>1 DEF Regressed, Trips
    <3>3. f \notin TypeFindings(p, client, l)
      BY <3>1, TypesAreWarnings
    <3>4. ExtraFindings(p, client, l) = {}
      BY <1>1 DEF ExtraFindings
    <3>5. f \in OpFindings(p, client, l, d, lucky)
      BY <1>2, <3>1, <3>2, <3>3, <3>4, CheckedParts
    <3>6. \E o \in Absent(p, client, l, d) : f = Finding("error", l, o, "absent")
      BY <1>1, <3>1, <3>5, OperationErrors
    <3> QED
      BY <3>6
  <2>2. ASSUME NEW o \in Absent(p, client, l, d)
        PROVE  Finding("error", l, o, "absent") \in Errors(p, r, l, d, lucky)
    <3>1. Finding("error", l, o, "absent") \in CheckLanguage(p, r.clients, l, d, lucky)
      BY <1>2, FindsOfOperations
    <3>2. Finding("error", l, o, "absent").severity = "error"
      BY DEF Finding
    <3> QED
      BY <3>1, <3>2 DEF Errors
  <2>3. Errors(p, r, l, d, lucky) = absent
    BY <2>1, <2>2
  <2> QED
    BY <1>2, <2>3
<1>3. CASE ~CanRead(p, r, l)
  <2>1. CheckLanguage(p, r.clients, l, d, lucky) = {Finding("warning", l, NoOp, "no symbols")}
    BY <1>3 DEF CheckLanguage, CanRead
  <2>2. Finding("warning", l, NoOp, "no symbols").severity = "warning"
    BY DEF Finding
  <2>3. Errors(p, r, l, d, lucky) = {}
    BY <2>1, <2>2 DEF Errors
  <2> QED
    BY <1>3, <2>3
<1> QED
  BY <1>2, <1>3

LEMMA ErrorsAreCounted ==
  ASSUME NEW p, NEW r, NEW l \in DOMAIN r.clients, NEW d, NEW lucky, NEW ctype,
         p.languages[l] = Provisional(r.clients[l], ctype), IsFiniteSet(DOMAIN p.ops)
  PROVE  Cardinality(Errors(p, r, l, d, lucky)) =
           IF CanRead(p, r, l) THEN Cardinality(Absent(p, r.clients[l], l, d)) ELSE 0
<1> DEFINE S == Absent(p, r.clients[l], l, d)
           f == [o \in S |-> Finding("error", l, o, "absent")]
           T == {Finding("error", l, o, "absent") : o \in S}
<1>1. IsFiniteSet(S)
  BY RequiredFinite
<1>2. f \in Surjection(S, T)
  BY DEF Surjection
<1>3. f \in Injection(S, T)
  <2>1. \A x, y : Finding("error", l, x, "absent") = Finding("error", l, y, "absent") => x = y
    BY DEF Finding
  <2>2. f \in [S -> T]
    OBVIOUS
  <2> HIDE DEF S
  <2> QED
    BY <2>1, <2>2 DEF Injection, IsInjective
<1>4. Cardinality(T) = Cardinality(S)
  <2> HIDE DEF S, T, f
  <2> QED
    BY <1>1, <1>2, <1>3, FS_Surjection
<1>5. CASE CanRead(p, r, l)
  <2>1. Errors(p, r, l, d, lucky) = T
    BY <1>5, DraftErrors
  <2> QED
    BY <1>4, <1>5, <2>1
<1>6. CASE ~CanRead(p, r, l)
  <2>1. Errors(p, r, l, d, lucky) = {}
    BY <1>6, DraftErrors
  <2> QED
    BY <1>6, <2>1, FS_EmptySet
<1> QED
  BY <1>5, <1>6

\* Contracts that only differ in tiers and floors ask the same.
LEMMA SameReading ==
  ASSUME NEW c, NEW p, NEW r, NEW l, c.languages[l].exclude = p.languages[l].exclude
  PROVE  CanRead(c, r, l) = CanRead(p, r, l)
BY DEF CanRead, Present

LEMMA SameAbsent ==
  ASSUME NEW c, NEW p, NEW client, NEW l, NEW d, NEW e,
         c.ops = p.ops, FreshOps(c.ops), c.waivers = {}, p.waivers = {},
         c.languages[l].exclude = p.languages[l].exclude,
         c.languages[l].prefix = p.languages[l].prefix
  PROVE  Absent(c, client, l, d) = Absent(p, client, l, e)
<1>1. Required(c, d, l) = Required(p, e, l)
  BY AllRequired
<1>2. Present(c, client, l) = Present(p, client, l)
  BY DEF Present
<1>3. \A o : CandidateSet(c, l, o) = CandidateSet(p, l, o)
  BY DEF CandidateSet
<1>4. \A o : Hits(c, client, l, o) = Hits(p, client, l, o)
  BY <1>2, <1>3 DEF Hits
<1>5. \A o : FoundByCase(c, client, l, o) = FoundByCase(p, client, l, o)
  BY <1>2 DEF FoundByCase
<1> QED
  BY <1>1, <1>4, <1>5 DEF Absent

LEMMA FullMarks ==
  ASSUME NEW n \in Nat, n > 0
  PROVE  Tenths(0, n) >= 1000 /\ FloorOf(0, n) = 100
<1> DEFINE t == (2 * (1000 * n) + n) \div (2 * n)
<1>1. Min({0, n}) = 0
  BY MinOfTwo
<1>2. Tenths(0, n) = t
  BY <1>1 DEF Tenths, RoundHalf
<1>3. t = 1000
  <2>1. t \in Nat /\ (2 * n) * t <= 2001 * n /\ 2001 * n < (2 * n) * t + 2 * n
    BY Division
  <2> HIDE DEF t
  <2>2. CASE t <= 999
    <3>1. (2 * n) * t <= (2 * n) * 999
      BY <2>1, <2>2
    <3> QED BY <2>1, <3>1
  <2>3. CASE t >= 1001
    <3>1. (2 * n) * t >= (2 * n) * 1001
      BY <2>1, <2>3
    <3> QED BY <2>1, <3>1
  <2> QED BY <2>1, <2>2, <2>3
<1> QED
  BY <1>2, <1>3 DEF FloorOf

LEMMA TypeIsKnown ==
  ASSUME NEW client \in Clients, NEW prefer
  PROVE  FindClientType(client, prefer) \in ClientTypes \union {NoType}
<1>1. client.types \subseteq ClientTypes
  BY DEF Clients
<1>2. CASE client.types # {} /\ prefer \notin client.types
  <2> DEFINE S == {i \in DOMAIN TypeOrder : TypeOrder[i] \in client.types}
  <2>1. DOMAIN TypeOrder = 1 .. 3
    BY DEF TypeOrder
  <2>2. S \in SUBSET (1 .. 3) /\ S # {}
    BY <1>1, <1>2, <2>1 DEF ClientTypes
  <2>3. IsFiniteSet(S) /\ S \in SUBSET Int
    <3> HIDE DEF S
    <3>1. S \in SUBSET Nat /\ \A i \in S : i <= 3
      BY <2>2
    <3>2. \E n \in Nat : \A i \in S : i <= n
      BY <3>1
    <3>3. IsFiniteSet(S)
      BY <3>1, <3>2, FS_BoundedSetOfNaturals
    <3> QED BY <3>1, <3>3
  <2>4. Min(S) \in S
    <3> HIDE DEF S
    <3> QED BY <2>2, <2>3, MinIsLeast
  <2>5. FindClientType(client, prefer) = TypeOrder[Min(S)]
    BY <1>2 DEF FindClientType
  <2>6. TypeOrder[Min(S)] \in client.types
    BY <2>4
  <2> QED
    BY <1>1, <2>5, <2>6
<1>3. CASE client.types = {} \/ prefer \in client.types
  BY <1>1, <1>3 DEF FindClientType
<1> QED
  BY <1>2, <1>3

\* A derived contract, but for its clients.
Derived(c, r, cmd, d) ==
  /\ c = [ops |-> c.ops, waivers |-> {}, source |-> Source(r, cmd.given),
          schemas |-> c.schemas, languages |-> c.languages]
  /\ c.schemas <=> cmd.interfaces /\ r.upstream # "none"
  /\ c.schemas \in BOOLEAN
  /\ c.ops = Draft(r, cmd).ops
  /\ FreshOps(c.ops)
  /\ DOMAIN c.ops # {}
  /\ Cardinality(DOMAIN c.ops) \in Nat \ {0}
  /\ c.languages = [l \in Dirs |-> Measured(Draft(r, cmd), r.clients, l, d)]

LEMMA DerivedContract ==
  ASSUME NEW r, IsRepo(r), NEW cmd \in CommandLines, NEW d, Build(r, cmd, d) # NoContract
  PROVE  Derived(Build(r, cmd, d), r, cmd, d)
<1> DEFINE c == Build(r, cmd, d)
<1>1. DOMAIN r.clients = Dirs
  BY DEF IsRepo
<1>2. FreshOps(Draft(r, cmd).ops) /\ DOMAIN Draft(r, cmd).ops # {}
  BY BuildIsMeasured, DraftIsFresh
<1>3. Cardinality(DOMAIN Draft(r, cmd).ops) \in Nat \ {0}
  BY <1>2, FS_CardinalityType, FS_EmptySet DEF FreshOps
<1>4. c = [Draft(r, cmd) EXCEPT !.languages =
             [l \in Dirs |-> Measured(Draft(r, cmd), r.clients, l, d)]]
  BY <1>1, BuildIsMeasured
<1> HIDE DEF c
<1>5. Derived(c, r, cmd, d)
  BY <1>2, <1>3, <1>4 DEF Draft, Derived
<1> QED
  BY <1>5 DEF c

\* What it records of a client in which e operations were absent.
MeasuredAs(c, r, l, e) ==
  /\ c.languages[l] \in Settings
  /\ c.languages[l].tier \in {"gate", "warn"}
  /\ c.languages[l].tier = "gate" <=> e = 0
  /\ c.languages[l].floor = FloorOf(e, Cardinality(DOMAIN c.ops))
  /\ c.languages[l].floor \in 0 .. 100
  /\ c.languages[l].arity = FALSE
  /\ c.languages[l].forbidExtra = FALSE
  /\ c.languages[l].exclude = {}
  /\ CanRead(c, r, l) => \A day1 : Cardinality(Absent(c, r.clients[l], l, day1)) = e
  /\ ~CanRead(c, r, l) => e = 0

LEMMA DerivedClient ==
  ASSUME NEW r, IsRepo(r), NEW cmd \in CommandLines, NEW d, NEW c,
         Derived(c, r, cmd, d), NEW l \in Dirs
  PROVE  \E e \in 0 .. Cardinality(DOMAIN c.ops) : MeasuredAs(c, r, l, e)
<1> DEFINE p == Draft(r, cmd)
           n == Cardinality(DOMAIN c.ops)
           ctype == ClientType(r.clients, cmd.given, Reference(r, cmd.given, cmd.from))
           e == Cardinality(Errors(p, r, l, d, TRUE))
           cfg == c.languages[l]
<1>1. l \in DOMAIN r.clients /\ r.clients[l] \in Clients
  BY DEF IsRepo
<1>2. p.languages[l] = Provisional(r.clients[l], ctype) /\ p.waivers = {}
  BY <1>1 DEF Draft
<1>3. /\ c.ops = p.ops /\ c.waivers = {} /\ FreshOps(c.ops) /\ n \in Nat /\ n > 0
      /\ cfg = Measured(p, r.clients, l, d)
  BY DEF Derived
<1>4. /\ e \in 0 .. n
      /\ CanRead(p, r, l) => e = Cardinality(Absent(p, r.clients[l], l, d))
      /\ ~CanRead(p, r, l) => e = 0
  <2>1. IsFiniteSet(DOMAIN p.ops)
    BY <1>3 DEF FreshOps
  <2>2. e = IF CanRead(p, r, l) THEN Cardinality(Absent(p, r.clients[l], l, d)) ELSE 0
    BY <1>1, <1>2, <2>1, ErrorsAreCounted
  <2>3. /\ Cardinality(Absent(p, r.clients[l], l, d)) \in Nat
        /\ Cardinality(Absent(p, r.clients[l], l, d)) <= n
    BY <1>2, <1>3, <2>1, RequiredFinite, AllRequired
  <2> HIDE DEF e, n
  <2> QED
    BY <1>3, <2>2, <2>3
<1>5. cfg = [Provisional(r.clients[l], ctype) EXCEPT
               !.floor = FloorOf(e, n),
               !.tier = IF e = 0 /\ (l \in GateCandidates \/ Tenths(e, n) >= 1000)
                        THEN "gate" ELSE "warn"]
  BY <1>2, <1>3 DEF Measured, Errors
<1>6. FloorOf(e, n) \in 0 .. 100
  <2> HIDE DEF e, n
  <2> QED BY <1>3, <1>4, FloorInRange
<1>7. e = 0 => Tenths(e, n) >= 1000
  <2>1. Tenths(0, n) >= 1000
    <3> HIDE DEF n
    <3> QED BY <1>3, FullMarks
  <2> HIDE DEF e, n
  <2> QED BY <2>1
<1>8. FindClientType(r.clients[l], ctype) \in ClientTypes \union {NoType}
  BY <1>1, TypeIsKnown
<1>9. DetectPrefix(r.clients[l]) \in BOOLEAN
  BY DEF DetectPrefix
<1>10. /\ cfg.tier = IF e = 0 THEN "gate" ELSE "warn"
       /\ cfg.floor = FloorOf(e, n)
       /\ cfg.arity = FALSE
       /\ cfg.forbidExtra = FALSE
       /\ cfg.exclude = {}
       /\ cfg.prefix = p.languages[l].prefix
       /\ p.languages[l].exclude = {}
  <2> HIDE DEF e, n, ctype, cfg, p
  <2> QED
    BY <1>2, <1>5, <1>7 DEF Provisional
<1>11. cfg \in Settings
  <2> HIDE DEF e, n, ctype, cfg, p
  <2>1. /\ cfg = [tier |-> cfg.tier, floor |-> cfg.floor, prefix |-> cfg.prefix,
                  arity |-> FALSE, forbidExtra |-> FALSE, exclude |-> {},
                  pinned |-> cfg.pinned]
        /\ cfg.pinned = FindClientType(r.clients[l], ctype)
        /\ cfg.prefix = DetectPrefix(r.clients[l])
    BY <1>5 DEF Provisional
  <2>2. cfg.tier \in {"gate", "warn", "off"} /\ cfg.floor \in Nat
    BY <1>6, <1>10
  <2>3. cfg.pinned \in ClientTypes \union {NoType} /\ cfg.prefix \in BOOLEAN
    BY <1>8, <1>9, <2>1
  <2> DEFINE t == cfg.tier
             f == cfg.floor
             x == cfg.prefix
             y == cfg.pinned
  <2>4. cfg = [tier |-> t, floor |-> f, prefix |-> x, arity |-> FALSE,
               forbidExtra |-> FALSE, exclude |-> {}, pinned |-> y]
    BY <2>1
  <2> HIDE DEF t, f, x, y
  <2>5. [tier |-> t, floor |-> f, prefix |-> x, arity |-> FALSE, forbidExtra |-> FALSE,
         exclude |-> {}, pinned |-> y] \in Settings
    BY <2>2, <2>3 DEF Settings, t, f, x, y
  <2> QED
    BY <2>4, <2>5
<1>12. CanRead(c, r, l) = CanRead(p, r, l)
  <2>1. c.languages[l].exclude = p.languages[l].exclude
    BY <1>10
  <2> HIDE DEF p
  <2> QED BY <2>1, SameReading
<1>13. ASSUME NEW day1
       PROVE  Absent(c, r.clients[l], l, day1) = Absent(p, r.clients[l], l, d)
  BY <1>2, <1>3, <1>10, SameAbsent
<1> HIDE DEF e, n, p, cfg
<1>14. MeasuredAs(c, r, l, e)
  BY <1>4, <1>6, <1>10, <1>11, <1>12, <1>13 DEF MeasuredAs, n, cfg
<1> QED
  BY <1>4, <1>14 DEF n

LEMMA SourceIsTyped ==
  ASSUME NEW r, IsRepo(r), NEW given
  PROVE  Source(r, given) \in [kind : Kinds, content : Contents] \union {NoSource}
BY DEF Source, HasSource, IsRepo

LEMMA DerivedIsContract ==
  ASSUME NEW r, IsRepo(r), NEW cmd \in CommandLines, NEW d, NEW c, Derived(c, r, cmd, d)
  PROVE  IsContract(c) /\ Valid(c)
<1>1. /\ c = [ops |-> c.ops, waivers |-> {}, source |-> Source(r, cmd.given),
              schemas |-> c.schemas, languages |-> c.languages]
      /\ c.schemas \in BOOLEAN
      /\ FreshOps(c.ops)
      /\ DOMAIN c.ops # {}
  BY DEF Derived
<1>2. c.languages = [l \in Dirs |-> c.languages[l]]
  BY DEF Derived
<1>3. \A l \in Dirs : /\ c.languages[l] \in Settings
                      /\ c.languages[l].tier \in {"gate", "warn"}
                      /\ c.languages[l].floor \in 0 .. 100
  BY DerivedClient DEF MeasuredAs
<1>4. Source(r, cmd.given) \in [kind : Kinds, content : Contents] \union {NoSource}
  BY SourceIsTyped
<1>5. c.languages \in [Dirs -> Settings]
  BY <1>2, <1>3
<1>6. c.ops \in [DOMAIN c.ops -> OpTypes] /\ IsFiniteSet(DOMAIN c.ops)
  BY <1>1 DEF FreshOps, Operation, OpTypes
<1>7. IsContract(c)
  BY <1>1, <1>4, <1>5, <1>6 DEF IsContract
<1>8. Valid(c)
  BY <1>1, <1>2, <1>3, RepoAssumption DEF Valid
<1> QED
  BY <1>7, <1>8

-----------------------------------------------------------------------------
(* Types.                                                                  *)

LEMMA RepoWithClient ==
  ASSUME NEW r, IsRepo(r), NEW l \in Dirs, NEW client \in Clients
  PROVE  IsRepo([r EXCEPT !.clients[l] = client])
BY DEF IsRepo

LEMMA RepoWithSources ==
  ASSUME NEW r, IsRepo(r), NEW sources, sources \in [DOMAIN sources -> Contents],
         DOMAIN sources \subseteq Kinds
  PROVE  IsRepo([r EXCEPT !.sources = sources])
BY DEF IsRepo

LEMMA ClientWithDecls ==
  ASSUME NEW client \in Clients, NEW decls \in SUBSET Declarations, IsFiniteSet(decls)
  PROVE  [client EXCEPT !.decls = decls] \in Clients
BY DEF Clients

LEMMA ContractWithSettings ==
  ASSUME NEW c, IsContract(c), NEW l \in Dirs, NEW cfg \in Settings
  PROVE  IsContract([c EXCEPT !.languages[l] = cfg])
BY DEF IsContract

LEMMA ContractWithOp ==
  ASSUME NEW c, IsContract(c), NEW o \in DOMAIN c.ops, NEW op \in OpTypes
  PROVE  IsContract([c EXCEPT !.ops[o] = op])
<1> DEFINE ops == [c.ops EXCEPT ![o] = op]
           k == [c EXCEPT !.ops = ops]
<1>1. k = [c EXCEPT !.ops[o] = op]
  OBVIOUS
<1>2. ops \in [DOMAIN ops -> OpTypes] /\ DOMAIN ops = DOMAIN c.ops
  BY DEF IsContract
<1> HIDE DEF ops
<1>3. IsContract(k)
  BY <1>2 DEF IsContract
<1> QED
  BY <1>1, <1>3

LEMMA GeneratedTyped ==
  ASSUME NEW client \in Clients, NEW ops \in SUBSET STRING, IsFiniteSet(ops)
  PROVE  WithGenerated(client, ops) \in Clients
<1> DEFINE kept == {d \in client.decls : d.where # "generated"}
           f == [o \in ops |-> ByGenerator(o)]
           made == {ByGenerator(o) : o \in ops}
<1>1. kept \in SUBSET Declarations /\ IsFiniteSet(kept)
  <2>1. kept \in SUBSET client.decls /\ IsFiniteSet(client.decls)
    BY DEF Clients
  <2>2. kept \in SUBSET Declarations
    BY DEF Clients
  <2> HIDE DEF kept
  <2> QED BY <2>1, <2>2, FS_Subset
<1>2. made \in SUBSET Declarations
  <2>1. \A o \in ops : ByGenerator(o) \in Declarations
    BY DEF ByGenerator, Declarations, Places
  <2> QED BY <2>1
<1>3. IsFiniteSet(made)
  <2>1. f = [o \in ops |-> f[o]] /\ made = {f[o] : o \in ops}
    OBVIOUS
  <2>2. IsFiniteSet({f[o] : o \in ops})
    <3> HIDE DEF f
    <3> QED BY <2>1, ImageFinite
  <2> HIDE DEF made, f
  <2> QED BY <2>1, <2>2
<1>4. WithGenerated(client, ops) = [client EXCEPT !.decls = kept \union made]
  BY DEF WithGenerated, Clients
<1> HIDE DEF kept, made
<1> QED
  BY <1>1, <1>2, <1>3, <1>4, FS_Union, ClientWithDecls

LEMMA ManifestTyped ==
  ASSUME IsRepo(repo)
  PROVE  Manifest \in Contents
<1>1. {} \in Contents
  BY FS_EmptySet DEF Contents
<1> QED
  BY <1>1 DEF Manifest, IsRepo

LEMMA ManifestOps ==
  ASSUME IsRepo(repo)
  PROVE  {e.op : e \in Manifest} \in SUBSET STRING /\ IsFiniteSet({e.op : e \in Manifest})
BY ManifestTyped, NamesFinite DEF Contents, Entries

LEMMA GenerateTyped ==
  ASSUME IsRepo(repo), NEW client \in Clients
  PROVE  GenerateClient(client) \in Clients /\ CompleteDart(client) \in Clients
<1> DEFINE ops == {e.op : e \in Manifest}
           source == {e \in client.decls : e.where = "source" /\ e.spelling = "styled"}
<1>1. ops \in SUBSET STRING /\ IsFiniteSet(ops)
  BY ManifestOps
<1>2. Rich \in SUBSET STRING /\ IsFiniteSet(Rich)
  BY EditAssumption
<1>3. DeclaredMethods(client) \in SUBSET STRING /\ IsFiniteSet(DeclaredMethods(client))
  <2>1. source \in SUBSET client.decls /\ IsFiniteSet(client.decls)
    BY DEF Clients
  <2>2. \A d \in source : d.op \in STRING
    BY DEF Clients, Declarations
  <2>3. DeclaredMethods(client) = {d.op : d \in source}
    BY DEF DeclaredMethods
  <2> HIDE DEF source
  <2>4. IsFiniteSet(source)
    BY <2>1, FS_Subset
  <2> QED
    BY <2>2, <2>3, <2>4, NamesFinite
<1> HIDE DEF ops
<1>4. GenerateClient(client) \in Clients
  <2>1. Rich \union ops \in SUBSET STRING /\ IsFiniteSet(Rich \union ops)
    BY <1>1, <1>2, FS_Union
  <2>2. GenerateClient(client) = WithGenerated(client, Rich \union ops)
    BY DEF GenerateClient, ops
  <2> QED
    BY <2>1, <2>2, GeneratedTyped
<1>5. CompleteDart(client) \in Clients
  <2>1. /\ DeclaredMethods(client) \union ops \in SUBSET STRING
        /\ IsFiniteSet(DeclaredMethods(client) \union ops)
    BY <1>1, <1>3, FS_Union
  <2>2. CompleteDart(client) = WithGenerated(client, DeclaredMethods(client) \union ops)
    BY DEF CompleteDart, ops
  <2> QED
    BY <2>1, <2>2, GeneratedTyped
<1> QED
  BY <1>4, <1>5

\* Adding or taking away one element leaves a set finite.
LEMMA ToggleFinite ==
  ASSUME NEW S, IsFiniteSet(S), NEW x
  PROVE  IsFiniteSet(S \ {x}) /\ IsFiniteSet(S \union {x})
BY FS_AddElement, FS_RemoveElement

LEMMA StepTyped ==
  ASSUME TypeOK, [Next]_vars
  PROVE  TypeOK'
<1> USE DEF TypeOK
<1>1. ASSUME NEW o \in Ops, EditManifest(o)
      PROVE  TypeOK'
  <2> DEFINE e == [op |-> o, params |-> 1, optional |-> 0, listed |-> TRUE]
             old == repo.sources["manifest"]
             new == IF e \in old THEN old \ {e} ELSE old \union {e}
             sources == [repo.sources EXCEPT !["manifest"] = new]
  <2>1. e \in Entries
    BY EditAssumption DEF Entries
  <2>2. old \in SUBSET Entries /\ IsFiniteSet(old)
    BY <1>1 DEF EditManifest, IsRepo, Contents
  <2>3. new \in Contents
    <3> HIDE DEF e, old
    <3> QED BY <2>1, <2>2, ToggleFinite DEF Contents
  <2>4. repo' = [repo EXCEPT !.sources = sources]
    BY <1>1 DEF EditManifest
  <2> HIDE DEF new
  <2>5. sources \in [DOMAIN sources -> Contents] /\ DOMAIN sources \subseteq Kinds
    BY <2>3 DEF IsRepo
  <2> HIDE DEF sources
  <2>6. IsRepo(repo')
    BY <2>4, <2>5, RepoWithSources
  <2> QED
    BY <1>1, <2>6 DEF EditManifest, Edit
<1>2. CASE LoseManifest
  <2> DEFINE sources == [k \in DOMAIN repo.sources \ {"manifest"} |-> repo.sources[k]]
  <2>1. repo' = [repo EXCEPT !.sources = sources]
    BY <1>2 DEF LoseManifest
  <2>2. sources \in [DOMAIN sources -> Contents] /\ DOMAIN sources \subseteq Kinds
    BY DEF IsRepo
  <2> HIDE DEF sources
  <2>3. IsRepo(repo')
    BY <2>1, <2>2, RepoWithSources
  <2> QED
    BY <1>2, <2>3 DEF LoseManifest, Edit
<1>3. ASSUME NEW l \in EditLangs, RenameType(l)
      PROVE  TypeOK'
  <2>1. PICK ts \in {{}, {"FiduciaLockClient"}} : repo' = [repo EXCEPT !.clients[l].types = ts]
    BY <1>3 DEF RenameType
  <2> DEFINE client == [repo.clients[l] EXCEPT !.types = ts]
  <2>2. "FiduciaLockClient" \in ClientTypes
    BY DEF ClientTypes, TypeOrder
  <2>3. l \in Dirs /\ client \in Clients
    BY <2>2, EditAssumption DEF IsRepo, Clients
  <2>4. repo' = [repo EXCEPT !.clients[l] = client]
    BY <2>1
  <2> HIDE DEF client
  <2>5. IsRepo(repo')
    BY <2>3, <2>4, RepoWithClient
  <2> QED
    BY <1>3, <2>5 DEF RenameType, Edit
<1>4. ASSUME NEW l \in EditLangs, NEW d \in EditDecls, EditClient(l, d)
      PROVE  TypeOK'
  <2> DEFINE old == repo.clients[l].decls
             new == IF d \in old THEN old \ {d} ELSE old \union {d}
             client == [repo.clients[l] EXCEPT !.decls = new]
  <2>1. l \in Dirs /\ d \in Declarations /\ repo.clients[l] \in Clients
    BY EditAssumption DEF IsRepo
  <2>2. old \in SUBSET Declarations /\ IsFiniteSet(old)
    BY <2>1 DEF Clients
  <2>3. new \in SUBSET Declarations /\ IsFiniteSet(new)
    <3> HIDE DEF old
    <3> QED BY <2>1, <2>2, ToggleFinite
  <2>4. repo' = [repo EXCEPT !.clients[l] = client]
    BY <1>4 DEF EditClient
  <2> HIDE DEF new
  <2>5. client \in Clients
    BY <2>1, <2>3, ClientWithDecls
  <2> HIDE DEF client
  <2>6. IsRepo(repo')
    BY <2>1, <2>4, <2>5, RepoWithClient
  <2> QED
    BY <1>4, <2>6 DEF EditClient, Edit
<1>5. CASE EditSchema
  <2>1. IsRepo(repo')
    BY <1>5 DEF EditSchema, IsRepo
  <2> QED
    BY <1>5, <2>1 DEF EditSchema, Edit
<1>6. ASSUME NEW l \in Generated, Generate(l)
      PROVE  TypeOK'
  <2>1. l \in Dirs /\ repo.clients[l] \in Clients
    BY EditAssumption DEF IsRepo
  <2>2. repo' = [repo EXCEPT !.clients[l] = GenerateClient(repo.clients[l])]
    BY <1>6 DEF Generate
  <2>3. IsRepo(repo')
    BY <2>1, <2>2, GenerateTyped, RepoWithClient
  <2> QED
    BY <1>6, <2>3 DEF Generate
<1>7. ASSUME NEW l \in DartDirs, GenerateDart(l)
      PROVE  TypeOK'
  <2>1. l \in Dirs /\ repo.clients[l] \in Clients
    BY EditAssumption DEF IsRepo
  <2>2. repo' = [repo EXCEPT !.clients[l] = CompleteDart(repo.clients[l])]
    BY <1>7 DEF GenerateDart
  <2>3. IsRepo(repo')
    BY <2>1, <2>2, GenerateTyped, RepoWithClient
  <2> QED
    BY <1>7, <2>3 DEF GenerateDart
<1>8. ASSUME NEW cmd \in Commands, Derive(cmd)
      PROVE  TypeOK'
  <2>1. IsContract(contract')
    BY <1>8, ToolAssumption, DerivedContract, DerivedIsContract DEF Derive
  <2>2. IsRepo(repo')
    BY <1>8 DEF Derive, Vendored, IsRepo
  <2> QED
    BY <1>8, <2>1, <2>2 DEF Derive
<1>9. CASE EditContract
  <2>1. IsContract(contract)
    BY <1>9 DEF EditContract
  <2>2. ASSUME NEW w \in EditWaivers, contract' = [contract EXCEPT !.waivers = @ \union {w}]
        PROVE  IsContract(contract')
    BY <2>1, <2>2, EditAssumption DEF IsContract
  <2>3. ASSUME NEW l \in EditLangs,
               \/ \E t \in {"gate", "warn", "off"} :
                    contract' = [contract EXCEPT !.languages[l].tier = t]
               \/ \E f \in {100, 101} : contract' = [contract EXCEPT !.languages[l].floor = f]
               \/ contract' = [contract EXCEPT !.languages[l].arity = TRUE]
               \/ contract' = [contract EXCEPT !.languages[l].forbidExtra = TRUE]
               \/ contract' = [contract EXCEPT !.languages[l].exclude = {"generated"}]
        PROVE  IsContract(contract')
    <3> DEFINE old == contract.languages[l]
    <3>1. l \in Dirs /\ old \in Settings
      BY <2>1, EditAssumption DEF IsContract
    <3>2. ASSUME NEW cfg \in Settings, contract' = [contract EXCEPT !.languages[l] = cfg]
          PROVE  IsContract(contract')
      BY <2>1, <3>1, <3>2, ContractWithSettings
    <3>3. ASSUME NEW t \in {"gate", "warn", "off"}, contract' = [contract EXCEPT !.languages[l].tier = t]
          PROVE  IsContract(contract')
      <4> DEFINE cfg == [old EXCEPT !.tier = t]
      <4>1. contract' = [contract EXCEPT !.languages[l] = cfg]
        BY <3>3
      <4>2. cfg \in Settings
        <5> HIDE DEF old
        <5> QED BY <3>1 DEF Settings, Places
      <4> HIDE DEF cfg
      <4> QED BY <3>2, <4>1, <4>2
    <3>4. ASSUME NEW f \in {100, 101}, contract' = [contract EXCEPT !.languages[l].floor = f]
          PROVE  IsContract(contract')
      <4> DEFINE cfg == [old EXCEPT !.floor = f]
      <4>1. contract' = [contract EXCEPT !.languages[l] = cfg]
        BY <3>4
      <4>2. cfg \in Settings
        <5> HIDE DEF old
        <5> QED BY <3>1 DEF Settings, Places
      <4> HIDE DEF cfg
      <4> QED BY <3>2, <4>1, <4>2
    <3>5. ASSUME contract' = [contract EXCEPT !.languages[l].arity = TRUE]
          PROVE  IsContract(contract')
      <4> DEFINE cfg == [old EXCEPT !.arity = TRUE]
      <4>1. contract' = [contract EXCEPT !.languages[l] = cfg]
        BY <3>5
      <4>2. cfg \in Settings
        <5> HIDE DEF old
        <5> QED BY <3>1 DEF Settings, Places
      <4> HIDE DEF cfg
      <4> QED BY <3>2, <4>1, <4>2
    <3>6. ASSUME contract' = [contract EXCEPT !.languages[l].forbidExtra = TRUE]
          PROVE  IsContract(contract')
      <4> DEFINE cfg == [old EXCEPT !.forbidExtra = TRUE]
      <4>1. contract' = [contract EXCEPT !.languages[l] = cfg]
        BY <3>6
      <4>2. cfg \in Settings
        <5> HIDE DEF old
        <5> QED BY <3>1 DEF Settings, Places
      <4> HIDE DEF cfg
      <4> QED BY <3>2, <4>1, <4>2
    <3>7. ASSUME contract' = [contract EXCEPT !.languages[l].exclude = {"generated"}]
          PROVE  IsContract(contract')
      <4> DEFINE cfg == [old EXCEPT !.exclude = {"generated"}]
      <4>1. contract' = [contract EXCEPT !.languages[l] = cfg]
        BY <3>7
      <4>2. cfg \in Settings
        <5> HIDE DEF old
        <5> QED BY <3>1 DEF Settings, Places
      <4> HIDE DEF cfg
      <4> QED BY <3>2, <4>1, <4>2
    <3> QED
      BY <2>3, <3>3, <3>4, <3>5, <3>6, <3>7
  <2>4. ASSUME NEW l \in EditLangs, NEW o \in DOMAIN contract.ops,
               \/ contract' = [contract EXCEPT !.ops[o].optionalIn = @ \union {l}]
               \/ contract' = [contract EXCEPT !.ops[o].aliases = @ \union {l}]
        PROVE  IsContract(contract')
    <3> DEFINE old == contract.ops[o]
    <3>1. l \in Dirs /\ old \in OpTypes
      BY <2>1, EditAssumption DEF IsContract
    <3>2. PICK op : /\ contract' = [contract EXCEPT !.ops[o] = op]
                    /\ \/ op = [old EXCEPT !.optionalIn = @ \union {l}]
                       \/ op = [old EXCEPT !.aliases = @ \union {l}]
      BY <2>4
    <3>3. op \in OpTypes
      <4> HIDE DEF old
      <4> QED BY <3>1, <3>2 DEF OpTypes
    <3> QED
      BY <2>1, <3>2, <3>3, ContractWithOp
  <2>5. IsContract(contract')
    BY <1>9, <2>2, <2>3, <2>4 DEF EditContract
  <2> QED
    BY <1>9, <2>5 DEF EditContract, Edit
<1>10. CASE NextDay
  BY <1>10 DEF NextDay
<1>11. CASE UNCHANGED vars
  BY <1>11 DEF vars
<1> QED
  BY <1>1, <1>2, <1>3, <1>4, <1>5, <1>6, <1>7, <1>8, <1>9, <1>10, <1>11 DEF Next

\* Repositories and contracts keep their form, whatever is edited, generated and
\* derived.
THEOREM SurfaceTyping == Spec => []TypeOK
<1>1. Init => TypeOK
  BY RepoAssumption DEF Init, TypeOK
<1> QED
  BY <1>1, StepTyped, PTL DEF Spec

-----------------------------------------------------------------------------
\* A check that may pass means that each client conforms: a gate exports each
\* operation that nothing excuses, wide enough where the arity counts, and no
\* client is below its floor.
THEOREM GreenConforms == Spec => []GreenClientsConform
BY SurfaceTyping, Conformance, PTL

-----------------------------------------------------------------------------
(* A contract that was just derived.                                       *)

LEMMA FoundByCheck ==
  ASSUME NEW c, NEW r, NEW d, NEW lucky, NEW f \in Findings(c, r, d, {}, lucky)
  PROVE  \/ f \in Provenance(c, r)
         \/ f \in InterfaceSchemas(c, r)
         \/ Expired(c, d) # {}
         \/ \E l \in DOMAIN c.languages : f \in CheckLanguage(c, r.clients, l, d, lucky)
BY DEF Findings

LEMMA VendoredFields ==
  ASSUME NEW r, IsRepo(r), NEW interfaces
  PROVE  /\ Vendored(r, interfaces).clients = r.clients
         /\ Vendored(r, interfaces).sources = r.sources
         /\ interfaces /\ r.upstream # "none" => Vendored(r, interfaces).copy = "same"
BY DEF Vendored, IsRepo

\* What it finds of a client that has just been measured: warnings, and what is
\* absent of a client that is no gate.
LEMMA MeasuredPasses ==
  ASSUME NEW r, IsRepo(r), NEW cmd \in CommandLines, NEW d, NEW c,
         Derived(c, r, cmd, d), NEW l \in Dirs, NEW lucky,
         NEW f \in CheckLanguage(c, r.clients, l, d, lucky), f.severity = "error"
  PROVE  f.lang = l /\ f.kind = "absent" /\ Tier(c, l) = "warn"
<1> DEFINE cfg == c.languages[l]
           n == Cardinality(DOMAIN c.ops)
           client == r.clients[l]
<1>0. PICK e \in 0 .. n : MeasuredAs(c, r, l, e)
  BY DerivedClient
<1>1. /\ cfg.tier \in {"gate", "warn"}
      /\ cfg.tier = "gate" <=> e = 0
      /\ cfg.floor = FloorOf(e, n)
      /\ cfg.arity = FALSE
      /\ cfg.forbidExtra = FALSE
      /\ CanRead(c, r, l) => Cardinality(Absent(c, client, l, d)) = e
  <2> HIDE DEF n
  <2> QED BY <1>0 DEF MeasuredAs, n
<1>2. n \in Nat /\ c.waivers = {} /\ FreshOps(c.ops) /\ DOMAIN c.languages = Dirs
      /\ IsFiniteSet(DOMAIN c.ops) /\ DOMAIN r.clients = Dirs
  BY DEF Derived, FreshOps, IsRepo
<1>3. CASE CanRead(c, r, l)
  <2>1. ~Regressed(c, client, l, d)
    <3>1. Required(c, d, l) = DOMAIN c.ops
      BY <1>2, AllRequired
    <3>2. ~Trips(n, e, FloorOf(e, n))
      <4>1. n \in Nat /\ e \in Nat /\ e <= n
        BY <1>2
      <4> HIDE DEF n
      <4> QED BY <4>1, FloorHolds
    <3> QED
      BY <1>1, <1>3, <3>1, <3>2 DEF Regressed
  <2>2. ExtraFindings(c, client, l) = {}
    BY <1>1 DEF ExtraFindings
  <2>3. f \notin TypeFindings(c, client, l)
    BY TypesAreWarnings
  <2>4. f \in OpFindings(c, client, l, d, lucky)
    BY <1>3, <2>1, <2>2, <2>3, CheckedParts
  <2>5. PICK o \in Absent(c, client, l, d) : f = Finding("error", l, o, "absent")
    BY <1>1, <2>4, OperationErrors
  <2>6. e # 0
    <3>1. IsFiniteSet(Absent(c, client, l, d))
      BY <1>2, RequiredFinite
    <3> QED
      BY <1>1, <1>3, <2>5, <3>1, FS_EmptySet
  <2> QED
    BY <1>1, <1>2, <2>5, <2>6 DEF Finding, Tier
<1>4. CASE ~CanRead(c, r, l)
  <2>1. f = Finding("warning", l, NoOp, "no symbols")
    BY <1>2, <1>4 DEF CheckLanguage, CanRead
  <2> QED
    BY <2>1 DEF Finding
<1> QED
  BY <1>3, <1>4

LEMMA DerivedPasses ==
  ASSUME NEW r, IsRepo(r), NEW cmd \in CommandLines, NEW d, NEW c,
         Derived(c, r, cmd, d), c # NoContract
  PROVE  ~Fails(c, Vendored(r, cmd.interfaces), d)
<1> DEFINE after == Vendored(r, cmd.interfaces)
<1>1. /\ after.clients = r.clients
      /\ after.sources = r.sources
      /\ cmd.interfaces /\ r.upstream # "none" => after.copy = "same"
  BY VendoredFields
<1> HIDE DEF after
<1>2. /\ c.waivers = {}
      /\ c.source = Source(r, cmd.given)
      /\ c.schemas <=> cmd.interfaces /\ r.upstream # "none"
      /\ DOMAIN c.languages = Dirs
  BY DEF Derived
<1>3. Provenance(c, after) = {}
  <2>1. CASE HasSource(r, cmd.given)
    <3>1. c.source = [kind |-> cmd.given, content |-> r.sources[cmd.given]]
      BY <1>2, <2>1 DEF Source
    <3>2. Current(c, after) = c.source.content
      BY <1>1, <2>1, <3>1 DEF Current, HasSource
    <3> QED
      BY <3>2 DEF Provenance
  <2>2. CASE ~HasSource(r, cmd.given)
    BY <1>2, <2>2 DEF Source, Provenance
  <2> QED
    BY <2>1, <2>2
<1>4. Expired(c, d) = {}
  BY <1>2 DEF Expired
<1>5. \A f \in InterfaceSchemas(c, after) : f.severity = "warning"
  <2>1. InterfaceSchemas(c, after) \subseteq {Finding("warning", NoLang, NoOp, "upstream moved")}
    BY <1>1, <1>2 DEF InterfaceSchemas
  <2>2. Finding("warning", NoLang, NoOp, "upstream moved").severity = "warning"
    BY DEF Finding
  <2> QED
    BY <2>1, <2>2
<1>6. ASSUME NEW lucky, NEW f \in Findings(c, after, d, {}, lucky), f.severity = "error"
      PROVE  f.kind = "absent" /\ f.lang \in Dirs /\ Tier(c, f.lang) = "warn"
  <2>1. PICK l \in Dirs : f \in CheckLanguage(c, r.clients, l, d, lucky)
    BY <1>1, <1>2, <1>3, <1>4, <1>5, <1>6, FoundByCheck
  <2> QED
    BY <1>6, <2>1, MeasuredPasses
<1>7. ASSUME NEW lucky, NEW f \in Findings(c, after, d, {}, lucky)
      PROVE  ~Fatal(c, f, FALSE)
  BY <1>6, <1>7, RepoAssumption DEF Fatal
<1>8. Valid(c)
  BY DerivedIsContract
<1>9. Exit(c, after, d, {}, FALSE, FALSE) = 0
  BY <1>7, <1>8, ExitClean
<1> QED
  BY <1>9 DEF Fails, after

\* Whatever state the clients are in, a contract that is derived from them passes
\* the check.
THEOREM DerivationIsGreen == Spec => DerivedIsGreen
<1>1. ASSUME TypeOK, [Next]_vars, edits' = edits, contract' # contract
      PROVE  ~Fails(contract', repo', day')
  <2>1. ~Edit
    BY <1>1 DEF Edit, TypeOK
  <2>2. PICK cmd \in Commands : Derive(cmd)
    BY <1>1, <2>1 DEF Next, vars, EditManifest, LoseManifest, RenameType, EditClient,
       EditSchema, EditContract, Generate, GenerateDart, NextDay
  <2>3. Derived(contract', repo, cmd, day)
    BY <1>1, <2>2, ToolAssumption, DerivedContract DEF Derive, TypeOK
  <2>4. cmd \in CommandLines /\ contract' # NoContract /\ day' = day /\ IsRepo(repo)
        /\ repo' = Vendored(repo, cmd.interfaces)
    BY <1>1, <2>2, ToolAssumption DEF Derive, TypeOK
  <2> QED
    BY <2>3, <2>4, DerivedPasses
<1> QED
  BY <1>1, SurfaceTyping, PTL DEF Spec, DerivedIsGreen

-----------------------------------------------------------------------------
(* The ratchet.                                                            *)

\* A client that loses declarations exports no more and lacks no less.
LEMMA FewerSymbols ==
  ASSUME NEW client, NEW less, less.decls \subseteq client.decls, NEW exclude
  PROVE  Symbols(less, exclude) \subseteq Symbols(client, exclude)
BY DEF Symbols, Sources

LEMMA LackIsKept ==
  ASSUME NEW c, NEW client, NEW less, less.decls \subseteq client.decls, NEW l, NEW d
  PROVE  Absent(c, client, l, d) \subseteq Absent(c, less, l, d)
<1>1. Present(c, less, l) \subseteq Present(c, client, l)
  BY FewerSymbols DEF Present
<1> QED
  BY <1>1 DEF Absent, Hits, FoundByCase

LEMMA RatchetTrips ==
  ASSUME NEW r, IsRepo(r), NEW s, IsRepo(s), NEW cmd \in CommandLines, NEW d, NEW d2,
         NEW c, c # NoContract, Derived(c, r, cmd, d), NEW l \in Dirs,
         s.clients[l].decls \subseteq r.clients[l].decls,
         s.clients[l].census = r.clients[l].census,
         Absent(c, s.clients[l], l, d) # Absent(c, r.clients[l], l, d),
         DetectLanguage(l, s.clients[l].census) # "none",
         Symbols(s.clients[l], {}) # {},
         Cardinality(DOMAIN c.ops) <= 100
  PROVE  Exit(c, s, d2, {}, FALSE, TRUE) = 1
<1> DEFINE n == Cardinality(DOMAIN c.ops)
           old == Absent(c, r.clients[l], l, d)
           new == Absent(c, s.clients[l], l, d)
           m == Cardinality(new)
           f == Finding("error", l, NoOp, "regressed")
<1>1. PICK e \in 0 .. n : MeasuredAs(c, r, l, e)
  BY DerivedClient
<1>2. /\ FreshOps(c.ops) /\ IsFiniteSet(DOMAIN c.ops) /\ c.waivers = {}
      /\ n \in 1 .. 100
      /\ DOMAIN c.languages = Dirs
      /\ DOMAIN r.clients = Dirs /\ DOMAIN s.clients = Dirs
  <2>1. n \in Nat \ {0}
    BY DEF Derived
  <2>2. n \in 1 .. 100
    <3>1. n <= 100
      OBVIOUS
    <3> HIDE DEF n
    <3> QED BY <2>1, <3>1
  <2> QED
    BY <2>2 DEF Derived, FreshOps, IsRepo
<1>3. c.languages[l].exclude = {} /\ c.languages[l].tier # "off"
  BY <1>1 DEF MeasuredAs
<1>4. CanRead(c, r, l) /\ CanRead(c, s, l)
  BY <1>2, <1>3, FewerSymbols DEF CanRead, Present
<1>5. Cardinality(old) = e
  BY <1>1, <1>4 DEF MeasuredAs
<1>6. e < m /\ e \in Nat /\ m \in Nat /\ m <= n
  <2>1. old \subseteq new /\ old # new
    BY LackIsKept
  <2>2. IsFiniteSet(new) /\ m \in Nat /\ m <= Cardinality(Required(c, d, l))
    BY <1>2, RequiredFinite
  <2>3. Required(c, d, l) = DOMAIN c.ops
    BY <1>2, AllRequired
  <2>4. Cardinality(old) < m
    <3> HIDE DEF old, new
    <3>1. Cardinality(old) <= Cardinality(new) /\ Cardinality(old) \in Nat
      BY <2>1, <2>2, FS_Subset, FS_CardinalityType
    <3>2. Cardinality(old) # Cardinality(new)
      BY <2>1, <2>2, FS_Subset
    <3> QED BY <2>2, <3>1, <3>2
  <2> QED
    BY <1>5, <2>2, <2>3, <2>4
<1>7. Regressed(c, s.clients[l], l, d2)
  <2>1. Absent(c, s.clients[l], l, d2) = new
    BY <1>2, SameAbsent
  <2>2. Required(c, d2, l) = DOMAIN c.ops
    BY <1>2, AllRequired
  <2>3. c.languages[l].floor = FloorOf(e, n)
    BY <1>1 DEF MeasuredAs
  <2>4. Trips(n, m, FloorOf(e, n))
    <3> HIDE DEF n, m
    <3> QED BY <1>2, <1>6, OneMoreTrips
  <2> QED
    BY <2>1, <2>2, <2>3, <2>4 DEF Regressed
<1>8. f \in CheckLanguage(c, s.clients, l, d2, TRUE)
  BY <1>4, <1>7, FindsOfOperations
<1>9. f \in Findings(c, s, d2, {}, TRUE)
  BY <1>2, <1>3, <1>8, ClientIsChecked
<1>10. Fatal(c, f, FALSE)
  <2>1. f.severity = "error" /\ f.kind = "regressed"
    BY DEF Finding
  <2> QED
    BY <2>1 DEF Fatal
<1>11. Valid(c)
  BY DerivedIsContract
<1> QED
  BY <1>9, <1>10, <1>11, ExitOne

\* Nobody edits what language a client is in.
LEMMA CensusStands ==
  ASSUME TypeOK, [Next]_vars, NEW l \in Dirs
  PROVE  repo'.clients[l].census = repo.clients[l].census
<1> USE DEF TypeOK
<1>2. DOMAIN repo.clients = Dirs /\ \A x \in Dirs : repo.clients[x] \in Clients
  BY DEF IsRepo
<1>3. ASSUME NEW client \in Clients
      PROVE  /\ GenerateClient(client).census = client.census
             /\ CompleteDart(client).census = client.census
  BY DEF GenerateClient, CompleteDart, WithGenerated, Clients
<1>4. ASSUME NEW x \in Dirs, NEW client, client.census = repo.clients[x].census,
             repo' = [repo EXCEPT !.clients[x] = client]
      PROVE  repo'.clients[l].census = repo.clients[l].census
  BY <1>4 DEF IsRepo
<1>5. ASSUME NEW o \in Ops, EditManifest(o)
      PROVE  repo'.clients = repo.clients
  BY <1>5 DEF EditManifest, IsRepo
<1>6. CASE LoseManifest
  BY <1>6 DEF LoseManifest, IsRepo
<1>7. ASSUME NEW x \in EditLangs, RenameType(x)
      PROVE  repo'.clients[l].census = repo.clients[l].census
  <2>1. PICK ts : repo' = [repo EXCEPT !.clients[x].types = ts]
    BY <1>7 DEF RenameType
  <2> DEFINE client == [repo.clients[x] EXCEPT !.types = ts]
  <2>2. repo' = [repo EXCEPT !.clients[x] = client] /\ x \in Dirs
    BY <2>1, EditAssumption
  <2>3. client.census = repo.clients[x].census
    BY <1>2, <2>2 DEF Clients
  <2> QED
    BY <1>4, <2>2, <2>3
<1>8. ASSUME NEW x \in EditLangs, NEW decl \in EditDecls, EditClient(x, decl)
      PROVE  repo'.clients[l].census = repo.clients[l].census
  <2>1. PICK decls : repo' = [repo EXCEPT !.clients[x].decls = decls]
    BY <1>8 DEF EditClient
  <2> DEFINE client == [repo.clients[x] EXCEPT !.decls = decls]
  <2>2. repo' = [repo EXCEPT !.clients[x] = client] /\ x \in Dirs
    BY <2>1, EditAssumption
  <2>3. client.census = repo.clients[x].census
    BY <1>2, <2>2 DEF Clients
  <2> QED
    BY <1>4, <2>2, <2>3
<1>9. CASE EditSchema
  BY <1>9 DEF EditSchema, IsRepo
<1>10. ASSUME NEW x \in Generated, Generate(x)
       PROVE  repo'.clients[l].census = repo.clients[l].census
  <2>1. repo' = [repo EXCEPT !.clients[x] = GenerateClient(repo.clients[x])] /\ x \in Dirs
    BY <1>10, EditAssumption DEF Generate
  <2> QED
    BY <1>2, <1>3, <1>4, <2>1
<1>11. ASSUME NEW x \in DartDirs, GenerateDart(x)
       PROVE  repo'.clients[l].census = repo.clients[l].census
  <2>1. repo' = [repo EXCEPT !.clients[x] = CompleteDart(repo.clients[x])] /\ x \in Dirs
    BY <1>11, EditAssumption DEF GenerateDart
  <2> QED
    BY <1>2, <1>3, <1>4, <2>1
<1>12. ASSUME NEW cmd \in Commands, Derive(cmd)
       PROVE  repo'.clients = repo.clients
  BY <1>12, VendoredFields DEF Derive
<1>13. CASE EditContract \/ NextDay \/ UNCHANGED vars
  BY <1>13 DEF EditContract, NextDay, vars
<1> QED
  BY <1>5, <1>6, <1>7, <1>8, <1>9, <1>10, <1>11, <1>12, <1>13 DEF Next

\* A deletion trips the ratchet: up to a hundred operations, no client loses one
\* and passes the check of the contract that was derived from it.
THEOREM RatchetHolds == Spec => DeletionTrips
<1>1. ASSUME TypeOK, TypeOK', [Next]_vars, NEW l \in EditLangs,
             contract' = contract,
             contract # NoContract,
             repo'.clients[l].decls \subseteq repo.clients[l].decls,
             Absent(contract, repo'.clients[l], l, day) # Absent(contract, repo.clients[l], l, day),
             DetectLanguage(l, repo'.clients[l].census) # "none",
             Symbols(repo'.clients[l], {}) # {},
             Cardinality(DOMAIN contract.ops) <= 100,
             NEW cmd \in Commands, contract = Build(repo, cmd, day)
      PROVE  Exit(contract', repo', day', {}, FALSE, TRUE) = 1
  <2>1. l \in Dirs /\ cmd \in CommandLines
    BY EditAssumption, ToolAssumption
  <2>2. IsRepo(repo) /\ IsRepo(repo')
    BY <1>1 DEF TypeOK
  <2>3. Derived(contract, repo, cmd, day)
    BY <1>1, <2>1, <2>2, DerivedContract
  <2>4. repo'.clients[l].census = repo.clients[l].census
    BY <1>1, <2>1, CensusStands
  <2> DEFINE s == repo'
             d2 == day'
  <2>5. IsRepo(s)
    BY <2>2
  <2> HIDE DEF s, d2
  <2>6. Exit(contract, s, d2, {}, FALSE, TRUE) = 1
    BY <1>1, <2>1, <2>2, <2>3, <2>4, <2>5, RatchetTrips DEF s
  <2> QED
    BY <1>1, <2>6 DEF s, d2
<1>2. ASSUME TypeOK, TypeOK', [Next]_vars
      PROVE  \A l \in EditLangs :
               /\ contract' = contract
               /\ contract # NoContract
               /\ repo'.clients[l] # repo.clients[l]
               /\ repo'.clients[l].decls \subseteq repo.clients[l].decls
               /\ Absent(contract, repo'.clients[l], l, day)
                    # Absent(contract, repo.clients[l], l, day)
               /\ DetectLanguage(l, repo'.clients[l].census) # "none"
               /\ Symbols(repo'.clients[l], {}) # {}
               /\ Cardinality(DOMAIN contract.ops) <= 100
               /\ \E cmd \in Commands : contract = Build(repo, cmd, day)
               => Exit(contract', repo', day', {}, FALSE, TRUE) = 1
  BY <1>1, <1>2
<1> QED
  BY <1>2, SurfaceTyping, PTL DEF Spec, DeletionTrips

-----------------------------------------------------------------------------
(* Generated clients.                                                      *)

\* What is written for an operation is found, as the contract asks for it.
LEMMA GeneratedIsFound ==
  ASSUME NEW client \in Clients, NEW ops, NEW o \in ops
  PROVE  [op |-> o, spelling |-> "styled"] \in Symbols(WithGenerated(client, ops), {})
<1> DEFINE made == WithGenerated(client, ops)
           decl == ByGenerator(o)
<1>1. decl \in made.decls
  BY DEF WithGenerated, Clients
<1>2. decl.public /\ decl.where \notin {"test"} \union {}
      /\ Name(decl) = [op |-> o, spelling |-> "styled"]
  BY DEF ByGenerator, Name
<1> HIDE DEF decl, made
<1>3. Name(decl) \in Symbols(made, {})
  BY <1>1, <1>2 DEF Symbols, Sources
<1> QED
  BY <1>2, <1>3 DEF made

LEMMA StyledIsFine ==
  ASSUME NEW c, NEW l, NEW o
  PROVE  [op |-> o, spelling |-> "styled"] \in CandidateSet(c, l, o)
BY DEF CandidateSet

\* A client in which every operation was just written lacks none, in any language
\* and with any prefix.
LEMMA NothingIsAbsent ==
  ASSUME NEW r, IsRepo(r), NEW cmd \in CommandLines, NEW d, NEW c, Derived(c, r, cmd, d),
         NEW l \in Dirs, NEW client \in Clients, NEW ops, DOMAIN c.ops \subseteq ops,
         r.clients[l] = WithGenerated(client, ops)
  PROVE  c.languages[l].tier = "gate" /\ c.languages[l].floor = 100
<1> DEFINE n == Cardinality(DOMAIN c.ops)
<1>1. PICK e \in 0 .. n : MeasuredAs(c, r, l, e)
  BY DerivedClient
<1>2. c.languages[l].exclude = {}
  BY <1>1 DEF MeasuredAs
<1>3. \A o \in DOMAIN c.ops : Hits(c, r.clients[l], l, o) # {}
  BY <1>2, GeneratedIsFound, StyledIsFine DEF Hits, Present
<1>4. Absent(c, r.clients[l], l, d) = {}
  BY <1>3 DEF Absent, Required
<1>5. e = 0
  BY <1>1, <1>4, FS_EmptySet DEF MeasuredAs
<1>6. n \in Nat /\ n > 0
  <2>1. n \in Nat \ {0}
    BY DEF Derived
  <2> HIDE DEF n
  <2> QED BY <2>1
<1>7. FloorOf(0, n) = 100
  <2> HIDE DEF n
  <2> QED BY <1>6, FullMarks
<1> QED
  BY <1>1, <1>5, <1>7 DEF MeasuredAs

\* Written from the manifest that the contract is derived from, a generated client
\* is a gate at 100 percent, whatever was in it before.
THEOREM GenerationConforms == Spec => []GeneratedConforms
<1> DEFINE clients ==
             [l \in DOMAIN repo.clients |->
                IF l \in Generated THEN GenerateClient(repo.clients[l])
                ELSE IF l \in DartDirs THEN CompleteDart(repo.clients[l])
                ELSE repo.clients[l]]
           written == [repo EXCEPT !.clients = clients]
           cmd == [given |-> "manifest", from |-> NoLang, interfaces |-> FALSE,
                   enrich |-> FALSE]
           c == Build(written, cmd, day)
<1>1. ASSUME TypeOK, "manifest" \in DOMAIN repo.sources, c # NoContract,
             NEW l \in Generated \union DartDirs
      PROVE  c.languages[l].tier = "gate" /\ c.languages[l].floor = 100
  <2>1. cmd \in CommandLines
    BY DEF CommandLines, Kinds
  <2>2. IsRepo(repo) /\ DOMAIN repo.clients = Dirs
        /\ \A x \in Dirs : repo.clients[x] \in Clients
    BY <1>1 DEF TypeOK, IsRepo
  <2>3. clients \in [Dirs -> Clients]
    BY <2>2, GenerateTyped
  <2>4. IsRepo(written) /\ written.clients = clients /\ written.sources = repo.sources
    <3> HIDE DEF clients
    <3> QED BY <2>2, <2>3 DEF IsRepo
  <2>5. l \in Dirs
    BY EditAssumption
  <2> DEFINE ops == IF l \in Generated THEN Rich \union {e.op : e \in Manifest}
                    ELSE DeclaredMethods(repo.clients[l]) \union {e.op : e \in Manifest}
  <2>6. written.clients[l] = WithGenerated(repo.clients[l], ops)
    <3>1. clients[l] = WithGenerated(repo.clients[l], ops)
      BY <2>2, <2>5 DEF GenerateClient, CompleteDart
    <3> HIDE DEF clients, ops
    <3> QED BY <2>4, <3>1
  <2> HIDE DEF cmd, written
  <2>7. Derived(c, written, cmd, day)
    BY <1>1, <2>1, <2>4, DerivedContract
  <2>8. DOMAIN c.ops = {e.op : e \in {x \in Manifest : x.listed}}
    <3>1. /\ cmd.given = "manifest"
          /\ ~cmd.enrich
      BY DEF cmd
    <3>2. HasSource(written, cmd.given)
      BY <1>1, <2>4, <3>1 DEF HasSource
    <3>3. DOMAIN Draft(written, cmd).ops =
            {e.op : e \in {x \in written.sources["manifest"] : x.listed}}
      BY <2>1, <2>4, <3>1, <3>2, DraftIsFresh
    <3>4. Manifest = written.sources["manifest"]
      BY <1>1, <2>4 DEF Manifest
    <3> HIDE DEF c
    <3>5. c.ops = Draft(written, cmd).ops
      BY <2>7 DEF Derived
    <3> QED
      BY <3>3, <3>4, <3>5
  <2>9. DOMAIN c.ops \subseteq ops
    <3> HIDE DEF c
    <3> QED BY <2>8
  <2> HIDE DEF c, ops
  <2> QED
    BY <2>1, <2>2, <2>4, <2>5, <2>6, <2>7, <2>9, NothingIsAbsent
<1>2. TypeOK => GeneratedConforms
  BY <1>1 DEF GeneratedConforms
<1> QED
  BY <1>2, SurfaceTyping, PTL
=============================================================================
