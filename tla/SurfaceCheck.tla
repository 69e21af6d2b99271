---------------------------- MODULE SurfaceCheck ----------------------------
(***************************************************************************)
(* contract/bin/check_surface.py: each client against the surface          *)
(* contract, and what the check as a whole answers.                        *)
(*                                                                         *)
(* A contract is [ops, languages, waivers, source, schemas]: ops maps an   *)
(* operation to [required, optionalIn, aliases]; languages maps a client   *)
(* directory to [tier, floor, prefix, arity, forbidExtra, exclude,         *)
(* pinned]; source is the kind and content of the recorded source, or      *)
(* NoSource; schemas says whether payload schemas are vendored.            *)
(*                                                                         *)
(* A repository is [clients, sources, copy, upstream]: the clients by      *)
(* directory; the content of each kind of source it has ("manifest",       *)
(* "api", "openapi"); the vendored schemas ("same", "edited", "missing");  *)
(* and the interfaces repository beside this one ("none", "same",          *)
(* "moved").                                                               *)
(***************************************************************************)
EXTENDS SurfaceExtract

CONSTANTS NoFloor, NoSource, NoContract

NoLang == "-"
NoOp == "-"

Finding(severity, lang, op, kind) ==
  [severity |-> severity, lang |-> lang, op |-> op, kind |-> kind]

-----------------------------------------------------------------------------
\* acceptable_names, candidate_set: the renderings, the same behind the prefix of
\* the language, and the contract's aliases.
CandidateSet(contract, l, o) ==
  LET names == {o} \union (IF contract.languages[l].prefix THEN {Behind(o)} ELSE {})
                   \union (IF l \in contract.ops[o].aliases THEN {Other(o)} ELSE {})
  IN  {[op |-> n, spelling |-> "styled"] : n \in names}

\* partition_waivers: a date that is over, or is none (below every day).
Usable(contract, day) == {w \in contract.waivers : w.expires >= day}
\* Mutant: a date that cannot be read is passed over.
Expired_SkipsUnread(contract, day) == {w \in contract.waivers : w.expires \in 0 .. day - 1}
Expired(contract, day) == contract.waivers \ Usable(contract, day)
Waived(contract, day, l, o) ==
  \E w \in Usable(contract, day) : w.language = l /\ w.operation \in {"*", o}

\* The operations client l must export.
Required(contract, day, l) ==
  {o \in DOMAIN contract.ops : l \notin contract.ops[o].optionalIn
                               /\ ~Waived(contract, day, l, o)}

Present(contract, client, l) == Symbols(client, contract.languages[l].exclude)
Hits(contract, client, l, o) ==
  CandidateSet(contract, l, o) \intersect Present(contract, client, l)
FoundByCase(contract, client, l, o) ==
  [op |-> o, spelling |-> "cased"] \in Present(contract, client, l)
Absent(contract, client, l, day) ==
  {o \in Required(contract, day, l) :
     Hits(contract, client, l, o) = {} /\ ~FoundByCase(contract, client, l, o)}

\* Which of several spellings is looked at depends on the order of a Python
\* set: with luck one whose arity is enough.
TooNarrow(contract, client, l, o, lucky) ==
  LET actual(n) == Arity(client, contract.languages[l].exclude,
                         DetectLanguage(l, client.census), n)
      narrow == {n \in Hits(contract, client, l, o) :
                   actual(n) # NoArity /\ actual(n) < contract.ops[o].required}
  IN  /\ contract.languages[l].arity
      /\ IF lucky THEN narrow # {} /\ narrow = Hits(contract, client, l, o)
                  ELSE narrow # {}

OpFindings(contract, client, l, day, lucky) ==
  UNION {
    {Finding("notice", l, o, "waived") :
       o \in {p \in DOMAIN contract.ops : l \notin contract.ops[p].optionalIn
                                          /\ Waived(contract, day, l, p)}},
    {Finding("error", l, o, "absent") : o \in Absent(contract, client, l, day)},
    {Finding("warning", l, o, "cased") :
       o \in {p \in Required(contract, day, l) : Hits(contract, client, l, p) = {}
                                                 /\ FoundByCase(contract, client, l, p)}},
    {Finding("error", l, o, "arity") :
       o \in {p \in Required(contract, day, l) : TooNarrow(contract, client, l, p, lucky)}}}

\* The ratchet: coverage + 0.05 < minCoverage, of n operations with m absent.
Trips(n, m, floor) == n > 0 /\ floor # NoFloor /\ 2000 * (n - m) + n < 20 * floor * n
Regressed(contract, client, l, day) ==
  Trips(Cardinality(Required(contract, day, l)),
        Cardinality(Absent(contract, client, l, day)), contract.languages[l].floor)

TypeFindings(contract, client, l) ==
  LET pinned == contract.languages[l].pinned
      actual == FindClientType(client, pinned)
  IN  (IF actual = NoType \/ (pinned # NoType /\ actual # pinned)
       THEN {Finding("warning", l, NoOp, "client type")} ELSE {})
      \union (IF client.errors THEN {} ELSE {Finding("warning", l, NoOp, "error type")})

ExtraFindings(contract, client, l) ==
  IF contract.languages[l].forbidExtra
  THEN {Finding("error", l, s.op, "undeclared") :
          s \in Present(contract, client, l)
                \ UNION {CandidateSet(contract, l, o) : o \in DOMAIN contract.ops}}
  ELSE {}

\* check_language: a client that exports nothing gets one warning and no more.
CheckLanguage(contract, clients, l, day, lucky) ==
  IF l \notin DOMAIN clients THEN {Finding("error", l, NoOp, "no directory")}
  ELSE IF DetectLanguage(l, clients[l].census) = "none" \/ Present(contract, clients[l], l) = {}
  THEN {Finding("warning", l, NoOp, "no symbols")}
  ELSE UNION {OpFindings(contract, clients[l], l, day, lucky),
              IF Regressed(contract, clients[l], l, day)
              THEN {Finding("error", l, NoOp, "regressed")} ELSE {},
              TypeFindings(contract, clients[l], l),
              ExtraFindings(contract, clients[l], l)}

-----------------------------------------------------------------------------
\* The content of a recorded source as it is now.
Current(contract, repo) ==
  IF contract.source.kind \in DOMAIN repo.sources
  THEN repo.sources[contract.source.kind] ELSE NoSource

Provenance(contract, repo) ==
  IF contract.source = NoSource \/ Current(contract, repo) = contract.source.content THEN {}
  ELSE IF Current(contract, repo) = NoSource
  THEN {Finding("warning", NoLang, NoOp, "source missing")}
  ELSE {Finding("error", NoLang, NoOp, "source changed")}

InterfaceSchemas(contract, repo) ==
  CASE ~contract.schemas -> {}
    [] contract.schemas /\ repo.copy # "same"
         -> {Finding("error", NoLang, NoOp, "schema")}
    [] OTHER -> IF repo.upstream = "moved"
                THEN {Finding("warning", NoLang, NoOp, "upstream moved")} ELSE {}

\* surface.schema.json, as far as a hand can break it here.
Valid(contract) ==
  /\ DOMAIN contract.ops # {}
  /\ DOMAIN contract.languages # {}
  /\ \A l \in DOMAIN contract.languages :
       /\ contract.languages[l].tier \in {"gate", "warn", "off"}
       /\ contract.languages[l].floor \in 0 .. 100 \union {NoFloor}
  /\ \A w \in contract.waivers : w.reasoned

\* main, with --lang for each of `selected`, or all that are declared.
Findings(contract, repo, day, selected, lucky) ==
  LET langs == IF selected = {} THEN DOMAIN contract.languages ELSE selected
      declared == langs \intersect DOMAIN contract.languages
      checked == {l \in declared : contract.languages[l].tier # "off"}
  IN  UNION {Provenance(contract, repo), InterfaceSchemas(contract, repo),
             {Finding("error", w.language, w.operation, "expired") :
                w \in Expired(contract, day)},
             {Finding("error", l, NoOp, "undeclared") : l \in langs \ declared},
             UNION {CheckLanguage(contract, repo.clients, l, day, lucky) : l \in checked}}

Tier(contract, l) ==
  IF l \in DOMAIN contract.languages THEN contract.languages[l].tier ELSE "-"

\* Mutants: the ratchet only counts at the gate; nothing is strict before a
\* publication.
Fatal_GateOnly(contract, f, prepublish) ==
  IF prepublish THEN f.severity \in {"error", "warning"}
  ELSE /\ f.severity = "error"
       /\ f.lang = NoLang \/ Tier(contract, f.lang) = "gate" \/ f.kind = "expired"
Fatal_NeverStrict(contract, f, prepublish) ==
  /\ f.severity = "error"
  /\ \/ f.lang = NoLang
     \/ Tier(contract, f.lang) = "gate"
     \/ f.kind \in {"regressed", "expired"}
Fatal(contract, f, prepublish) ==
  IF prepublish THEN f.severity \in {"error", "warning"}
  ELSE /\ f.severity = "error"
       /\ \/ f.lang = NoLang
          \/ Tier(contract, f.lang) = "gate"
          \/ f.kind \in {"regressed", "expired"}

Exit(contract, repo, day, selected, prepublish, lucky) ==
  IF contract = NoContract \/ ~Valid(contract) THEN 2
  ELSE IF \E f \in Findings(contract, repo, day, selected, lucky) :
            Fatal(contract, f, prepublish)
  THEN 1 ELSE 0
=============================================================================
