---------------------------- MODULE SurfaceDerive ----------------------------
(***************************************************************************)
(* contract/bin/derive_contract.py: a surface contract from a source of    *)
(* operations, measured against the clients as they are.                   *)
(*                                                                         *)
(* An entry of a source is [op, params, optional, listed]: its canonical   *)
(* name, how many parameters it has and how many are optional, and whether *)
(* the source shows it as a public, named operation.                       *)
(***************************************************************************)
EXTENDS SurfaceCheck

CONSTANTS
  Noise,            \* names that are no operations, and names too short
  EnrichNoise,      \* names that are not taken over from the clients
  MinLanguages,     \* how many clients must agree (4)
  GateCandidates,   \* directories that may be gates at once
  PreferredReference, \* reference clients in the order of preference
  ApiClientType       \* the class that api-surface.json names, or NoType

Operation(n) == [required |-> n, optionalIn |-> {}, aliases |-> {}]

\* Of the entries with one name the richest is kept.
Richest(entries, o) ==
  LET same == {e \in entries : e.op = o}
  IN  CHOOSE e \in same : \A f \in same : f.params <= e.params
Lift(entries) ==
  [o \in {e.op : e \in entries} |->
     Operation(Richest(entries, o).params - Richest(entries, o).optional)]

OpsFromManifest(entries) == Lift({e \in entries : e.listed})
OpsFromApiSurface(entries) == Lift({e \in entries : e.listed /\ e.op \notin Noise})
\* A request body is one more parameter, required unless the document says else.
OpsFromOpenapi(entries) == Lift({e \in entries : e.listed})

\* Of a reference client: its public names but for their spelling, the product's
\* name before them included; of the parameters at most six, all of them required.
OpsFromLanguage(client, lang) ==
  [o \in {n.op : n \in Symbols(client, {})} \ Noise |->
     LET n == CHOOSE m \in Symbols(client, {}) : m.op = o
     IN  Operation(Min({6, Max({0, Arity(client, {}, lang, n)})}))]

PickReference(clients) ==
  LET preferred == {i \in DOMAIN PreferredReference : PreferredReference[i] \in DOMAIN clients}
      size(d) == Cardinality(Symbols(clients[d], {}))
  IN  IF preferred # {} THEN PreferredReference[Min(preferred)]
      ELSE CHOOSE d \in DOMAIN clients : \A e \in DOMAIN clients : size(e) <= size(d)

\* enrich_from_clients: what 60 percent of the clients with any symbols export,
\* whether behind the product's name or not.
Unprefixed(client) ==
  {IF d.spelling = "odd" THEN Other(d.op) ELSE d.op :
     d \in {e \in Sources(client, {}) : e.public}}
RoundHalf(a, b) == (2 * a + b) \div (2 * b)
Enrich(ops, clients) ==
  LET active == {d \in DOMAIN clients : Symbols(clients[d], {}) # {}}
      exporting(o) == {d \in active : o \in Unprefixed(clients[d])}
      needed == Max({MinLanguages, RoundHalf(6 * Cardinality(active), 10)})
      agreed == {o \in UNION {Unprefixed(clients[d]) : d \in active} :
                   /\ o \notin EnrichNoise \union DOMAIN ops
                   /\ Cardinality(exporting(o)) >= needed}
  IN  IF Cardinality(active) < MinLanguages THEN ops
      ELSE [o \in DOMAIN ops \union agreed |-> IF o \in agreed THEN Operation(0) ELSE ops[o]]

\* detect_prefix: three symbols in five begin with the product's name.
DetectPrefix(client) ==
  LET hits == {Name(d) : d \in {e \in Sources(client, {}) : e.public /\ e.spelling = "prefixed"}}
      symbols == Symbols(client, {})
  IN  symbols # {} /\ 10 * Cardinality(hits) >= 6 * Cardinality(symbols)

\* The client type that the languages' own are compared with: what the API surface
\* names, else the first of these clients' that has one.
ClientType(clients, given, reference) ==
  LET probes == SelectSeq(<<reference, "ts", "typescript", "python", "python3", "go", "rust">>,
                  LAMBDA d : d \in DOMAIN clients /\ clients[d].types # {})
  IN  IF given = "api" /\ ApiClientType # NoType THEN ApiClientType
      ELSE IF probes = <<>> THEN "FiduciaClient"
      ELSE FindClientType(clients[probes[1]], "FiduciaClient")

Provisional(client, ctype) ==
  [tier |-> "warn", floor |-> NoFloor, arity |-> FALSE, forbidExtra |-> FALSE, exclude |-> {},
   prefix |-> DetectPrefix(client), pinned |-> FindClientType(client, ctype)]

\* Conformance in tenths of a percent, with errs of n operations in error.
Tenths(errs, n) == RoundHalf(1000 * (n - Min({errs, n})), n)
\* Mutant: rounded up.
FloorOf_Up(errs, n) == (Tenths(errs, n) + 9) \div 10
FloorOf(errs, n) == Tenths(errs, n) \div 10

\* Mutant: no floor is recorded.
Measured_NoFloor(contract, clients, l, day) ==
  LET errs == Cardinality({f \in CheckLanguage(contract, clients, l, day, TRUE) :
                             f.severity = "error"})
  IN  [contract.languages[l] EXCEPT !.tier = IF errs = 0 THEN "gate" ELSE "warn"]

\* Measured: the floor is today's conformance rounded down; gates have no error.
Measured(contract, clients, l, day) ==
  LET errs == Cardinality({f \in CheckLanguage(contract, clients, l, day, TRUE) :
                             f.severity = "error"})
      n == Cardinality(DOMAIN contract.ops)
  IN  [contract.languages[l] EXCEPT
         !.floor = FloorOf(errs, n),
         !.tier = IF errs = 0 /\ (l \in GateCandidates \/ Tenths(errs, n) >= 1000)
                  THEN "gate" ELSE "warn"]

-----------------------------------------------------------------------------
\* A manifest that is not there is as if none was given; other sources must be.
HasSource(repo, given) == given \in DOMAIN repo.sources

\* build: the operations and what is recorded of their source.  Without a source
\* the reference client is one, the given or the picked.
Source(repo, given) ==
  IF HasSource(repo, given) THEN [kind |-> given, content |-> repo.sources[given]] ELSE NoSource
Reference(repo, given, reference) ==
  IF HasSource(repo, given) \/ reference # NoLang THEN reference ELSE PickReference(repo.clients)
Operations(repo, given, reference) ==
  IF ~HasSource(repo, given)
  THEN OpsFromLanguage(repo.clients[reference],
                       DetectLanguage(reference, repo.clients[reference].census))
  ELSE CASE given = "manifest" -> OpsFromManifest(repo.sources[given])
         [] given = "api"      -> OpsFromApiSurface(repo.sources[given])
         [] given = "openapi"  -> OpsFromOpenapi(repo.sources[given])

\* A command line is [given, from, interfaces, enrich]: the kind of source, the
\* --from-language client or NoLang, and the two options.
\* build, with or without the interfaces repository and what most clients agree
\* on.  NoContract: it ends with an error and writes nothing.
Build(repo, cmd, day) ==
  LET given == cmd.given
      reference == Reference(repo, given, cmd.from)
      lifted == Operations(repo, given, reference)
      ops == IF cmd.enrich THEN Enrich(lifted, repo.clients) ELSE lifted
      ctype == ClientType(repo.clients, given, reference)
      provisional ==
        [ops |-> ops, waivers |-> {}, source |-> Source(repo, given),
         schemas |-> cmd.interfaces /\ repo.upstream # "none",
         languages |-> [l \in DOMAIN repo.clients |-> Provisional(repo.clients[l], ctype)]]
  IN  IF (given \in {"api", "openapi"} /\ ~HasSource(repo, given)) \/ DOMAIN ops = {}
      THEN NoContract
      ELSE [provisional EXCEPT !.languages =
              [l \in DOMAIN repo.clients |-> Measured(provisional, repo.clients, l, day)]]

\* vendor_interface_schemas: the copies are written anew.
Vendored(repo, interfaces) ==
  IF interfaces /\ repo.upstream # "none"
  THEN [repo EXCEPT !.copy = "same", !.upstream = "same"] ELSE repo
=============================================================================
