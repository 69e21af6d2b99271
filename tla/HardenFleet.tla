---------------------------- MODULE HardenFleet ----------------------------
(***************************************************************************)
(* The contract of a fleet of clients: what                                *)
(* scripts/harden_client_contract.py writes into a repository, step by     *)
(* step, and what it and verify_client_contract.py, check-package-         *)
(* contract.py and check-required-client-matrix.py then find there.        *)
(*                                                                         *)
(* A directory is a path under clients/, or beside it if its first name is *)
(* in Beside; Root stands for the repository itself and Outside for what   *)
(* lies beyond it.  A repository is                                        *)
(*   dirs, impl     the directories that matter and the version of the     *)
(*                  files in each, but not in another one, 0 for none: the *)
(*                  sources with a suffix of CONTRACT_SOURCE_SUFFIXES, the *)
(*                  export metadata, and sources with any other suffix;    *)
(*   runtimes       the runtimes in the src/runtimes of a clients/         *)
(*                  typescript that is one package for all of them;        *)
(*   targets        the directories of the targets of .zpkg.toml;          *)
(*   interfaces     the version of its *-interfaces dependency, 0: none;   *)
(*   surface        api-surface.json: the names of its symbols, those its  *)
(*                  types refer to, the declarations inside one of them    *)
(*                  with their documentation ids, and its interfaces;      *)
(*   fingerprint    clients/.api-surface.sha256: a digest is the value;    *)
(*   markers        the marker and its digest in each place for them;      *)
(*   manifest       contract-manifest.json; matrix: the directories of     *)
(*                  client-contract-matrix.json.                           *)
(***************************************************************************)
EXTENDS Naturals, FiniteSets, Sequences, SequencesExt

CONSTANTS
  TARGETS,         \* rows of the standard fleet
  MinimumTargets,  \* MINIMUM_TARGETS
  Standard,        \* symbols of the baseline, alone in their kind and visibility
  Ignored,         \* CONTRACT_IGNORED_PARTS
  Kebab,           \* what kebab makes of the names that it changes
  Beside,          \* names of directories that are beside clients/
  RequiredTargets, RequiredPackages,   \* REQUIRED_TARGETS and REQUIRED: where the
                                       \* two package checks ask targets to be
  Raised, Nothing

Root == <<>>
Outside == <<"..">>
Typescript == <<"typescript">>
NoRuntime == ""    \* a target that is no runtime, a marker of a whole directory

\* A row, with the files of its scaffold: the metadata is written first.
Spec1(name, zed, dir, aliases, zedAliases, metadata, sources) ==
  [name |-> name, zed |-> zed, dir |-> <<dir>>, aliases |-> aliases, runtime |-> NoRuntime,
   zedAliases |-> zedAliases, publish |-> TRUE, metadata |-> metadata, sources |-> sources]
Runtime(r, zedAliases, publish) ==
  [name |-> "typescript-" \o r, zed |-> "nodejs", dir |-> <<"typescript", r>>,
   aliases |-> <<Typescript>>, runtime |-> r, zedAliases |-> zedAliases, publish |-> publish,
   metadata |-> 1, sources |-> 1]
Plain(n, metadata, sources) == Spec1(n, n, n, <<>>, <<>>, metadata, sources)

StandardFleet == <<
  Plain("c", 1, 2), Spec1("cpp", "cpp", "cpp", <<<<"cxx">>>>, <<"cxx">>, 1, 1),
  Plain("zig", 0, 2), Spec1("wasm", "rust-wasm", "wasm", <<>>, <<>>, 1, 1),
  Spec1("gleamlang", "gleam", "gleamlang", <<<<"gleam">>>>, <<"gleamlang">>, 1, 1),
  Plain("erlang", 1, 1), Plain("elixir", 0, 2), Plain("dart", 1, 1), Plain("rust", 1, 1),
  Plain("java", 0, 3), Spec1("golang", "golang", "golang", <<<<"go">>>>, <<"go">>, 1, 1),
  Spec1("python3", "python", "python3", <<<<"python">>>>, <<"python3">>, 1, 2),
  Plain("ruby", 1, 1), Plain("php", 1, 1), Plain("kotlin", 0, 3), Plain("swift", 0, 2),
  Runtime("nodejs", <<"typescript-nodejs", "typescript">>, TRUE),
  Runtime("deno", <<"typescript-deno", "deno">>, FALSE),
  Runtime("bun", <<"typescript-bun", "bun">>, FALSE),
  Runtime("edge", <<"typescript-edge", "edge">>, FALSE)>>

Specs == ToSet(TARGETS)
Names == {s.name : s \in Specs}
TargetNames == UNION {{s.zed} \union ToSet(s.zedAliases) : s \in Specs}

Paths == Seq(STRING) \ {Root}

\* Is it, or is it in, one of the directories of clients/?
InClients(d) == d # Root /\ d[1] \notin Beside \union {Outside[1]}

Files == [source : Nat, metadata : Nat, other : Nat]
NoFiles == [source |-> 0, metadata |-> 0, other |-> 0]

Row == [name : STRING, zed : STRING, dir : Paths, aliases : Seq(Paths), runtime : STRING,
        zedAliases : Seq(STRING), publish : BOOLEAN, metadata : 0 .. 1, sources : Nat \ {0}]

\* That literals are strings the provers do not know.
ASSUME FleetAssumption ==
  /\ TARGETS \in Seq(Row) /\ MinimumTargets \in Nat
  /\ {Typescript, Outside} \subseteq Paths
  /\ \A i, j \in DOMAIN TARGETS : TARGETS[i].name = TARGETS[j].name => i = j
  /\ "repository" \notin TargetNames

\* No row's canonical place is another's, or the directory that it is in; a row has
\* one older name at most; what a row publishes is no other row's, and no name of one
\* that publishes nothing.
ASSUME RowsAssumption ==
  \A s, o \in Specs :
    /\ s # o => s.dir \notin {o.dir, SubSeq(o.dir, 1, 1)}
    /\ Len(s.aliases) <= 1
    /\ s.publish /\ o.publish /\ s.zed = o.zed => s = o
    /\ s.publish /\ ~o.publish => s.zed \notin ToSet(o.zedAliases)

\* f, and g where f says nothing.
Over(f, g) == [x \in DOMAIN f \union DOMAIN g |-> IF x \in DOMAIN f THEN f[x] ELSE g[x]]

-----------------------------------------------------------------------------
Exists(repo, d) == d \in repo.dirs \union {Root, Outside}

\* Mutant: the manifest is not asked.
ChooseDir_Canonical(repo, s) == s.dir
\* choose_dir: where the manifest says, else the canonical place, else the shared
\* TypeScript package, else an older name, else the canonical place to be made.
ChooseDir(repo, s) ==
  LET names == IF s.publish THEN <<s.zed>> \o s.zedAliases ELSE s.zedAliases
      found(n) == n \in DOMAIN repo.targets /\ Exists(repo, repo.targets[n])
      there(d) == d \in repo.dirs
      given == SelectInSeq(names, found)
      older == SelectInSeq(s.aliases, there)
  IN  CASE given # 0                         -> repo.targets[names[given]]
        [] given = 0 /\ s.dir \in repo.dirs  -> s.dir
        [] OTHER -> IF s.runtime \in repo.runtimes THEN Typescript
                    ELSE IF older # 0 THEN s.aliases[older] ELSE s.dir

\* choose_target_dirs: in the order of the fleet, none twice, none outside, and
\* none in another target's canonical place.
Claimed(repo, chosen, s) ==
  LET claimed == {chosen[n] : n \in DOMAIN chosen}
      others == {o.dir : o \in Specs \ {s}}
      free(d) == IF d \in claimed \union {Outside} \union others THEN s.dir ELSE d
      claim(d) == IF d \in claimed THEN Raised ELSE Over(chosen, [n \in {s.name} |-> d])
  IN  IF chosen = Raised THEN Raised ELSE claim(free(ChooseDir(repo, s)))
ChooseTargetDirs(repo) ==
  LET after[i \in 0 .. Len(TARGETS)] ==
        IF i = 0 THEN <<>> ELSE Claimed(repo, after[i - 1], TARGETS[i])
  IN  after[Len(TARGETS)]

MarkerDir(s, d) ==
  <<d, IF s.runtime # NoRuntime /\ d = Typescript THEN s.runtime ELSE NoRuntime>>

\* extension_client_dirs: clients that no target is in.
ExtensionDirs(repo, chosen) ==
  {d \in repo.dirs : /\ Len(d) = 1 /\ InClients(d)
                     /\ \A n \in DOMAIN chosen : ~IsPrefix(d, chosen[n])}

\* What a walk over directory d looks at: what is in it or below, and in nothing ignored.
Seen(d, e) == IsPrefix(d, e) /\ \A i \in Len(d) + 1 .. Len(e) : e[i] \notin Ignored

\* implementation_evidence: sources of the listed suffixes and metadata, as they are.
Evidence(repo, d) ==
  LET at == {e \in repo.dirs : Seen(d, e) /\ repo.impl[e].source + repo.impl[e].metadata > 0}
  IN  [e \in at |-> <<repo.impl[e].source, repo.impl[e].metadata>>]

\* has_product_implementation: the sources alone.
HasProduct(repo, d) == \E e \in repo.dirs : Seen(d, e) /\ repo.impl[e].source > 0

-----------------------------------------------------------------------------
\* The steps of a hardening.  Row by row the directory is made, with the one that it
\* is in, and then its scaffold, file by file, unless there is a product in it or it
\* is the shared package.
MadeDir(repo, d) ==
  LET dirs == repo.dirs \union {d, SubSeq(d, 1, 1)}
  IN  [repo EXCEPT !.dirs = dirs,
         !.impl = [e \in dirs |-> IF e \in repo.dirs THEN repo.impl[e] ELSE NoFiles]]

\* The first n files of a scaffold; metadata that is there stays.
Begin(files, s, n) ==
  [files EXCEPT !.metadata = IF @ > 0 \/ n = 0 THEN @ ELSE s.metadata,
                !.source = IF n > s.metadata THEN n - s.metadata ELSE 0]
\* Mutants: a scaffold is written anew by every run; product sources are no reason
\* not to write one.
Scaffolded_Again(repo, s, d, n) ==
  IF repo.impl[d].source > s.sources \/ (s.runtime # NoRuntime /\ d = Typescript)
  THEN repo ELSE [repo EXCEPT !.impl[d].source = @ + 1]
Scaffolded_Over(repo, s, d, n) ==
  IF s.runtime # NoRuntime /\ d = Typescript THEN repo
  ELSE [repo EXCEPT !.impl[d] = Begin(@, s, n)]
Scaffolded(repo, s, d, n) ==
  IF HasProduct(repo, d) \/ (s.runtime # NoRuntime /\ d = Typescript) THEN repo
  ELSE [repo EXCEPT !.impl[d] = Begin(@, s, n)]

ScaffoldRow(repo, s, d) == Scaffolded(MadeDir(repo, d), s, d, s.metadata + s.sources)
ScaffoldTo(repo, chosen, n) ==
  LET after[i \in 0 .. n] ==
        IF i = 0 THEN repo ELSE ScaffoldRow(after[i - 1], TARGETS[i], chosen[TARGETS[i].name])
  IN  after[n]
Scaffold(repo, chosen) == ScaffoldTo(repo, chosen, Len(TARGETS))

\* ensure_manifest leaves a manifest alone that has almost all targets, all of them
\* under clients/; else it drops other names of the targets and sets their places.
EnsureManifest(repo, chosen) ==
  LET configured == {n \in DOMAIN repo.targets : repo.targets[n] # Root}
      mature == /\ Cardinality(configured) >= MinimumTargets - 2
                /\ \A n \in configured : InClients(repo.targets[n])
      dropped == (UNION {ToSet(s.zedAliases) : s \in Specs})
                   \union (IF "contract" \in DOMAIN repo.targets \ configured
                           THEN {"contract"} ELSE {})
      placed == [z \in {s.zed : s \in {t \in Specs : t.publish}} |->
                   chosen[(CHOOSE s \in Specs : s.publish /\ s.zed = z).name]]
  IN  IF mature THEN repo
      ELSE [repo EXCEPT !.targets =
              Over([n \in {"repository"} |-> Root],
                   Over(placed, [n \in DOMAIN @ \ dropped |-> @[n]]))]

EnsureMatrix(repo, chosen) == [repo EXCEPT !.matrix = chosen]

NoId == <<0, "none">>
Surfaces == [names : SUBSET STRING, uses : SUBSET STRING,
             members : Seq([name : STRING, id : Nat \X STRING]), interfaces : Nat]
ASSUME SurfaceAssumption ==
  /\ Standard \union {"none", "lock", "Lease"} \subseteq STRING
  /\ Nothing \notin Surfaces

\* merge_standard_symbols, enrich_contract_metadata: missing symbols are appended,
\* and a declaration without an id gets the one of its place and name.
Enrich(members) ==
  [i \in DOMAIN members |-> IF members[i].id = NoId
                            THEN [members[i] EXCEPT !.id = <<i, members[i].name>>]
                            ELSE members[i]]
\* Mutant: a declaration of the baseline is appended whether it is there or not.
Hardened_Appends(repo) ==
  IF repo.surface = Nothing
  THEN [names |-> Standard, uses |-> {}, members |-> <<>>, interfaces |-> repo.interfaces]
  ELSE [repo.surface EXCEPT !.names = @ \union Standard, !.interfaces = repo.interfaces,
          !.members = Enrich(Append(@, [name |-> "health", id |-> NoId]))]
Hardened(repo) ==
  IF repo.surface = Nothing
  THEN [names |-> Standard, uses |-> {}, members |-> <<>>, interfaces |-> repo.interfaces]
  ELSE [repo.surface EXCEPT !.names = @ \union Standard, !.members = Enrich(@),
                            !.interfaces = repo.interfaces]

\* semantic_errors: types that are declared nowhere, a kind and visibility that no
\* symbol has, an id that two declarations have.
SemanticErrors(surface) ==
  \/ ~(surface.uses \subseteq surface.names)
  \/ ~(Standard \subseteq surface.names)
  \/ \E i, j \in DOMAIN surface.members :
       /\ i # j
       /\ surface.members[i].id = surface.members[j].id
       /\ surface.members[i].id # NoId

\* What the contract covers: the targets in their directories, and the extensions,
\* each named for its directory.
kebab(name) == IF name \in DOMAIN Kebab THEN Kebab[name] ELSE name
TargetOf(s, chosen) ==
  [target |-> <<"target", s.name>>, zed |-> <<"target", s.zed>>,
   runtime |-> IF s.runtime = NoRuntime THEN s.name ELSE s.runtime,
   dir |-> chosen[s.name], place |-> MarkerDir(s, chosen[s.name])]
ExtensionOf(d) ==
  LET target == <<"extension", kebab(d[1])>>
  IN  [target |-> target, zed |-> target, runtime |-> d[1], dir |-> d, place |-> <<d, NoRuntime>>]
IsExtension(t) == t.target[1] = "extension"
Covered(repo, chosen) ==
  {TargetOf(s, chosen) : s \in Specs} \union {ExtensionOf(d) : d \in ExtensionDirs(repo, chosen)}

Marker(t, surface) ==
  [target |-> t.target, zed |-> t.zed, runtime |-> t.runtime, surface |-> surface]

\* ensure_contract: the surface, its fingerprint, the markers, and the manifest.
WriteSurface(repo) == [repo EXCEPT !.surface = Hardened(repo)]
\* Mutant: a fingerprint that is there is left alone.
WriteFingerprint_Once(repo) ==
  [repo EXCEPT !.fingerprint = IF @ = Nothing THEN repo.surface ELSE @]
WriteFingerprint(repo) == [repo EXCEPT !.fingerprint = repo.surface]
Marked(repo, covered) ==
  LET places == {t.place : t \in covered}
  IN  [repo EXCEPT !.markers =
         Over([p \in places |-> Marker(CHOOSE t \in covered : t.place = p, repo.surface)], @)]
WriteMarkers(repo, chosen) == Marked(repo, Covered(repo, chosen))
WriteContractManifest(repo, chosen) ==
  [repo EXCEPT !.manifest =
     [surface |-> repo.surface,
      entries |-> {[target |-> t.target, zed |-> t.zed, runtime |-> t.runtime, dir |-> t.dir,
                    evidence |-> Evidence(repo, t.dir)] : t \in Covered(repo, chosen)}]]

\* The writes in their order, and what each makes of the repository.
Writes == <<"scaffold", "manifest", "matrix", "surface", "fingerprint", "markers", "contract">>
Written(repo, chosen, w) ==
  CASE w = "scaffold"    -> Scaffold(repo, chosen)
    [] w = "manifest"    -> EnsureManifest(repo, chosen)
    [] w = "matrix"      -> EnsureMatrix(repo, chosen)
    [] w = "surface"     -> WriteSurface(repo)
    [] w = "fingerprint" -> WriteFingerprint(repo)
    [] w = "markers"     -> WriteMarkers(repo, chosen)
    [] w = "contract"    -> WriteContractManifest(repo, chosen)

\* How many there are, up to the error that ends the run: a collision of directories,
\* no interfaces, or a surface that cannot stand.
WritesMade(repo) ==
  IF ChooseTargetDirs(repo) = Raised THEN 0
  ELSE IF repo.interfaces = 0 \/ SemanticErrors(Hardened(repo)) THEN 3 ELSE Len(Writes)

\* What is on the disk before the first write and after each.
HardenSteps(repo) ==
  LET chosen == ChooseTargetDirs(repo)
      further(steps, w) == Append(steps, Written(Last(steps), chosen, w))
      after[i \in 0 .. WritesMade(repo)] ==
        IF i = 0 THEN <<repo>> ELSE further(after[i - 1], Writes[i])
  IN  after[WritesMade(repo)]

\* What a kill leaves on the disk: among the scaffolds, after the making of any
\* directory or the writing of any file; between two of the later writes; and among
\* the markers, which are written row by row and then for the extensions.
RowStages(repo, s, d) ==
  {MadeDir(repo, SubSeq(d, 1, 1))}
    \union {Scaffolded(MadeDir(repo, d), s, d, n) : n \in 0 .. s.metadata + s.sources}
KilledScaffolding(repo) ==
  LET chosen == ChooseTargetDirs(repo)
  IN  IF chosen = Raised THEN {}
      ELSE UNION {RowStages(ScaffoldTo(repo, chosen, i - 1), TARGETS[i], chosen[TARGETS[i].name]) :
                    i \in DOMAIN TARGETS}
MarkersBegun(repo, chosen) ==
  LET rows(n) == {TargetOf(TARGETS[i], chosen) : i \in 1 .. n}
  IN  {rows(n) : n \in DOMAIN TARGETS}
        \union {rows(Len(TARGETS)) \union {ExtensionOf(d) : d \in some} :
                  some \in SUBSET ExtensionDirs(repo, chosen)}
KilledWriting(repo) ==
  LET steps == HardenSteps(repo)
      chosen == ChooseTargetDirs(repo)
  IN  {steps[i] : i \in 2 .. Len(steps) - 1}
        \union (IF Len(steps) <= Len(Writes) THEN {}
                ELSE {Marked(steps[6], begun) : begun \in MarkersBegun(steps[6], chosen)})

-----------------------------------------------------------------------------
\* Mutant: only what is declared is looked at.
AllDeclared_Listed(repo, declared) == declared # {}
\* Each immediate client directory is, or contains, a declared one.
AllDeclared(repo, declared) ==
  \A c \in {d \in repo.dirs : Len(d) = 1 /\ InClients(d)} : \E d \in declared : IsPrefix(c, d)

\* verify: a repository without errors.  It chooses the directories anew, from the
\* manifest as it now is.
Verifies(repo) ==
  LET chosen == ChooseTargetDirs(repo)
      stated == {n \in DOMAIN repo.targets : repo.targets[n] # Outside}
      covered == Covered(repo, chosen)
  IN  /\ repo.surface # Nothing
      /\ ~SemanticErrors(repo.surface)
      /\ stated = DOMAIN repo.targets
      /\ \A n, o \in stated : repo.targets[n] = repo.targets[o] => n = o
      /\ chosen # Raised
      /\ Cardinality(Names) >= MinimumTargets
      /\ \A t \in covered :
           /\ Exists(repo, t.dir)
           /\ t.place \in DOMAIN repo.markers
           /\ LET marker == repo.markers[t.place]
              IN  /\ marker.surface = repo.surface
                  /\ marker.target = t.target /\ marker.zed = t.zed
                  /\ IsExtension(t) => marker.runtime = t.runtime
      /\ repo.manifest # Nothing
      /\ Cardinality(repo.manifest.entries) = Cardinality(covered)
      /\ \A e \in repo.manifest.entries :
           Exists(repo, e.dir) => e.evidence = Evidence(repo, e.dir)
      /\ AllDeclared(repo, {e.dir : e \in repo.manifest.entries})
      /\ repo.matrix # Nothing /\ DOMAIN repo.matrix = Names

\* main: the repository that a run with --write leaves, and its exit code.
Result(after, complete) ==
  [repo |-> after, exit |-> IF ~complete THEN 2 ELSE IF Verifies(after) THEN 0 ELSE 1]
Outcome(steps) == Result(Last(steps), Len(steps) > Len(Writes))
Harden(repo) == Outcome(HardenSteps(repo))

-----------------------------------------------------------------------------
\* verify_client_contract.py: a marker in the directory itself is read first.
MarkerRoot(repo, e) ==
  IF <<e.dir, NoRuntime>> \notin DOMAIN repo.markers /\ <<e.dir, e.runtime>> \in DOMAIN repo.markers
  THEN <<e.dir, e.runtime>> ELSE <<e.dir, NoRuntime>>

VerifiesContract(repo) ==
  /\ repo.surface # Nothing
  /\ repo.manifest # Nothing
  /\ repo.fingerprint = repo.surface
  /\ repo.manifest.surface = repo.surface
  /\ repo.interfaces # 0
  /\ repo.surface.interfaces = repo.interfaces
  /\ Cardinality(repo.manifest.entries) >= MinimumTargets
  /\ \A e, o \in repo.manifest.entries : e.target = o.target => e = o
  /\ \A e \in repo.manifest.entries :
       /\ InClients(e.dir) /\ e.dir \in repo.dirs
       /\ IsExtension(e) \/ Evidence(repo, e.dir) # <<>>
       /\ e.evidence = Evidence(repo, e.dir)
       /\ LET place == MarkerRoot(repo, e)
          IN  place \in DOMAIN repo.markers /\ repo.markers[place] = Marker(e, repo.surface)
  /\ AllDeclared(repo, {e.dir : e \in repo.manifest.entries})

\* refresh_client_contract_manifest.py: the same manifest with today's evidence.
Refreshed(repo) ==
  [repo.manifest EXCEPT !.entries =
     {[e EXCEPT !.evidence = Evidence(repo, e.dir)] : e \in @}]

\* check-required-client-matrix.py and check-package-contract.py: the required targets
\* in their places, where there is a package, and no runtime as a target of its own.
RuntimeOnly == {"deno", "bun", "edge"}
Routed(repo, required) ==
  /\ repo.interfaces # 0
  /\ \A n \in DOMAIN required :
       /\ n \in DOMAIN repo.targets /\ repo.targets[n] = required[n]
       /\ required[n] \in repo.dirs /\ repo.impl[required[n]] # NoFiles
  /\ DOMAIN repo.targets \intersect RuntimeOnly = {}
MatrixValid(repo) == Routed(repo, RequiredTargets)

\* The second asks for sources too, of its own suffixes and with nothing ignored.
PackageValid(repo) ==
  /\ Routed(repo, RequiredPackages)
  /\ \A n \in DOMAIN RequiredPackages : \E e \in repo.dirs :
       IsPrefix(RequiredPackages[n], e) /\ repo.impl[e].source + repo.impl[e].other > 0

\* A required target is published by one row of the fleet, and neither its name nor
\* its directory is another row's.
ASSUME RequiredAssumption ==
  /\ RuntimeOnly \intersect ({"repository"} \union {s.zed : s \in {t \in Specs : t.publish}}) = {}
  /\ \A required \in {RequiredTargets, RequiredPackages} : \A n \in DOMAIN required :
       /\ required[n] \notin {Root, Outside, Typescript}
       /\ \E s \in Specs :
            /\ s.publish /\ s.zed = n
            /\ \A o \in Specs \ {s} :
                 /\ ~(o.publish /\ o.zed = n) /\ n \notin ToSet(o.zedAliases)
                 /\ required[n] \notin ToSet(o.aliases) \union {o.dir}
=============================================================================
