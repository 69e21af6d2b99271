---------------------------- MODULE SurfaceSystem ----------------------------
(***************************************************************************)
(* A repository of clients under a surface contract: people edit the       *)
(* manifest, the clients and the contract, generate.py and                 *)
(* generate_dart.py write clients, derive_contract.py writes the contract, *)
(* and check_surface.py judges what is there on the day it runs.           *)
(***************************************************************************)
EXTENDS SurfaceDerive

CONSTANTS
  Ops,          \* operations a source may list
  Generated,    \* directories whose client generate.py writes
  DartDirs,     \* directories whose client generate_dart.py completes
  Rich,         \* RICH_OPERATION_NAMES: written by hand in the templates
  EditDecls,    \* declarations that people add and remove
  EditLangs,    \* clients that people work on
  EditWaivers,  \* waivers that people add
  Commands,     \* command lines of derive_contract.py
  InitialRepo,
  MaxEdits, MaxDay

-----------------------------------------------------------------------------
(* Types.  *)
Dirs == DOMAIN InitialRepo.clients
Kinds == {"manifest", "api", "openapi"}
Places == {"source", "generated", "test"}

Declarations ==
  [op : STRING, spelling : {"styled", "cased", "prefixed", "odd"},
   arity : Nat \union {NoArity}, public : BOOLEAN, where : Places]
ClientTypes == {TypeOrder[i] : i \in DOMAIN TypeOrder}
Clients ==
  {c \in [decls : SUBSET Declarations, types : SUBSET ClientTypes, errors : BOOLEAN,
          census : SUBSET [lang : STRING, bytes : Nat]] : IsFiniteSet(c.decls)}
Entries ==
  {e \in [op : STRING, params : Nat, optional : Nat, listed : BOOLEAN] :
     e.optional <= e.params}
Contents == {es \in SUBSET Entries : IsFiniteSet(es)}

IsRepo(r) ==
  /\ r \in [clients : [Dirs -> Clients], sources : {r.sources},
            copy : {"same", "edited", "missing"}, upstream : {"none", "same", "moved"}]
  /\ r.sources \in [DOMAIN r.sources -> Contents]
  /\ DOMAIN r.sources \subseteq Kinds

Waivers == [language : STRING, operation : STRING, expires : Int, reasoned : BOOLEAN]
Settings ==
  [tier : {"gate", "warn", "off"}, floor : Nat \union {NoFloor}, prefix : BOOLEAN,
   arity : BOOLEAN, forbidExtra : BOOLEAN, exclude : SUBSET Places,
   pinned : ClientTypes \union {NoType}]
OpTypes == [required : Nat, optionalIn : SUBSET Dirs, aliases : SUBSET Dirs]

CommandLines ==
  [given : Kinds \union {"reference"}, from : Dirs \union {NoLang},
   interfaces : BOOLEAN, enrich : BOOLEAN]

IsContract(c) ==
  /\ c \in [ops : {c.ops}, languages : [Dirs -> Settings], waivers : SUBSET Waivers,
            source : [kind : Kinds, content : Contents] \union {NoSource},
            schemas : BOOLEAN]
  /\ c.ops \in [DOMAIN c.ops -> OpTypes]
  /\ IsFiniteSet(DOMAIN c.ops)

ASSUME RepoAssumption ==
  /\ IsRepo(InitialRepo)
  /\ Dirs # {}
  /\ IsFiniteSet(Dirs)
  /\ NoLang \notin Dirs
ASSUME EditAssumption ==
  /\ Ops \union Rich \subseteq STRING
  /\ IsFiniteSet(Rich)
  /\ EditDecls \subseteq Declarations
  /\ Generated \union DartDirs \union EditLangs \subseteq Dirs
  /\ EditWaivers \subseteq Waivers
ASSUME ToolAssumption ==
  /\ Commands \subseteq CommandLines
  /\ DOMAIN PreferredReference \subseteq Nat
  /\ IsFiniteSet(DOMAIN PreferredReference)
  /\ NoFloor \notin Nat

VARIABLES repo, contract, day, edits

vars == <<repo, contract, day, edits>>

Manifest == IF "manifest" \in DOMAIN repo.sources THEN repo.sources["manifest"] ELSE {}

\* template and the emitters: the template's operations and, at its marker, the
\* manifest's other ones.
ByGenerator(o) ==
  [op |-> o, spelling |-> "styled", arity |-> 1, public |-> TRUE, where |-> "generated"]
WithGenerated(client, ops) ==
  [client EXCEPT !.decls = {d \in @ : d.where # "generated"} \union {ByGenerator(o) : o \in ops}]
\* Mutant: what the template writes by hand is taken to be elsewhere.
GenerateClient_NoRich(client) ==
  WithGenerated(client, {e.op : e \in Manifest} \ Rich)
GenerateClient(client) ==
  WithGenerated(client, Rich \union {e.op : e \in Manifest})

\* generate_dart.py: the methods of the reviewed source take precedence, the
\* unit repeats them and adds the manifest's missing ones.
DeclaredMethods(client) ==
  {d.op : d \in {e \in client.decls : e.where = "source" /\ e.spelling = "styled"}}
CompleteDart(client) ==
  WithGenerated(client, DeclaredMethods(client) \union {e.op : e \in Manifest})

TypeOK ==
  /\ IsRepo(repo)
  /\ contract # NoContract => IsContract(contract)
  /\ day \in Nat
  /\ edits \in Nat

Init ==
  /\ repo = InitialRepo
  /\ contract = NoContract
  /\ day = 1
  /\ edits = 0

-----------------------------------------------------------------------------
Edit == edits < MaxEdits /\ edits' = edits + 1

EditManifest(o) ==
  /\ Edit
  /\ "manifest" \in DOMAIN repo.sources
  /\ LET e == [op |-> o, params |-> 1, optional |-> 0, listed |-> TRUE]
     IN  repo' = [repo EXCEPT !.sources["manifest"] =
                    IF e \in @ THEN @ \ {e} ELSE @ \union {e}]
  /\ UNCHANGED <<contract, day>>

LoseManifest ==
  /\ Edit
  /\ "manifest" \in DOMAIN repo.sources
  /\ repo' = [repo EXCEPT !.sources = [k \in DOMAIN @ \ {"manifest"} |-> @[k]]]
  /\ UNCHANGED <<contract, day>>

EditClient(l, d) ==
  /\ Edit
  /\ repo' = [repo EXCEPT !.clients[l].decls =
                IF d \in @ THEN @ \ {d} ELSE @ \union {d}]
  /\ UNCHANGED <<contract, day>>

RenameType(l) ==
  /\ Edit
  /\ \E ts \in {{}, {"FiduciaLockClient"}} : repo' = [repo EXCEPT !.clients[l].types = ts]
  /\ UNCHANGED <<contract, day>>

EditSchema ==
  /\ Edit
  /\ \/ \E c \in {"edited", "missing"} : repo' = [repo EXCEPT !.copy = c]
     \/ repo.upstream = "same" /\ repo' = [repo EXCEPT !.upstream = "moved"]
  /\ UNCHANGED <<contract, day>>

Generate(l) ==
  /\ repo' = [repo EXCEPT !.clients[l] = GenerateClient(@)]
  /\ UNCHANGED <<contract, day, edits>>

GenerateDart(l) ==
  /\ repo' = [repo EXCEPT !.clients[l] = CompleteDart(@)]
  /\ UNCHANGED <<contract, day, edits>>

Derive(cmd) ==
  LET c == Build(repo, cmd, day)
  IN  /\ c # NoContract
      /\ contract' = c
      /\ repo' = Vendored(repo, cmd.interfaces)
      /\ UNCHANGED <<day, edits>>

EditContract ==
  /\ Edit
  /\ contract # NoContract
  /\ \/ \E w \in EditWaivers : contract' = [contract EXCEPT !.waivers = @ \union {w}]
     \/ \E l \in EditLangs :
          \/ \E t \in {"gate", "warn", "off"} :
               contract' = [contract EXCEPT !.languages[l].tier = t]
          \/ \E f \in {100, 101} : contract' = [contract EXCEPT !.languages[l].floor = f]
          \/ contract' = [contract EXCEPT !.languages[l].arity = TRUE]
          \/ contract' = [contract EXCEPT !.languages[l].forbidExtra = TRUE]
          \/ contract' = [contract EXCEPT !.languages[l].exclude = {"generated"}]
          \/ \E o \in DOMAIN contract.ops :
               \/ contract' = [contract EXCEPT !.ops[o].optionalIn = @ \union {l}]
               \/ contract' = [contract EXCEPT !.ops[o].aliases = @ \union {l}]
  /\ UNCHANGED <<repo, day>>

NextDay ==
  /\ day < MaxDay
  /\ day' = day + 1
  /\ UNCHANGED <<repo, contract, edits>>

Next ==
  \/ \E o \in Ops : EditManifest(o)
  \/ LoseManifest
  \/ \E l \in EditLangs : RenameType(l) \/ \E d \in EditDecls : EditClient(l, d)
  \/ EditSchema
  \/ \E l \in Generated : Generate(l)
  \/ \E l \in DartDirs : GenerateDart(l)
  \/ \E cmd \in Commands : Derive(cmd)
  \/ EditContract
  \/ NextDay

Spec == Init /\ [][Next]_vars

-----------------------------------------------------------------------------
Passes(c, r, d) == Exit(c, r, d, {}, FALSE, TRUE) = 0
Fails(c, r, d) == Exit(c, r, d, {}, FALSE, FALSE) # 0

\* Whatever state the clients are in, a contract that is derived from them passes
\* the check: gates have no error and no floor is above what was measured
\* (derive_contract.py:16-20, 555-569).
DerivedIsGreen ==
  [][edits' = edits /\ contract' # contract => ~Fails(contract', repo', day')]_vars

\* What is exported of the operations a client must export, in whatever case.
Exported(l) ==
  {o \in Required(contract, day, l) :
     \E n \in Symbols(repo.clients[l], contract.languages[l].exclude) :
       n \in CandidateSet(contract, l, o) \union {[op |-> o, spelling |-> "cased"]}}

\* Five hundredths of a percent below the floor are forgiven.
AboveFloor(l) ==
  LET n == Cardinality(Required(contract, day, l))
      floor == contract.languages[l].floor
  IN  floor # NoFloor => 2000 * Cardinality(Exported(l)) + n >= 20 * floor * n

\* Where the arity counts, the operation is exported wide enough: one spelling of
\* it is, or is never declared with a parameter list that can be read.
WideEnough(l, o) ==
  LET cfg == contract.languages[l]
      exports == {d \in Sources(repo.clients[l], cfg.exclude) :
                    d.public /\ Name(d) \in CandidateSet(contract, l, o)}
  IN  \/ exports = {}
      \/ DetectLanguage(l, repo.clients[l].census) \in NoParen
      \/ \E d \in exports :
           \/ d.arity >= contract.ops[o].required
           \/ \A e \in exports : Name(e) = Name(d) => e.arity = NoArity

\* A check that may pass means of every client whose language is known and that
\* exports anything: a gate
\* exports each operation that no waiver or optionalIn excuses, wide enough where
\* the arity counts, and no client but one that is "off" is below its recorded
\* floor (check_surface.py:224-298, 577-591).
GreenClientsConform ==
  contract # NoContract /\ Passes(contract, repo, day) =>
    \A l \in DOMAIN contract.languages :
      LET cfg == contract.languages[l]
      IN  /\ cfg.tier # "off"
          /\ DetectLanguage(l, repo.clients[l].census) # "none"
          /\ Symbols(repo.clients[l], cfg.exclude) # {}
          => /\ AboveFloor(l)
             /\ cfg.tier = "gate" =>
                  /\ Exported(l) = Required(contract, day, l)
                  /\ cfg.arity => \A o \in Exported(l) : WideEnough(l, o)

\* A check that may pass is of today: no waiver is over, in any tier, and neither
\* the source nor a vendored schema was changed behind the contract
\* (check_surface.py:176-185, 365-388, 426-433).
GreenIsCurrent ==
  contract # NoContract /\ Passes(contract, repo, day) =>
    /\ \A w \in contract.waivers : w.expires >= day
    /\ contract.source # NoSource => Current(contract, repo) \in {contract.source.content, NoSource}
    /\ contract.schemas => repo.copy = "same"

\* The guard before a publication lets only a client pass that exports every
\* required operation under an accepted spelling, whatever its tier, unless that is
\* "off" (check_surface.py:577-591).  What it exports beyond that counts only
\* where the contract forbids it.
PublishedIsComplete ==
  \A l \in EditLangs :
    /\ contract # NoContract
    /\ Exit(contract, repo, day, {l}, TRUE, TRUE) = 0
    /\ Tier(contract, l) # "off"
    => /\ l \in DOMAIN contract.languages
       /\ repo.clients[l].decls # {}
       /\ \A o \in Required(contract, day, l) :
            CandidateSet(contract, l, o)
              \intersect Symbols(repo.clients[l], contract.languages[l].exclude) # {}

\* Generated clients conform: written from the manifest that the contract was
\* derived from, they are gates at 100 percent, whatever was in them before
\* (generate.py:624-655, generate_dart.py:234-276).
GeneratedConforms ==
  LET written == [repo EXCEPT !.clients =
        [l \in DOMAIN @ |-> IF l \in Generated THEN GenerateClient(@[l])
                            ELSE IF l \in DartDirs THEN CompleteDart(@[l]) ELSE @[l]]]
      c == Build(written, [given |-> "manifest", from |-> NoLang, interfaces |-> FALSE,
                           enrich |-> FALSE], day)
  IN  "manifest" \in DOMAIN repo.sources /\ c # NoContract =>
        \A l \in Generated \union DartDirs :
          c.languages[l].tier = "gate" /\ c.languages[l].floor = 100

\* "A deletion does" trip the ratchet: as long as the contract is the one derived
\* from the clients, a client cannot lose an operation and leave the check
\* passing, whatever its tier, if it keeps another symbol.  Beyond a hundred
\* operations it can: the tolerance is then wider than one of them
\* (derive_contract.py:563-565, check_surface.py:286).
DeletionTrips ==
  [][\A l \in EditLangs :
       /\ contract' = contract
       /\ contract # NoContract
       /\ repo'.clients[l] # repo.clients[l]
       /\ repo'.clients[l].decls \subseteq repo.clients[l].decls
       /\ Absent(contract, repo'.clients[l], l, day) # Absent(contract, repo.clients[l], l, day)
       /\ DetectLanguage(l, repo'.clients[l].census) # "none"
       /\ Symbols(repo'.clients[l], {}) # {}
       /\ Cardinality(DOMAIN contract.ops) <= 100
       /\ \E cmd \in Commands : contract = Build(repo, cmd, day)
       => Exit(contract', repo', day', {}, FALSE, TRUE) = 1]_vars

\* "Dropping below that floor is an error at every tier": a client that falls
\* under its floor fails the check, whatever is left of it (contract/README.md:
\* Tiers, and the ratchet).  It does not when nothing is left
\* (check_surface.py:208-217).
FloorBindsEveryClient ==
  [][\A l \in EditLangs :
       /\ contract' = contract
       /\ contract # NoContract
       /\ Tier(contract, l) # "off"
       /\ AboveFloor(l)
       /\ ~AboveFloor(l)'
       => Exit(contract', repo', day', {}, FALSE, TRUE) # 0]_vars
=============================================================================
