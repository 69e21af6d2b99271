---------------------------- MODULE HardenSystem ----------------------------
(***************************************************************************)
(* A repository of clients over time: people edit it, the hardening runs,  *)
(* to its end or to an error or a kill after any of its writes, and        *)
(* evidence is refreshed into a candidate that somebody installs, at once  *)
(* or later.                                                               *)
(***************************************************************************)
EXTENDS HardenFleet

CONSTANTS
  InitialRepos,
  NewDirs,       \* directories that people make, with sources and metadata
  Edits,         \* [dir, kind]: the files that people edit
  Places,        \* [target, dir]: what people write into .zpkg.toml
  MaxEdits,      \* edits by people, and runs that are killed
  MaxMembers     \* declarations in a symbol of the surface

\* A repository: with each directory there is the one under clients/ that it is in,
\* with runtimes the package that they are in, and no target of the fleet is the
\* repository itself.
IsRepo(r) ==
  /\ r = [dirs |-> r.dirs, impl |-> r.impl, runtimes |-> r.runtimes, targets |-> r.targets,
          interfaces |-> r.interfaces, surface |-> r.surface, fingerprint |-> r.fingerprint,
          markers |-> r.markers, manifest |-> r.manifest, matrix |-> r.matrix]
  /\ r.dirs \subseteq Paths /\ IsFiniteSet(r.dirs)
  /\ \A d \in r.dirs : SubSeq(d, 1, 1) \in r.dirs
  /\ r.impl \in [r.dirs -> Files]
  /\ r.runtimes # {} => Typescript \in r.dirs
  /\ r.surface \in Surfaces \union {Nothing} /\ r.interfaces \in Nat
  /\ \A n \in DOMAIN r.targets \intersect TargetNames : r.targets[n] # Root

ASSUME RepositoryAssumption ==
  /\ \A r \in InitialRepos : IsRepo(r)
  /\ NewDirs \subseteq Paths
  /\ \A e \in Edits : e.kind \in {"source", "metadata", "other"}
  /\ \A t \in Places : t.target \in TargetNames => t.dir # Root

VARIABLES repo, candidate, edits

vars == <<repo, candidate, edits>>

TypeOK == IsRepo(repo)

Init ==
  /\ repo \in InitialRepos
  /\ candidate = Nothing
  /\ edits = 0

Edited(r) == edits < MaxEdits /\ edits' = edits + 1 /\ repo' = r /\ UNCHANGED candidate

\* People's versions are apart from those that a scaffold goes through.
ByHand == 10

EditFiles(e) ==
  e.dir \in repo.dirs /\ Edited([repo EXCEPT !.impl[e.dir][e.kind] = @ + ByHand])

NewFiles == [source |-> ByHand, metadata |-> ByHand, other |-> 0]
MakeDir(d) ==
  d \notin repo.dirs /\ Edited([MadeDir(repo, d) EXCEPT !.impl[d] = NewFiles])

\* No empty directory is left behind.
RemoveDir(d) ==
  LET kept == {e \in repo.dirs : ~IsPrefix(d, e)}
      dirs == {e \in kept : \E f \in kept : IsPrefix(e, f) /\ repo.impl[f] # NoFiles}
  IN  Edited([repo EXCEPT !.dirs = dirs, !.impl = [e \in dirs |-> repo.impl[e]],
                !.markers = [p \in {q \in DOMAIN @ : q[1] \in dirs} |-> @[p]],
                !.runtimes = IF Typescript \in dirs THEN @ ELSE {}])

EditTarget(t) ==
  Edited([repo EXCEPT !.targets =
    IF t.target \in DOMAIN @ /\ @[t.target] = t.dir
    THEN [n \in DOMAIN @ \ {t.target} |-> @[n]] ELSE Over([n \in {t.target} |-> t.dir], @)])

EditInterfaces == \E v \in {0, 2} : Edited([repo EXCEPT !.interfaces = v])

Member(n) == [name |-> n, id |-> NoId]
EditSurface ==
  /\ repo.surface # Nothing
  /\ \/ /\ Len(repo.surface.members) < MaxMembers
        /\ \/ Edited([repo EXCEPT !.surface.members = Append(@, Member("lock"))])
           \/ Edited([repo EXCEPT !.surface.members = <<Member("lock")>> \o @])
     \/ repo.surface.members # <<>> /\ Edited([repo EXCEPT !.surface.members = Tail(@)])
     \/ Edited([repo EXCEPT !.surface.names = @ \union {"Lease"}, !.surface.uses = {"Lease"}])
     \/ \E n \in repo.surface.names : Edited([repo EXCEPT !.surface.names = @ \ {n}])

HardenWrite == repo' = Harden(repo).repo /\ UNCHANGED <<candidate, edits>>

\* The run is killed.
HardenDies ==
  \E killed \in KilledScaffolding(repo) \union KilledWriting(repo) : Edited(killed)

\* The committed manifest is never the output, and nothing outside clients/ is read.
Refresh ==
  /\ repo.manifest # Nothing
  /\ \A e \in repo.manifest.entries : InClients(e.dir)
  /\ candidate' = Refreshed(repo)
  /\ UNCHANGED <<repo, edits>>

Install ==
  /\ candidate # Nothing
  /\ repo' = [repo EXCEPT !.manifest = candidate]
  /\ candidate' = Nothing
  /\ UNCHANGED edits

Next ==
  \/ \E e \in Edits : EditFiles(e)
  \/ \E d \in repo.dirs : RemoveDir(d)
  \/ \E d \in NewDirs : MakeDir(d)
  \/ \E t \in Places : EditTarget(t)
  \/ EditInterfaces
  \/ EditSurface
  \/ HardenWrite
  \/ HardenDies
  \/ Refresh
  \/ Install

Spec == Init /\ [][Next]_vars

-----------------------------------------------------------------------------
\* Where the directories of the targets do not depend on how often a hardening has
\* run: those that the manifest names are there, and it gives none to a runtime that
\* is not published and loses it when the manifest is written anew.
ManifestStands(r) ==
  /\ \A n \in DOMAIN r.targets : Exists(r, r.targets[n])
  /\ \A s \in Specs : ~s.publish =>
       ToSet(s.zedAliases) \intersect DOMAIN r.targets \subseteq DOMAIN Harden(r).repo.targets

\* In the five properties of one hardening its outcome is a parameter, so that it is
\* computed once.
SettledBy(first) == first.exit = 0 /\ ManifestStands(repo) => Harden(first.repo) = first

\* "Safe to run repeatedly": what a hardening that reports no error leaves is not
\* changed by the next one, so its digests stand, if the manifest stands
\* (harden_client_contract.py:4-5, 614-619, 831-837).
HardenSettles == SettledBy(Harden(repo))

\* A directory whose scaffold was begun and is not whole.
HalfWritten(r, whole) ==
  \E d \in r.dirs : r.impl[d].source \notin {0, whole.impl[d].source}

CompletedBy(once) ==
  once.exit = 0 =>
    /\ ManifestStands(repo) => \A killed \in KilledWriting(repo) : Harden(killed) = once
    /\ \A killed \in KilledScaffolding(repo) :
         Harden(killed) = once <=>
           /\ ChooseTargetDirs(killed) = ChooseTargetDirs(repo)
           /\ ~HalfWritten(killed, once.repo)

\* A hardening that is killed can be run again, and the result is that of a run that
\* was not killed.  Of a kill after the scaffolds this holds if the manifest stands:
\* what the killed run made may bring a missing directory into being (harden_client_
\* contract.py:614-619, 1537-1545).  Of one among the scaffolds it holds unless the
\* kill came between two files that count as a product, when the rest is never
\* written (876), or the directories made so far change what a row chooses: the
\* shared package's directory is an older name of every runtime (622-625).  "Safe to
\* run repeatedly" (4-5) makes no such exception.
RerunCompletes == CompletedBy(Harden(repo))

StandsIn(after) ==
  \A d \in repo.dirs :
    /\ repo.impl[d].source > 0 => after.impl[d].source = repo.impl[d].source
    /\ repo.impl[d].metadata > 0 => after.impl[d].metadata = repo.impl[d].metadata
    /\ repo.impl[d].other = after.impl[d].other
    /\ HasProduct(repo, d) => after.impl[d] = repo.impl[d]

\* "It never replaces existing product implementation files", nor adds a scaffold
\* beside those that it sees: in nothing ignored, and with a listed suffix
\* (harden_client_contract.py:5-6, 727-735, 878-879).
HandWorkStands == StandsIn(Harden(repo).repo)

\* Where the two verifiers look at the same things: a package that runtimes share has
\* something in evidence and no marker of its own, no target is outside clients/, and
\* no two extensions are called the same.
SharedStands(r) ==
  LET chosen == ChooseTargetDirs(r)
      extensions == ExtensionDirs(Harden(r).repo, chosen)
  IN  /\ \A s \in Specs :
           /\ InClients(chosen[s.name])
           /\ s.runtime # NoRuntime /\ chosen[s.name] = Typescript
                => Evidence(r, Typescript) # <<>> /\ <<Typescript, NoRuntime>> \notin DOMAIN r.markers
      /\ \A d, e \in extensions : kebab(d[1]) = kebab(e[1]) => d = e

VerifiedBy(h) == h.exit = 0 /\ SharedStands(repo) => VerifiesContract(h.repo)

\* What the hardening finds no error in passes verify_client_contract.py too, but for
\* what SharedStands excludes, where the first verifier looks at less
\* (harden_client_contract.py:1181, 1289, 1370, 1411, verify_client_contract.py:126-133,
\* 227-230, 234-235).
HardenedVerifies == VerifiedBy(Harden(repo))

\* What VerifiesContract attests: the sources of listed suffixes and the metadata of
\* a client are as they were when its evidence was taken, and its marker is of the
\* surface as it now is.  Not attested are sources of any other suffix, what is in
\* ignored directories, what is outside clients/, and what is beside the directories
\* that are declared inside of a client's (verify_client_contract.py:29-92, 136-155,
\* 271-281); "any client language" (2) makes no such exception.
SourcesAttested ==
  VerifiesContract(repo) =>
    \A d \in repo.dirs :
      LET files == <<repo.impl[d].source, repo.impl[d].metadata>>
      IN  \/ files = <<0, 0>> \/ ~InClients(d) \/ ~Seen(SubSeq(d, 1, 1), d)
          \/ \E e \in repo.manifest.entries : e.dir[1] = d[1] /\ Len(e.dir) > 1
          \/ \E e \in repo.manifest.entries :
               /\ IsPrefix(e.dir, d) /\ d \in DOMAIN e.evidence
               /\ e.evidence[d] = files
               /\ \E p \in DOMAIN repo.markers :
                    p[1] = e.dir /\ repo.markers[p].surface = repo.surface

Unshared(r, required) ==
  \A n \in DOMAIN required, m \in DOMAIN r.targets : r.targets[m] = required[n] => m = n
StaysValidIn(after) ==
  /\ MatrixValid(repo) /\ Unshared(repo, RequiredTargets) => MatrixValid(after)
  /\ PackageValid(repo) /\ Unshared(repo, RequiredPackages) => PackageValid(after)

\* A package that passes the package checks still does once it is hardened, even if
\* the hardening writes its manifest anew; unless its manifest gives the directory
\* of a required target to another one as well, which the checks let pass
\* (harden_client_contract.py:651-667, 779-866).
PackageStaysValid == StaysValidIn(Harden(repo).repo)
=============================================================================
