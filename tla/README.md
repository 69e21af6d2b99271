# Verification of the Fiducia clients

This directory holds TLA+ specifications of the client side of Fiducia, a
coordination service (locks, semaphores, key-value, service discovery) whose
nodes live in another repository. The specifications are translated from the
source in `src/`; `PROJECT.json` names, for every definition that models code,
the lines it stands for.

## 1. The system

| Component | Where | State it keeps | Operations |
|---|---|---|---|
| High-level locking | `clients/python/locking.py` (also `clients/ts/locking.ts`, `clients/go/locking.go`, `clients/rust/src/locking.rs`) | per attempt: holder, request id, token, retries, deadline; per `Lock`: token, lease | `try_lock`, `lock`, `with_lock`, `_acquire_lock`, `_cancel_lock_wait`, `Lock.renew/release` and the same for semaphores |
| Transport | `clients/python/fiducia.py` `_request`, `_request_once`, `_retryable` (template `templates/python.py.tmpl`) | retries of the call in progress | send, repeat, raise |
| Watch stream | `fiducia.py` `_watch`, `_decode_sse_event` and its TypeScript counterpart | the event being assembled | line by line decoding of server-sent events |
| Service discovery replica | `clients/ts/service-discovery.ts` | instances, `synchronized`, `needsResync`, two revisions | `applyServiceDiscoveryEvent` over snapshots, hints, `unavailable` |
| Sync transport, Claritas views, secrets | `clients/ts/fiducia.ts`, `claritas.ts`, `sync-compatibility.ts` | none of their own | request shaping, projections |
| Command line | `clients/python/cli.py`, `clients/shell/fiducia.sh` | none | one call per invocation |
| Thin clients in about 30 languages | `clients/*` | none | one function per endpoint |
| Generators | `generate.py`, `generate_dart.py`, `templates/`, `rpc/generator` | files | render `operations.json` into clients, or check them |
| Contract tools | `contract/bin/*.py` | the surface contract | derive, check a client against it, vendored schema validator |
| Maintenance scripts | `scripts/*.py`, `scripts/*.sh`, `.just/dotenv.py` | files | harden, verify and refresh manifests, boundaries, matrices, publish |

**Interaction.** A caller's thread runs `_acquire_lock`. Each remote call goes
through `_request`, which may repeat it; a call ends with an answer, an error
status or an exception. The node never holds a request open: an acquire with
`wait` reserves a queue slot and returns, and the client repeats its acquire
under one request id until it holds the lock, gives up or fails. Whatever it
leaves it first cancels by that request id, and a grant that the cancel meets it
releases by its token. A lease and a queue slot both run out by themselves.

**Hard behaviours.**
An acquire whose answer was lost may commit at any later time, also after the
cancel that should undo it, and also after the caller was told that nothing
happened. A promotion may race the cancel. A retry may find a grant that a
promotion made long ago and whose lease is nearly over. Attempts with the same
caller-supplied holder share one grant. Each call can fail alone, including
the cancel and the release that follow another failure. A process can die
between any two steps. The discovery replica sees hints and snapshots late,
twice, or not at all. The text of a watch stream arrives in
pieces that are cut anywhere. The contract of a client is measured once and
compared again after any edits of sources, manifests, waivers and clients, on another day. The
hardening writes scaffold after scaffold and then six more files or groups of files,
and can stop between any two; what it finds when it runs again may no longer be what it found at first.

**What makes each component correct.**
- *Locking*: tokens order the authority of locks on a common key; a generated
  holder excludes everybody else; timeout, `None` and a re-raised exception
  leave nothing behind at the node; the lease of a returned lock was started or renewed by its own attempt;
  every wait ends; what could not be cleaned up heals.
- *Transport*: what is repeated is what cannot take effect twice.
- *Watch stream*: the events delivered are the events sent, whatever the chunks.
- *Discovery*: a replica that says it is synchronized shows a membership that
  the registry had, no older than any event it has accepted.
- *Semaphores*: no more handles work than the limit each of them asked for, and an
  attempt that meets another limit leaves nothing behind.
- *Generators, contract tools*: a derived contract passes its check and catches the
  loss of an operation; a check that passes means that the clients conform and
  that the contract is of today.
- *Scripts*: hardening again changes nothing, and completes what a kill has left; work that is
  there is left alone; what is hardened passes every verifier; what verifies has not drifted.

## 2. Modules

| Module | Models | Role |
|---|---|---|
| `LockNode` | external: the node's lock table | grants, FIFO queue, tombstones, tokens, one action per committed command |
| `LockClient` | `locking.py` (locks), the retry of `not_leader` in `fiducia.py` | one action per step of `_acquire_lock`, `_cancel_lock_wait`, `Lock` between two remote calls |
| `LockSystem` | composition | requests served late or never, refusals, garbled answers, expiry; `Next`, fairness and the properties |
| `LockInvariants` | | the inductive invariants of `LockFencing` and `LockSafety`, in named parts |
| `LockFencing` | | what one command does to the node, as lemmas; theorems `Typing`, `Knowledge`, `Fencing`, `Exclusion` |
| `LockSafety` | | theorems `Safety`, `TimeoutIsSafe`, `AbortIsSafe`, `LockIsAll`, `LeaseIsOwn`, `LostByExpiry` |
| `MCLockSystem` | | small instances: symmetry and a state constraint |
| `SemaphoreSystem` | `locking.py` (semaphores); external: the permits of one key at the node | the lock client with `limit_mismatch`, against a node that counts |
| `SemaphoreInvariants` | | the inductive invariant of `SemaphoreSystem`, in named parts |
| `SemaphoreProofs` | | theorems `Counting`, `WithinLimit`, `PermitSafety`, `PermitTimeoutIsSafe`, `PermitAbortIsSafe` |
| `MCSemaphores` | | small instance: symmetry and the constraint `Counting` |
| `Transport` | `_request` in `fiducia.py`; external: edge, ledger, node | one call and its retries, and the properties |
| `OneEffect` | | abstract: what the caller of a protected mutation is promised |
| `TransportProofs` | | theorems `TransportTyping`, `OneWayThrough`, `AtMostOnce` |
| `ServiceDiscovery` | `service-discovery.ts` | the reducer: one action per kind of result |
| `DiscoverySystem` | the reducer's consumer; external: registry and watch stream | composition, fairness and properties |
| `DiscoveryView` | | abstract: what a consumer of discovery is promised |
| `DiscoveryInvariants` | | the inductive invariant of `DiscoverySystem`, in named parts |
| `DiscoveryProofs` | | theorems `DiscoveryTyping`, `StreamOrder`, `Coverage`, `Refinement` |
| `WatchStream` | `_watch`, `_decode_sse_event` in `fiducia.py`; `watch`, `parseSseBlock` in `fiducia.ts`; external: server and network | both decoders on one text |
| `WatchInvariants` | | the inductive invariant of `WatchStream`: a third decoder, that takes the text token by token, and where the two readers are in it |
| `WatchProofs` | | theorems `WatchInductive`, `EventsComeAsSent`, `NothingWaits`, `ClientsMakeTheSame`, `CrLfIsOneEvent` |
| `MCWatchStream` | | the blocks a server sends |
| `SurfaceExtract` | `contract/bin/extract.py` | what is read of a client: names, spellings, arities |
| `SurfaceCheck` | `contract/bin/check_surface.py` | findings, tiers, waivers, drift, exit code, as operators |
| `SurfaceDerive` | `contract/bin/derive_contract.py` | sources, reference client, enrichment, measured floors, as operators |
| `SurfaceSystem` | composition; `generate.py`, `generate_dart.py` | a repository that is edited, generated, derived and checked; the properties |
| `SurfaceProofs` | | theorems `SurfaceTyping`, `GreenIsOfToday`, `PublicationIsComplete`, `GreenConforms`, `DerivationIsGreen`, `RatchetHolds`, `GenerationConforms` |
| `MCSurface` | | three clients, their sources and the edits of them |
| `HardenFleet` | `scripts/harden_client_contract.py`, `verify_client_contract.py`, `refresh_client_contract_manifest.py`, `check-required-client-matrix.py`, `check-package-contract.py` | what is written and verified, as operators |
| `HardenSystem` | composition | a repository that is edited, hardened, killed, refreshed; the properties |
| `HardenProofs` | | theorems `HardenTyping`, `HardenedStays`, `KilledRunsComplete`, `BothVerifiersAgree`, `HandWork`, `Attested`, `PackageStays` |
| `MCHarden` | | four targets in three kinds of repository |

### How state and actions correspond to the code

`pc[a]` is the place attempt `a` has reached: one location per remote call it can be
waiting in (`acquire` is locking.py:169, `renewReacquired` 185, `retry` 213,
`renewFound` 224, `cancel` 244, `releaseRaced` 247, `renewing` 52, `releasing`
63), `loop` between two turns of the `while` at 206, `held` while the caller has
the `Lock`, `lost` after `renew` raised, and the ends: `none` (`try_lock`
returned `None`), `timeout` (`LockTimeout`), `aborted` (an exception was
re-raised after a successful cancel), `unsafe` (an exception that tells the
caller the library could not establish safety), `released`, `crashed`.
An attempt identifies itself with its `request_id`, fresh for each attempt, so
attempts stand for request ids as well.
`call[a]` holds its arguments; `token[a]` the fencing token it knows;
`retries[a]` is the local `attempts`; `after[a]` what the code does behind the
cancel: return `None` and raise `LockTimeout`, or re-raise. `net` holds the
requests that are under way, `reply[a]` the answer to the call in progress.

A remote call is split in three steps, because the node and the other attempts
run between them: the client sends (`Send`), the node serves (a `Serve...`
action), the client takes the answer (the action named after what it does with
it). `Raises(a, w)` is always possible while a call is under way: a connection
error, a timeout, an error status, an undecodable answer. The request then stays
in `net`, no longer awaited, and may be served later, or never.

`Abort` is the one step that only the TypeScript locker has (`Abortable`): its
`signal` ends a sleep of the wait loop, never a call, and the `finally` clause then cancels
(locking.ts:244-252, 281; 453-460 for semaphores).

### The node

The node is not in this repository. `LockNode` is read off what
`locking.py` relies on, the request and response contracts in
`contract/schemas/locks.schema.json`, and `PROTOCOL.md`. Where they leave a choice it
is a constant that the runs vary and the proofs leave open:
`CancelByHolder` (is a cancel told of any live grant of the holder and key set, or
only of the one its own request got), `TombstoneOnRace` (does a cancel that meets
a grant also record the request id), `TombCapacity` (the bounded table of
cancelled request ids, whose overflow is `cancellation_capacity`). Assumed: one
command is atomic; the queue is strictly first in, first out on overlapping key
sets; fencing tokens grow; a tombstone is not evicted while requests of its
attempt are under way. `started` is history that no command reads: for each token, the attempts whose
commands started its lease, by an acquire that granted it at once, or started it anew, by a renewal. A promotion
starts a lease by somebody else's command, and an acquire that finds its holder's grant starts none.

### Transport

`Transport` is one action per exit of the loop in `_request`: `Start` sends the first
attempt, `Return` hands on an answer, `Retry` sends the next attempt after an exception that
`_retryable` lets pass, `Raise` ends the call with the exception. `attempt[c]` is the
loop's counter. The exceptions are classed by what `_retryable` looks at:
`notLeader` (503 with the mark), `ambiguous` (the statuses it lists), `rejected` (other
statuses), `timeout` (`TimeoutError`, `URLError`), `broken` (anything else).

External, after `PROTOCOL.md` ("Idempotency keys", "Errors"): the node applies a
request, refuses it before applying, or rejects it; the edge admits a key once, answers a copy
from its ledger, 409 while the first is running, and may give up on a request
that goes on (502, 504). Without the edge a key has no effect. Whether the ledger replays a
`not_leader` or forgets it is open (`KeepsRefusals`). Assumed: an entry outlives the
call, and different calls have different keys.

`OneEffect` is what the caller of a protected mutation is promised (`OnceSpec`). Protected
are mutations with a key at the edge and keyless `POST`s.

### Service discovery

`ServiceDiscovery` holds the five fields of the replica that change and the four
results of `applyServiceDiscoveryEvent`: `RequireResync`, `Ignored`,
`ApplySnapshot`, `ApplyHint`, each guarded by the conditions of the early returns
that lead to it. An event is a record of what those conditions look at; an
absent number is 0, one that does not parse is `Bad`, and a membership is named
by the revision that made it. `service` is a constant of the replica and left
out.

`DiscoverySystem` feeds it. The registry and its stream are external, and follow
what the reducer's comments and `PROTOCOL.md` say of them: a change is broadcast as a hint
when it commits, and followed by a snapshot under its revision that is read at
some later time, so that hints of later changes may overtake it on the stream; snapshots are
read and sent one at a time. A subscriber that is too slow for the broadcast
loses events, and is then, as after a lease that ran out and at the start of
every stream, sent a snapshot without a revision, read when it is sent. An earlier
change may be broadcast late or once more (`Rebroadcast`), as a hint that is again followed by a
snapshot. Events may be repeated on delivery, damaged in each field, meant for another service or scope, or report that
the service is unavailable; the connection may break, and the consumer reconnects when the
replica asks for a resynchronization after one of its events (`asked`). Assumed: a
snapshot without a revision is not delivered behind hints that were broadcast after it was
read, other than as an immediate repetition, because the reducer has nothing to tell it by.

The replica implements `DiscoveryView` (`ViewSpec`), where a view moves forward
only and is fresh only while it covers every change it was told of.

### Semaphores

`_acquire_semaphore` and `_cancel_semaphore_wait` make the calls of the lock client in
the same order, so `SemaphoreSystem` uses its actions and adds the two exits of
`limit_mismatch`: `FirstMismatch` raises at once, since the call is in front of the `try`, and
`RetryMismatch` goes through the cancel of the `finally` clause. `asked[a]` is the `limit`
argument. The node is again external: it keeps the limit of the first request (`limit`),
refuses others while anything is left of it, and may forget an idle semaphore. Waiters are promoted
in the order of the queue, as many as there are free permits. A node that counts does not tell two permits
of one holder apart but by their tokens; `HandlesWithinLimit` is about workers that gave no holder of their own.

### Watch stream

`sent` is what the server wrote, `arrived` how much of its text the network has
shown. A line is the token of its field and the tokens of its value; CR and LF are tokens,
so that a chunk can end between any two of them. `py` and `ts` are the two readers: how far
they have read, the event or the buffer they keep, and what they yielded. `PyLine` is one turn of the
loop over the response's lines, `PyEnd` the yield behind the loop; `TsRead` is one `reader.read()`
with a chunk of any size, `TsBlock` one turn of the inner loop, `TsEnd` what
follows `done`. A stream may close or break anywhere, and the timer of the TypeScript client may end a
watch that is alive (`TsRaise`). A value is made of
`Characters`, which are neither CR nor LF, and no block is empty (`BlocksAssumption`).

### Contract tools

A client is the declarations that can be found in it: an operation, how its name is
spelled (`styled` in an accepted rendering, `cased` otherwise, `prefixed` with the product's name, `odd`), its
number of parameters, whether it is public, and which kind of file it is in. The
regular expressions that find them are left out. A prefixed or an odd name is the styled name of
another operation (`Behind`, `Other`), for which a derivation from that client takes it; it stands for this one only where the
contract has the prefix or the alias. A contract is the
operations, the waivers and, for each client, tier, floor and options. `Exit` is
`check_surface.py` on some day, from the findings of each client (`CheckLanguage`), of waivers and drift.
Of several spellings of one operation Python's set order picks the one whose arity counts: the last argument of `Exit`
is the luckiest or the unluckiest pick, so that a check "may pass" (`Passes`) or "may fail" (`Fails`). `Build` is `derive_contract.py`, measured with the
operators of the check, as in the code. `SurfaceSystem` lets people edit the manifest,
the schemas, the clients and the contract, and runs the generators and `Derive` in between; `GenerateClient`
says which operations the generated file has.

### Hardening

A directory is a path, under clients/ unless its first name is in `Beside`, and has three version numbers: of its
sources with a listed suffix, of its export metadata, and of sources with any other suffix. A digest is the value
it digests. What a walk looks at is `Seen`, which stops at ignored names; `Evidence` is of listed sources and metadata,
`HasProduct` of listed sources alone. `Writes` lists the writes, and `HardenSteps` is what each write of `harden_client_contract.py --write` leaves on the disk, in their
order and up to an error. The first of them goes through the rows of the fleet: it makes the directory (`MadeDir`) and, unless a product is there, writes
the scaffold file by file (`Begin`), metadata first as the code does. `ChooseTargetDirs`, which lets row after row claim a directory (`Claimed`), is computed before the first write and
again by `Verifies`, from the manifest that was written in between. `HardenDies` stops after any directory or file of the
scaffolds (`KilledScaffolding`), between two later writes, or among the markers (`KilledWriting`).
`VerifiesContract` is the independent verifier, with its own rule for the
place of a marker, for equal target names and for directories outside clients/; `kebab` may call two extensions the same.
`MatrixValid` and `PackageValid` are the two package checks, each with its own table. `Refresh` writes a candidate manifest that someone installs
at a later time.

## 3. What the runs check

The constants are sized so that every action fires; `PROJECT.json` lists a
mutant of the code for each property, and the property fails on it.

| Run | Instance | Question |
|---|---|---|
| `lock_shared` | 2 attempts that may share a caller-supplied holder, 1 key, 1 tombstone, answers may lose their token, waits may be aborted | types, `FencingOrder`, `GeneratedHoldersExclude`, `SafeTimeout`, `SafeAbort`, `OwnLease`, `NothingBesideTheLock`, `LostOnlyByExpiry` |
| `lock_union` | 2 attempts, 2 keys: overlapping and disjoint unions; the node does not record a cancel that met a grant; 1 transport retry | `FencingInv` and `SafetyInv`, the invariants of the proofs (which imply `FencingOrder` and `SafeTimeout`; neither needs such a record) |
| `lock_liveness` | 2 attempts, fairness | `EveryWaitEnds`, `AbandonedStateHeals` |
| `semaphore` | 3 attempts, limits 1 and 2, nobody crashing or abandoning a request | `HandlesWithinLimit`, `SafeAbort`, and `PermitSafetyInv`, the invariant of the proofs (which implies `SafeTimeout`), with promotions of several waiters |
| `transport` | 1 call, 3 retries, the edge, fairness | types, `OnceSpec`, `EveryCallEnds`, and `TransportInv`, the invariant of the proofs |
| `discovery` | 3 revisions, 2 events in the broadcast, 2 faults, fairness | `SyncedCoversObserved`, `ViewSpec`, `Converges`, and `DiscoveryInv`, the invariant of the proofs, with the types |
| `watch` | 2 of 5 blocks, LF and CR LF, every cut, every end | `EventsAsSent`, `Prompt`, `ClientsAgree`, `CrLfComesAsOne`, and `WatchInv`, the invariant of the proofs |
| `surface` | 3 clients, 2 edits, 2 days, 5 command lines | `GreenClientsConform`, `GreenIsCurrent`, `PublishedIsComplete`, `GeneratedConforms`, `DerivedIsGreen`, `DeletionTrips` |
| `harden` | 4 targets, 3 repositories, 2 edits | `HardenSettles`, `RerunCompletes`, `HandWorkStands`, `HardenedVerifies`, `SourcesAttested`, `PackageStaysValid` |
| `discovery_resync`, `transport_replay`, `surface_empty` | | three sentences of the documentation and tests that the code does not do, see section 6 |

**Bounds.** Two attempts are enough for each pairwise property of locks; semaphores have a third, so that
two permits can be out while one waits, and two waiters can be promoted at once. Tokens, tickets and
`retries` need no bound: attempts send finitely many requests. `MaxWait = 2` intervals
give the wait loop two turns, so that a retry can find a promotion, and a second
retry can follow one that did not. `Counting` only prunes `semaphore`:
crashes and abandoned requests are those of `lock_shared`, whose client is the same, and of several attempts that ask for a
limit of one, which is what a lock is, one is kept. `SYMMETRY` permutes attempts in
runs without liveness. In `transport` one call is enough: calls share only the
value they write, which no guard reads; three retries give two attempts that
nobody waits for any more beside the one that is awaited and one that was refused. In `discovery` a snapshot of the first change can be overtaken by the hints of two later
ones, of which one may be lost or late, and a fault can fall on two of the events: three revisions and two faults
do that; with two places in the broadcast the third change pushes one out. The proofs cover the rest.
In `watch` the first block may leave something to the second, and nothing outlives two
(`NoEvent` and the empty buffer are the same after each block; the proofs have any number of any blocks); the five blocks have two data lines, a name, an id, empty data, no data, and
a comment. In `surface` a regression takes one edit of a client, and hiding it one of the contract or of
another client; a waiver is over on the second day (`DayMatters` leaves the day alone until there is one). In `harden` two edits are enough to
take a directory away and name another, or to be killed and then edited, as a kill counts as one; the three repositories are one like this, one with a shared TypeScript package and a target beside clients/, and an empty one, where every scaffold is
written; there are two names that `kebab` makes one, an ignored directory, and a client without listed sources. The four
targets have the four ways in which a directory is chosen, and scaffolds of one to three files.
`CHECK_DEADLOCK FALSE` everywhere: a system whose
attempts have all ended and whose leases have all expired stops, and so does a
registry that has used up its revisions.

**Fairness** (`Fairness` in `LockSystem`). Weak fairness of a client's steps: `_request_once` passes a
timeout to every call, so a call ends even if nobody answers, and the loop sleeps a
bounded time. Weak fairness of expiry: leases and queue slots carry a TTL. None of
serving: a request or its answer may be lost for ever. None of `Start`, `Renew`,
`Release` or `Crash`: the caller decides.

For the transport (`Fairness` in `Transport`): weak fairness of the caller's thread, as every
attempt has a timeout. None of the node or the edge.

For discovery (`Fairness` in `DiscoverySystem`): weak fairness of the consumer, which reads on,
connects while it is not connected and reconnects when asked to, and of the server's
sending what it owes. None of changes and faults; both are finite in number, so
`Converges` says what happens once they rest.

**What the checks show.** `SafeTimeout` and `SafeAbort` hold because the request
id is cancelled for good before the caller hears of the end. `SafeAbort` needs `TombstoneOnRace`: without
it an acquire that is still under way commits after the raced grant was released. `OwnLease`
relates the place of an attempt to what the node did for it: on the way into a `Lock` over a grant that was found there must have
been a renewal that the node served for this very token and attempt; without it (its mutant) a promotion of long ago, or another attempt's acquire, is what started the lease. How much of
a lease is left when its `Lock` is used is not said: the node may expire it at any time, and `FencingOrder` is about that. `OnceSpec` holds because a keyless `POST` is only sent again after a refusal, so that
nothing of it can be under way, and because each attempt carries the key. It also
shows its limits: a call with a key can raise `not_leader` for its last attempt while an earlier one may
still be applied (`Outcome` is then a failure, not a refusal), and its copy can be
answered 409 while the first is running, which `_retryable` does not repeat. `SyncedCoversObserved` and `ViewSpec` hold
because a snapshot under a revision is refused behind a newer hint, and because one
without a revision can be trusted to have been read when it was sent: the stream keeps the order of hints and
such snapshots. `Converges` needs `needsResync` exactly where an event could not be used.

`HandlesWithinLimit` does not rest on the client's count but on the refusal of a second limit: a worker that
asked for one permit is never beside another. `EventsAsSent` says that only a stream that *closes* within an
event yields a part of it; `CrLfComesAsOne` is the price of the TypeScript boundary: with CR LF, which the decoder of a block
accepts, a live stream yields nothing. `DerivedIsGreen` and `DeletionTrips` hold because the floor is rounded down and the check tolerates
less than one operation; the latter up to 100 operations (section 6). `GreenIsCurrent` needs that a waiver
is looked at also where its client is not. `HardenSettles` and `RerunCompletes` need that the directories which were chosen from the manifest as it was
are chosen from the one that was written as well. That is so if the manifest names no directory that does not exist,
and gives none to a runtime that is not published and leaves the manifest with its next rewriting (`ManifestStands`; in the instance of the run
the second part is never what a repository fails on). For a kill after the scaffolds a rerun then
completes the run; for one among them `RerunCompletes` says exactly when: unless the directories that are there by then change a choice, or a scaffold is half
written with a file that counts as a product. `HardenedVerifies` excepts
what the two verifiers read differently (`SharedStands`), `SourcesAttested` what is in no evidence, and `PackageStaysValid` a required directory that is given
to a second target (section 6 has a repository for each exception). `PublishedIsComplete` is about what must be there, not about
what else is: see section 6.

## 4. What is proved

### Locks

TLAPS proves, for all values of the constants that satisfy `NodeAssumption`
and `ClientAssumption`, any set of attempts, callers and keys:

- `Typing`: `Spec => []TypeOK`.
- `Knowledge`: `Spec => []FencingInv`, the inductive invariant.
- `Fencing`: `Spec => []FencingOrder`.
- `Exclusion`: `Spec => []GeneratedHoldersExclude`.

`FencingOrder` is not inductive: it speaks of attempts that hold a `Lock`,
while a token reaches an attempt with an answer, long before. The invariant
therefore speaks of every token an attempt has `Heard` of, in `token` or `reply`:
it was issued, and if its grant is live it is a grant of the attempt's own
holder and key set (`KnownIssued`); attempts that heard of the same token agree on
both (`KnownShared`); no live grant on one of the attempt's keys is older than
the token (`KnownLatest`). `NodeInv` says that live grants have different tokens
below `nextToken` and no common key. `KnownLatest` is the core: it survives because a
new grant gets a token that is at least `nextToken`, and a token newly heard
belongs to a live grant, which conflicts with every other grant on its keys. Of
two locks on a common key the one with the smaller token cannot be live: its
grant would be older than a token that the other one has heard of.

The proof goes by what a step may do rather than by action: `CommandEffect`
(any command from any part of the grants and any queue keeps the
node's invariant and numbers new grants from `nextToken`), `SendStep` and `MoveStep` for the two
forms of a client's step, `TellsEffect` for answers, then one case per action.

What an attempt leaves behind is a second invariant, `SafetyInv`, and gives:

- `Safety`: `Spec => []SafetyInv`.
- `TimeoutIsSafe`: `Spec => []SafeTimeout`.
- `AbortIsSafe`: `TombstoneOnRace` implies `Spec => []SafeAbort`. Without it the
  property is false, see section 3.
- `LockIsAll`: `Spec => []NothingBesideTheLock`.
- `LeaseIsOwn`: `Spec => []OwnLease`.
- `LostByExpiry`: `Spec => LostOnlyByExpiry`.

`LeaseIsOwn` has an invariant of its own beside `SafetyInv`: an answer that grants, or that renews, tells of a lease that this
attempt's command has started (`LeaseKnown`). It is carried from the node's step (`LeaseServed`), where an acquire that
is granted at once and a renewal are the only commands that record one, through the answer on its way to the place `held`; an attempt can be told only
of its own commands because it awaits one request at most.

`SafeTimeout` says that nothing is kept for an attempt that ended. That can only be carried back through the
cancel if one knows of each place of `_acquire_lock` what the node may keep for the attempt there, and which of its
requests are still under way: `AttemptInv(a)`. It awaits one request at most, the one that belongs to its place
(`AwaitsOne`). Nobody else's acquires remain but those an exception left behind, and releases are sent only by those who do
not work under the `Lock` any more (`LeavesBehind`). Before the first grant nothing is kept (`BeforeTheGrant`); from the answer that
grants it on there is that grant and no other (`UnderTheGrant`); after a cancel there is at most the grant
that it met, and no acquire that could still commit: it was either served or is stopped by the tombstone
(`AfterTheCancel`). The clauses about an attempt that ended by an exception hold only where the cancel is recorded
also when it met a grant, since the acquire that raised may still be under way.
The proof has one lemma per step of the client (`FirstKeeps`, `LoopKeeps`, `CancelKeeps`, ...) and one per command of
the node (`ReacquireServed`, `ArrivalServed`, `ReleaseServed`, `CancelServed`), and `OthersKept` for the attempts that a
step does not touch. `OwnEntries`, that the node keeps things for the holder and the keys of the attempt that asked,
links both sides. `LostByExpiry` adds `Exclusion`: a release names a token, and the token of a
generated holder's grant is known to its own attempt only.

### Semaphores

For every set of limits that satisfies `LimitsAssumption`:

- `Counting`: `SemSpec => [](SemTypeOK /\ CountInv /\ OwnArguments)`.
- `WithinLimit`: `SemSpec => []HandlesWithinLimit`.
- `PermitSafety`, `PermitTimeoutIsSafe`, `PermitAbortIsSafe`: `SemSpec => []PermitSafetyInv`, `[]SafeTimeout` and, under
  `TombstoneOnRace`, `[]SafeAbort`, where nobody brings a holder of his own (`Callers = {}`).

`CountInv` says that there is at most one entry per attempt, permit or place in the queue, all under one limit, and not more permits than it.
The one step that could break the count is a promotion of several waiters: the promoted ones are those whose
rank in the queue is below the number of free permits, ranks are different, so they are no more than that
(`PromotedFit`). `HandlesWithinLimit` maps each working handle to its permit; the map is
injective since tokens are. With holders that callers share, two permits of one holder look alike to a
cancel, and what is kept for an attempt may be what the other one asked for: hence `Callers = {}` for what is said of
a single attempt's remains. The count needs no such assumption.

### Contract tools

For all repositories, edits and command lines that satisfy `RepoAssumption`, `EditAssumption` and `ToolAssumption`: any set
of clients, operations, declarations and waivers, as long as what a client declares and a source lists is finite.

- `SurfaceTyping`: `Spec => []TypeOK`.
- `GreenIsOfToday`: `Spec => []GreenIsCurrent`; `PublicationIsComplete`: `Spec => []PublishedIsComplete`.
- `GreenConforms`: `Spec => []GreenClientsConform`.
- `DerivationIsGreen`: `Spec => DerivedIsGreen`; `RatchetHolds`: `Spec => DeletionTrips`.
- `GenerationConforms`: `Spec => []GeneratedConforms`.

The first three say what the absence of fatal findings means; `TypeOK` is the invariant they need, since the widest arity and the floor are
only defined of finite sets of numbers (`MaxIsGreatest`). The last three are about what `build` measures. `DerivedClient` gives, for each client,
the number `e` of its operations that were absent: the tier is `gate` exactly if `e = 0`, and the floor is `FloorOf(e, n)`. A count of findings is a count of
operations (`ErrorsAreCounted`), because before the measurement nothing else is an error (`DraftErrors`).
The rest is the arithmetic of the ratchet. The floor `f` satisfies `20 f n <= 2000 (n - e) + n`, so the same `e` never trips
(`FloorHolds`), and `2000 (n - e) < 20 f n + 19 n`, so `e + 1` trips as long as `20 n <= 2000` (`OneMoreTrips`): a hundred operations.
`HundredIsSharp` is the first case beyond it that does not trip. A deletion takes symbols away, so what was absent stays absent
(`LackIsKept`), and the counts differ if the sets do. A generated client contains a declaration in the plain spelling for each operation of
the manifest, which is acceptable in every language and behind every prefix (`StyledIsFine`), so `e = 0`.

### Hardening

For every fleet, every table of required targets and all repositories that satisfy `FleetAssumption`, `RowsAssumption`,
`SurfaceAssumption`, `RequiredAssumption` and `RepositoryAssumption`. All but the last hold of the fleet and the tables in the code:
`RowsAssumption` says that no row's place is another's or the directory that it is in, that a row has one older name at
most, and that two rows publish different targets; `SurfaceAssumption` only that the names in a surface are strings.

- `HardenTyping`: `Spec => []TypeOK`.
- `HardenedStays`: `Spec => []HardenSettles`.
- `KilledRunsComplete`: `Spec => []RerunCompletes`.
- `BothVerifiersAgree`: `Spec => []HardenedVerifies`.
- `HandWork`: `Spec => []HandWorkStands`.
- `Attested`: `Spec => []SourcesAttested`.
- `PackageStays`: `Spec => []PackageStaysValid`.

`TypeOK` is inductive and what the others rest on: with each directory there is the one under clients/ that it is in, through
edits, removals, every write and every kill, and no target of the fleet is the repository itself (`IsRepo`). That
needs to know that what a run chooses are paths. `ChooseTargetDirs` is a recursion over the rows of the fleet, and the
proofs take its least counterexample (`RowsExist`, `RowsArePaths`). Likewise
`HardenSteps` is the beginning of the eight repositories of a complete run (`StepsArePrefixes`, `StepByStep`).
`HandWork` follows the files through the scaffolds, which only add to what is there (`GrownGrows`), where nothing is. `Attested` starts from a
directory with files, whose ancestor some entry of the manifest must be in; it either is that ancestor, and its evidence
has what is below and not ignored, or lies deeper, which is the exception. For `PackageStays`, a required target that is in its place is the first
choice of its row (`OwnChoice`), no other row prefers that directory (`OthersChoice`), hence no earlier
row has claimed it (`RequiredIsChosen`), and it is written into the manifest again (`ManifestKeepsRequired`). `RequiredAssumption` says what this needs of the two
tables: neither the name nor the directory of a required target is another row's.
That no target of the fleet is given the repository itself is an assumption on what people write (`Places`).

`HardenedStays` and `KilledRunsComplete` are one lemma, `RunAgain`: a run over what another one has begun (`Begun`), at whichever of its
writes, ends as that one would have (`Finished`). What it starts from has the scaffolds, and each of manifest, surface and
markers as they were or as they are written. The crux is that it chooses the same directories (`SameChoice`). It goes through the rows:
the same rows before have claimed the same directories, and this row prefers what it preferred, or else what it was given (`ChoiceAgain`), and in
both cases `Claimed` gives it the same place. A row prefers something else only if
a name of it has gone from the manifest or a place of it has come into being, which the scaffolds of the others could only do to
directories that contain theirs (`ScaffoldParts`, `OwnPlace`, `ElsewhereAgain`). Each write then repeats itself: a row whose directory holds
what it wrote changes nothing (`MadeOnce`, `RowHasProduct`, `RowsAreDone`, `ScaffoldOnce`), the rewritten manifest is rewritten to itself (`TargetedTwice`), and a merged
surface has nothing left to merge (`HardenedIsSurface`).

For a kill among the scaffolds the argument is another, since the manifest is still the old one: if the rerun chooses the same directories, the rows
before the killed one are done, the killed row goes on from the files that are there (`BeginAgain`, `StageResumes`), and the rows behind it have the same work before them
(`SameTail`, `ScaffoldingResumes`), so that both runs end the same (`SameScaffoldSameEnd`). The other direction is that files that count as a product are never
added to, and that the matrix, which a run writes, has the directories it chose.

`BothVerifiersAgree` takes the repository apart that such a run leaves (`FinishedParts`). Each entry of the manifest stands for a row or an
extension, no two of them for the same directory (`CoveredParts`), so that each marker is what was written for its own entry;
no two entries are called the same (`EntriesDiffer`, where `SharedStands` is needed), there are as many entries as rows at least (`EntriesEnough`), each row has something in evidence, its own scaffold if nothing else (`EvidenceThere`), and each entry passes what `verify_client_contract.py` asks of it (`EntryPasses`).

### Transport

For all calls, any `MaxRetries`, with or without the edge (`TransportAssumption`):

- `TransportTyping`: `Spec => []TypeOK`.
- `OneWayThrough`: `Spec => []TransportInv`, the inductive invariant.
- `AtMostOnce`: `Spec => OnceSpec`, with `effects <- applied` and `outcome <- Outcome`
  on the protected calls.

That a mutation was applied at most once is not inductive, since attempts that nobody awaits are still
under way. `TransportInv` says for each call which of them can still be applied: with
a key the one that was admitted, while the ledger says `running` (`KeyedInv`);
without one the only one that is left, and none after a refusal (`KeylessInv`).
A step touches one call (`ClientTouches`, `ServerTouches`), `Frame` carries the others over,
and `OneCall` turns what a step does to that call into a step of `OneEffect`.

### Service discovery

For every `MaxRevision`, `StreamCap` and `MaxFaults` that satisfy `RevisionAssumption` and
`StreamAssumption`:

- `DiscoveryTyping`: `Spec => []TypeOK`.
- `StreamOrder`: `Spec => []DiscoveryInv`, the inductive invariant.
- `Coverage`: `Spec => []SyncedCoversObserved`.
- `Refinement`: `Spec => ViewSpec`, with `latest <- membership`,
  `told <- lastObservedRevision`, `view <- instances`, `fresh <- synchronized`.

`SyncedCoversObserved` is not inductive, since it does not say what is still on its way.
`DiscoveryInv` is `TypeOK` and `OrderInv`, which adds that each readable event of the stream is `Sound` (a hint names
a change that has been made; a snapshot shows a membership that existed and is no older than the
revision it bears), and so is the snapshot that was read and not yet sent; and that
the stream is in order, within itself (`InOrder`) and against the replica (`Ahead`): a snapshot is no older
than those before it, and one without a revision covers every change told before
it. One with a revision need not. The reducer refuses it behind a newer hint
or a newer snapshot (`StaleSnapshot`), and that comparison is exactly what the step
`Deliver` of the proof uses. `Refinement` follows because an accepted event moves
`told` and `view` forward only.

### Watch streams

For all `Characters`, `Blocks` and `MaxBlocks` that satisfy `BlocksAssumption`, that is for any number of blocks with any lines, LF or CR LF, every cut of the text and every end of the stream:

- `WatchInductive`: `Spec => []WatchInv`, the inductive invariant.
- `EventsComeAsSent`: `Spec => []EventsAsSent`; `NothingWaits`: `Spec => []Prompt`.
- `ClientsMakeTheSame`: `Spec => []ClientsAgree`.
- `CrLfIsOneEvent`: `Spec => []CrLfComesAsOne`.

What the two clients have told cannot be carried from one step to the next by itself: Python keeps an event in the making, TypeScript a
buffer. `WatchInv` compares both with `Decoded`, which takes the text token by token and knows nothing of
chunks: Python has taken in what `Decoded` has after the tokens it has read, which end with a line
(`PyInv`; a stream that was closed may end without one), and TypeScript what it has where
the buffer begins, which is behind an event (`TsInv`). The steps are `LineKeepsPy`, `LastLineKeepsPy` and `EndKeepsPy` for the one,
`ReadKeepsTs`, `BlockKeepsTs` and `EndKeepsTs` for the other. The core of the second is `ParseAgrees`: on a text without a blank
line, `parseSseBlock`, which splits it and looks for each field among all lines, makes the event that
`Decoded` makes of one line after the other. With CR LF there is no boundary before the end (`CrLfNoBlanks`), so that
the buffer begins where the text does.

The properties then are about `Decoded` alone. `StreamRun` says which events it has told after each block of the text, and
`Placed` where it is between two of them: within a line, or behind lines that are not yet an event (`LineRun`, `BlockRun`). `ToldGrows`
and `Monotone` say that the events told only grow. For
`CrLfComesAsOne`, `CountRun` and `CountParsed` count data lines on both sides: one event has them all.

The decoders are recursive functions. That such a function exists and has the value its definition says is not free: it is
`Recursion`, and `OneSolution` that there is no other; what holds of each value is shown by its least counterexample (`Least`, `Upwards`), as the induction
theorems of the library need an operator that the provers cannot instantiate.

### Only model-checked

The liveness properties `EveryWaitEnds`, `AbandonedStateHeals`, `EveryCallEnds` and `Converges`, as the prover
does not do liveness under fairness. Each other property of a passing run is a theorem of section 4.

## 5. Plan

1. *Locks* (done): `LockNode`, `LockClient`, `LockSystem` and the theorems above.
2. *Service discovery* (done, with its proofs): the registry and its stream as the
   environment, the reducer as code; the replica refines `DiscoveryView`.
3. *Semaphores* (done): the second half of `locking.py`.
4. *Transport* (done): `_request` with a replay ledger and a concurrent writer, and its proofs.
5. *Watch stream* (done, with its proofs): both decoders against a reference that reads the whole text.
6. *Contract tools* (done, but for the validator) and *hardening* (done, but for the
   boundary script and what the package checks read of package metadata).
7. *Proofs* (done): locks, semaphores, transport, discovery, watch streams, contract tools and
   hardening, as in section 4.
8. *Abstract lock*: what a caller is promised, as a specification that
   `LockSystem` implements.
9. *Left of the tools*: the vendored schema validator against a reference definition, the
   private-symbol boundary, and the form of the requests that the emitters of `generate.py` write.

## 6. Disagreements between code and documentation

Three have a run:

- `fiducia.py:109-111` says that `PUT` and `DELETE` "converge to the same server state when
  replayed", and `PROTOCOL.md:397` that "mutation retries require a stable
  `Idempotency-Key`". The code repeats them without a key after an ambiguous failure
  (`fiducia.py:206`), and the copy overwrites what another client wrote in between: run
  `transport_replay`.
- `clients/ts/README.md:71` says that malformed, contradictory or unavailable events
  "require resynchronization", and the test at `service-discovery.test.ts:60` that a
  replica "starts fail-closed until an authoritative snapshot arrives". A later
  hint withdraws `needsResync` without any snapshot (`service-discovery.ts:190`): run
  `discovery_resync`. The replica stays out of use until a snapshot comes, so routing is
  safe; what is lost is the request to reconnect.
- `contract/README.md:57` says that dropping below its floor "is an error at every tier". A client that
  exports nothing any more gets a warning, and `check_language` returns before the ratchet
  (`check_surface.py:208`): run `surface_empty`.

Others were met while modelling and have no run of their own. Locks:

- `locking.py:8` says that the wait loop polls "with a fixed interval". The
  delay doubles three times, up to 2000 ms (`locking.py:210`).
- `PROTOCOL.md:52` says that a queued client "then polls `lockGet`/`semaphoreGet`
  until its `holder` appears". It repeats its acquire (`locking.py:213`), which can
  also grant and enqueue.

Schedules:

- `max_retries` is how often the server delivers (`PROTOCOL.md:322`). TypeScript's `scheduleUpsert` also
  passes it on as the retry budget of the request itself (`fiducia.ts` `scheduleUpsert`, `resolveRetryMax`).
  Go leaves a 0 out of the body (`fiducia.go` `ScheduleUpsert`), so that the server's default applies.

Contract tools:

- `derive_contract.py:17-19` makes a client a gate "only when it conforms today". One without
  symbols has no error, and becomes a gate with floor 100.
- "A deletion does" trip the ratchet (`derive_contract.py:563-564`). The tolerance of `check_surface.py:286` is
  wider than one operation of more than 100 when the floor was rounded down far enough: of 101 operations
  with 95 absent the floor is 5, and 96 absent still pass (`HundredIsSharp` in `SurfaceProofs`).
- A manifest that is named and does not exist is as if none was named: the contract is
  taken from the reference client (`derive_contract.py:596-597`), where the other sources end with an error.
- Whose arity is compared, when a client exports two accepted spellings, depends on the order of a
  Python set (`check_surface.py:233`).
- `prepublish-guard.sh:8-10` lets a client through only if it matches "the declared interface exactly", "whatever tier". What is checked is that
  every required operation is there under an accepted spelling (`PublishedIsComplete`): operations that are declared nowhere pass, unless the contract says
  `forbidExtra` for that client, and so do clients at tier `off`.
- `--enrich-from-clients` promises "at least 70%" in its help; the constant is 0.6. Deriving again resets
  tiers, floors and waivers, and drops schemas and enrichment unless their options are repeated.

Hardening:

- `verify_client_contract.py:2` fails closed "when any client language drifts". The evidence has only files with the suffixes that are listed there (29-59), and export metadata:
  no source of the clients in Haskell, Clojure, Crystal, F#, Julia, MATLAB, Nim, PowerShell and R is among them, so what these do can change
  while the check stays green. Nor are files in ignored directories, which need not be tests (`target`, `build`, `dist`), sources in a directory that
  only contains declared ones, or in its undeclared subdirectories. These are the exceptions in `SourcesAttested`.
- `harden_client_contract.py:718-722` says that "the hardener never adds a competing scaffold package beside a real implementation". An implementation whose files have no
  listed suffix (`.cxx`, `.tsx`) is not seen, and gets a scaffold beside it; nothing of it is replaced (`HandWorkStands`).
- "Safe to run repeatedly" (`harden_client_contract.py:4`). A run chooses directories from the manifest as it was (`choose_dir`, 601-626) and the next one from
  the manifest as it was rewritten and the directories as they were made. Three repositories where the two differ, hence the exceptions in `HardenSettles` and `RerunCompletes`:
  a manifest gives `deno`, which is not published, a directory of its own while an earlier place of it still has its marker: the run takes the new directory, drops the name from the manifest
  (832-834), finds no error, and the next run goes back. A manifest gives `nodejs` the directory of `c` while it is missing, and `typescript`, an older name, another one: the run
  takes the latter and makes the former, which the next run then finds claimed, and goes to the canonical one (where, again, a marker must be left, or the first run ends with an error).
  And in an empty repository the manifest gives `deno` the missing `clients/typescript`, which a run makes on the way to the places of the
  runtimes: if it is killed then, the next run finds it there and chooses it, where the killed one did not.
- A kill among the scaffolds makes "safe to run repeatedly" wrong without any odd manifest (the cases in `RerunCompletes`). In an empty repository a run that is killed when it has written the
  scaffold of `clients/typescript/nodejs` and not the one of `deno` leaves a `clients/typescript`, which is an older name of `deno` (622-625): the next run chooses it for `deno`, which then never gets a
  place or a scaffold of its own. And a scaffold of several files of which one that counts as a product is there, as `mix.exs`, `build.zig` or `__init__.py`, is taken for a
  product by the next run (876): the rest is never written, and no error is found.
- In `clients/typescript` the two verifiers differ (the exception in `HardenedVerifies`): a marker that was left there is read before the runtime's own by
  `marker_root` (`verify_client_contract.py:126`), where the hardener reads the runtime's; and a shared package without
  sources gets no scaffold (`harden_client_contract.py:1181`), for which only the second verifier has an error. They differ elsewhere as well: extensions whose names
  differ only in letter case or in a separator (`lua_jit`, `lua-jit`) get one target name (`kebab`, 1289, 1411), which only the second verifier minds (227-228); and a target's directory that is in the repository but outside clients/ passes
  the first (1370, 1384) and not the second (230). These are the exceptions of `SharedStands`.
- An overloaded declaration that is inserted in front of its namesake can get the documentation id
  that the other one already has; the hardening then ends with exit 2, after it wrote scaffolds, manifest and matrix.
- A manifest that gives the directory of a required target to a second, earlier row passes both package checks, which do not
  compare directories. If a hardening writes it anew, that row claims the directory, the required target goes to its
  canonical place, and neither check passes any more (the exception in `PackageStaysValid`).

## 7. Not modelled

- The lockers in TypeScript, Go and Rust repeat the design of the Python one. Of the first only
  `Abort` is mapped to its lines; the other two are not modelled. An interrupt (`KeyboardInterrupt`) that
  arrives in Python's first acquire is not caught by the `except Exception` of `locking.py:177`, so
  nothing is cancelled: here that is `Crash`. The thin clients, the command line, `dotenv.py`, and the publishing
  scripts and workflows are I/O without state to check.
- Numbers of milliseconds are counted in retry intervals; wording of errors, JSON shapes and
  headers are left out, and so is the text of the methods that the generators write.
- Of the contract tools: the regular expressions that find declarations in a source, and the
  vendored schema validator, which is used for one fixed schema (`Valid` says what that rejects).
- Of the scripts: `client_contract_boundary.py`; what the package checks read of package metadata: adapters,
  native manifests, the suffixes that each target's sources must have (any file, and for the second check any source, stands for them), the lock file and the expiring
  exception; `infer_identity`, which only names the package. Of `semantic_errors`, duplicate names (547-549) and what is said of `sync`, `async` and deprecated declarations (580-587): their exit is the
  same as that of the errors that are modelled. The replacement of scaffold texts of earlier versions (`write_generated_text`), and files that are cut off in the middle by a kill. The metadata files of a directory have
  one version, and which extensions have their marker when a run is killed is left open, although they are written in the order of their names.
