--------------------------- MODULE DiscoverySystem ---------------------------
(***************************************************************************)
(* The replica of ServiceDiscovery.tla, the consumer that feeds it, and    *)
(* the registry and watch stream it reads, as the reducer's comments       *)
(* describe them (external): every change of the service is broadcast as a *)
(* hint when it commits and followed by a snapshot that carries its        *)
(* revision; hints may overtake a snapshot that was already read; the      *)
(* bounded broadcast drops what a slow subscriber has no room for, and     *)
(* then, as after a lease ran out, a snapshot without a revision is due,   *)
(* read when it is sent.                                                   *)
(***************************************************************************)
EXTENDS ServiceDiscovery, Sequences

CONSTANTS
  StreamCap,   \* events the broadcast keeps for a slow subscriber
  MaxFaults    \* broken connections, and events that are damaged, repeated,
               \* foreign or say that the service is unavailable

ASSUME StreamAssumption == StreamCap \in Nat \ {0} /\ MaxFaults \in Nat

VARIABLES
  revision,    \* of the shard the service shares with other keys
  membership,  \* the revision that made the present membership
  connected,
  stream,      \* events on their way to the consumer
  owed,        \* changes whose snapshot is still to be read
  reading,     \* a snapshot that was read and not yet sent, or NoEvent
  due,         \* is a snapshot without a revision due
  asked,       \* does the consumer know of needsResync since its last event
  faults

server == <<revision, membership, connected, stream, owed, reading, due>>
vars == <<replica, server, asked, faults>>

Plain == [object |-> TRUE, name |-> "message", id |-> 0, kind |-> "none",
          own |-> TRUE, scope |-> TRUE, authoritative |-> TRUE, number |-> 0,
          instances |-> 0]
NoEvent == [Plain EXCEPT !.object = FALSE]

Hint(k, r) == [Plain EXCEPT !.name = k, !.kind = k, !.id = r, !.number = r]
\* The present membership, on behalf of change r, or of none if r = 0.
Snapshot(r) ==
  [Plain EXCEPT !.name = "snapshot", !.kind = "snapshot", !.id = r,
                !.number = r, !.instances = membership]
Unavailable == [Plain EXCEPT !.name = "unavailable", !.kind = "unavailable"]

TypeOK ==
  /\ ReplicaTypeOK
  /\ revision \in 0..MaxRevision
  /\ membership \in 0..revision
  /\ connected \in BOOLEAN
  /\ stream \in Seq(Event)
  /\ Len(stream) <= StreamCap
  /\ owed \in SUBSET Revisions
  /\ reading \in Event
  /\ due \in BOOLEAN
  /\ asked \in BOOLEAN
  /\ faults \in 0..MaxFaults

Init ==
  /\ ReplicaInit
  /\ revision = 0
  /\ membership = 0
  /\ connected = FALSE
  /\ stream = <<>>
  /\ owed = {}
  /\ reading = NoEvent
  /\ due = FALSE
  /\ asked = FALSE
  /\ faults = 0

-----------------------------------------------------------------------------
HasRoom == Len(stream) < StreamCap
Push(e) == stream' = Append(stream, e)

\* A change of the service commits.
Change ==
  /\ revision < MaxRevision
  /\ revision' = revision + 1
  /\ membership' = revision'
  /\ IF connected /\ HasRoom
     THEN /\ \E k \in Changes : Push(Hint(k, revision'))
          /\ owed' = owed \union {revision'}
          /\ UNCHANGED due
     ELSE due' = connected /\ UNCHANGED <<stream, owed>>
  /\ UNCHANGED <<replica, connected, reading, faults, asked>>

\* Another key of the shard changes.
ChangeElsewhere ==
  /\ revision < MaxRevision
  /\ revision' = revision + 1
  /\ UNCHANGED <<replica, membership, connected, stream, owed, reading, due, faults, asked>>

\* A lease runs out: the membership shrinks and nothing is broadcast.
LeaseExpires ==
  /\ revision < MaxRevision
  /\ revision' = revision + 1
  /\ membership' = revision'
  /\ due' = connected
  /\ UNCHANGED <<replica, connected, stream, owed, reading, faults, asked>>

ReadSnapshot ==
  /\ reading = NoEvent
  /\ \E r \in owed :
       /\ \A s \in owed : r <= s
       /\ reading' = Snapshot(r)
       /\ owed' = owed \ {r}
  /\ UNCHANGED <<replica, revision, membership, connected, stream, due, faults, asked>>

SendSnapshot ==
  /\ reading # NoEvent
  /\ HasRoom
  /\ Push(reading)
  /\ reading' = NoEvent
  /\ UNCHANGED <<replica, revision, membership, connected, owed, due, faults, asked>>

SendUnnumbered ==
  /\ due
  /\ reading = NoEvent
  /\ HasRoom
  /\ Push(Snapshot(0))
  /\ due' = FALSE
  /\ UNCHANGED <<replica, revision, membership, connected, owed, reading, faults, asked>>

\* An event that is not about this service, or says that none can be had.
Others ==
  {Unavailable,
   [Hint("register", revision) EXCEPT !.own = FALSE],
   [Snapshot(revision) EXCEPT !.scope = FALSE]}

SendOther ==
  /\ connected
  /\ HasRoom
  /\ faults < MaxFaults
  /\ faults' = faults + 1
  /\ \E e \in Others : Push(e)
  /\ UNCHANGED <<replica, revision, membership, connected, owed, reading, due, asked>>

\* An earlier change is broadcast late, or once more: its hint, then its snapshot.
Rebroadcast ==
  /\ connected
  /\ HasRoom
  /\ faults < MaxFaults
  /\ faults' = faults + 1
  /\ \E k \in Changes : \E r \in 1..membership :
       Push(Hint(k, r)) /\ owed' = owed \union {r}
  /\ UNCHANGED <<replica, revision, membership, connected, reading, due, asked>>

\* A new watch begins with a snapshot; whatever the old one carried is lost.
Connect ==
  /\ ~connected
  /\ connected' = TRUE
  /\ stream' = <<Snapshot(0)>>
  /\ UNCHANGED <<replica, revision, membership, owed, reading, due, faults, asked>>

Disconnect ==
  /\ connected
  /\ connected' = FALSE
  /\ stream' = <<>>
  /\ owed' = {}
  /\ reading' = NoEvent
  /\ due' = FALSE
  /\ asked' = FALSE
  /\ UNCHANGED <<replica, revision, membership>>

\* The connection breaks, or the consumer ends it because a resync is needed.
Break == faults < MaxFaults /\ faults' = faults + 1 /\ Disconnect
Resync == asked /\ Disconnect /\ UNCHANGED faults

\* What the consumer makes of an event that was damaged on its way.
Damaged(e) ==
  {[e EXCEPT !.object = FALSE], [e EXCEPT !.number = Bad], [e EXCEPT !.id = Bad],
   [e EXCEPT !.kind = "unknown", !.name = "message"]}
  \union (IF e.name = "snapshot"
          THEN {[e EXCEPT !.own = FALSE], [e EXCEPT !.authoritative = FALSE],
                [e EXCEPT !.instances = Bad], [e EXCEPT !.name = "register"]}
          ELSE {[e EXCEPT !.name = "snapshot"]})

\* The consumer takes the next event of its stream into the replica.
Deliver ==
  /\ stream # <<>>
  /\ Apply(Head(stream))
  /\ stream' = Tail(stream)
  /\ asked' = needsResync'
  /\ UNCHANGED <<revision, membership, connected, owed, reading, due, faults>>

DeliverFaulty ==
  /\ stream # <<>>
  /\ faults < MaxFaults
  /\ faults' = faults + 1
  /\ \/ Apply(Head(stream)) /\ UNCHANGED stream
     \/ (\E e \in Damaged(Head(stream)) : Apply(e)) /\ stream' = Tail(stream)
  /\ asked' = needsResync'
  /\ UNCHANGED <<revision, membership, connected, owed, reading, due>>

Serve == ReadSnapshot \/ SendSnapshot \/ SendUnnumbered

Next ==
  \/ Change \/ ChangeElsewhere \/ LeaseExpires
  \/ Serve \/ SendOther \/ Rebroadcast
  \/ Connect \/ Break \/ Resync
  \/ Deliver \/ DeliverFaulty

Spec == Init /\ [][Next]_vars

\* The consumer reads on, connects while it is not, and connects anew when the
\* replica asks for it; the server sends the snapshots it owes.
Fairness ==
  /\ WF_vars(Deliver) /\ WF_vars(Connect) /\ WF_vars(Resync)
  /\ WF_vars(ReadSnapshot) /\ WF_vars(SendSnapshot) /\ WF_vars(SendUnnumbered)

FairSpec == Spec /\ Fairness
-----------------------------------------------------------------------------
\* While the replica is synchronized its instances are the registry's as of
\* some revision at or after every change it was told of: no hint is forgotten
\* behind a snapshot that was read before it (service-discovery.ts:123-130).
SyncedCoversObserved ==
  synchronized => instances >= lastObservedRevision /\ instances <= membership

\* Routing state follows the registry forward only, whatever events are lost,
\* late, duplicated, damaged or foreign.
View == INSTANCE DiscoveryView WITH
  latest <- membership, told <- lastObservedRevision, view <- instances,
  fresh <- synchronized
ViewSpec == View!Spec

\* Once the registry rests, the replica ends up with its membership, in use.
Converges == <>[](synchronized /\ instances = membership)

\* "malformed, contradictory, or unavailable events ... require
\* resynchronization" (clients/ts/README.md:71) and the replica is "fail-closed
\* until an authoritative snapshot arrives" (service-discovery.test.ts:60): only
\* a snapshot that is accepted withdraws that requirement.
ResyncStands == [][needsResync /\ ~needsResync' => synchronized']_vars
=============================================================================
