-------------------------- MODULE ServiceDiscovery --------------------------
(***************************************************************************)
(* The service discovery replica of clients/ts/service-discovery.ts: a     *)
(* reducer over the events of one watch stream. Revisions are positive, so *)
(* 0 stands for an absent one and Bad for one that does not parse. The     *)
(* instances of a snapshot are named by the revision that made them, an    *)
(* instance list that does not parse is Bad too.                           *)
(***************************************************************************)
EXTENDS Integers

CONSTANT MaxRevision   \* the last revision of the shard

ASSUME RevisionAssumption == MaxRevision \in Nat

Bad == -1
Revisions == 1..MaxRevision
Numbers == Revisions \union {0, Bad}
Changes == {"register", "heartbeat", "deregister"}
Kinds == Changes \union {"snapshot", "unavailable", "unknown", "none"}

\* A decoded event: its name, its SSE id, and its payload.
Event == [object: BOOLEAN, name: Kinds \union {"message"}, id: Numbers,
          kind: Kinds, own: BOOLEAN, scope: BOOLEAN, authoritative: BOOLEAN,
          number: Numbers, instances: Revisions \union {0, Bad}]

VARIABLES
  instances,             \* the last membership that was accepted
  synchronized,
  needsResync,
  lastObservedRevision,
  lastSnapshotRevision

replica == <<instances, synchronized, needsResync, lastObservedRevision,
             lastSnapshotRevision>>

ReplicaTypeOK ==
  /\ instances \in Revisions \union {0}
  /\ synchronized \in BOOLEAN
  /\ needsResync \in BOOLEAN
  /\ lastObservedRevision \in Revisions \union {0}
  /\ lastSnapshotRevision \in Revisions \union {0}

\* createServiceDiscoveryReplica
ReplicaInit ==
  /\ instances = 0
  /\ synchronized = FALSE
  /\ needsResync = TRUE
  /\ lastObservedRevision = 0
  /\ lastSnapshotRevision = 0

-----------------------------------------------------------------------------
\* payload.kind, else the name of the event.
Named(e) == e.name \notin {"none", "message"}
Kind(e) == IF e.kind # "none" THEN e.kind ELSE IF Named(e) THEN e.name ELSE "none"

Unreadable(e) ==
  \/ ~e.object
  \/ e.kind # "none" /\ Named(e) /\ e.kind # e.name
  \/ Kind(e) = "none"

\* An event of this stream's kind, and of which kind.
Is(e, kinds) == ~Unreadable(e) /\ e.scope /\ Kind(e) \in kinds

\* The revision in the payload and the id of the event must agree.
Contradictory(e) ==
  \/ e.number = Bad
  \/ e.id = Bad
  \/ e.number # 0 /\ e.id # 0 /\ e.number # e.id
Revision(e) == IF e.number # 0 THEN e.number ELSE e.id

\* Mutant of SnapshotFaulty: parseInstances never rejects a list.
SnapshotFaulty_AnyInstances(e) == ~e.own \/ ~e.authoritative \/ Contradictory(e)

SnapshotFaulty(e) ==
  ~e.own \/ ~e.authoritative \/ e.instances = Bad \/ Contradictory(e)

HintFaulty(e) == e.own /\ (Contradictory(e) \/ Revision(e) = 0)

Faulty(e) ==
  \/ Unreadable(e)
  \/ Is(e, {"snapshot"}) /\ SnapshotFaulty(e)
  \/ Is(e, {"unavailable", "unknown"})
  \/ Is(e, Changes) /\ HintFaulty(e)

\* Mutant of StaleSnapshot: any authoritative snapshot replaces the membership.
StaleSnapshot_Never(e) == FALSE

\* A snapshot without a revision covers all that was observed before it.
StaleSnapshot(e) == Revision(e) # 0 /\ Revision(e) < lastObservedRevision

\* Mutant of StaleHint: a late hint is as good as a new one.
StaleHint_Never(e) == FALSE

StaleHint(e) ==
  Revision(e) <= lastObservedRevision \/ Revision(e) <= lastSnapshotRevision

-----------------------------------------------------------------------------
\* applyServiceDiscoveryEvent: one of the four results.

\* Mutant of RequireResync: the resync is not asked for.
RequireResync_Silent(e) ==
  /\ Faulty(e)
  /\ synchronized' = FALSE
  /\ UNCHANGED <<instances, needsResync, lastObservedRevision, lastSnapshotRevision>>

RequireResync(e) ==
  /\ Faulty(e)
  /\ synchronized' = FALSE
  /\ needsResync' = TRUE
  /\ UNCHANGED <<instances, lastObservedRevision, lastSnapshotRevision>>

Ignored(e) ==
  /\ \/ ~Unreadable(e) /\ ~e.scope
     \/ Is(e, {"snapshot"}) /\ ~SnapshotFaulty(e) /\ StaleSnapshot(e)
     \/ Is(e, Changes) /\ ~e.own
     \/ Is(e, Changes) /\ e.own /\ ~HintFaulty(e) /\ StaleHint(e)
  /\ UNCHANGED replica

ApplySnapshot(e) ==
  /\ Is(e, {"snapshot"})
  /\ ~SnapshotFaulty(e)
  /\ ~StaleSnapshot(e)
  /\ instances' = e.instances
  /\ synchronized' = TRUE
  /\ needsResync' = FALSE
  /\ lastObservedRevision' =
       IF Revision(e) > lastObservedRevision THEN Revision(e) ELSE lastObservedRevision
  /\ lastSnapshotRevision' = lastObservedRevision'

ApplyHint(e) ==
  /\ Is(e, Changes)
  /\ e.own
  /\ ~HintFaulty(e)
  /\ ~StaleHint(e)
  /\ synchronized' = FALSE
  /\ needsResync' = FALSE
  /\ lastObservedRevision' = Revision(e)
  /\ UNCHANGED <<instances, lastSnapshotRevision>>

Apply(e) == RequireResync(e) \/ Ignored(e) \/ ApplySnapshot(e) \/ ApplyHint(e)
=============================================================================
