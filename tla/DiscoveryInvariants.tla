------------------------- MODULE DiscoveryInvariants -------------------------
(***************************************************************************)
(* What is on the stream, and why the replica may trust it: the inductive  *)
(* invariant behind the theorems of DiscoveryProofs, in named parts.       *)
(***************************************************************************)
EXTENDS DiscoverySystem

Readable(e) == e.object /\ e.own /\ e.scope /\ e.kind = e.name /\ e.id = e.number

\* The two kinds of event that can change what the replica shows or has heard.
IsSnapshot(e) ==
  /\ Readable(e) /\ e.kind = "snapshot"
  /\ e.number \in 0..MaxRevision
  /\ e.instances \in 0..MaxRevision
  /\ e.number <= e.instances
IsHint(e) == Readable(e) /\ e.kind \in Changes /\ e.number \in Revisions

\* The others: foreign, or without news.
Idle(e) == ~e.own \/ ~e.scope \/ e.kind = "unavailable"

\* Nothing on the stream tells of more than the registry has reached.
Sound(e, latest) ==
  \/ IsSnapshot(e) /\ e.instances <= latest
  \/ IsHint(e) /\ e.number <= latest
  \/ Idle(e)

\* A snapshot is no older than what comes before it, and one without a number
\* covers every change that was told before it.
InOrder(d, e) ==
  IsSnapshot(e) =>
    /\ IsSnapshot(d) => d.instances <= e.instances
    /\ e.number = 0 /\ ~Idle(d) => d.number <= e.instances

\* The same of the replica and what is still to come.
Ahead(e, shown, told) ==
  IsSnapshot(e) =>
    /\ shown <= e.instances
    /\ e.number = 0 => told <= e.instances

StreamInv ==
  /\ \A i \in 1..Len(stream) : /\ Sound(stream[i], membership)
                             /\ Ahead(stream[i], instances, lastObservedRevision)
  /\ \A i, j \in 1..Len(stream) : i < j => InOrder(stream[i], stream[j])

\* A snapshot that was read is not sent behind one that was read after it.
ReadingInv ==
  reading # NoEvent =>
    /\ IsSnapshot(reading)
    /\ reading.number # 0
    /\ reading.instances <= membership
    /\ instances <= reading.instances
    /\ \A i \in 1..Len(stream) :
         IsSnapshot(stream[i]) => stream[i].instances <= reading.instances

\* Nothing outlives the connection it was meant for.
LineInv ==
  /\ \A r \in owed : r <= membership
  /\ connected \/ (stream = <<>> /\ owed = {} /\ reading = NoEvent /\ ~due)

ReplicaInv ==
  /\ lastObservedRevision <= membership
  /\ instances <= membership
  /\ synchronized => lastObservedRevision <= instances

OrderInv == StreamInv /\ ReadingInv /\ LineInv /\ ReplicaInv
DiscoveryInv == TypeOK /\ OrderInv
=============================================================================
