--------------------------- MODULE DiscoveryProofs ---------------------------
(***************************************************************************)
(* A synchronized replica covers every change it was told of, and follows  *)
(* the registry forward only, for any number of revisions, any broadcast   *)
(* buffer and any number of faults.                                        *)
(*                                                                         *)
(* The argument: hints and snapshots without a number are broadcast in the *)
(* order of the memberships they tell of, so that only a numbered snapshot *)
(* can be behind what the replica has heard, and that one is recognised by *)
(* its number.                                                             *)
(***************************************************************************)
EXTENDS DiscoveryInvariants, SequenceTheorems, TLAPS

-----------------------------------------------------------------------------
\* The events the server makes.

\* A hint of a committed change.
LEMMA HintEvent ==
  ASSUME NEW k \in Changes, NEW r \in Revisions
  PROVE  /\ Hint(k, r) \in Event
         /\ IsHint(Hint(k, r)) /\ ~Idle(Hint(k, r)) /\ ~IsSnapshot(Hint(k, r))
         /\ Hint(k, r).number = r
BY DEF Hint, Plain, Event, IsHint, IsSnapshot, Idle, Readable, Changes, Kinds,
       Numbers, Revisions

\* A snapshot of the present membership, on behalf of a change it covers.
LEMMA SnapshotEvent ==
  ASSUME TypeOK, NEW r \in 0..membership
  PROVE  /\ Snapshot(r) \in Event
         /\ IsSnapshot(Snapshot(r))
         /\ Snapshot(r).number = r /\ Snapshot(r).instances = membership
<1>1. membership \in 0..MaxRevision /\ MaxRevision \in Nat
  BY RevisionAssumption DEF TypeOK
<1>2. r \in Numbers /\ membership \in Revisions \union {0, Bad}
  BY <1>1 DEF Numbers, Revisions
<1>3. Plain \in Event /\ Plain.object /\ Plain.own /\ Plain.scope /\ Plain.authoritative
  BY DEF Plain, Event, Kinds, Numbers
<1>4. "snapshot" \in Kinds
  BY DEF Kinds
<1>5. /\ Snapshot(r) \in Event
      /\ Snapshot(r).object /\ Snapshot(r).own /\ Snapshot(r).scope
      /\ Snapshot(r).authoritative
      /\ Snapshot(r).name = "snapshot" /\ Snapshot(r).kind = "snapshot"
      /\ Snapshot(r).id = r /\ Snapshot(r).number = r
      /\ Snapshot(r).instances = membership
  BY <1>2, <1>3, <1>4 DEF Snapshot, Event
<1> QED
  BY <1>1, <1>5 DEF IsSnapshot, Readable

\* Events for others, and the one that reports an unavailable service.
LEMMA OtherEvent ==
  ASSUME TypeOK, NEW e \in Others
  PROVE  e \in Event /\ Sound(e, membership) /\ ~IsSnapshot(e)
<1>1. /\ revision \in 0..MaxRevision /\ membership \in 0..MaxRevision
      /\ MaxRevision \in Nat
  BY RevisionAssumption DEF TypeOK
<1>2. revision \in Numbers /\ membership \in Revisions \union {0, Bad}
  BY <1>1 DEF Numbers, Revisions
<1>3. 0 \in Numbers /\ 0 \in Revisions \union {0, Bad}
  BY DEF Numbers
<1>4. CASE e = Unavailable
  BY <1>3, <1>4 DEF Unavailable, Plain, Event, Sound, Idle, IsSnapshot, Kinds
<1>5. CASE e = [Hint("register", revision) EXCEPT !.own = FALSE]
  BY <1>2, <1>3, <1>5 DEF Hint, Plain, Event, Sound, Idle, IsSnapshot, Readable, Kinds, Changes
<1>6. CASE e = [Snapshot(revision) EXCEPT !.scope = FALSE]
  BY <1>2, <1>3, <1>6 DEF Snapshot, Plain, Event, Sound, Idle, IsSnapshot, Readable, Kinds
<1> QED BY <1>4, <1>5, <1>6 DEF Others

\* The event that stands for none.
LEMMA NoEventType == NoEvent \in Event
BY DEF NoEvent, Plain, Event, Kinds, Numbers

\* What can be wrong with a damaged event, and what cannot.
LEMMA DamagedFields ==
  ASSUME NEW e \in Event, NEW d \in Damaged(e)
  PROVE  /\ d \in Event
         /\ d.scope = e.scope
         /\ d.own => e.own
         /\ d.kind \in {e.kind, "unknown"}
         /\ \/ ~d.object \/ d.number = Bad \/ d.id = Bad \/ d.kind = "unknown"
            \/ /\ e.name = "snapshot"
               /\ ~d.own \/ ~d.authoritative \/ d.instances = Bad \/ d.name = "register"
            \/ e.name # "snapshot" /\ d.name = "snapshot"
<1>1. Bad \in Numbers /\ Bad \in Revisions \union {0, Bad}
  BY DEF Numbers
<1>2. /\ {"unknown", "message", "register", "snapshot"} \subseteq Kinds \union {"message"}
      /\ "unknown" \in Kinds
  BY DEF Kinds, Changes
<1>3. CASE d = [e EXCEPT !.object = FALSE]
  BY <1>3 DEF Event
<1>4. CASE d = [e EXCEPT !.number = Bad]
  BY <1>1, <1>4 DEF Event
<1>5. CASE d = [e EXCEPT !.id = Bad]
  BY <1>1, <1>5 DEF Event
<1>6. CASE d = [e EXCEPT !.kind = "unknown", !.name = "message"]
  BY <1>2, <1>6 DEF Event
<1>7. CASE e.name = "snapshot" /\ d = [e EXCEPT !.own = FALSE]
  BY <1>7 DEF Event
<1>8. CASE e.name = "snapshot" /\ d = [e EXCEPT !.authoritative = FALSE]
  BY <1>8 DEF Event
<1>9. CASE e.name = "snapshot" /\ d = [e EXCEPT !.instances = Bad]
  BY <1>1, <1>9 DEF Event
<1>10. CASE e.name = "snapshot" /\ d = [e EXCEPT !.name = "register"]
  BY <1>2, <1>10 DEF Event
<1>11. CASE e.name # "snapshot" /\ d = [e EXCEPT !.name = "snapshot"]
  BY <1>2, <1>11 DEF Event
<1> QED
  BY <1>3, <1>4, <1>5, <1>6, <1>7, <1>8, <1>9, <1>10, <1>11, Zenon DEF Damaged

-----------------------------------------------------------------------------
\* What the reducer makes of an event.

\* Every result leaves the replica typed.
LEMMA ApplyType ==
  ASSUME ReplicaTypeOK, NEW e \in Event, Apply(e)
  PROVE  ReplicaTypeOK'
<1>1. CASE RequireResync(e)
  BY <1>1 DEF RequireResync, ReplicaTypeOK
<1>2. CASE Ignored(e)
  BY <1>2 DEF Ignored, ReplicaTypeOK, replica
<1>3. CASE ApplySnapshot(e)
  <2>1. e.instances \in Revisions \union {0}
    BY <1>3 DEF ApplySnapshot, SnapshotFaulty, Event
  <2>2. Revision(e) \in Revisions \union {0}
    BY <1>3 DEF ApplySnapshot, SnapshotFaulty, Contradictory, Revision, Event, Numbers
  <2> QED BY <1>3, <2>1, <2>2 DEF ApplySnapshot, ReplicaTypeOK
<1>4. CASE ApplyHint(e)
  <2>1. Revision(e) \in Revisions \union {0}
    BY <1>4 DEF ApplyHint, HintFaulty, Contradictory, Revision, Event, Numbers
  <2> QED BY <1>4, <2>1 DEF ApplyHint, ReplicaTypeOK
<1> QED BY <1>1, <1>2, <1>3, <1>4 DEF Apply

\* The replica shows and has heard what it had before, and is not fresher.
Quiet ==
  /\ UNCHANGED <<instances, lastObservedRevision>>
  /\ synchronized' \in {synchronized, FALSE}

\* An event of the stream is a snapshot that is not stale, a hint that is new,
\* or leaves the replica quiet.
LEMMA ApplySound ==
  ASSUME ReplicaTypeOK, NEW e \in Event, Sound(e, membership), Apply(e)
  PROVE  \/ Quiet
         \/ /\ IsSnapshot(e) /\ ~Idle(e)
            /\ instances' = e.instances /\ synchronized' = TRUE
            /\ e.number = 0 => lastObservedRevision' = lastObservedRevision
            /\ e.number # 0 => /\ lastObservedRevision <= e.number
                               /\ lastObservedRevision' = e.number
         \/ /\ IsHint(e) /\ ~Idle(e)
            /\ lastObservedRevision < e.number
            /\ lastObservedRevision' = e.number
            /\ instances' = instances /\ synchronized' = FALSE
<1>1. CASE RequireResync(e) \/ Ignored(e)
  BY <1>1 DEF RequireResync, Ignored, Quiet, replica
<1>2. CASE ApplySnapshot(e)
  <2>1. ~Unreadable(e) /\ e.scope /\ Kind(e) = "snapshot" /\ e.own /\ ~Contradictory(e)
    BY <1>2 DEF ApplySnapshot, SnapshotFaulty, Is
  <2>2. ~Idle(e) /\ ~IsHint(e)
    BY <2>1 DEF Idle, Kind, Unreadable, IsHint, Changes
  <2>3. IsSnapshot(e)
    BY <2>2 DEF Sound
  <2>4. Revision(e) = e.number
    BY <2>3 DEF IsSnapshot, Readable, Revision
  <2> QED BY <1>2, <2>2, <2>3, <2>4
    DEF ApplySnapshot, StaleSnapshot, ReplicaTypeOK, IsSnapshot, Revisions
<1>3. CASE ApplyHint(e)
  <2>1. ~Unreadable(e) /\ e.scope /\ Kind(e) \in Changes /\ e.own
    BY <1>3 DEF ApplyHint, Is
  <2>2. ~Idle(e) /\ ~IsSnapshot(e)
    BY <2>1 DEF Idle, Kind, Unreadable, IsSnapshot, Changes, Named
  <2>3. IsHint(e)
    BY <2>2 DEF Sound
  <2>4. Revision(e) = e.number
    BY <2>3 DEF IsHint, Readable, Revision
  <2> QED BY <1>3, <2>2, <2>3, <2>4
    DEF ApplyHint, StaleHint, ReplicaTypeOK, IsHint, Revisions
<1> QED BY <1>1, <1>2, <1>3 DEF Apply

\* A damaged event never changes what the replica shows or has heard.
LEMMA DamagedQuiet ==
  ASSUME NEW e \in Event, Sound(e, membership), NEW d \in Damaged(e), Apply(d)
  PROVE  Quiet
<1>1. Bad \notin 0..MaxRevision /\ Bad \notin Revisions /\ Bad # 0
  BY DEF Bad, Revisions
<1>2. ~ApplySnapshot(d)
  <2> SUFFICES ASSUME Is(d, {"snapshot"}), ~SnapshotFaulty(d) PROVE FALSE
    BY DEF ApplySnapshot
  <2>1. /\ d.object /\ d.scope /\ d.own /\ d.authoritative
        /\ d.instances # Bad /\ d.number # Bad /\ d.id # Bad
        /\ Kind(d) = "snapshot" /\ ~Unreadable(d)
    BY DEF Is, Unreadable, SnapshotFaulty, Contradictory
  <2>2. e.scope /\ e.own /\ d.kind \in {e.kind, "unknown"}
    BY <2>1, DamagedFields
  <2>3. d.kind = e.kind /\ e.kind = e.name /\ e.kind \in Changes \union {"snapshot"}
    BY <2>1, <2>2 DEF Sound, IsSnapshot, IsHint, Idle, Readable, Kind
  <2>4. d.kind = "snapshot"
    BY <2>1, <2>3 DEF Kind, Changes
  <2>5. d.name = "register"
    BY <2>1, <2>3, <2>4, DamagedFields
  <2> QED BY <2>1, <2>4, <2>5 DEF Unreadable, Named
<1>3. ~ApplyHint(d)
  <2> SUFFICES ASSUME Is(d, Changes), d.own, ~HintFaulty(d) PROVE FALSE
    BY DEF ApplyHint
  <2>1. /\ d.object /\ d.scope /\ d.own /\ d.number # Bad /\ d.id # Bad
        /\ Kind(d) \in Changes /\ ~Unreadable(d)
    BY DEF Is, Unreadable, HintFaulty, Contradictory
  <2>2. e.scope /\ e.own /\ d.kind \in {e.kind, "unknown"}
    BY <2>1, DamagedFields
  <2>3. d.kind = e.kind /\ e.kind = e.name /\ e.kind \in Changes \union {"snapshot"}
    BY <2>1, <2>2 DEF Sound, IsSnapshot, IsHint, Idle, Readable, Kind, Changes
  <2>4. d.kind \in Changes
    BY <2>1, <2>3 DEF Kind, Changes
  <2>5. d.name = "snapshot"
    BY <2>1, <2>3, <2>4, DamagedFields DEF Changes
  <2> QED BY <2>1, <2>4, <2>5 DEF Unreadable, Named, Changes
<1> QED BY <1>2, <1>3 DEF Apply, RequireResync, Ignored, Quiet, replica

-----------------------------------------------------------------------------
\* What happens to the stream.

\* The new event comes last, and the others stay where they are.
LEMMA PushType ==
  ASSUME TypeOK, NEW e \in Event, HasRoom, Push(e)
  PROVE  /\ stream' \in Seq(Event)
         /\ Len(stream) \in Nat /\ Len(stream') = Len(stream) + 1
         /\ Len(stream') <= StreamCap
         /\ \A i \in 1..Len(stream) : stream'[i] = stream[i]
         /\ stream'[Len(stream')] = e
<1>1. stream \in Seq(Event) /\ Len(stream) \in Nat
  BY LenProperties DEF TypeOK
<1>2. /\ Append(stream, e) \in Seq(Event)
      /\ Len(Append(stream, e)) = Len(stream) + 1
      /\ \A i \in 1..Len(stream) : Append(stream, e)[i] = stream[i]
      /\ Append(stream, e)[Len(stream) + 1] = e
  BY <1>1, AppendProperties
<1>3. StreamCap \in Nat /\ Len(stream) < StreamCap
  BY StreamAssumption DEF HasRoom
<1> QED BY <1>1, <1>2, <1>3 DEF Push

\* A sound event behind all others keeps the order of the stream, also when the
\* registry moves on with it.
LEMMA PushKeepsOrder ==
  ASSUME TypeOK, StreamInv, NEW e \in Event, HasRoom, Push(e),
         UNCHANGED replica, membership' \in Nat, membership <= membership',
         Sound(e, membership'), Ahead(e, instances, lastObservedRevision),
         \A i \in 1..Len(stream) : InOrder(stream[i], e)
  PROVE  StreamInv'
<1> DEFINE n == Len(stream)
<1>1. /\ n \in Nat /\ Len(stream') = n + 1
      /\ \A i \in 1..n : stream'[i] = stream[i]
      /\ stream'[n + 1] = e
  BY PushType
<1>2. \A i \in 1..n : stream[i] \in Event
  BY <1>1, ElementOfSeq DEF TypeOK
<1>3. \A i \in 1..n : /\ Sound(stream[i], membership')
                      /\ Ahead(stream[i], instances, lastObservedRevision)
  <2> SUFFICES ASSUME NEW i \in 1..n
               PROVE  /\ Sound(stream[i], membership')
                      /\ Ahead(stream[i], instances, lastObservedRevision)
    OBVIOUS
  <2>1. /\ Sound(stream[i], membership)
        /\ Ahead(stream[i], instances, lastObservedRevision)
    BY DEF StreamInv
  <2>2. membership \in Nat
    BY DEF TypeOK
  <2>3. IsHint(stream[i]) => stream[i].number \in Nat
    BY DEF IsHint, Revisions
  <2>4. IsSnapshot(stream[i]) => stream[i].instances \in Nat
    BY DEF IsSnapshot
  <2> QED BY <2>1, <2>2, <2>3, <2>4 DEF Sound
<1>4. \A i \in 1..(n + 1) : /\ Sound(stream'[i], membership')
                            /\ Ahead(stream'[i], instances, lastObservedRevision)
  <2> SUFFICES ASSUME NEW i \in 1..(n + 1)
               PROVE  /\ Sound(stream'[i], membership')
                      /\ Ahead(stream'[i], instances, lastObservedRevision)
    OBVIOUS
  <2>1. CASE i = n + 1
    BY <2>1, <1>1
  <2>2. CASE i # n + 1
    <3>1. i \in 1..n
      BY <2>2, <1>1
    <3> QED BY <3>1, <1>1, <1>3
  <2> QED BY <2>1, <2>2
<1>5. instances' = instances /\ lastObservedRevision' = lastObservedRevision
  BY DEF replica
<1>6. \A i, j \in 1..(n + 1) : i < j => InOrder(stream'[i], stream'[j])
  <2> SUFFICES ASSUME NEW i \in 1..(n + 1), NEW j \in 1..(n + 1), i < j
               PROVE  InOrder(stream'[i], stream'[j])
    OBVIOUS
  <2>1. i \in 1..n /\ stream'[i] = stream[i]
    BY <1>1
  <2>2. CASE j = n + 1
    BY <2>1, <2>2, <1>1
  <2>3. CASE j # n + 1
    <3>1. j \in 1..n /\ stream'[j] = stream[j]
      BY <2>3, <1>1
    <3> QED BY <2>1, <3>1 DEF StreamInv
  <2> QED BY <2>2, <2>3
<1> QED BY <1>1, <1>4, <1>5, <1>6 DEF StreamInv

\* What the stream carries is not ahead of the registry.
LEMMA StreamBehind ==
  ASSUME TypeOK, StreamInv, NEW i \in 1..Len(stream)
  PROVE  /\ IsSnapshot(stream[i]) => stream[i].instances <= membership
         /\ ~Idle(stream[i]) => stream[i].number \in Nat /\ stream[i].number <= membership
<1>1. Sound(stream[i], membership) /\ membership \in Nat
  BY DEF StreamInv, TypeOK
<1> QED BY <1>1 DEF Sound, IsSnapshot, IsHint, Idle, Readable, Revisions, Changes

-----------------------------------------------------------------------------
\* Types.

\* The registry and the server.
LEMMA ServerType ==
  ASSUME TypeOK, Change \/ ChangeElsewhere \/ LeaseExpires \/ Serve \/ SendOther \/ Rebroadcast
  PROVE  TypeOK'
<1>1. /\ revision \in 0..MaxRevision /\ MaxRevision \in Nat
      /\ membership \in 0..revision /\ owed \in SUBSET Revisions
  BY RevisionAssumption DEF TypeOK
<1>2. revision < MaxRevision =>
        revision + 1 \in Revisions /\ revision + 1 \in 0..MaxRevision
        /\ membership \in 0..(revision + 1) /\ revision + 1 \in 0..(revision + 1)
  BY <1>1 DEF Revisions
<1>3. Revisions \subseteq Nat
  BY DEF Revisions
<1>4. CASE Change
  <2>1. /\ revision < MaxRevision /\ revision' = revision + 1
        /\ membership' = revision'
        /\ UNCHANGED <<replica, connected, reading, faults, asked>>
    BY <1>4 DEF Change
  <2>2. CASE connected /\ HasRoom
    <3>1. PICK k \in Changes : Push(Hint(k, revision'))
      BY <1>4, <2>2 DEF Change
    <3>2. Hint(k, revision') \in Event
      BY <1>2, <2>1, HintEvent
    <3>3. stream' \in Seq(Event) /\ Len(stream') <= StreamCap
      BY <2>2, <3>1, <3>2, PushType
    <3>4. owed' \in SUBSET Revisions /\ due' = due
      BY <1>1, <1>2, <1>4, <2>1, <2>2 DEF Change
    <3> QED BY <1>2, <2>1, <3>3, <3>4 DEF TypeOK, ReplicaTypeOK, replica
  <2>3. CASE ~(connected /\ HasRoom)
    <3>1. due' = connected /\ UNCHANGED <<stream, owed>>
      BY <1>4, <2>3 DEF Change
    <3> QED BY <1>2, <2>1, <3>1 DEF TypeOK, ReplicaTypeOK, replica
  <2> QED BY <2>2, <2>3
<1>5. CASE ChangeElsewhere
  BY <1>2, <1>5 DEF ChangeElsewhere, TypeOK, ReplicaTypeOK, replica
<1>6. CASE LeaseExpires
  BY <1>2, <1>6 DEF LeaseExpires, TypeOK, ReplicaTypeOK, replica
<1>7. CASE ReadSnapshot
  <2>1. PICK r \in owed : reading' = Snapshot(r) /\ owed' = owed \ {r}
    BY <1>7 DEF ReadSnapshot
  <2>2. Snapshot(r) \in Event
    <3>1. r \in Numbers /\ membership \in Revisions \union {0, Bad}
      BY <1>1 DEF Numbers, Revisions
    <3>2. Plain \in Event /\ "snapshot" \in Kinds
      BY DEF Plain, Event, Kinds, Numbers
    <3> QED BY <3>1, <3>2 DEF Snapshot, Event
  <2> QED BY <1>7, <2>1, <2>2 DEF ReadSnapshot, TypeOK, ReplicaTypeOK, replica
<1>8. CASE SendSnapshot
  <2>1. reading \in Event /\ HasRoom /\ Push(reading)
    BY <1>8 DEF SendSnapshot, TypeOK
  <2>2. stream' \in Seq(Event) /\ Len(stream') <= StreamCap
    BY <2>1, PushType
  <2> QED BY <1>8, <2>2, NoEventType DEF SendSnapshot, TypeOK, ReplicaTypeOK, replica
<1>9. CASE SendUnnumbered
  <2>1. Snapshot(0) \in Event
    BY <1>1, SnapshotEvent
  <2>2. stream' \in Seq(Event) /\ Len(stream') <= StreamCap
    BY <1>9, <2>1, PushType DEF SendUnnumbered
  <2> QED BY <1>9, <2>2 DEF SendUnnumbered, TypeOK, ReplicaTypeOK, replica
<1>10. CASE SendOther
  <2>1. PICK e \in Others : Push(e)
    BY <1>10 DEF SendOther
  <2>2. e \in Event
    BY OtherEvent
  <2>3. stream' \in Seq(Event) /\ Len(stream') <= StreamCap
    BY <1>10, <2>1, <2>2, PushType DEF SendOther
  <2>4. faults' \in 0..MaxFaults
    BY <1>10, StreamAssumption DEF SendOther, TypeOK
  <2> QED BY <1>10, <2>3, <2>4 DEF SendOther, TypeOK, ReplicaTypeOK, replica
<1>11. CASE Rebroadcast
  <2>1. PICK k \in Changes, r \in 1..membership :
          Push(Hint(k, r)) /\ owed' = owed \union {r}
    BY <1>11 DEF Rebroadcast
  <2>2. r \in Revisions
    BY <1>1 DEF Revisions
  <2>3. Hint(k, r) \in Event
    BY <2>2, HintEvent
  <2>4. stream' \in Seq(Event) /\ Len(stream') <= StreamCap
    BY <1>11, <2>1, <2>3, PushType DEF Rebroadcast
  <2>5. faults' \in 0..MaxFaults
    BY <1>11, StreamAssumption DEF Rebroadcast, TypeOK
  <2> QED BY <1>1, <1>11, <2>1, <2>2, <2>4, <2>5
    DEF Rebroadcast, TypeOK, ReplicaTypeOK, replica
<1> QED BY <1>4, <1>5, <1>6, <1>7, <1>8, <1>9, <1>10, <1>11 DEF Serve

\* The connection and the consumer.
LEMMA ConsumerType ==
  ASSUME TypeOK, Connect \/ Break \/ Resync \/ Deliver \/ DeliverFaulty
  PROVE  TypeOK'
<1>1. stream # <<>> => /\ Head(stream) \in Event /\ Tail(stream) \in Seq(Event)
                       /\ Len(Tail(stream)) <= StreamCap
  <2> SUFFICES ASSUME stream # <<>> PROVE /\ Head(stream) \in Event
                                          /\ Tail(stream) \in Seq(Event)
                                          /\ Len(Tail(stream)) <= StreamCap
    OBVIOUS
  <2>1. stream \in Seq(Event) /\ Len(stream) <= StreamCap /\ StreamCap \in Nat
    BY StreamAssumption DEF TypeOK
  <2>2. Len(stream) \in Nat
    BY <2>1, LenProperties
  <2>3. /\ Head(stream) \in Event /\ Tail(stream) \in Seq(Event)
        /\ Len(Tail(stream)) = Len(stream) - 1
    BY <2>1, HeadTailProperties
  <2> QED BY <2>1, <2>2, <2>3
<1>2. faults < MaxFaults => faults + 1 \in 0..MaxFaults
  BY StreamAssumption DEF TypeOK
<1>3. CASE Connect
  <2>1. Snapshot(0) \in Event
    BY SnapshotEvent DEF TypeOK
  <2>2. stream' \in Seq(Event) /\ Len(stream') = 1
    BY <1>3, <2>1 DEF Connect
  <2>3. 1 <= StreamCap
    BY StreamAssumption
  <2> QED BY <1>3, <2>2, <2>3 DEF Connect, TypeOK, ReplicaTypeOK, replica
<1>4. CASE Break \/ Resync
  <2>1. Disconnect /\ faults' \in 0..MaxFaults
    BY <1>2, <1>4 DEF Break, Resync, TypeOK
  <2>2. <<>> \in Seq(Event) /\ Len(<<>>) <= StreamCap
    BY StreamAssumption, EmptySeq
  <2> QED BY <2>1, <2>2, NoEventType DEF Disconnect, TypeOK, ReplicaTypeOK, replica
<1>5. CASE Deliver
  <2>1. ReplicaTypeOK'
    BY <1>1, <1>5, ApplyType DEF Deliver, TypeOK
  <2>2. asked' \in BOOLEAN
    BY <1>5, <2>1 DEF Deliver, ReplicaTypeOK
  <2> QED BY <1>1, <1>5, <2>1, <2>2 DEF Deliver, TypeOK
<1>6. CASE DeliverFaulty
  <2>1. \E e \in Event : Apply(e)
    BY <1>1, <1>6, DamagedFields DEF DeliverFaulty
  <2>2. ReplicaTypeOK'
    BY <2>1, ApplyType DEF TypeOK
  <2>3. asked' \in BOOLEAN
    BY <1>6, <2>2 DEF DeliverFaulty, ReplicaTypeOK
  <2>4. stream' \in Seq(Event) /\ Len(stream') <= StreamCap
    BY <1>1, <1>6 DEF DeliverFaulty, TypeOK
  <2> QED BY <1>2, <1>6, <2>2, <2>3, <2>4 DEF DeliverFaulty, TypeOK
<1> QED BY <1>3, <1>4, <1>5, <1>6

\* Before anything happened.
LEMMA InitType == Init => TypeOK
<1> SUFFICES ASSUME Init PROVE TypeOK
  OBVIOUS
<1>1. stream \in Seq(Event) /\ Len(stream) <= StreamCap
  BY StreamAssumption, EmptySeq DEF Init
<1>2. 0 \in 0..MaxRevision /\ 0 \in 0..MaxFaults /\ 0 \in 0..0
  BY RevisionAssumption, StreamAssumption
<1>3. ReplicaTypeOK
  BY DEF Init, ReplicaInit, ReplicaTypeOK
<1>4. revision \in 0..MaxRevision /\ membership \in 0..revision /\ faults \in 0..MaxFaults
  BY <1>2 DEF Init
<1>5. owed \in SUBSET Revisions /\ reading \in Event
  BY NoEventType DEF Init
<1>6. connected \in BOOLEAN /\ due \in BOOLEAN /\ asked \in BOOLEAN
  BY DEF Init
<1> QED BY <1>1, <1>3, <1>4, <1>5, <1>6 DEF TypeOK

\* Every reachable state has the types that ServiceDiscovery declares: in
\* particular a membership that did not parse is never shown (parseInstances).
THEOREM DiscoveryTyping == Spec => []TypeOK
<1>1. TypeOK /\ [Next]_vars => TypeOK'
  <2> SUFFICES ASSUME TypeOK, [Next]_vars PROVE TypeOK'
    OBVIOUS
  <2>1. CASE Next
    BY <2>1, ServerType, ConsumerType DEF Next
  <2>2. CASE UNCHANGED vars
    BY <2>2 DEF vars, server, replica, TypeOK, ReplicaTypeOK
  <2> QED BY <2>1, <2>2
<1> QED BY InitType, <1>1, PTL DEF Spec

-----------------------------------------------------------------------------
\* The invariant: steps of the registry and the server.

\* A snapshot that is read now is in order behind everything on the stream.
LEMMA FreshSnapshot ==
  ASSUME TypeOK, StreamInv, ReplicaInv, NEW r \in 0..membership
  PROVE  /\ Sound(Snapshot(r), membership)
         /\ Ahead(Snapshot(r), instances, lastObservedRevision)
         /\ \A i \in 1..Len(stream) : InOrder(stream[i], Snapshot(r))
<1>1. Snapshot(r).instances = membership /\ IsSnapshot(Snapshot(r))
  BY SnapshotEvent
<1>2. \A i \in 1..Len(stream) : InOrder(stream[i], Snapshot(r))
  BY <1>1, StreamBehind DEF InOrder
<1>3. membership \in Nat
  BY DEF TypeOK
<1> QED BY <1>1, <1>2, <1>3 DEF Sound, Ahead, ReplicaInv

\* The registry alone moves on.
LEMMA RegistryMoves ==
  ASSUME TypeOK, StreamInv, ReplicaInv, UNCHANGED <<replica, stream>>,
         membership' \in Nat, membership <= membership'
  PROVE  StreamInv' /\ ReplicaInv'
<1>1. membership \in Nat /\ lastObservedRevision \in Nat /\ instances \in Nat
  BY DEF TypeOK, ReplicaTypeOK, Revisions
<1>2. \A i \in 1..Len(stream) : Sound(stream[i], membership')
  <2> SUFFICES ASSUME NEW i \in 1..Len(stream) PROVE Sound(stream[i], membership')
    OBVIOUS
  <2>1. Sound(stream[i], membership)
    BY DEF StreamInv
  <2> QED BY <1>1, <2>1 DEF Sound, IsSnapshot, IsHint, Revisions
<1>3. StreamInv'
  BY <1>2 DEF StreamInv, replica
<1> QED BY <1>1, <1>3 DEF ReplicaInv, replica

\* A snapshot that waits to be sent may wait, unless another one is sent.
LEMMA ReadingWaits ==
  ASSUME TypeOK, ReadingInv, reading' = reading, instances' = instances,
         membership' \in Nat, membership <= membership',
         \A i \in 1..Len(stream') :
           IsSnapshot(stream'[i]) => \E j \in 1..Len(stream) : stream'[i] = stream[j]
  PROVE  ReadingInv'
<1>1. membership \in Nat
  BY DEF TypeOK
<1>2. reading # NoEvent => reading.instances \in Nat
  BY DEF ReadingInv, IsSnapshot
<1> QED BY <1>1, <1>2 DEF ReadingInv

\* An event that is not a snapshot is sent.
LEMMA NewsSent ==
  ASSUME TypeOK, StreamInv, ReplicaInv, ReadingInv,
         NEW e \in Event, HasRoom, Push(e), ~IsSnapshot(e), Sound(e, membership'),
         UNCHANGED <<replica, reading>>, membership' \in Nat, membership <= membership'
  PROVE  StreamInv' /\ ReplicaInv' /\ ReadingInv'
<1>1. /\ Len(stream) \in Nat /\ Len(stream') = Len(stream) + 1
      /\ \A i \in 1..Len(stream) : stream'[i] = stream[i]
      /\ stream'[Len(stream')] = e
  BY PushType
<1>2. \A i \in 1..Len(stream') :
        IsSnapshot(stream'[i]) => \E j \in 1..Len(stream) : stream'[i] = stream[j]
  <2> SUFFICES ASSUME NEW i \in 1..Len(stream'), IsSnapshot(stream'[i])
               PROVE  \E j \in 1..Len(stream) : stream'[i] = stream[j]
    OBVIOUS
  <2>1. i \in 1..Len(stream)
    BY <1>1
  <2> QED BY <1>1, <2>1
<1>3. instances' = instances
  BY DEF replica
<1>4. ReadingInv'
  BY <1>2, <1>3, ReadingWaits
<1>5. StreamInv'
  BY PushKeepsOrder DEF InOrder, Ahead
<1>6. membership \in Nat /\ lastObservedRevision \in Nat /\ instances \in Nat
  BY DEF TypeOK, ReplicaTypeOK, Revisions
<1> QED BY <1>4, <1>5, <1>6 DEF ReplicaInv, replica

\* Every step of the registry and the server.
LEMMA ServerInv ==
  ASSUME TypeOK, OrderInv,
         Change \/ ChangeElsewhere \/ LeaseExpires \/ Serve \/ SendOther \/ Rebroadcast
  PROVE  OrderInv'
<1> USE DEF OrderInv
<1>1. /\ revision \in Nat /\ membership \in 0..revision
      /\ owed \in SUBSET Revisions /\ Revisions \subseteq Nat
  BY RevisionAssumption DEF TypeOK, Revisions
<1>2. CASE Change
  <2>1. /\ revision < MaxRevision /\ revision' = revision + 1
        /\ membership' = revision'
        /\ UNCHANGED <<replica, connected, reading>>
    BY <1>2 DEF Change
  <2>2. membership' \in Nat /\ membership <= membership' /\ membership' \in Revisions
    BY <1>1, <2>1, RevisionAssumption DEF Revisions, TypeOK
  <2>3. CASE connected /\ HasRoom
    <3>1. PICK k \in Changes : Push(Hint(k, revision'))
      BY <1>2, <2>3 DEF Change
    <3>2. owed' = owed \union {revision'} /\ due' = due
      BY <1>2, <2>3 DEF Change
    <3>3. /\ Hint(k, revision') \in Event /\ ~IsSnapshot(Hint(k, revision'))
          /\ Sound(Hint(k, revision'), membership')
      BY <2>1, <2>2, HintEvent DEF Sound
    <3>4. StreamInv' /\ ReplicaInv' /\ ReadingInv'
      BY <2>1, <2>2, <2>3, <3>1, <3>3, NewsSent
    <3>5. LineInv'
      BY <1>1, <2>1, <2>2, <2>3, <3>2 DEF LineInv
    <3> QED BY <3>4, <3>5
  <2>4. CASE ~(connected /\ HasRoom)
    <3>1. due' = connected /\ UNCHANGED <<stream, owed>>
      BY <1>2, <2>4 DEF Change
    <3>2. StreamInv' /\ ReplicaInv'
      BY <2>1, <2>2, <3>1, RegistryMoves
    <3>3. ReadingInv'
      BY <2>1, <2>2, <3>1, ReadingWaits DEF replica
    <3>4. LineInv'
      BY <1>1, <2>1, <2>2, <3>1 DEF LineInv
    <3> QED BY <3>2, <3>3, <3>4
  <2> QED BY <2>3, <2>4
<1>3. CASE ChangeElsewhere
  <2>1. UNCHANGED <<replica, membership, connected, stream, owed, reading, due>>
    BY <1>3 DEF ChangeElsewhere
  <2>2. StreamInv' /\ ReplicaInv'
    BY <1>1, <2>1, RegistryMoves
  <2>3. ReadingInv' /\ LineInv'
    BY <2>1 DEF ReadingInv, LineInv, replica
  <2> QED BY <2>2, <2>3
<1>4. CASE LeaseExpires
  <2>1. /\ revision < MaxRevision /\ membership' = revision + 1 /\ due' = connected
        /\ UNCHANGED <<replica, connected, stream, owed, reading>>
    BY <1>4 DEF LeaseExpires
  <2>2. membership' \in Nat /\ membership <= membership'
    BY <1>1, <2>1
  <2>3. StreamInv' /\ ReplicaInv'
    BY <2>1, <2>2, RegistryMoves
  <2>4. ReadingInv'
    BY <2>1, <2>2, ReadingWaits DEF replica
  <2>5. LineInv'
    BY <1>1, <2>1, <2>2 DEF LineInv
  <2> QED BY <2>3, <2>4, <2>5
<1>5. CASE ReadSnapshot
  <2>1. PICK r \in owed : reading' = Snapshot(r) /\ owed' = owed \ {r}
    BY <1>5 DEF ReadSnapshot
  <2>2. UNCHANGED <<replica, membership, connected, stream, due>>
    BY <1>5 DEF ReadSnapshot
  <2>3. r \in 0..membership /\ r # 0
    BY <1>1 DEF LineInv, Revisions
  <2>4. /\ IsSnapshot(reading') /\ reading'.number # 0
        /\ reading'.instances = membership
    BY <2>1, <2>3, SnapshotEvent
  <2>5. \A i \in 1..Len(stream) :
          IsSnapshot(stream[i]) => stream[i].instances <= membership
    BY StreamBehind
  <2>6. ReadingInv'
    BY <1>1, <2>2, <2>4, <2>5 DEF ReadingInv, ReplicaInv, replica
  <2>7. StreamInv' /\ ReplicaInv'
    BY <1>1, <2>2, RegistryMoves
  <2>8. LineInv'
    BY <2>1, <2>2 DEF LineInv
  <2> QED BY <2>6, <2>7, <2>8
<1>6. CASE SendSnapshot
  <2>1. /\ reading # NoEvent /\ HasRoom /\ Push(reading) /\ reading' = NoEvent
        /\ UNCHANGED <<replica, membership, connected, owed, due>>
    BY <1>6 DEF SendSnapshot
  <2>2. reading \in Event
    BY DEF TypeOK
  <2>3. /\ Sound(reading, membership')
        /\ Ahead(reading, instances, lastObservedRevision)
        /\ \A i \in 1..Len(stream) : InOrder(stream[i], reading)
    BY <2>1 DEF ReadingInv, Sound, Ahead, InOrder
  <2>4. StreamInv'
    BY <1>1, <2>1, <2>2, <2>3, PushKeepsOrder
  <2>5. ReadingInv' /\ ReplicaInv' /\ LineInv'
    BY <2>1 DEF ReadingInv, ReplicaInv, LineInv, replica
  <2> QED BY <2>4, <2>5
<1>7. CASE SendUnnumbered
  <2>1. /\ due /\ reading = NoEvent /\ HasRoom /\ Push(Snapshot(0)) /\ due' = FALSE
        /\ UNCHANGED <<replica, membership, connected, owed, reading>>
    BY <1>7 DEF SendUnnumbered
  <2>2. Snapshot(0) \in Event
    BY <1>1, SnapshotEvent
  <2>3. StreamInv'
    BY <1>1, <2>1, <2>2, FreshSnapshot, PushKeepsOrder
  <2>4. ReadingInv' /\ ReplicaInv' /\ LineInv'
    BY <2>1 DEF ReadingInv, ReplicaInv, LineInv, replica
  <2> QED BY <2>3, <2>4
<1>8. CASE SendOther
  <2>1. /\ connected /\ HasRoom
        /\ UNCHANGED <<replica, membership, connected, owed, reading, due>>
    BY <1>8 DEF SendOther
  <2>2. PICK e \in Others : Push(e)
    BY <1>8 DEF SendOther
  <2>3. e \in Event /\ Sound(e, membership') /\ ~IsSnapshot(e)
    BY <2>1, OtherEvent
  <2>4. StreamInv' /\ ReplicaInv' /\ ReadingInv'
    BY <1>1, <2>1, <2>2, <2>3, NewsSent
  <2>5. LineInv'
    BY <2>1 DEF LineInv
  <2> QED BY <2>4, <2>5
<1>9. CASE Rebroadcast
  <2>1. PICK k \in Changes, r \in 1..membership :
          Push(Hint(k, r)) /\ owed' = owed \union {r}
    BY <1>9 DEF Rebroadcast
  <2>2. /\ connected /\ HasRoom
        /\ UNCHANGED <<replica, membership, connected, reading, due>>
    BY <1>9 DEF Rebroadcast
  <2>3. r \in Revisions /\ r <= membership
    <3>1. membership \in 0..MaxRevision /\ MaxRevision \in Nat
      BY RevisionAssumption DEF TypeOK
    <3> QED BY <3>1 DEF Revisions
  <2>4. /\ Hint(k, r) \in Event /\ ~IsSnapshot(Hint(k, r))
        /\ Sound(Hint(k, r), membership')
    BY <2>2, <2>3, HintEvent DEF Sound
  <2>5. StreamInv' /\ ReplicaInv' /\ ReadingInv'
    BY <1>1, <2>1, <2>2, <2>4, NewsSent
  <2>6. LineInv'
    BY <2>1, <2>2, <2>3 DEF LineInv
  <2> QED BY <2>5, <2>6
<1> QED BY <1>2, <1>3, <1>4, <1>5, <1>6, <1>7, <1>8, <1>9 DEF Serve

-----------------------------------------------------------------------------
\* The invariant: steps of the connection and the consumer.

\* An event is taken in, whole or damaged: a step of the abstract view, after
\* which the rest of the stream is still ahead of the replica.
LEMMA Taken ==
  ASSUME TypeOK, OrderInv, stream # <<>>, UNCHANGED <<membership, reading>>,
         \/ Apply(Head(stream))
         \/ \E d \in Damaged(Head(stream)) : Apply(d)
  PROVE  /\ ReplicaInv'
         /\ \A i \in 1..Len(stream) :
              Ahead(stream[i], instances', lastObservedRevision')
         /\ reading # NoEvent => instances' <= reading.instances
         /\ View!Next \/ UNCHANGED View!viewVars
<1> DEFINE e == Head(stream)
<1>1. stream \in Seq(Event) /\ Len(stream) \in Nat \ {0} /\ e = stream[1] /\ 1 \in 1..Len(stream)
  BY EmptySeq DEF TypeOK
<1>2. e \in Event /\ ReplicaTypeOK
  BY <1>1, HeadTailProperties DEF TypeOK
<1>3. Sound(e, membership) /\ Ahead(e, instances, lastObservedRevision)
  BY <1>1 DEF OrderInv, StreamInv
<1>4. \A i \in 1..Len(stream) : i # 1 => InOrder(e, stream[i])
  BY <1>1 DEF OrderInv, StreamInv
<1>5. \A i \in 1..Len(stream) : Ahead(stream[i], instances, lastObservedRevision)
  BY DEF OrderInv, StreamInv
<1>6. /\ instances \in Nat /\ lastObservedRevision \in Nat /\ membership \in Nat
      /\ reading # NoEvent => reading.instances \in Nat
  BY DEF TypeOK, ReplicaTypeOK, Revisions, OrderInv, ReadingInv, IsSnapshot
<1>7. CASE Quiet
  <2>1. ReplicaInv'
    <3>1. UNCHANGED <<instances, lastObservedRevision, membership>>
      BY <1>7 DEF Quiet
    <3>2. synchronized' => synchronized
      BY <1>7, Zenon DEF Quiet
    <3> QED BY <3>1, <3>2 DEF OrderInv, ReplicaInv
  <2>2. View!Next \/ UNCHANGED View!viewVars
    BY <1>7 DEF Quiet, View!Next, View!Doubt, View!viewVars
  <2> QED BY <1>5, <1>7, <2>1, <2>2 DEF Quiet, OrderInv, ReadingInv
<1>8. CASE /\ IsSnapshot(e) /\ ~Idle(e)
           /\ instances' = e.instances /\ synchronized' = TRUE
           /\ e.number = 0 => lastObservedRevision' = lastObservedRevision
           /\ e.number # 0 => /\ lastObservedRevision <= e.number
                              /\ lastObservedRevision' = e.number
  <2>1. /\ e.instances \in Nat /\ e.number \in Nat /\ e.number <= e.instances
        /\ instances <= e.instances /\ e.instances <= membership
        /\ e.number = 0 => lastObservedRevision <= e.instances
    BY <1>3, <1>8 DEF IsSnapshot, Sound, Ahead, IsHint, Idle, Changes
  <2>2. /\ instances' = e.instances /\ lastObservedRevision' \in Nat
        /\ lastObservedRevision <= lastObservedRevision'
        /\ lastObservedRevision' <= e.instances
    BY <1>6, <1>8, <2>1
  <2>3. ReplicaInv'
    BY <1>6, <2>1, <2>2 DEF ReplicaInv
  <2>4. \A i \in 1..Len(stream) : Ahead(stream[i], instances', lastObservedRevision')
    <3> SUFFICES ASSUME NEW i \in 1..Len(stream), IsSnapshot(stream[i])
                 PROVE  /\ e.instances <= stream[i].instances
                        /\ stream[i].number = 0 =>
                             lastObservedRevision' <= stream[i].instances
      BY <2>2 DEF Ahead
    <3>1. CASE i = 1
      BY <1>1, <2>1, <2>2, <3>1
    <3>2. CASE i # 1
      BY <1>4, <1>5, <1>8, <3>2 DEF InOrder, Ahead
    <3> QED BY <3>1, <3>2
  <2>5. reading # NoEvent => instances' <= reading.instances
    BY <1>1, <1>8 DEF OrderInv, ReadingInv
  <2>6. View!Adopt
    BY <1>6, <1>8, <2>1, <2>2 DEF View!Adopt
  <2> QED BY <2>3, <2>4, <2>5, <2>6 DEF View!Next
<1>9. CASE /\ IsHint(e) /\ ~Idle(e)
           /\ lastObservedRevision < e.number
           /\ lastObservedRevision' = e.number
           /\ instances' = instances /\ synchronized' = FALSE
  <2>1. e.number \in Nat /\ e.number <= membership
    BY <1>3, <1>9 DEF IsHint, Sound, IsSnapshot, Revisions, Changes
  <2>2. ReplicaInv'
    BY <1>9, <2>1 DEF ReplicaInv, OrderInv
  <2>3. \A i \in 1..Len(stream) : Ahead(stream[i], instances', lastObservedRevision')
    <3> SUFFICES ASSUME NEW i \in 1..Len(stream), IsSnapshot(stream[i])
                 PROVE  /\ instances <= stream[i].instances
                        /\ stream[i].number = 0 => e.number <= stream[i].instances
      BY <1>9 DEF Ahead
    <3>1. i # 1
      BY <1>1, <1>9 DEF IsSnapshot, IsHint, Changes
    <3> QED BY <1>4, <1>5, <1>9, <3>1 DEF InOrder, Ahead
  <2>4. reading # NoEvent => instances' <= reading.instances
    BY <1>9 DEF OrderInv, ReadingInv
  <2>5. View!Hear
    BY <1>9, <2>1 DEF View!Hear
  <2> QED BY <2>2, <2>3, <2>4, <2>5 DEF View!Next
<1> HIDE DEF e
<1>10. CASE Apply(e)
  BY <1>2, <1>3, <1>7, <1>8, <1>9, <1>10, ApplySound
<1>11. CASE \E d \in Damaged(e) : Apply(d)
  BY <1>2, <1>3, <1>7, <1>11, DamagedQuiet
<1> QED BY <1>10, <1>11 DEF e

\* Every step of the connection and the consumer, and what it is in the view.
LEMMA ConsumerInv ==
  ASSUME TypeOK, OrderInv, Connect \/ Break \/ Resync \/ Deliver \/ DeliverFaulty
  PROVE  OrderInv' /\ (View!Next \/ UNCHANGED View!viewVars)
<1> USE DEF OrderInv
<1>1. CASE Connect
  <2>1. /\ ~connected /\ connected' = TRUE /\ stream' = <<Snapshot(0)>>
        /\ UNCHANGED <<replica, membership, owed, reading, due>>
    BY <1>1 DEF Connect
  <2>2. 0 \in 0..membership
    BY DEF TypeOK
  <2>3. /\ Sound(Snapshot(0), membership)
        /\ Ahead(Snapshot(0), instances, lastObservedRevision)
    BY <2>2, FreshSnapshot
  <2>4. Len(stream') = 1 /\ stream'[1] = Snapshot(0)
    BY <2>1
  <2>5. StreamInv'
    BY <2>1, <2>3, <2>4 DEF StreamInv, replica
  <2>6. reading = NoEvent
    BY <2>1 DEF LineInv
  <2>7. ReadingInv' /\ LineInv' /\ ReplicaInv'
    BY <2>1, <2>6 DEF ReadingInv, LineInv, ReplicaInv, replica
  <2> QED BY <2>1, <2>5, <2>7 DEF View!viewVars, replica
<1>2. CASE Break \/ Resync
  <2>1. /\ stream' = <<>> /\ owed' = {} /\ reading' = NoEvent /\ due' = FALSE
        /\ UNCHANGED <<replica, membership>>
    BY <1>2 DEF Break, Resync, Disconnect
  <2>2. Len(stream') = 0
    BY <2>1
  <2>3. StreamInv'
    BY <2>2 DEF StreamInv
  <2>4. ReadingInv' /\ LineInv' /\ ReplicaInv'
    BY <2>1 DEF ReadingInv, LineInv, ReplicaInv, replica
  <2> QED BY <2>1, <2>3, <2>4 DEF View!viewVars, replica
<1>3. CASE Deliver \/ DeliverFaulty
  <2>1. /\ stream # <<>>
        /\ UNCHANGED <<membership, reading, connected, owed, due>>
        /\ stream' = stream \/ stream' = Tail(stream)
        /\ \/ Apply(Head(stream))
           \/ \E d \in Damaged(Head(stream)) : Apply(d)
    BY <1>3 DEF Deliver, DeliverFaulty
  <2>2. /\ ReplicaInv'
        /\ \A i \in 1..Len(stream) :
             Ahead(stream[i], instances', lastObservedRevision')
        /\ reading # NoEvent => instances' <= reading.instances
        /\ View!Next \/ UNCHANGED View!viewVars
    BY <2>1, Taken
  <2>3. stream \in Seq(Event) /\ Len(stream) \in Nat
    BY LenProperties DEF TypeOK
  <2>4. /\ Len(Tail(stream)) = Len(stream) - 1
        /\ \A i \in 1..Len(Tail(stream)) : Tail(stream)[i] = stream[i + 1]
    BY <2>1, <2>3, HeadTailProperties
  <2>5. \E s \in {0, 1} : /\ Len(stream') + s = Len(stream)
                          /\ Len(stream') \in Nat
                          /\ \A i \in 1..Len(stream') : stream'[i] = stream[i + s]
    <3>1. CASE stream' = stream
      <4>1. /\ Len(stream') + 0 = Len(stream) /\ Len(stream') \in Nat
            /\ \A i \in 1..Len(stream') : stream'[i] = stream[i + 0]
        BY <2>3, <3>1
      <4> QED BY <4>1
    <3>2. CASE stream' = Tail(stream)
      <4>1. /\ Len(stream') + 1 = Len(stream) /\ Len(stream') \in Nat
            /\ \A i \in 1..Len(stream') : stream'[i] = stream[i + 1]
        <5>1. Len(stream) # 0
          BY <2>1, <2>3, EmptySeq
        <5> QED BY <2>3, <2>4, <3>2, <5>1
      <4> QED BY <4>1
    <3> QED BY <2>1, <3>1, <3>2
  <2>6. PICK s \in {0, 1} : /\ Len(stream') + s = Len(stream)
                            /\ Len(stream') \in Nat
                            /\ \A i \in 1..Len(stream') : stream'[i] = stream[i + s]
    BY <2>5
  <2>7. \A i \in 1..Len(stream') : i + s \in 1..Len(stream)
    BY <2>3, <2>6
  <2>8. \A i \in 1..Len(stream') :
          /\ Sound(stream'[i], membership')
          /\ Ahead(stream'[i], instances', lastObservedRevision')
    BY <2>1, <2>2, <2>6, <2>7 DEF StreamInv
  <2>9. \A i, j \in 1..Len(stream') : i < j => InOrder(stream'[i], stream'[j])
    <3> SUFFICES ASSUME NEW i \in 1..Len(stream'), NEW j \in 1..Len(stream'), i < j
                 PROVE  InOrder(stream'[i], stream'[j])
      OBVIOUS
    <3>1. i + s < j + s
      BY <2>6
    <3> QED BY <2>6, <2>7, <3>1 DEF StreamInv
  <2>10. StreamInv'
    BY <2>8, <2>9 DEF StreamInv
  <2>11. ReadingInv'
    BY <2>1, <2>2, <2>6, <2>7 DEF ReadingInv
  <2>12. LineInv'
    BY <2>1 DEF LineInv
  <2> QED BY <2>2, <2>10, <2>11, <2>12
<1> QED BY <1>1, <1>2, <1>3

\* A step of the registry or the server is a change of the view's subject.
LEMMA ServerView ==
  ASSUME TypeOK, Change \/ ChangeElsewhere \/ LeaseExpires \/ Serve \/ SendOther \/ Rebroadcast
  PROVE  View!Next \/ UNCHANGED View!viewVars
<1>1. UNCHANGED <<instances, lastObservedRevision, synchronized>>
  BY DEF Change, ChangeElsewhere, LeaseExpires, Serve, ReadSnapshot, SendSnapshot,
         SendUnnumbered, SendOther, Rebroadcast, replica
<1>2. membership < membership' \/ membership' = membership
  <2>1. revision \in 0..MaxRevision /\ membership \in 0..revision
    BY DEF TypeOK
  <2>2. CASE Change \/ LeaseExpires
    BY <2>1, <2>2, RevisionAssumption DEF Change, LeaseExpires
  <2>3. CASE ChangeElsewhere \/ Serve \/ SendOther \/ Rebroadcast
    BY <2>3 DEF ChangeElsewhere, Serve, ReadSnapshot, SendSnapshot, SendUnnumbered, SendOther, Rebroadcast
  <2> QED BY <2>2, <2>3
<1> QED BY <1>1, <1>2 DEF View!Next, View!Change, View!viewVars

\* The invariant is inductive, and every step is one of the view or none.
LEMMA DiscoveryStep ==
  ASSUME TypeOK, OrderInv, [Next]_vars
  PROVE  OrderInv' /\ (View!Next \/ UNCHANGED View!viewVars)
<1>1. CASE Change \/ ChangeElsewhere \/ LeaseExpires \/ Serve \/ SendOther \/ Rebroadcast
  BY <1>1, ServerInv, ServerView
<1>2. CASE Connect \/ Break \/ Resync \/ Deliver \/ DeliverFaulty
  BY <1>2, ConsumerInv
<1>3. CASE UNCHANGED vars
  BY <1>3 DEF vars, server, replica, OrderInv, StreamInv, ReadingInv, LineInv,
              ReplicaInv, View!viewVars
<1> QED BY <1>1, <1>2, <1>3 DEF Next

\* Before anything happened, the same.
LEMMA InitDiscovery == Init => OrderInv /\ View!Init
<1> SUFFICES ASSUME Init PROVE OrderInv /\ View!Init
  OBVIOUS
<1>1. Len(stream) = 0
  BY EmptySeq DEF Init
<1>2. StreamInv
  BY <1>1 DEF StreamInv
<1>3. ReadingInv /\ LineInv /\ ReplicaInv
  BY DEF Init, ReplicaInit, ReadingInv, LineInv, ReplicaInv
<1> QED BY <1>2, <1>3 DEF OrderInv, Init, ReplicaInit, View!Init

\* Hints and unnumbered snapshots arrive in the order of the memberships they
\* tell of, and nothing tells of more than the registry has reached.
THEOREM StreamOrder == Spec => []DiscoveryInv
<1>1. Init => OrderInv
  BY InitDiscovery
<1>2. TypeOK /\ OrderInv /\ [Next]_vars => OrderInv'
  BY DiscoveryStep
<1>3. TypeOK /\ OrderInv <=> DiscoveryInv
  BY DEF DiscoveryInv
<1> QED BY <1>1, <1>2, <1>3, DiscoveryTyping, PTL DEF Spec

\* A synchronized replica covers every change it was told of and shows no more
\* than the registry has reached: no hint is forgotten behind a snapshot that
\* was read before it (applySnapshot's stale_snapshot).
THEOREM Coverage == Spec => []SyncedCoversObserved
<1>1. DiscoveryInv => SyncedCoversObserved
  BY DEF DiscoveryInv, TypeOK, ReplicaTypeOK, Revisions, OrderInv, ReplicaInv, SyncedCoversObserved
<1> QED BY <1>1, StreamOrder, PTL

\* The replica implements the abstract view: forward only, and fresh only while
\* it covers what it was told (applyServiceDiscoveryEvent as a whole).
THEOREM Refinement == Spec => ViewSpec
<1>1. Init => View!Init
  BY InitDiscovery
<1>2. TypeOK /\ OrderInv /\ [Next]_vars => [View!Next]_(View!viewVars)
  BY DiscoveryStep
<1>3. DiscoveryInv => TypeOK /\ OrderInv
  BY DEF DiscoveryInv
<1>4. Spec => View!Spec
  BY <1>1, <1>2, <1>3, StreamOrder, PTL DEF Spec, View!Spec
<1> QED BY <1>4 DEF ViewSpec
=============================================================================
