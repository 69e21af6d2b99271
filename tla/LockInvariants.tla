--------------------------- MODULE LockInvariants ---------------------------
(***************************************************************************)
(* The inductive invariant behind the theorems of LockFencing and          *)
(* LockSafety, in named parts.                                             *)
(***************************************************************************)
EXTENDS LockSystem

\* Live grants have different tokens and no key in common; queue tickets are
\* unique; both counters are ahead of what they numbered.
DistinctTickets(ws) == \A v, w \in ws : v # w => v.ticket # w.ticket
NodeInv ==
  /\ \A g, h \in grants : g # h => g.token # h.token /\ ~Overlap(g, h)
  /\ \A g \in grants : 0 < g.token /\ g.token < nextToken
  /\ DistinctTickets(waiters)
  /\ \A w \in waiters : w.ticket < nextTicket

\* What a step of the node may do to its grants: new ones have new tokens.
NodeGrows ==
  /\ nextToken <= nextToken'
  /\ \A g \in grants' \ grants : nextToken <= g.token

\* A client step leaves the node alone and tells no attempt a token that it
\* had not been sent.
ClientStep ==
  /\ UNCHANGED <<nodeVars, call>>
  /\ \A b \in Attempts : /\ token'[b] \in {token[b], reply[b].token}
                         /\ reply'[b].token \in {reply[b].token, 0}

\* The fencing tokens attempt a has heard of and not yet forgotten.
Heard(a) == {token[a], reply[a].token} \ {0}

\* A step of the node, or of a client, only ever tells an attempt the token of
\* a live grant of its own holder and key set.
TellsOnlyOwn ==
  \A a \in Attempts : \A t \in Heard(a)' :
    \/ t \in Heard(a)
    \/ \E g \in grants' : /\ g.token = t
                          /\ g.holder = call[a].holder
                          /\ g.keys = call[a].keys

\* A token an attempt heard of was issued; if it is live it is a grant of the
\* attempt's own holder and key set.
KnownIssued ==
  \A a \in Attempts : \A t \in Heard(a) :
    /\ t < nextToken
    /\ \A g \in grants :
         g.token = t => g.holder = call[a].holder /\ g.keys = call[a].keys

\* Two attempts that heard of one token have the same holder and key set.
KnownShared ==
  \A a, b \in Attempts : \A t \in Heard(a) \intersect Heard(b) :
    call[a].holder = call[b].holder /\ call[a].keys = call[b].keys

\* On a key of an attempt, no live grant is older than a token it heard of.
KnownLatest ==
  \A a \in Attempts : \A t \in Heard(a) :
    \A g \in grants : g.keys \intersect call[a].keys # {} => t <= g.token

\* A Lock, and a renewal that precedes one, has a valid fencing token.
HoldsToken ==
  \A a \in Attempts :
    pc[a] \in Holding \union {"renewReacquired", "renewFound"} => token[a] > 0

FencingInv == NodeInv /\ KnownIssued /\ KnownShared /\ KnownLatest /\ HoldsToken
-----------------------------------------------------------------------------
\* What the node keeps is kept for the holder and the keys of the attempt that
\* asked for it.
OwnEntries ==
  \A x \in grants \union waiters :
    x.holder = call[x.req].holder /\ x.keys = call[x.req].keys

\* The requests attempt a has on their way. It awaits one at most, and only the
\* one it waits for where it is.
AwaitsOne(a) ==
  /\ \A m \in net : m.att = a /\ m.awaited =>
       /\ pc[a] \in Calling
       /\ m.op = OpAt[pc[a]]
       /\ m.op \in {"renew", "release"} => m.token = token[a]
       /\ reply[a].kind = "nothing"
  /\ \A m, n \in net :
       m.att = a /\ n.att = a /\ m.awaited /\ n.awaited => m = n

\* An acquire that nobody awaits is left behind by an exception only, and a
\* release is sent by nobody who still works under the Lock.
CleaningUp == {"cancel", "releaseRaced"}
Left == {"aborted", "unsafe", "crashed"}
LeavesBehind(a) ==
  /\ \A m \in net : m.att = a => pc[a] # "idle"
  /\ \A m \in net : m.att = a /\ m.op = "acquire" /\ ~m.awaited =>
       pc[a] \in Left \/ (pc[a] \in CleaningUp /\ after[a] = "aborted")
  /\ \A m \in net : m.att = a /\ m.op = "release" =>
       pc[a] \in Left \union {"releaseRaced", "releasing", "released", "timeout"}

\* The node keeps nothing for attempt a; or nothing but a grant of token t.
NothingKept(a) == GrantsFor(a) = {} /\ WaitsFor(a) = {}
OnlyGrant(a, t) == WaitsFor(a) = {} /\ \A g \in GrantsFor(a) : g.token = t

\* No acquire of attempt a can take effect any more.
CannotCommit(a) == a \in tombs \/ \A m \in net : m.att = a => m.op # "acquire"

\* Until its first acquire is granted or queued, nothing is kept.
BeforeTheGrant(a) ==
  \/ pc[a] \in {"idle", "none"}
  \/ /\ pc[a] = "acquire"
     /\ \/ reply[a].kind \in {"nothing", "notLeader", "mismatch"}
        \/ reply[a].kind = "notAcquired" /\ ~call[a].wait
  => NothingKept(a)

\* From the answer that grants it on there is the grant the attempt knows of.
Granted(a) ==
  pc[a] \in {"acquire", "retry"} /\ reply[a].kind \in {"granted", "regranted"}
Authorized(a) == pc[a] \in Holding \union {"renewReacquired", "renewFound"}
UnderTheGrant(a) ==
  /\ Granted(a) /\ reply[a].token > 0 => OnlyGrant(a, reply[a].token)
  /\ Authorized(a) => OnlyGrant(a, token[a])

\* After the cancel there is at most the grant that it met, until that is
\* released. A cancel that follows an exception must have been recorded.
Recorded(a) == TombstoneOnRace \/ after[a] = "timeout"
AfterTheCancel(a) ==
  /\ Recorded(a) =>
       /\ pc[a] = "cancel" /\ reply[a].kind = "cancelled"
            => NothingKept(a) /\ CannotCommit(a)
       /\ pc[a] = "cancel" /\ reply[a].kind = "raced"
            => /\ WaitsFor(a) = {}
               /\ reply[a].token > 0 => OnlyGrant(a, reply[a].token)
               /\ CannotCommit(a)
       /\ pc[a] = "releaseRaced" => OnlyGrant(a, token[a]) /\ CannotCommit(a)
       /\ pc[a] = "releaseRaced" /\ reply[a].kind = "released" => NothingKept(a)
  /\ pc[a] = "timeout" \/ (pc[a] = "aborted" /\ TombstoneOnRace)
       => NothingKept(a) /\ CannotCommit(a)

AttemptInv(a) ==
  /\ AwaitsOne(a) /\ LeavesBehind(a)
  /\ BeforeTheGrant(a) /\ UnderTheGrant(a) /\ AfterTheCancel(a)

SafetyInv == OwnEntries /\ \A a \in Attempts : AttemptInv(a)
-----------------------------------------------------------------------------
\* The lease attempt a works under, or is about to be told to work under, has been
\* started by a command of its own.
LeaseKnown(a) ==
  /\ reply[a].kind = "granted" /\ reply[a].token > 0 => <<reply[a].token, a>> \in started
  /\ reply[a].kind = "renewed" => <<token[a], a>> \in started
  /\ pc[a] \in Holding => <<token[a], a>> \in started

LeaseInv == \A a \in Attempts : LeaseKnown(a)
=============================================================================
