----------------------------- MODULE LockSystem -----------------------------
(***************************************************************************)
(* Lock clients, the transport and the node together, and what the lock    *)
(* library owes its callers.                                               *)
(***************************************************************************)
EXTENDS LockClient

\* The node answers request m; nobody hears it if the call was given up.
Answer(m, k, t) ==
  /\ net' = net \ {m}
  /\ reply' = IF m.awaited
              THEN [reply EXCEPT ![m.att] = [kind |-> k, token |-> t]]
              ELSE reply
  /\ UNCHANGED <<pc, call, resends, token, retries, after>>

Holder(m) == call[m.att].holder
KeySet(m) == call[m.att].keys

ServeSuppressed(m) ==
  /\ m.op = "acquire"
  /\ Suppressed(m.att)
  /\ Answer(m, "notAcquired", 0)
  /\ UNCHANGED nodeVars

ServeReacquire(m) ==
  /\ m.op = "acquire"
  /\ Reacquires(m.att, Holder(m), KeySet(m))
  /\ StopWaiting(m.att)
  /\ \E g \in GrantsOf(Holder(m), KeySet(m)) : Answer(m, "regranted", g.token)

ServeArrival(m) ==
  /\ m.op = "acquire"
  /\ Arrives(m.att, Holder(m), KeySet(m))
  /\ IF GrantableNow(m.att, Holder(m), KeySet(m))
     THEN /\ Enter(m.att, Holder(m), KeySet(m))
          /\ Answer(m, "granted", GrantedToken(m.att, Holder(m), KeySet(m)))
     ELSE /\ IF call[m.att].wait
             THEN Enter(m.att, Holder(m), KeySet(m))
             ELSE UNCHANGED nodeVars
          /\ Answer(m, "notAcquired", 0)

\* A repeated acquire of a queued request keeps its place.
ServeQueued(m) ==
  /\ m.op = "acquire"
  /\ ~Suppressed(m.att)
  /\ GrantsOf(Holder(m), KeySet(m)) = {}
  /\ \E w \in waiters : w.req = m.att
  /\ Answer(m, "notAcquired", 0)
  /\ UNCHANGED nodeVars

ServeRenew(m) ==
  /\ m.op = "renew"
  /\ LET found == {g \in GrantsOf(Holder(m), KeySet(m)) : g.token = m.token}
     IN  \/ found = {} /\ Answer(m, "notRenewed", 0) /\ UNCHANGED nodeVars
         \/ \E g \in found : Restart(g, m.att) /\ Answer(m, "renewed", 0)

ServeRelease(m) ==
  /\ m.op = "release"
  /\ LET found == {g \in grants : g.holder = Holder(m) /\ g.token = m.token}
     IN  \/ /\ found = {}
            /\ Answer(m, "notReleased", 0)
            /\ UNCHANGED nodeVars
         \/ \E g \in found : Remove(g) /\ Answer(m, "released", 0)

ServeCancel(m) ==
  /\ m.op = "cancel"
  /\ LET r == m.att
         h == Holder(m)
         K == KeySet(m)
     IN  \/ /\ RacesGrant(r, h, K)
            /\ Withdraw(r, TombstoneOnRace)
            /\ \E g \in RacedGrants(r, h, K) : Answer(m, "raced", g.token)
         \/ /\ Cancels(r, h, K)
            /\ Withdraw(r, TRUE)
            /\ Answer(m, "cancelled", 0)
         \/ /\ ~RacesGrant(r, h, K)
            /\ ~Cancels(r, h, K)
            /\ Answer(m, "capacity", 0)
            /\ UNCHANGED nodeVars

Serve(m) ==
  \/ ServeSuppressed(m) \/ ServeReacquire(m) \/ ServeArrival(m)
  \/ ServeQueued(m) \/ ServeRenew(m) \/ ServeRelease(m) \/ ServeCancel(m)

\* A node that is not the leader refuses before applying anything.
Refuse(m) == Answer(m, "notLeader", 0) /\ UNCHANGED nodeVars

\* An answer that carries authority arrives without a usable fencing token.
Garble(a) ==
  /\ Malformed
  /\ reply[a].kind \in {"granted", "regranted", "raced"}
  /\ reply[a].token > 0
  /\ reply' = [reply EXCEPT ![a].token = 0]
  /\ UNCHANGED <<nodeVars, pc, call, resends, net, token, retries, after>>

Expiry ==
  /\ (\E g \in grants : ExpireLease(g)) \/ (\E w \in waiters : ExpireWait(w))
  /\ UNCHANGED clientVars

-----------------------------------------------------------------------------
Wait(a) ==
  \/ FirstRaises(a) \/ FirstGranted(a) \/ FirstRegranted(a)
  \/ FirstNotAcquired(a) \/ Retry(a) \/ GiveUp(a) \/ RetryNotAcquired(a)
  \/ RetryAcquired(a) \/ RetryRaises(a) \/ RenewSucceeds(a) \/ RenewFails(a)
  \/ CancelSucceeds(a) \/ CancelRaces(a) \/ CancelFails(a)
  \/ RacedReleased(a) \/ RacedReleaseFails(a)

Use(a) == Renew(a) \/ RenewAnswered(a) \/ Release(a) \/ ReleaseEnds(a)

Next ==
  \/ \E a \in Attempts :
       Start(a) \/ Wait(a) \/ Abort(a) \/ Use(a) \/ Resend(a) \/ Garble(a) \/ Crash(a)
  \/ \E m \in net : Serve(m) \/ Refuse(m)
  \/ Expiry

Spec == Init /\ [][Next]_vars

\* A call ends by its timeout at the latest, the wait loop never pauses for
\* good, every lease and queue entry runs out unless it is renewed.
Fairness ==
  /\ \A a \in Attempts :
       WF_vars(Wait(a)) /\ WF_vars(RenewAnswered(a)) /\ WF_vars(ReleaseEnds(a))
                        /\ WF_vars(Resend(a))
  /\ WF_vars(Expiry)

FairSpec == Spec /\ Fairness

-----------------------------------------------------------------------------
\* What the properties speak about.

\* The node still honours the token attempt a holds.
Live(a) == \E g \in grants : g.token = token[a]
SharesKey(a, b) == call[a].keys \intersect call[b].keys # {}

\* What the node keeps on behalf of attempt a.
GrantsFor(a) == {g \in grants : g.req = a}
WaitsFor(a) == {w \in waiters : w.req = a}

\* Of two Locks on a common key, the one with the smaller fencing token has no
\* authority left, and Locks with the same token are one grant: the same
\* holder and key set. This is what a resource that compares tokens relies on,
\* whatever answers were late, lost or raced (locking.py:164-237).
FencingOrder ==
  \A a, b \in Attempts :
    /\ pc[a] \in Holding
    /\ pc[b] \in Holding
    /\ SharesKey(a, b)
    => \/ token[a] < token[b] /\ ~Live(a)
       \/ token[b] < token[a] /\ ~Live(b)
       \/ /\ token[a] = token[b]
          /\ call[a].holder = call[b].holder
          /\ call[a].keys = call[b].keys

\* An attempt that generated its holder (locking.py:_gen_holder) shares its
\* live grant with nobody: two workers that name no holder exclude each other.
GeneratedHoldersExclude ==
  \A a, b \in Attempts :
    /\ a # b
    /\ call[a].holder \notin Callers
    /\ pc[a] \in Holding
    /\ pc[b] \in Holding
    /\ SharesKey(a, b)
    => ~(Live(a) /\ Live(b))

\* LockTimeout, and None from try_lock, leave nothing behind: no grant and no
\* queue entry of the attempt exists then or ever after, so no late acquire of
\* it can commit (README.md: "they never report a safe timeout while an
\* ambiguous acquire could still commit").
SafeTimeout ==
  \A a \in Attempts :
    pc[a] \in {"none", "timeout"} => GrantsFor(a) = {} /\ WaitsFor(a) = {}

\* The same of an attempt that ends with the exception of one of its calls,
\* re-raised after the cancel succeeded (locking.py:177-179, 239-241): here an
\* acquire may well be on its way when the cancel is.
SafeAbort ==
  \A a \in Attempts :
    pc[a] = "aborted" => GrantsFor(a) = {} /\ WaitsFor(a) = {}

\* The lease of a returned Lock has been started by a command of this very
\* attempt, so not before it asked: a grant found by a retry or by a reacquire may
\* have been running since a promotion or since another attempt's acquire, and is
\* renewed first (locking.py:183-192, 222-237).
OwnLease ==
  \A a \in Attempts : pc[a] \in Holding => <<token[a], a>> \in started

\* A Lock is all there is to release: while an attempt holds one, the node
\* keeps no other grant and no queue entry for it.
NothingBesideTheLock ==
  \A a \in Attempts :
    pc[a] \in Holding =>
      /\ \A g \in GrantsFor(a) : g.token = token[a]
      /\ WaitsFor(a) = {}

\* A Lock whose holder identity was generated loses its authority by the expiry
\* of its lease and in no other way: no cancel, raced release or late request
\* of any attempt can take it (locking.py:_cancel_lock_wait).
LostOnlyByExpiry ==
  [][\A a \in Attempts :
       /\ call[a].holder \notin Callers
       /\ pc[a] \in Holding
       /\ Live(a)
       /\ ~Live(a)'
       => Expiry]_vars

\* Every acquisition returns, raises or times out: the wait loop of lock() is
\* bounded by max_wait_ms even when max_retries is None (locking.py:206-212).
Waiting == {"acquire", "renewReacquired", "loop", "retry", "renewFound",
            "cancel", "releaseRaced"}
EveryWaitEnds ==
  \A a \in Attempts : pc[a] \in Waiting ~> pc[a] \notin Waiting

\* Whatever an attempt failed to clean up heals: time and again the node keeps
\* nothing for it, unless it holds a Lock (PROTOCOL.md: an abandoned wait
\* "leaves a queue slot that self-heals once promoted").
AbandonedStateHeals ==
  \A a \in Attempts :
    []<>(pc[a] \in Holding \/ (GrantsFor(a) = {} /\ WaitsFor(a) = {}))
=============================================================================
