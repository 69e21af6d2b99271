--------------------------- MODULE SemaphoreSystem ---------------------------
(***************************************************************************)
(* Counting semaphores: _acquire_semaphore and SemaphoreHandle of          *)
(* clients/python/locking.py against a node that keeps the permits of one  *)
(* key.                                                                    *)
(*                                                                         *)
(* The client is that of the locks, call by call, with one more answer:    *)
(* limit_mismatch, which ends the attempt with an exception, on the first  *)
(* call at once and on a retry through the cancel of the finally clause.   *)
(* The node's permits, queue and tombstones are the variables of LockNode; *)
(* the node itself is not part of the repository.                          *)
(***************************************************************************)
EXTENDS LockSystem

CONSTANT Limits   \* the limits a caller may ask for

ASSUME LimitsAssumption == Limits \subseteq Nat \ {0}

VARIABLES
  asked,   \* the `limit` argument of each attempt
  limit    \* the limit the node has configured, 0 for none

semVars == <<vars, asked, limit>>

SemInit ==
  /\ Init
  /\ asked \in [Attempts -> Limits]
  /\ limit = 0

-----------------------------------------------------------------------------
\* The node: as many waiters as there are free permits, in the queue's order.
SemPromotable(gs, ws, l) ==
  {w \in ws : Cardinality(gs) + Cardinality({v \in ws : v.ticket < w.ticket}) < l}

\* Every command leaves the permits gs and the queue ws, promoted.
SemSettle(gs, ws, l) ==
  LET P == SemPromotable(gs, ws, l)
  IN  /\ grants' = gs \union {Promotion(w, P) : w \in P}
      /\ waiters' = ws \ P
      /\ nextToken' = nextToken + Cardinality(P)

\* POST /v1/semaphores/acquire, from a request that is neither suppressed, nor
\* queued, nor its holder's second.
SemArrival(m) ==
  LET w == NewWaiter(m.att, Holder(m), KeySet(m))
      P == SemPromotable(grants, waiters \union {w}, asked[m.att])
  IN  /\ limit \in {0, asked[m.att]}
      /\ Arrives(m.att, Holder(m), KeySet(m))
      /\ IF w \in P \/ call[m.att].wait
         THEN /\ SemSettle(grants, waiters \union {w}, asked[m.att])
              /\ nextTicket' = nextTicket + 1
              /\ limit' = asked[m.att]
         ELSE UNCHANGED <<grants, waiters, nextToken, nextTicket, limit>>
      /\ IF w \in P
         THEN /\ Answer(m, "granted", Promotion(w, P).token)
              /\ started' = started \union {<<Promotion(w, P).token, m.att>>}
         ELSE Answer(m, "notAcquired", 0) /\ UNCHANGED started
      /\ UNCHANGED tombs

SemMismatch(m) ==
  /\ ~Suppressed(m.att)
  /\ limit \notin {0, asked[m.att]}
  /\ Answer(m, "mismatch", 0)
  /\ UNCHANGED <<nodeVars, limit>>

SemReacquire(m) ==
  /\ Reacquires(m.att, Holder(m), KeySet(m))
  /\ SemSettle(grants, Without(m.att), limit)
  /\ \E g \in GrantsOf(Holder(m), KeySet(m)) : Answer(m, "regranted", g.token)
  /\ UNCHANGED <<tombs, nextTicket, started, limit>>

SemAcquire(m) ==
  /\ m.op = "acquire"
  /\ \/ SemArrival(m) \/ SemMismatch(m) \/ SemReacquire(m)
     \/ (ServeSuppressed(m) \/ ServeQueued(m)) /\ UNCHANGED limit

\* POST /v1/semaphores/release and the end of a lease, given the permit.
SemRemove(g) ==
  /\ SemSettle(grants \ {g}, waiters, limit)
  /\ UNCHANGED <<tombs, nextTicket, started, limit>>

SemRelease(m) ==
  /\ m.op = "release"
  /\ LET found == {g \in grants : g.holder = Holder(m) /\ g.token = m.token}
     IN  \/ /\ found = {}
            /\ Answer(m, "notReleased", 0)
            /\ UNCHANGED <<nodeVars, limit>>
         \/ \E g \in found : SemRemove(g) /\ Answer(m, "released", 0)

SemCancel(m) ==
  /\ m.op = "cancel"
  /\ LET raced == RacedGrants(m.att, Holder(m), KeySet(m))
         kind == IF TombsFull(m.att) THEN "capacity"
                 ELSE IF raced # {} THEN "raced" ELSE "cancelled"
         t == IF kind = "raced" THEN (CHOOSE g \in raced : TRUE).token ELSE 0
     IN  /\ Answer(m, kind, t)
         /\ IF kind = "capacity"
            THEN UNCHANGED <<grants, waiters, nextToken, tombs>>
            ELSE /\ SemSettle(grants, Without(m.att), limit)
                 /\ tombs' = tombs \union {m.att}
  /\ UNCHANGED <<nextTicket, started, limit>>

\* A lease or a queue entry runs out; an idle semaphore may be forgotten.
SemExpiry ==
  /\ \/ \E g \in grants : SemRemove(g)
     \/ \E w \in waiters : /\ SemSettle(grants, waiters \ {w}, limit)
                           /\ UNCHANGED <<tombs, nextTicket, started, limit>>
     \/ grants = {} /\ waiters = {} /\ limit' = 0 /\ UNCHANGED nodeVars
  /\ UNCHANGED clientVars

-----------------------------------------------------------------------------
\* The first call raises without a cancel: the node has kept nothing of it.
FirstMismatch(a) ==
  /\ Returns(a, "acquire", "mismatch")
  /\ Move(a, "aborted")
  /\ UNCHANGED <<nodeVars, call, token, retries, after>>

\* A retry that meets another limit raises from inside the try, so it cancels.
RetryMismatch(a) ==
  /\ Returns(a, "retry", "mismatch")
  /\ retries' = [retries EXCEPT ![a] = 0]
  /\ CancelThen(a, "aborted")
  /\ UNCHANGED <<nodeVars, call, token>>

\* _acquire_semaphore up to its wait loop, the loop, _cancel_semaphore_wait,
\* and SemaphoreHandle: the steps of the lock client, and the two above.
SemFirst(a) ==
  \/ Start(a) \/ FirstRaises(a) \/ FirstGranted(a) \/ FirstRegranted(a)
  \/ FirstNotAcquired(a) \/ FirstMismatch(a)
SemLoop(a) ==
  \/ Retry(a) \/ Abort(a) \/ GiveUp(a) \/ RetryNotAcquired(a) \/ RetryAcquired(a)
  \/ RetryRaises(a) \/ RetryMismatch(a) \/ RenewSucceeds(a) \/ RenewFails(a)
SemCancelWait(a) ==
  \/ CancelSucceeds(a) \/ CancelRaces(a) \/ CancelFails(a)
  \/ RacedReleased(a) \/ RacedReleaseFails(a)
SemHandle(a) == Renew(a) \/ RenewAnswered(a) \/ Release(a) \/ ReleaseEnds(a)

SemNext ==
  /\ \/ \E a \in Attempts :
          /\ \/ SemFirst(a) \/ SemLoop(a) \/ SemCancelWait(a) \/ SemHandle(a)
             \/ Resend(a) \/ Garble(a) \/ Crash(a)
          /\ UNCHANGED limit
     \/ \E m \in net : SemAcquire(m) \/ SemRelease(m) \/ SemCancel(m)
     \/ \E m \in net : (ServeRenew(m) \/ Refuse(m)) /\ UNCHANGED limit
     \/ SemExpiry
  /\ UNCHANGED asked

SemSpec == SemInit /\ [][SemNext]_semVars

-----------------------------------------------------------------------------
Handles ==
  {a \in Attempts : pc[a] \in Holding /\ call[a].holder \notin Callers /\ Live(a)}

\* Of the workers that gave no holder of their own, never more than `limit`
\* work at a time, whichever of them they count: each asked for one limit, and
\* that many handles at most have authority (locking.py:265-274, 304-314).
HandlesWithinLimit ==
  \A a \in Handles : Cardinality(Handles) <= asked[a]
=============================================================================
