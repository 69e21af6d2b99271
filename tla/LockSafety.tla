----------------------------- MODULE LockSafety -----------------------------
(***************************************************************************)
(* What an attempt leaves behind at the node when it ends, for every       *)
(* number of attempts, keys and retries.                                   *)
(*                                                                         *)
(* The argument follows an attempt through its locations.  Until an        *)
(* acquire is granted or queued the node keeps nothing for it; under a     *)
(* Lock it keeps that grant and nothing else; after a cancel it keeps at   *)
(* most the grant the cancel met, and no acquire that is still on its way  *)
(* can bring more: either none is, or the request id is in the node's      *)
(* tombstones.  Everybody else's commands only ever take away what is kept *)
(* for an attempt that does not queue.                                     *)
(***************************************************************************)
EXTENDS LockFencing

-----------------------------------------------------------------------------
\* What a command of the node does to the entries of each attempt.

\* An attempt that does not queue gets nothing new.
Spares(b) ==
  WaitsFor(b) = {} => WaitsFor(b)' = {} /\ GrantsFor(b)' \subseteq GrantsFor(b)

\* A command that leaves the grants gs and the queue ws keeps every entry with
\* its attempt, and spares those that do not queue in ws.
LEMMA SettleOwns ==
  ASSUME NodeTypeOK, NodeInv, OwnEntries, UNCHANGED call,
         NEW gs \in SUBSET grants,
         NEW ws \in SUBSET Waiter, IsFiniteSet(ws), DistinctTickets(ws),
         \A w \in ws : w.holder = call[w.req].holder /\ w.keys = call[w.req].keys,
         Settle(gs, ws)
  PROVE  /\ OwnEntries'
         /\ waiters' \subseteq ws
         /\ \A g \in grants' : g \in gs \/ \E w \in ws : g.req = w.req
<1>1. /\ waiters' \in SUBSET ws
      /\ \A g \in grants' \ gs :
           /\ nextToken <= g.token
           /\ \E w \in ws \ waiters' :
                g.holder = w.holder /\ g.keys = w.keys /\ g.req = w.req
  BY SettleEffect
<1>2. \A g \in grants' : g \in gs \/ \E w \in ws : g.req = w.req
  BY <1>1
<1>3. OwnEntries'
  BY <1>1 DEF OwnEntries
<1> QED BY <1>1, <1>2, <1>3

\* A command that adds nothing to the queue spares everybody.
LEMMA ShrinkOwns ==
  ASSUME NodeTypeOK, NodeInv, OwnEntries, UNCHANGED call,
         NEW gs \in SUBSET grants, NEW ws \in SUBSET waiters, Settle(gs, ws)
  PROVE  /\ OwnEntries' /\ waiters' \subseteq ws
         /\ \A g \in grants' : g \in gs \/ \E w \in ws : g.req = w.req
         /\ \A b \in Attempts : Spares(b)
<1>1. ws \in SUBSET Waiter /\ IsFiniteSet(ws) /\ DistinctTickets(ws)
  BY FS_Subset DEF NodeTypeOK, NodeInv, DistinctTickets
<1>2. \A w \in ws : w.holder = call[w.req].holder /\ w.keys = call[w.req].keys
  BY DEF OwnEntries
<1>3. /\ OwnEntries' /\ waiters' \subseteq ws
      /\ \A g \in grants' : g \in gs \/ \E w \in ws : g.req = w.req
  BY <1>1, <1>2, SettleOwns
<1>4. \A b \in Attempts : Spares(b)
  BY <1>3 DEF Spares, WaitsFor, GrantsFor
<1> QED BY <1>3, <1>4

\* An acquire that joins the queue spares every other attempt; its own, if it has
\* nothing yet, ends up queued, or granted and no longer queued.
LEMMA EnterOwns ==
  ASSUME NodeTypeOK, NodeInv, OwnEntries, UNCHANGED call, NEW r \in Attempts,
         call[r].holder \in Holders, call[r].keys \in KeySets,
         Enter(r, call[r].holder, call[r].keys)
  PROVE  OwnEntries' /\ \A b \in Attempts \ {r} : Spares(b)
<1> DEFINE n == NewWaiter(r, call[r].holder, call[r].keys)
           ws == waiters \union {n}
<1>1. n \in Waiter /\ n.ticket = nextTicket /\ n.req = r
      /\ n.holder = call[r].holder /\ n.keys = call[r].keys
  BY DEF NewWaiter, Waiter, NodeTypeOK
<1>2. ws \in SUBSET Waiter /\ IsFiniteSet(ws)
  BY <1>1, FS_AddElement DEF NodeTypeOK
<1>3. \A w \in waiters : w.ticket \in Nat /\ w.ticket < nextTicket
  BY DEF NodeInv, NodeTypeOK, Waiter
<1>4. DistinctTickets(ws)
  BY <1>1, <1>3 DEF DistinctTickets, NodeInv, NodeTypeOK
<1>5. \A w \in ws : w.holder = call[w.req].holder /\ w.keys = call[w.req].keys
  BY <1>1 DEF OwnEntries
<1>6. Settle(grants, ws)
  BY DEF Enter
<1> HIDE DEF n
<1>7. /\ OwnEntries' /\ waiters' \subseteq ws
      /\ \A g \in grants' : g \in grants \/ \E w \in ws : g.req = w.req
  BY <1>2, <1>4, <1>5, <1>6, SettleOwns
<1>8. \A b \in Attempts \ {r} : Spares(b)
  BY <1>1, <1>7 DEF Spares, WaitsFor, GrantsFor
<1> QED BY <1>7, <1>8
-----------------------------------------------------------------------------
\* Steps of a client.

\* Attempt a has no acquire, or no release, on its way.
Quiet(a) == \A m \in net : m.att = a => m.op # "acquire"
NoRelease(a) == \A m \in net : m.att = a => m.op # "release"

\* It has none of either where LeavesBehind and AwaitsOne leave it no room.
LEMMA QuietPlaces ==
  ASSUME NEW a \in Attempts, AwaitsOne(a), LeavesBehind(a),
         pc[a] \notin Left,
         pc[a] \in CleaningUp => after[a] # "aborted",
         pc[a] \in {"acquire", "retry"} => reply[a].kind # "nothing"
  PROVE  Quiet(a)
<1> SUFFICES ASSUME NEW m \in net, m.att = a, m.op = "acquire" PROVE FALSE
  BY DEF Quiet
<1>1. m.awaited
  BY DEF LeavesBehind
<1>2. pc[a] \in Calling /\ OpAt[pc[a]] = "acquire" /\ reply[a].kind = "nothing"
  BY <1>1 DEF AwaitsOne
<1>3. pc[a] \in {"acquire", "retry"}
  BY <1>2, CallingOps DEF OpAt
<1> QED BY <1>2, <1>3

\* What everybody else sees of a step of attempt a: nothing.
LEMMA OthersKept ==
  ASSUME NEW b \in Attempts, AttemptInv(b),
         UNCHANGED <<nodeVars, call>>,
         pc'[b] = pc[b], reply'[b] = reply[b], token'[b] = token[b], after'[b] = after[b],
         \A m : m.att = b => (m \in net' <=> m \in net)
  PROVE  AttemptInv(b)'
<1>1. grants' = grants /\ waiters' = waiters /\ tombs' = tombs /\ call' = call
  BY DEF nodeVars, table
<1>2. AwaitsOne(b)'
  BY DEF AttemptInv, AwaitsOne
<1>3. LeavesBehind(b)'
  BY DEF AttemptInv, LeavesBehind
<1>4. NothingKept(b)' = NothingKept(b) /\ WaitsFor(b)' = WaitsFor(b)
  BY <1>1 DEF NothingKept, GrantsFor, WaitsFor
<1>5. \A t : OnlyGrant(b, t)' = OnlyGrant(b, t)
  BY <1>1 DEF OnlyGrant, GrantsFor, WaitsFor
<1>6. CannotCommit(b)' = CannotCommit(b)
  BY <1>1 DEF CannotCommit
<1>7. BeforeTheGrant(b)'
  BY <1>1, <1>4 DEF AttemptInv, BeforeTheGrant
<1>8. UnderTheGrant(b)'
  BY <1>5 DEF AttemptInv, UnderTheGrant, Granted, Authorized
<1>9. AfterTheCancel(b)'
  BY <1>4, <1>5, <1>6 DEF AttemptInv, AfterTheCancel, Recorded
<1> QED BY <1>2, <1>3, <1>7, <1>8, <1>9 DEF AttemptInv

\* A step of attempt a leaves the others theirs, if all it puts on its way, and all
\* it abandons, is its own.
LEMMA OwnStep ==
  ASSUME TypeOK, SafetyInv, NEW a \in Attempts, UNCHANGED <<nodeVars, call>>,
         \A b \in Attempts \ {a} : /\ pc'[b] = pc[b] /\ reply'[b] = reply[b]
                                   /\ token'[b] = token[b] /\ after'[b] = after[b],
         \A m : m.att # a => (m \in net' <=> m \in net),
         AttemptInv(a)'
  PROVE  SafetyInv'
<1>1. \A b \in Attempts \ {a} : AttemptInv(b)'
  BY OthersKept DEF SafetyInv
<1>2. OwnEntries'
  BY DEF SafetyInv, OwnEntries, nodeVars, table
<1> QED BY <1>1, <1>2 DEF SafetyInv

\* What attempt a abandons is still on its way, and no longer awaited.
LEMMA AbandonedOwn ==
  ASSUME ClientTypeOK, NEW a \in Attempts
  PROVE  /\ \A m : m.att # a => (m \in Abandoned(a) <=> m \in net)
         /\ \A m \in Abandoned(a) : m.att = a =>
              ~m.awaited /\ \E n \in net : n.att = a /\ n.op = m.op
<1>1. \A m \in net : m \in Request
  BY DEF ClientTypeOK
<1>2. \A m \in Request : /\ [m EXCEPT !.awaited = FALSE].att = m.att
                         /\ [m EXCEPT !.awaited = FALSE].op = m.op
                         /\ [m EXCEPT !.awaited = FALSE].awaited = FALSE
  BY DEF Request
<1> QED BY <1>1, <1>2 DEF Abandoned

\* A call that is sent: what must be so at its location for the invariant to hold.
LEMMA SendKeeps ==
  ASSUME TypeOK, SafetyInv, NEW a \in Attempts, NEW w \in Calling, NEW t,
         Send(a, w, t), UNCHANGED <<nodeVars, call>>,
         \A b \in Attempts \ {a} : token'[b] = token[b] /\ after'[b] = after[b],
         OpAt[w] \in {"renew", "release"} => token'[a] = t,
         Quiet(a) \/ (w \in CleaningUp /\ after'[a] = "aborted"),
         NoRelease(a) \/ w \in {"releaseRaced", "releasing"},
         w = "acquire" => NothingKept(a),
         w \in {"renewReacquired", "renewFound", "renewing"} => OnlyGrant(a, token'[a]),
         w = "releaseRaced" /\ (TombstoneOnRace \/ after'[a] = "timeout") =>
           OnlyGrant(a, token'[a]) /\ CannotCommit(a)
  PROVE  SafetyInv'
<1> DEFINE new == [att |-> a, op |-> OpAt[w], token |-> t, awaited |-> TRUE]
<1>1. /\ grants' = grants /\ waiters' = waiters /\ tombs' = tombs /\ call' = call
      /\ pc'[a] = w /\ reply'[a] = Nothing
      /\ net' = Abandoned(a) \union {new}
      /\ \A b \in Attempts \ {a} : pc'[b] = pc[b] /\ reply'[b] = reply[b]
  BY DEF Send, nodeVars, table, TypeOK, ClientTypeOK
<1>2. reply'[a].kind = "nothing"
  BY <1>1 DEF Nothing
<1>3. \A m \in net' : m.att = a =>
        m = new \/ (~m.awaited /\ \E n \in net : n.att = a /\ n.op = m.op)
  BY <1>1, AbandonedOwn DEF TypeOK
<1>4. new.att = a /\ new.op = OpAt[w] /\ new.token = t /\ new.awaited
  OBVIOUS
<1>5. \A m : m.att # a => (m \in net' <=> m \in net)
  BY <1>1, <1>4, AbandonedOwn DEF TypeOK
<1> HIDE DEF new
<1>6. AwaitsOne(a)'
  BY <1>1, <1>2, <1>3, <1>4 DEF AwaitsOne
<1>7. LeavesBehind(a)'
  <2>1. w # "idle"
    BY CallingOps
  <2>2. ASSUME NEW m \in net', m.att = a, m.op = "acquire", ~m.awaited
        PROVE  w \in CleaningUp /\ after'[a] = "aborted"
    BY <1>3, <1>4, <2>2 DEF Quiet
  <2>3. ASSUME NEW m \in net', m.att = a, m.op = "release"
        PROVE  w \in {"releaseRaced", "releasing"}
    <3>1. CASE m = new
      BY <1>4, <2>3, <3>1, CallingOps DEF OpAt
    <3>2. CASE \E n \in net : n.att = a /\ n.op = m.op
      BY <2>3, <3>2 DEF NoRelease
    <3> QED BY <1>3, <2>3, <3>1, <3>2
  <2> QED BY <1>1, <2>1, <2>2, <2>3 DEF LeavesBehind
<1>8. /\ NothingKept(a)' = NothingKept(a) /\ WaitsFor(a)' = WaitsFor(a)
      /\ \A u : OnlyGrant(a, u)' = OnlyGrant(a, u)
  BY <1>1 DEF NothingKept, OnlyGrant, GrantsFor, WaitsFor
<1>9. BeforeTheGrant(a)'
  BY <1>1, <1>8, CallingOps DEF BeforeTheGrant
<1>10. UnderTheGrant(a)'
  <2>1. w \notin {"held"}
    BY CallingOps
  <2> QED BY <1>1, <1>2, <1>8, <2>1 DEF UnderTheGrant, Granted, Authorized, Holding
<1>11. w = "releaseRaced" /\ CannotCommit(a) => CannotCommit(a)'
  <2> SUFFICES ASSUME w = "releaseRaced", CannotCommit(a), a \notin tombs,
                      NEW m \in net', m.att = a, m.op = "acquire"
               PROVE  FALSE
    BY <1>1 DEF CannotCommit
  <2> QED BY <1>3, <1>4 DEF CannotCommit, OpAt
<1>12. AfterTheCancel(a)'
  BY <1>1, <1>2, <1>8, <1>11, CallingOps DEF AfterTheCancel, Recorded
<1>13. AttemptInv(a)'
  BY <1>6, <1>7, <1>9, <1>10, <1>12 DEF AttemptInv
<1> QED BY <1>1, <1>5, <1>13, OwnStep

\* The same of a step that calls nobody.
LEMMA MoveKeeps ==
  ASSUME TypeOK, SafetyInv, NEW a \in Attempts, NEW w \in Locations \ Calling,
         Move(a, w), w # "idle", UNCHANGED <<nodeVars, call>>,
         \A b \in Attempts \ {a} : token'[b] = token[b] /\ after'[b] = after[b],
         Quiet(a) \/ w \in Left,
         NoRelease(a) \/ w \in Left \union {"released", "timeout"},
         w = "none" => NothingKept(a),
         w = "held" => OnlyGrant(a, token'[a]),
         w = "timeout" \/ (w = "aborted" /\ TombstoneOnRace)
           => NothingKept(a) /\ CannotCommit(a)
  PROVE  SafetyInv'
<1>1. /\ grants' = grants /\ waiters' = waiters /\ tombs' = tombs /\ call' = call
      /\ pc'[a] = w /\ reply'[a] = Nothing
      /\ net' = Abandoned(a)
      /\ \A b \in Attempts \ {a} : pc'[b] = pc[b] /\ reply'[b] = reply[b]
  BY DEF Move, nodeVars, table, TypeOK, ClientTypeOK
<1>2. reply'[a].kind = "nothing"
  BY <1>1 DEF Nothing
<1>3. \A m \in net' : m.att = a =>
        ~m.awaited /\ \E n \in net : n.att = a /\ n.op = m.op
  BY <1>1, AbandonedOwn DEF TypeOK
<1>4. \A m : m.att # a => (m \in net' <=> m \in net)
  BY <1>1, AbandonedOwn DEF TypeOK
<1>5. w \notin {"acquire", "retry", "cancel", "releaseRaced", "renewReacquired",
                "renewFound", "renewing"}
  BY CallingOps
<1>6. AwaitsOne(a)'
  BY <1>3 DEF AwaitsOne
<1>7. LeavesBehind(a)'
  BY <1>1, <1>3 DEF LeavesBehind, Quiet, NoRelease
<1>8. /\ NothingKept(a)' = NothingKept(a) /\ WaitsFor(a)' = WaitsFor(a)
      /\ \A u : OnlyGrant(a, u)' = OnlyGrant(a, u)
  BY <1>1 DEF NothingKept, OnlyGrant, GrantsFor, WaitsFor
<1>9. CannotCommit(a) => CannotCommit(a)'
  BY <1>1, <1>3 DEF CannotCommit
<1>10. BeforeTheGrant(a)' /\ UnderTheGrant(a)'
  BY <1>1, <1>2, <1>5, <1>8 DEF BeforeTheGrant, UnderTheGrant, Granted, Authorized, Holding
<1>11. AfterTheCancel(a)'
  BY <1>1, <1>5, <1>8, <1>9 DEF AfterTheCancel, Recorded
<1>12. AttemptInv(a)'
  BY <1>6, <1>7, <1>10, <1>11 DEF AttemptInv
<1> QED BY <1>1, <1>4, <1>12, OwnStep

\* Where attempt a has no acquire and no release on its way.
LEMMA NothingUnderWay ==
  ASSUME TypeOK, SafetyInv, NEW a \in Attempts
  PROVE  /\ pc[a] \notin Left /\ (pc[a] \in CleaningUp => after[a] = "timeout")
              /\ (pc[a] \in {"acquire", "retry"} => reply[a].kind # "nothing") => Quiet(a)
         /\ pc[a] \notin Left \union {"releaseRaced", "releasing", "released", "timeout"}
              => NoRelease(a)
BY QuietPlaces DEF SafetyInv, AttemptInv, LeavesBehind, NoRelease

\* The cancel that ends every attempt that was not granted, from wherever no
\* release is on its way; no acquire either, unless an exception led here.
LEMMA CancelThenKeeps ==
  ASSUME TypeOK, SafetyInv, NEW a \in Attempts, NEW end \in {"timeout", "aborted"},
         CancelThen(a, end), UNCHANGED <<nodeVars, call, token>>,
         NoRelease(a), Quiet(a) \/ end = "aborted"
  PROVE  SafetyInv'
<1>1. /\ after'[a] = end
      /\ \A b \in Attempts \ {a} : token'[b] = token[b] /\ after'[b] = after[b]
  BY DEF CancelThen, TypeOK, ClientTypeOK
<1>2. /\ "cancel" \in Calling /\ "cancel" \in CleaningUp
      /\ OpAt["cancel"] \notin {"renew", "release"}
  BY CallingOps DEF OpAt, CleaningUp
<1>3. Send(a, "cancel", 0)
  BY DEF CancelThen
<1> QED BY <1>1, <1>2, <1>3, SendKeeps

\* _acquire_lock up to the answer of its first acquire.
LEMMA FirstKeeps ==
  ASSUME TypeOK, SafetyInv, NEW a \in Attempts,
         \/ Start(a) \/ FirstRaises(a) \/ FirstGranted(a)
         \/ FirstRegranted(a) \/ FirstNotAcquired(a)
  PROVE  SafetyInv'
<1>0. /\ BeforeTheGrant(a) /\ UnderTheGrant(a) /\ AwaitsOne(a) /\ LeavesBehind(a)
      /\ Calling = {"acquire", "renewReacquired", "retry", "renewFound", "cancel",
                    "releaseRaced", "renewing", "releasing"}
  BY CallingOps DEF SafetyInv, AttemptInv
<1>l. {"held", "unsafe", "loop", "none"} \subseteq Locations \ Calling
  BY <1>0 DEF Locations, Holding, Ended
<1>1. CASE Start(a)
  <2>1. pc[a] = "idle" /\ Send(a, "acquire", 0)
    BY <1>1 DEF Start
  <2>2. Quiet(a) /\ NoRelease(a) /\ NothingKept(a)
    BY <1>0, <2>1 DEF LeavesBehind, Quiet, NoRelease, BeforeTheGrant
  <2>3. UNCHANGED <<nodeVars, call, token, after>> /\ OpAt["acquire"] = "acquire"
    BY <1>1 DEF Start, OpAt
  <2> QED BY <1>0, <2>1, <2>2, <2>3, SendKeeps
<1>2. CASE FirstRaises(a)
  <2>1. NoRelease(a)
    BY <1>2, NothingUnderWay DEF FirstRaises, Raises, Left
  <2> QED BY <1>2, <2>1, CancelThenKeeps DEF FirstRaises
<1>3. ASSUME NEW k \in {"granted", "regranted", "notAcquired"}, Returns(a, "acquire", k)
      PROVE  Quiet(a) /\ NoRelease(a)
  BY <1>3, NothingUnderWay DEF Returns, Left, CleaningUp
<1>4. CASE FirstGranted(a)
  <2>1. Returns(a, "acquire", "granted") /\ UNCHANGED <<nodeVars, call, after>>
    BY <1>4 DEF FirstGranted
  <2>2. CASE ValidToken(a)
    <3>1. Learn(a) /\ Move(a, "held")
      BY <1>4, <2>2 DEF FirstGranted, Hold
    <3>2. /\ token'[a] = reply[a].token
          /\ \A b \in Attempts \ {a} : token'[b] = token[b]
      BY <3>1 DEF Learn, TypeOK, ClientTypeOK
    <3>3. OnlyGrant(a, token'[a])
      BY <1>0, <2>1, <2>2, <3>2 DEF UnderTheGrant, Granted, Returns, ValidToken
    <3> QED BY <1>3, <1>l, <2>1, <3>1, <3>2, <3>3, MoveKeeps
  <2>3. CASE ~ValidToken(a)
    <3>1. Move(a, "unsafe") /\ UNCHANGED token
      BY <1>4, <2>3 DEF FirstGranted
    <3> QED BY <1>3, <1>l, <2>1, <3>1, MoveKeeps
  <2> QED BY <2>2, <2>3
<1>5. CASE FirstRegranted(a)
  <2>1. Returns(a, "acquire", "regranted") /\ UNCHANGED <<nodeVars, call, after>>
    BY <1>5 DEF FirstRegranted
  <2>2. CASE ValidToken(a)
    <3>1. Learn(a) /\ Send(a, "renewReacquired", reply[a].token)
      BY <1>5, <2>2 DEF FirstRegranted
    <3>2. /\ token'[a] = reply[a].token
          /\ \A b \in Attempts \ {a} : token'[b] = token[b]
      BY <3>1 DEF Learn, TypeOK, ClientTypeOK
    <3>3. OnlyGrant(a, token'[a])
      BY <1>0, <2>1, <2>2, <3>2 DEF UnderTheGrant, Granted, Returns, ValidToken
    <3> QED BY <1>0, <1>3, <2>1, <3>1, <3>2, <3>3, SendKeeps
  <2>3. CASE ~ValidToken(a)
    <3>1. Move(a, "unsafe") /\ UNCHANGED token
      BY <1>5, <2>3 DEF FirstRegranted
    <3> QED BY <1>3, <1>l, <2>1, <3>1, MoveKeeps
  <2> QED BY <2>2, <2>3
<1>6. CASE FirstNotAcquired(a)
  <2>1. /\ Returns(a, "acquire", "notAcquired") /\ UNCHANGED <<nodeVars, call, token, after>>
        /\ Move(a, IF call[a].wait THEN "loop" ELSE "none")
    BY <1>6 DEF FirstNotAcquired
  <2>2. ~call[a].wait => NothingKept(a)
    BY <1>0, <2>1 DEF BeforeTheGrant, Returns
  <2>3. CASE call[a].wait
    BY <1>3, <1>l, <2>1, <2>3, MoveKeeps
  <2>4. CASE ~call[a].wait
    BY <1>3, <1>l, <2>1, <2>2, <2>4, MoveKeeps
  <2> QED BY <2>3, <2>4
<1> QED BY <1>1, <1>2, <1>4, <1>5, <1>6

\* The wait loop: a retry and its outcomes, an abort, the end of the wait.
LEMMA LoopKeeps ==
  ASSUME TypeOK, SafetyInv, NEW a \in Attempts,
         \/ Retry(a) \/ Abort(a) \/ GiveUp(a) \/ RetryNotAcquired(a)
         \/ RetryAcquired(a) \/ RetryRaises(a)
  PROVE  SafetyInv'
<1>0. /\ UnderTheGrant(a)
      /\ Calling = {"acquire", "renewReacquired", "retry", "renewFound", "cancel",
                    "releaseRaced", "renewing", "releasing"}
  BY CallingOps DEF SafetyInv, AttemptInv
<1>1. NoRelease(a)
  BY NothingUnderWay
     DEF Retry, Abort, GiveUp, Sleeps, RetryNotAcquired, RetryAcquired, RetryRaises,
         Returns, Raises, Left
<1>2. pc[a] = "loop" => Quiet(a)
  BY NothingUnderWay DEF Left, CleaningUp
<1>3. ASSUME NEW k \in {"granted", "regranted", "notAcquired"}, Returns(a, "retry", k)
      PROVE  Quiet(a)
  BY <1>3, NothingUnderWay DEF Returns, Left, CleaningUp
<1>4. CASE Retry(a)
  <2>1. /\ pc[a] = "loop" /\ Send(a, "retry", 0) /\ UNCHANGED <<nodeVars, call, token, after>>
        /\ OpAt["retry"] = "acquire"
    BY <1>4 DEF Retry, Sleeps, OpAt
  <2> QED BY <1>0, <1>1, <1>2, <2>1, SendKeeps
<1>5. CASE Abort(a)
  BY <1>1, <1>5, CancelThenKeeps DEF Abort
<1>6. CASE GiveUp(a)
  BY <1>1, <1>2, <1>6, CancelThenKeeps DEF GiveUp
<1>7. CASE RetryNotAcquired(a)
  <2>1. "loop" \in Locations \ Calling
    BY <1>0 DEF Locations
  <2>2. /\ Returns(a, "retry", "notAcquired") /\ Move(a, "loop")
        /\ UNCHANGED <<nodeVars, call, token, after>>
    BY <1>7 DEF RetryNotAcquired
  <2> QED BY <1>1, <1>3, <2>1, <2>2, MoveKeeps
<1>8. CASE RetryAcquired(a)
  <2>1. PICK k \in {"granted", "regranted"} : Returns(a, "retry", k)
    BY <1>8 DEF RetryAcquired
  <2>2. UNCHANGED <<nodeVars, call>>
    BY <1>8 DEF RetryAcquired
  <2>3. CASE ValidToken(a)
    <3>1. Learn(a) /\ Send(a, "renewFound", reply[a].token) /\ UNCHANGED after
      BY <1>8, <2>3 DEF RetryAcquired
    <3>2. /\ token'[a] = reply[a].token
          /\ \A b \in Attempts \ {a} : token'[b] = token[b]
      BY <3>1 DEF Learn, TypeOK, ClientTypeOK
    <3>3. OnlyGrant(a, token'[a])
      BY <1>0, <2>1, <2>3, <3>2 DEF UnderTheGrant, Granted, Returns, ValidToken
    <3> QED BY <1>0, <1>1, <1>3, <2>1, <2>2, <3>1, <3>2, <3>3, SendKeeps
  <2>4. CASE ~ValidToken(a)
    BY <1>1, <1>8, <2>4, CancelThenKeeps DEF RetryAcquired
  <2> QED BY <2>3, <2>4
<1>9. CASE RetryRaises(a)
  BY <1>1, <1>9, CancelThenKeeps DEF RetryRaises
<1> QED BY <1>4, <1>5, <1>6, <1>7, <1>8, <1>9

\* The renewals: of a found or reacquired grant, and Lock.renew.
LEMMA RenewKeeps ==
  ASSUME TypeOK, SafetyInv, NEW a \in Attempts,
         RenewSucceeds(a) \/ RenewFails(a) \/ Renew(a) \/ RenewAnswered(a)
  PROVE  SafetyInv'
<1>0. /\ UnderTheGrant(a)
      /\ Calling = {"acquire", "renewReacquired", "retry", "renewFound", "cancel",
                    "releaseRaced", "renewing", "releasing"}
  BY CallingOps DEF SafetyInv, AttemptInv
<1>1. /\ pc[a] \in Holding \union {"renewReacquired", "renewFound"}
      /\ UNCHANGED <<nodeVars, call, token>>
  BY DEF RenewSucceeds, RenewFails, Renew, RenewAnswered, Returns, Raises, Holding
<1>2. Quiet(a) /\ NoRelease(a)
  BY <1>1, NothingUnderWay DEF Holding, Left, CleaningUp
<1>3. OnlyGrant(a, token'[a])
  BY <1>0, <1>1 DEF UnderTheGrant, Authorized
<1>4. {"held", "lost"} \subseteq Locations \ Calling
  BY <1>0 DEF Locations, Holding
<1>5. CASE RenewFails(a)
  BY <1>2, <1>5, CancelThenKeeps DEF RenewFails
<1>6. CASE Renew(a)
  <2>1. Send(a, "renewing", token[a]) /\ UNCHANGED after
    BY <1>6 DEF Renew
  <2> QED BY <1>0, <1>1, <1>2, <1>3, <2>1, SendKeeps
<1>7. CASE RenewSucceeds(a) \/ RenewAnswered(a)
  <2>1. UNCHANGED after /\ (Move(a, "held") \/ Move(a, "lost"))
    BY <1>7 DEF RenewSucceeds, RenewAnswered, Hold
  <2>2. CASE Move(a, "held")
    BY <1>1, <1>2, <1>3, <1>4, <2>1, <2>2, MoveKeeps
  <2>3. CASE Move(a, "lost")
    BY <1>1, <1>2, <1>4, <2>1, <2>3, MoveKeeps
  <2> QED BY <2>1, <2>2, <2>3
<1> QED BY <1>5, <1>6, <1>7

\* _cancel_lock_wait: the outcomes of the cancel, and of the release of what it met.
LEMMA CancelKeeps ==
  ASSUME TypeOK, SafetyInv, NEW a \in Attempts,
         \/ CancelSucceeds(a) \/ CancelRaces(a) \/ CancelFails(a)
         \/ RacedReleased(a) \/ RacedReleaseFails(a)
  PROVE  SafetyInv'
<1>0. /\ AfterTheCancel(a) /\ after[a] \in {"timeout", "aborted"}
      /\ Calling = {"acquire", "renewReacquired", "retry", "renewFound", "cancel",
                    "releaseRaced", "renewing", "releasing"}
  BY CallingOps DEF SafetyInv, AttemptInv, TypeOK, ClientTypeOK
<1>1. UNCHANGED <<nodeVars, call, after>> /\ pc[a] \in CleaningUp
  BY DEF CancelSucceeds, CancelRaces, CancelFails, RacedReleased, RacedReleaseFails,
         Returns, Raises, CleaningUp
<1>2. {"timeout", "aborted", "unsafe"} \subseteq Locations \ Calling
  BY <1>0 DEF Locations, Ended
<1>3. Quiet(a) \/ after[a] = "aborted"
  BY <1>0, <1>1, NothingUnderWay DEF CleaningUp, Left
<1>4. pc[a] = "cancel" => NoRelease(a)
  BY NothingUnderWay DEF Left
<1>5. CASE CancelSucceeds(a) \/ RacedReleased(a)
  <2>1. Move(a, after[a]) /\ UNCHANGED token
    BY <1>5 DEF CancelSucceeds, RacedReleased
  <2>2. Recorded(a) => NothingKept(a) /\ CannotCommit(a)
    BY <1>0, <1>5 DEF CancelSucceeds, RacedReleased, Returns, AfterTheCancel
  <2>3. CASE after[a] = "timeout"
    BY <1>1, <1>2, <1>3, <2>1, <2>2, <2>3, MoveKeeps DEF Recorded
  <2>4. CASE after[a] = "aborted"
    BY <1>1, <1>2, <2>1, <2>2, <2>4, MoveKeeps DEF Recorded, Left
  <2> QED BY <1>0, <2>3, <2>4
<1>6. ASSUME Move(a, "unsafe"), UNCHANGED token PROVE SafetyInv'
  BY <1>1, <1>2, <1>6, MoveKeeps DEF Left
<1>7. CASE CancelFails(a) \/ RacedReleaseFails(a)
  BY <1>6, <1>7 DEF CancelFails, RacedReleaseFails
<1>8. CASE CancelRaces(a)
  <2>1. CASE ValidToken(a)
    <3>1. Learn(a) /\ Send(a, "releaseRaced", reply[a].token)
      BY <1>8, <2>1 DEF CancelRaces
    <3>2. /\ token'[a] = reply[a].token
          /\ \A b \in Attempts \ {a} : token'[b] = token[b]
      BY <3>1 DEF Learn, TypeOK, ClientTypeOK
    <3>3. Recorded(a) => OnlyGrant(a, token'[a]) /\ CannotCommit(a)
      BY <1>0, <1>8, <2>1, <3>2
         DEF CancelRaces, Returns, AfterTheCancel, OnlyGrant, ValidToken
    <3>4. "releaseRaced" \in Calling /\ "releaseRaced" \in CleaningUp
      BY <1>0 DEF CleaningUp
    <3> QED BY <1>1, <1>3, <3>1, <3>2, <3>3, <3>4, SendKeeps DEF Recorded
  <2>2. CASE ~ValidToken(a)
    BY <1>6, <1>8, <2>2 DEF CancelRaces
  <2> QED BY <2>1, <2>2
<1> QED BY <1>5, <1>7, <1>8

\* The release of a Lock, its end, and the end of the process.
LEMMA EndKeeps ==
  ASSUME TypeOK, SafetyInv, NEW a \in Attempts,
         Release(a) \/ ReleaseEnds(a) \/ Crash(a)
  PROVE  SafetyInv'
<1>0. Calling = {"acquire", "renewReacquired", "retry", "renewFound", "cancel",
                 "releaseRaced", "renewing", "releasing"}
  BY CallingOps
<1>1. UNCHANGED <<nodeVars, call, token, after>>
  BY DEF Release, ReleaseEnds, Crash
<1>2. {"released", "crashed"} \subseteq Locations \ Calling
  BY <1>0 DEF Locations, Ended
<1>3. ~Crash(a) => Quiet(a)
  BY NothingUnderWay
     DEF Release, ReleaseEnds, Returns, Raises, Left, CleaningUp
<1>4. CASE Release(a)
  BY <1>0, <1>1, <1>4, NothingUnderWay, SendKeeps DEF Release, Left, CleaningUp
<1>5. CASE ReleaseEnds(a) /\ ~Crash(a)
  BY <1>1, <1>2, <1>3, <1>5, MoveKeeps DEF ReleaseEnds
<1>6. CASE Crash(a)
  BY <1>1, <1>2, <1>6, MoveKeeps DEF Crash, Left
<1> QED BY <1>4, <1>5, <1>6

\* A transport retry: the call that was refused is the only one still awaited.
LEMMA ResendKeeps ==
  ASSUME TypeOK, SafetyInv, NEW a \in Attempts, Resend(a)
  PROVE  SafetyInv'
<1> DEFINE new == [att |-> a, op |-> OpAt[pc[a]], awaited |-> TRUE,
                   token |-> IF OpAt[pc[a]] \in {"renew", "release"} THEN token[a] ELSE 0]
<1>1. /\ pc[a] \in Calling /\ reply[a].kind = "notLeader"
      /\ UNCHANGED <<nodeVars, pc, call, token, after>>
      /\ net' = net \union {new}
      /\ reply'[a] = Nothing /\ \A b \in Attempts \ {a} : reply'[b] = reply[b]
  BY DEF Resend, CanResend, TypeOK, ClientTypeOK
<1>2. /\ new.att = a /\ new.op = OpAt[pc[a]] /\ new.awaited
      /\ new.op \in {"renew", "release"} => new.token = token[a]
  OBVIOUS
<1> HIDE DEF new
<1>3. AttemptInv(a) /\ reply'[a].kind = "nothing"
  BY <1>1 DEF SafetyInv, Nothing
<1>4. \A m \in net : m.att = a => ~m.awaited
  BY <1>1, <1>3 DEF AttemptInv, AwaitsOne
<1>5. \A m : m.att # a => (m \in net' <=> m \in net)
  BY <1>1, <1>2
<1>6. AwaitsOne(a)'
  BY <1>1, <1>2, <1>3, <1>4 DEF AwaitsOne
<1>7. OpAt[pc[a]] = "release" => pc[a] \in {"releaseRaced", "releasing"}
  BY <1>1, CallingOps DEF OpAt
<1>8. LeavesBehind(a)'
  BY <1>1, <1>2, <1>3, <1>7, CallingOps DEF AttemptInv, LeavesBehind
<1>9. /\ grants' = grants /\ waiters' = waiters /\ tombs' = tombs
      /\ NothingKept(a)' = NothingKept(a)
      /\ WaitsFor(a)' = WaitsFor(a) /\ \A t : OnlyGrant(a, t)' = OnlyGrant(a, t)
  BY <1>1 DEF nodeVars, table, NothingKept, OnlyGrant, GrantsFor, WaitsFor
<1>10. BeforeTheGrant(a)' /\ UnderTheGrant(a)'
  BY <1>1, <1>3, <1>9 DEF AttemptInv, BeforeTheGrant, UnderTheGrant, Granted, Authorized
<1>11. pc[a] = "releaseRaced" /\ CannotCommit(a) => CannotCommit(a)'
  BY <1>1, <1>2, <1>9 DEF CannotCommit, OpAt
<1>12. AfterTheCancel(a)'
  BY <1>1, <1>3, <1>9, <1>11, CallingOps DEF AttemptInv, AfterTheCancel, Recorded
<1>13. AttemptInv(a)'
  BY <1>6, <1>8, <1>10, <1>12 DEF AttemptInv
<1> QED BY <1>1, <1>5, <1>13, OwnStep

\* An answer that loses its token promises less.
LEMMA GarbleKeeps ==
  ASSUME TypeOK, SafetyInv, NEW a \in Attempts, Garble(a)
  PROVE  SafetyInv'
<1>1. /\ UNCHANGED <<nodeVars, pc, call, net, token, after>>
      /\ reply'[a].kind = reply[a].kind /\ reply'[a].token = 0
      /\ \A b \in Attempts \ {a} : reply'[b] = reply[b]
  BY DEF Garble, TypeOK, ClientTypeOK, Reply
<1>2. AttemptInv(a)
  BY DEF SafetyInv
<1>3. /\ grants' = grants /\ waiters' = waiters /\ tombs' = tombs
      /\ NothingKept(a)' = NothingKept(a) /\ CannotCommit(a)' = CannotCommit(a)
      /\ WaitsFor(a)' = WaitsFor(a) /\ \A t : OnlyGrant(a, t)' = OnlyGrant(a, t)
  BY <1>1 DEF nodeVars, table, NothingKept, OnlyGrant, GrantsFor, WaitsFor, CannotCommit
<1>4. AwaitsOne(a)' /\ LeavesBehind(a)' /\ BeforeTheGrant(a)'
  BY <1>1, <1>2, <1>3 DEF AttemptInv, AwaitsOne, LeavesBehind, BeforeTheGrant
<1>5. UnderTheGrant(a)' /\ AfterTheCancel(a)'
  BY <1>1, <1>2, <1>3
     DEF AttemptInv, UnderTheGrant, Granted, Authorized, AfterTheCancel, Recorded
<1> QED BY <1>1, <1>4, <1>5, OwnStep DEF AttemptInv
-----------------------------------------------------------------------------
\* Steps of the node.

\* A command that spares attempt b and tells it nothing.
LEMMA SparedKeeps ==
  ASSUME NEW b \in Attempts, AttemptInv(b), Spares(b), tombs \subseteq tombs',
         call' = call, pc'[b] = pc[b], reply'[b] = reply[b], token'[b] = token[b],
         after'[b] = after[b], net' \subseteq net
  PROVE  AttemptInv(b)'
<1>1. AwaitsOne(b)' /\ LeavesBehind(b)'
  BY DEF AttemptInv, AwaitsOne, LeavesBehind
<1>2. /\ WaitsFor(b) = {} => WaitsFor(b)' = {}
      /\ NothingKept(b) => NothingKept(b)'
      /\ \A t : OnlyGrant(b, t) => OnlyGrant(b, t)'
  BY DEF Spares, NothingKept, OnlyGrant
<1>3. CannotCommit(b) => CannotCommit(b)'
  BY DEF CannotCommit
<1>4. BeforeTheGrant(b)'
  BY <1>2 DEF AttemptInv, BeforeTheGrant
<1>5. UnderTheGrant(b)'
  BY <1>2 DEF AttemptInv, UnderTheGrant, Granted, Authorized
<1>6. AfterTheCancel(b)'
  BY <1>2, <1>3 DEF AttemptInv, AfterTheCancel, Recorded
<1> QED BY <1>1, <1>4, <1>5, <1>6 DEF AttemptInv

\* What an answer changes.
LEMMA AnswerFacts ==
  ASSUME TypeOK, NEW m \in net, NEW k, NEW t, Answer(m, k, t)
  PROVE  /\ m.att \in Attempts /\ m.op \in Ops
         /\ net' = net \ {m} /\ UNCHANGED <<pc, call, token, after>>
         /\ m.awaited \in BOOLEAN
         /\ \A b \in Attempts \ {m.att} : reply'[b] = reply[b]
         /\ m.awaited => reply'[m.att].kind = k /\ reply'[m.att].token = t
         /\ ~m.awaited => reply' = reply
<1>1. m \in Request /\ reply \in [Attempts -> Reply]
  BY DEF TypeOK, ClientTypeOK
<1>2. m.att \in Attempts /\ m.op \in Ops /\ m.awaited \in BOOLEAN
  BY <1>1 DEF Request
<1>3. net' = net \ {m} /\ UNCHANGED <<pc, call, token, after>>
  BY DEF Answer
<1>4. /\ \A b \in Attempts \ {m.att} : reply'[b] = reply[b]
      /\ m.awaited => reply'[m.att].kind = k /\ reply'[m.att].token = t
      /\ ~m.awaited => reply' = reply
  BY <1>1, <1>2 DEF Answer
<1> QED BY <1>2, <1>3, <1>4

\* An acquire that nobody awaits finds nobody who relies on its having no effect:
\* after a recorded cancel the node suppresses it.
LEMMA LateAcquire ==
  ASSUME TypeOK, SafetyInv, NEW m \in net, m.op = "acquire", ~m.awaited,
         ~Suppressed(m.att), net' \subseteq net, UNCHANGED <<pc, call, token, after, reply>>
  PROVE  AttemptInv(m.att)'
<1> DEFINE a == m.att
<1>0. a \in Attempts
  BY DEF TypeOK, ClientTypeOK, Request
<1>1. AttemptInv(a)
  BY <1>0 DEF SafetyInv
<1>2. pc[a] \in Left \/ (pc[a] \in CleaningUp /\ after[a] = "aborted")
  BY <1>1 DEF AttemptInv, LeavesBehind
<1>3. ~CannotCommit(a)
  BY DEF CannotCommit, Suppressed
<1> HIDE DEF a
<1>4. AwaitsOne(a)' /\ LeavesBehind(a)'
  BY <1>1 DEF AttemptInv, AwaitsOne, LeavesBehind
<1>5. BeforeTheGrant(a)' /\ UnderTheGrant(a)'
  BY <1>2 DEF BeforeTheGrant, UnderTheGrant, Granted, Authorized, Holding, Left, CleaningUp
<1>6. AfterTheCancel(a)'
  BY <1>1, <1>2, <1>3 DEF AttemptInv, AfterTheCancel, Recorded, Left, CleaningUp
<1> QED BY <1>4, <1>5, <1>6 DEF AttemptInv, a

\* A request that is served: what must be so of its own attempt, if that hears of it.
LEMMA ServedKeeps ==
  ASSUME TypeOK, SafetyInv, NEW m \in net, NEW k, NEW t, Answer(m, k, t),
         OwnEntries', tombs \subseteq tombs', k # "nothing",
         \A b \in Attempts \ {m.att} : Spares(b),
         Spares(m.att) \/ (m.op = "acquire" /\ ~Suppressed(m.att)),
         m.awaited =>
           BeforeTheGrant(m.att)' /\ UnderTheGrant(m.att)' /\ AfterTheCancel(m.att)'
  PROVE  SafetyInv'
<1> DEFINE a == m.att
<1>1. /\ a \in Attempts /\ net' = net \ {m} /\ UNCHANGED <<pc, call, token, after>>
      /\ m.awaited \in BOOLEAN
      /\ \A b \in Attempts \ {a} : reply'[b] = reply[b]
      /\ m.awaited => reply'[a].kind = k
      /\ ~m.awaited => reply' = reply
  BY AnswerFacts
<1>2. \A b \in Attempts : AttemptInv(b)
  BY DEF SafetyInv
<1>3. \A b \in Attempts \ {a} : AttemptInv(b)'
  BY <1>1, <1>2, SparedKeeps
<1>4. CASE m.awaited
  <2>1. AwaitsOne(a)
    BY <1>1, <1>2 DEF AttemptInv
  <2>2. \A n \in net' : n.att = a => ~n.awaited
    BY <1>1, <1>4, <2>1 DEF AwaitsOne
  <2>3. AwaitsOne(a)'
    BY <2>2 DEF AwaitsOne
  <2>4. pc[a] \in Calling /\ OpAt[pc[a]] = m.op
    BY <1>4, <2>1 DEF AwaitsOne
  <2>5. LeavesBehind(a)'
    BY <1>1, <1>2 DEF AttemptInv, LeavesBehind
  <2>6. AttemptInv(a)'
    BY <1>4, <2>3, <2>5 DEF AttemptInv
  <2> QED BY <1>3, <2>6 DEF SafetyInv
<1>5. CASE ~m.awaited
  <2>1. CASE Spares(a)
    <3>1. AttemptInv(a)'
      BY <1>1, <1>2, <1>5, <2>1, SparedKeeps
    <3> QED BY <1>3, <3>1 DEF SafetyInv
  <2>2. CASE m.op = "acquire" /\ ~Suppressed(a)
    <3>1. AttemptInv(a)'
      BY <1>1, <1>5, <2>2, LateAcquire
    <3> QED BY <1>3, <3>1 DEF SafetyInv
  <2> QED BY <2>1, <2>2
<1> QED BY <1>1, <1>4, <1>5

\* Where an attempt is when the request that it awaits is served.
LEMMA AwaitedAt ==
  ASSUME TypeOK, SafetyInv, NEW m \in net, m.awaited
  PROVE  /\ pc[m.att] \in Calling /\ reply[m.att].kind = "nothing"
         /\ m.op = "acquire" => pc[m.att] \in {"acquire", "retry"}
         /\ m.op = "renew" => pc[m.att] \in {"renewReacquired", "renewFound", "renewing"}
         /\ m.op = "cancel" => pc[m.att] = "cancel"
         /\ m.op = "release" =>
              pc[m.att] \in {"releaseRaced", "releasing"} /\ m.token = token[m.att]
<1>1. m.att \in Attempts
  BY DEF TypeOK, ClientTypeOK, Request
<1>2. /\ pc[m.att] \in Calling /\ OpAt[pc[m.att]] = m.op /\ reply[m.att].kind = "nothing"
      /\ m.op = "release" => m.token = token[m.att]
  BY <1>1 DEF SafetyInv, AttemptInv, AwaitsOne
<1> QED BY <1>2, CallingOps DEF OpAt

\* Every answer that changes nothing at the node and promises nothing.
LEMMA IdleServed ==
  ASSUME TypeOK, SafetyInv, NEW m \in net, NEW k, Answer(m, k, 0), UNCHANGED table,
         k \notin {"nothing", "granted", "regranted", "cancelled", "raced", "released"}
  PROVE  SafetyInv'
<1> DEFINE a == m.att
<1>1. /\ a \in Attempts /\ net' = net \ {m} /\ UNCHANGED <<pc, call, token, after>>
      /\ m.awaited => reply'[a].kind = k
  BY AnswerFacts
<1>2. grants' = grants /\ waiters' = waiters /\ tombs' = tombs
  BY DEF table
<1>3. /\ OwnEntries' /\ \A b \in Attempts : Spares(b)
      /\ NothingKept(a)' = NothingKept(a)
      /\ WaitsFor(a)' = WaitsFor(a) /\ \A t : OnlyGrant(a, t)' = OnlyGrant(a, t)
  BY <1>1, <1>2
     DEF SafetyInv, OwnEntries, Spares, NothingKept, OnlyGrant, GrantsFor, WaitsFor
<1>4. CannotCommit(a) => CannotCommit(a)'
  BY <1>1, <1>2 DEF CannotCommit
<1>5. ASSUME m.awaited
      PROVE  BeforeTheGrant(a)' /\ UnderTheGrant(a)' /\ AfterTheCancel(a)'
  <2>1. AttemptInv(a) /\ reply[a].kind = "nothing" /\ reply'[a].kind = k
        /\ pc[a] \notin {"timeout", "aborted"}
    BY <1>1, <1>5, AwaitedAt, CallingOps DEF SafetyInv
  <2>2. BeforeTheGrant(a)' /\ UnderTheGrant(a)'
    BY <1>1, <1>3, <2>1
       DEF AttemptInv, BeforeTheGrant, UnderTheGrant, Granted, Authorized
  <2>3. AfterTheCancel(a)'
    BY <1>1, <1>3, <1>4, <2>1 DEF AttemptInv, AfterTheCancel, Recorded
  <2> QED BY <2>2, <2>3
<1> QED BY <1>1, <1>2, <1>3, <1>5, ServedKeeps

\* The grants an attempt asked for are grants of its holder and key set, and of
\* those there is one at most.
LEMMA OwnGrant ==
  ASSUME TypeOK, NodeInv, OwnEntries, NEW a \in Attempts
  PROVE  /\ GrantsFor(a) \subseteq GrantsOf(call[a].holder, call[a].keys)
         /\ \A g, h \in GrantsOf(call[a].holder, call[a].keys) : g = h
<1>1. GrantsFor(a) \subseteq GrantsOf(call[a].holder, call[a].keys)
  BY DEF OwnEntries, GrantsFor, GrantsOf
<1>2. call[a].keys # {}
  <2>1. call[a] \in Call
    BY DEF TypeOK, ClientTypeOK
  <2> QED BY <2>1 DEF Call, KeySets
<1>3. \A g, h \in GrantsOf(call[a].holder, call[a].keys) : g = h
  BY <1>2 DEF GrantsOf, NodeInv, Overlap
<1> QED BY <1>1, <1>3

\* An attempt that is given its holder's grant keeps no other and no queue entry.
LEMMA ReacquireServed ==
  ASSUME TypeOK, NodeInv, SafetyInv, NEW m \in net, ServeReacquire(m)
  PROVE  SafetyInv'
<1> DEFINE a == m.att
<1>1. PICK g \in GrantsOf(call[a].holder, call[a].keys) : Answer(m, "regranted", g.token)
  BY DEF ServeReacquire, Holder, KeySet
<1>2. /\ a \in Attempts /\ net' = net \ {m} /\ UNCHANGED <<pc, call, token, after>>
      /\ m.awaited => reply'[a].kind = "regranted" /\ reply'[a].token = g.token
  BY <1>1, AnswerFacts
<1>3. /\ m.op = "acquire" /\ ~Suppressed(a) /\ tombs' = tombs
      /\ Settle(grants, Without(a))
  BY DEF ServeReacquire, Reacquires, StopWaiting
<1>4. OwnEntries /\ Without(a) \in SUBSET waiters
  BY DEF SafetyInv, Without
<1>5. /\ OwnEntries' /\ waiters' \subseteq Without(a)
      /\ \A x \in grants' : x \in grants \/ \E w \in Without(a) : x.req = w.req
      /\ \A b \in Attempts : Spares(b)
  BY <1>2, <1>3, <1>4, ShrinkOwns DEF TypeOK
<1>6. OnlyGrant(a, g.token)'
  BY <1>2, <1>4, <1>5, OwnGrant DEF OnlyGrant, WaitsFor, GrantsFor, Without
<1>7. ASSUME m.awaited
      PROVE  BeforeTheGrant(a)' /\ UnderTheGrant(a)' /\ AfterTheCancel(a)'
  <2>1. pc[a] \in {"acquire", "retry"}
    BY <1>3, <1>7, AwaitedAt
  <2> QED BY <1>2, <1>6, <1>7, <2>1
          DEF BeforeTheGrant, UnderTheGrant, Granted, Authorized, Holding, AfterTheCancel
<1> QED BY <1>1, <1>2, <1>3, <1>5, <1>7, ServedKeeps

\* An acquire that is new to the node: granted it keeps the grant that it is told
\* of, queued it is not told that anything is over.
LEMMA ArrivalServed ==
  ASSUME TypeOK, NodeInv, SafetyInv, NEW m \in net, ServeArrival(m)
  PROVE  SafetyInv'
<1> DEFINE a == m.att
           h == call[a].holder
           K == call[a].keys
<1>1. /\ a \in Attempts /\ m.op = "acquire" /\ ~Suppressed(a)
      /\ GrantsOf(h, K) = {} /\ WaitsFor(a) = {}
  BY DEF ServeArrival, Arrives, Holder, KeySet, WaitsFor, TypeOK, ClientTypeOK, Request
<1>2. h \in Holders /\ K \in KeySets
  <2>1. call[a] \in Call
    BY <1>1 DEF TypeOK, ClientTypeOK
  <2> QED BY <2>1 DEF Call
<1>3. GrantsFor(a) = {} /\ OwnEntries
  BY <1>1, OwnGrant DEF SafetyInv
<1>4. m.awaited => pc[a] \in {"acquire", "retry"}
  BY <1>1, AwaitedAt
<1>5. ASSUME NEW k \in {"granted", "notAcquired"}, NEW t, Answer(m, k, t), Enter(a, h, K),
             k = "granted" => OnlyGrant(a, t)', k = "notAcquired" => call[a].wait
      PROVE  SafetyInv'
  <2>1. /\ net' = net \ {m} /\ UNCHANGED <<pc, call, token, after>>
        /\ m.awaited => reply'[a].kind = k /\ reply'[a].token = t
    BY <1>5, AnswerFacts
  <2>2. OwnEntries' /\ \A b \in Attempts \ {a} : Spares(b)
    BY <1>1, <1>2, <1>3, <1>5, <2>1, EnterOwns DEF TypeOK
  <2>3. tombs' = tombs
    BY <1>5 DEF Enter
  <2>4. ASSUME m.awaited
        PROVE  BeforeTheGrant(a)' /\ UnderTheGrant(a)' /\ AfterTheCancel(a)'
    BY <1>4, <1>5, <2>1, <2>4
       DEF BeforeTheGrant, UnderTheGrant, Granted, Authorized, Holding, AfterTheCancel
  <2> QED BY <1>1, <1>5, <2>2, <2>3, <2>4, ServedKeeps
<1>6. CASE GrantableNow(a, h, K)
  <2> DEFINE n == NewWaiter(a, h, K)
             ws == waiters \union {n}
             P == Promotable(grants, ws)
  <2>1. Enter(a, h, K) /\ Answer(m, "granted", GrantedToken(a, h, K))
    BY <1>6 DEF ServeArrival, Holder, KeySet
  <2>2. n \in P /\ P \subseteq ws
    BY <1>6 DEF GrantableNow, Promotable
  <2>3. /\ grants' = grants \union {Promotion(w, P) : w \in P}
        /\ waiters' = ws \ P
    BY <2>1 DEF Enter, Settle
  <2>4. \A w \in ws : w.req = a => w = n
    BY <1>1 DEF WaitsFor
  <2>5. \A w \in P : Promotion(w, P).req = w.req
    BY DEF Promotion
  <2>6. Promotion(n, P).token = GrantedToken(a, h, K)
    BY DEF GrantedToken
  <2> HIDE DEF n, P, ws
  <2>7. WaitsFor(a)' = {}
    BY <2>2, <2>3, <2>4 DEF WaitsFor
  <2>8. \A g \in GrantsFor(a)' : g = Promotion(n, P)
    BY <1>3, <2>2, <2>3, <2>4, <2>5 DEF GrantsFor
  <2> DEFINE t == GrantedToken(a, h, K)
  <2>9. ASSUME NEW u, u = Promotion(n, P).token PROVE OnlyGrant(a, u)'
    BY <2>7, <2>8, <2>9 DEF OnlyGrant
  <2> QED BY <1>5, <2>1, <2>6, <2>9
<1>7. CASE ~GrantableNow(a, h, K) /\ call[a].wait
  <2>1. Enter(a, h, K) /\ Answer(m, "notAcquired", 0)
    BY <1>7 DEF ServeArrival, Holder, KeySet
  <2> QED BY <1>5, <1>7, <2>1
<1>8. CASE ~GrantableNow(a, h, K) /\ ~call[a].wait
  BY <1>8, IdleServed DEF ServeArrival, Holder, KeySet, nodeVars
<1> QED BY <1>6, <1>7, <1>8

\* The release of a raced grant ends the only grant its attempt can have.
LEMMA ReleaseServed ==
  ASSUME TypeOK, NodeInv, SafetyInv, NEW m \in net, ServeRelease(m)
  PROVE  SafetyInv'
<1> DEFINE a == m.att
<1>1. CASE Answer(m, "notReleased", 0) /\ UNCHANGED nodeVars
  BY <1>1, IdleServed DEF nodeVars
<1>2. CASE \E g \in grants : g.token = m.token /\ Remove(g) /\ Answer(m, "released", 0)
  <2>1. PICK g \in grants : g.token = m.token /\ Remove(g) /\ Answer(m, "released", 0)
    BY <1>2
  <2>2. /\ a \in Attempts /\ m.op = "release"
        /\ net' = net \ {m} /\ UNCHANGED <<pc, call, token, after>>
        /\ m.awaited => reply'[a].kind = "released"
    BY <2>1, AnswerFacts DEF ServeRelease
  <2>3. Settle(grants \ {g}, waiters) /\ tombs' = tombs
    BY <2>1 DEF Remove
  <2>4. /\ OwnEntries' /\ waiters' \subseteq waiters
        /\ \A x \in grants' : x \in grants \ {g} \/ \E w \in waiters : x.req = w.req
        /\ \A b \in Attempts : Spares(b)
    BY <2>2, <2>3, ShrinkOwns DEF TypeOK, SafetyInv
  <2>5. ASSUME m.awaited
        PROVE  BeforeTheGrant(a)' /\ UnderTheGrant(a)' /\ AfterTheCancel(a)'
    <3>1. pc[a] \in {"releaseRaced", "releasing"} /\ m.token = token[a]
      BY <2>2, <2>5, AwaitedAt
    <3>2. AfterTheCancel(a)
      BY <2>2 DEF SafetyInv, AttemptInv
    <3>3. OnlyGrant(a, token[a]) => NothingKept(a)'
      BY <2>1, <2>4, <3>1 DEF OnlyGrant, NothingKept, GrantsFor, WaitsFor, NodeInv
    <3>4. NothingKept(a)' => OnlyGrant(a, token[a])'
      BY DEF NothingKept, OnlyGrant
    <3>5. CannotCommit(a) => CannotCommit(a)'
      BY <2>2, <2>3 DEF CannotCommit
    <3>6. AfterTheCancel(a)'
      BY <2>2, <2>5, <3>1, <3>2, <3>3, <3>4, <3>5 DEF AfterTheCancel, Recorded
    <3> QED BY <2>2, <3>1, <3>6
            DEF BeforeTheGrant, UnderTheGrant, Granted, Authorized, Holding
  <2> QED BY <2>1, <2>2, <2>3, <2>4, <2>5, ServedKeeps
<1> QED BY <1>1, <1>2 DEF ServeRelease

\* A cancel leaves at most the grant that it reports, and nothing on its way that
\* could bring another: the request id is recorded, or no acquire is under way.
LEMMA CancelServed ==
  ASSUME TypeOK, NodeInv, SafetyInv, NEW m \in net, ServeCancel(m)
  PROVE  SafetyInv'
<1> DEFINE a == m.att
           h == call[a].holder
           K == call[a].keys
           raced == RacedGrants(a, h, K)
<1>1. CASE Answer(m, "capacity", 0) /\ UNCHANGED nodeVars
  BY <1>1, IdleServed DEF nodeVars
<1>2. ASSUME NEW k \in {"raced", "cancelled"}, NEW t, Answer(m, k, t),
             NEW durable \in BOOLEAN, Withdraw(a, durable), durable \/ ~TombstoneOnRace,
             k = "cancelled" => durable /\ raced = {},
             k = "raced" => \E g \in raced : g.token = t
      PROVE  SafetyInv'
  <2>1. /\ a \in Attempts /\ m.op = "cancel"
        /\ net' = net \ {m} /\ UNCHANGED <<pc, call, token, after>>
        /\ m.awaited => reply'[a].kind = k /\ reply'[a].token = t
    BY <1>2, AnswerFacts DEF ServeCancel
  <2>2. /\ Settle(grants, Without(a)) /\ Without(a) \in SUBSET waiters
        /\ tombs \subseteq tombs' /\ (durable => a \in tombs')
    BY <1>2 DEF Withdraw, Without
  <2>3. /\ OwnEntries' /\ waiters' \subseteq Without(a)
        /\ \A x \in grants' : x \in grants \/ \E w \in Without(a) : x.req = w.req
        /\ \A b \in Attempts : Spares(b)
    BY <2>1, <2>2, ShrinkOwns DEF TypeOK, SafetyInv
  <2>4. WaitsFor(a)' = {} /\ GrantsFor(a)' \subseteq GrantsFor(a)
    BY <2>3 DEF WaitsFor, GrantsFor, Without
  <2>5. /\ GrantsFor(a) \subseteq raced
        /\ \A x, y \in raced : x = y
    BY <2>1, OwnGrant DEF SafetyInv, RacedGrants, GrantsFor
  <2>6. k = "raced" => OnlyGrant(a, t)'
    BY <1>2, <2>4, <2>5 DEF OnlyGrant
  <2>7. k = "cancelled" => NothingKept(a)'
    BY <1>2, <2>4, <2>5 DEF NothingKept
  <2>8. ASSUME m.awaited
        PROVE  BeforeTheGrant(a)' /\ UnderTheGrant(a)' /\ AfterTheCancel(a)'
    <3>1. pc[a] = "cancel"
      BY <2>1, <2>8, AwaitedAt
    <3>2. durable \/ ~Recorded(a) \/ Quiet(a)
      BY <1>2, <2>1, <3>1, NothingUnderWay DEF Recorded, Left, CleaningUp
    <3>3. Recorded(a) => CannotCommit(a)'
      <4>1. durable => CannotCommit(a)'
        BY <2>2 DEF CannotCommit
      <4>2. Quiet(a) => CannotCommit(a)'
        BY <2>1 DEF CannotCommit, Quiet
      <4> QED BY <3>2, <4>1, <4>2
    <3>4. AfterTheCancel(a)'
      BY <1>2, <2>1, <2>4, <2>6, <2>7, <2>8, <3>1, <3>3 DEF AfterTheCancel, Recorded
    <3> QED BY <2>1, <3>1, <3>4
            DEF BeforeTheGrant, UnderTheGrant, Granted, Authorized, Holding
  <2> QED BY <1>2, <2>1, <2>2, <2>3, <2>8, ServedKeeps
<1>3. CASE Withdraw(a, TombstoneOnRace) /\ \E g \in raced : Answer(m, "raced", g.token)
  <2>1. PICK g \in raced : Answer(m, "raced", g.token)
    BY <1>3
  <2> QED BY <1>2, <1>3, <2>1, NodeAssumption
<1>4. CASE raced = {} /\ Withdraw(a, TRUE) /\ Answer(m, "cancelled", 0)
  BY <1>2, <1>4
<1> QED BY <1>1, <1>3, <1>4 DEF ServeCancel, Cancels, Holder, KeySet

\* Leases and queue entries that run out spare everybody.
LEMMA ExpiryKeeps ==
  ASSUME TypeOK, NodeInv, SafetyInv, Expiry
  PROVE  SafetyInv'
<1>1. UNCHANGED <<pc, call, reply, token, after, net>>
  BY DEF Expiry, clientVars
<1>2. /\ tombs' = tombs
      /\ \E gs \in SUBSET grants, ws \in SUBSET waiters : Settle(gs, ws)
  BY DEF Expiry, ExpireLease, ExpireWait, Remove
<1>3. OwnEntries' /\ \A b \in Attempts : Spares(b)
  BY <1>1, <1>2, ShrinkOwns DEF TypeOK, SafetyInv
<1>4. \A b \in Attempts : AttemptInv(b)'
  BY <1>1, <1>2, <1>3, SparedKeeps DEF SafetyInv
<1> QED BY <1>3, <1>4 DEF SafetyInv

-----------------------------------------------------------------------------
\* The inductive invariant, and what it says of an attempt that has ended.

\* It holds before anybody has called.
LEMMA InitSafety == Init => SafetyInv
<1> SUFFICES ASSUME Init PROVE SafetyInv
  OBVIOUS
<1>1. /\ grants = {} /\ waiters = {} /\ net = {}
      /\ \A a \in Attempts : pc[a] = "idle" /\ reply[a] = Nothing
  BY DEF Init, NodeInit
<1>2. OwnEntries
  BY <1>1 DEF OwnEntries
<1>3. ASSUME NEW a \in Attempts PROVE AttemptInv(a)
  <2>1. AwaitsOne(a) /\ LeavesBehind(a) /\ BeforeTheGrant(a)
    BY <1>1 DEF AwaitsOne, LeavesBehind, BeforeTheGrant, NothingKept, GrantsFor, WaitsFor
  <2>2. UnderTheGrant(a) /\ AfterTheCancel(a)
    BY <1>1 DEF UnderTheGrant, Granted, Authorized, Holding, AfterTheCancel
  <2> QED BY <2>1, <2>2 DEF AttemptInv
<1> QED BY <1>2, <1>3 DEF SafetyInv

\* Every step keeps it.
LEMMA StepSafety == TypeOK /\ NodeInv /\ SafetyInv /\ [Next]_vars => SafetyInv'
<1> SUFFICES ASSUME TypeOK, NodeInv, SafetyInv, [Next]_vars PROVE SafetyInv'
  OBVIOUS
<1>1. ASSUME NEW a \in Attempts,
             Start(a) \/ Wait(a) \/ Abort(a) \/ Use(a) \/ Resend(a) \/ Garble(a) \/ Crash(a)
      PROVE  SafetyInv'
  BY <1>1, FirstKeeps, LoopKeeps, RenewKeeps, CancelKeeps, EndKeeps, ResendKeeps,
     GarbleKeeps DEF Wait, Use
<1>2. ASSUME NEW m \in net, Serve(m) \/ Refuse(m) PROVE SafetyInv'
  <2>1. CASE ServeReacquire(m) \/ ServeArrival(m) \/ ServeRelease(m) \/ ServeCancel(m)
    BY <2>1, ReacquireServed, ArrivalServed, ReleaseServed, CancelServed
  <2>2. CASE ServeSuppressed(m) \/ ServeQueued(m) \/ ServeRenew(m) \/ Refuse(m)
    BY <2>2, IdleServed
       DEF ServeSuppressed, ServeQueued, ServeRenew, Refuse, Restart, nodeVars
  <2> QED BY <1>2, <2>1, <2>2 DEF Serve
<1>3. CASE Expiry
  BY <1>3, ExpiryKeeps
<1>4. CASE UNCHANGED vars
  <2>1. /\ UNCHANGED <<pc, call, reply, token, after, net>>
        /\ grants' = grants /\ waiters' = waiters /\ tombs' = tombs
    BY <1>4 DEF vars, nodeVars, table, clientVars
  <2>2. OwnEntries' /\ \A b \in Attempts : Spares(b)
    BY <2>1 DEF SafetyInv, OwnEntries, Spares, GrantsFor, WaitsFor
  <2>3. \A b \in Attempts : AttemptInv(b)'
    BY <2>1, <2>2, SparedKeeps DEF SafetyInv
  <2> QED BY <2>2, <2>3 DEF SafetyInv
<1> QED BY <1>1, <1>2, <1>3, <1>4 DEF Next

\* What the node keeps for an attempt, and what the attempt still has on its way,
\* fit the place it is at (_acquire_lock and _cancel_lock_wait).
THEOREM Safety == Spec => []SafetyInv
<1>1. FencingInv => NodeInv
  BY DEF FencingInv
<1> QED BY <1>1, InitSafety, StepSafety, Typing, Knowledge, PTL DEF Spec

\* LockTimeout, and None from try_lock, leave nothing behind at the node, and
\* nothing of the attempt can come later (the finally clause of _acquire_lock).
THEOREM TimeoutIsSafe == Spec => []SafeTimeout
<1>1. SafetyInv => SafeTimeout
  BY DEF SafetyInv, AttemptInv, BeforeTheGrant, AfterTheCancel, NothingKept, SafeTimeout
<1> QED BY <1>1, Safety, PTL

\* At a node whose cancel is durable even where it reports a live grant, an attempt
\* that re-raised an exception after its cancel leaves nothing behind either. With
\* any other node this is false: the acquire the exception left on its way may come
\* after the release of the raced grant.
THEOREM AbortIsSafe ==
  ASSUME TombstoneOnRace PROVE Spec => []SafeAbort
<1>1. SafetyInv => SafeAbort
  BY DEF SafetyInv, AttemptInv, AfterTheCancel, NothingKept, SafeAbort
<1> QED BY <1>1, Safety, PTL

\* While an attempt holds a Lock, the node keeps no other grant and no queue entry
\* for it: the Lock is all there is to release (Lock.release).
THEOREM LockIsAll == Spec => []NothingBesideTheLock
<1>1. SafetyInv => NothingBesideTheLock
  BY DEF SafetyInv, AttemptInv, UnderTheGrant, Authorized, OnlyGrant, NothingBesideTheLock
<1> QED BY <1>1, Safety, PTL

-----------------------------------------------------------------------------
\* How an attempt comes to hold a Lock, and how it loses the authority.

\* What a step of a client does to the Lock of attempt b: it comes by one only with
\* the answer that granted it or with the answer to its own renewal.
HoldsOn(b) ==
  /\ reply'[b].kind # "nothing" =>
       /\ reply'[b].kind = reply[b].kind /\ token'[b] = token[b]
       /\ reply'[b].token \in {reply[b].token, 0}
  /\ pc'[b] \in Holding =>
       \/ token'[b] = token[b] /\ (pc[b] \in Holding \/ reply[b].kind = "renewed")
       \/ token'[b] = reply[b].token /\ reply[b].kind = "granted" /\ reply[b].token > 0
  /\ pc[b] \in Holding => token'[b] = token[b]

LEMMA ClientHolds ==
  ASSUME TypeOK, NEW a \in Attempts, NEW b \in Attempts,
         Start(a) \/ Wait(a) \/ Abort(a) \/ Use(a) \/ Resend(a) \/ Garble(a) \/ Crash(a)
  PROVE  HoldsOn(b)
<1>0. /\ pc \in [Attempts -> Locations] /\ reply \in [Attempts -> Reply]
      /\ token \in [Attempts -> Nat] /\ after[b] \notin Holding
  BY DEF TypeOK, ClientTypeOK, Holding
<1>1. CASE a # b
  <2>1. pc'[b] = pc[b] /\ reply'[b] = reply[b] /\ token'[b] = token[b]
    BY <1>0, <1>1
       DEF Start, Wait, Abort, Use, Resend, Garble, Crash, FirstRaises, FirstGranted,
           FirstRegranted, FirstNotAcquired, Retry, GiveUp, RetryNotAcquired,
           RetryAcquired, RetryRaises, RenewSucceeds, RenewFails, CancelSucceeds,
           CancelRaces, CancelFails, RacedReleased, RacedReleaseFails, Renew,
           RenewAnswered, Release, ReleaseEnds, CancelThen, Send, Move, Hold, Learn
  <2> QED BY <2>1 DEF HoldsOn
<1>2. CASE a = b
  <2>1. CASE Start(b) \/ Release(b) \/ Crash(b) \/ Resend(b) \/ Renew(b)
    BY <1>0, <2>1 DEF Start, Release, Crash, Resend, Renew, Send, Move, HoldsOn, Holding,
                      Nothing
  <2>2. CASE Garble(b)
    BY <1>0, <2>2 DEF Garble, HoldsOn, Reply
  <2>3. CASE FirstRaises(b) \/ FirstGranted(b) \/ FirstRegranted(b) \/ FirstNotAcquired(b)
    BY <1>0, <2>3 DEF FirstRaises, FirstGranted, FirstRegranted, FirstNotAcquired,
                      CancelThen, Send, Move, Hold, Learn, Raises, Returns, HoldsOn,
                      Holding, Nothing, ValidToken
  <2>4. CASE \/ Retry(b) \/ Abort(b) \/ GiveUp(b) \/ RetryNotAcquired(b)
             \/ RetryAcquired(b) \/ RetryRaises(b)
    BY <1>0, <2>4 DEF Retry, Abort, GiveUp, Sleeps, RetryNotAcquired, RetryAcquired,
                      RetryRaises, CancelThen, Send, Move, Raises, Returns, HoldsOn,
                      Holding, Nothing
  <2>5. CASE RenewSucceeds(b) \/ RenewFails(b) \/ RenewAnswered(b)
    BY <1>0, <2>5 DEF RenewSucceeds, RenewFails, RenewAnswered, CancelThen, Send, Move,
                      Hold, Raises, Returns, HoldsOn, Holding, Nothing
  <2>6. CASE \/ CancelSucceeds(b) \/ CancelRaces(b) \/ CancelFails(b)
             \/ RacedReleased(b) \/ RacedReleaseFails(b) \/ ReleaseEnds(b)
    BY <1>0, <2>6 DEF CancelSucceeds, CancelRaces, CancelFails, RacedReleased,
                      RacedReleaseFails, ReleaseEnds, Send, Move, Raises, Returns,
                      HoldsOn, Holding, Nothing
  <2> QED BY <1>2, <2>1, <2>2, <2>3, <2>4, <2>5, <2>6 DEF Wait, Use
<1> QED BY <1>1, <1>2

\* Clients leave the node alone.
LEMMA ClientIdle ==
  ASSUME TypeOK, HoldsToken, NEW a \in Attempts,
         Start(a) \/ Wait(a) \/ Abort(a) \/ Use(a) \/ Resend(a) \/ Garble(a) \/ Crash(a)
  PROVE  UNCHANGED nodeVars
BY StartEffect, FirstEffect, LoopEffect, RenewEffect, CancelEffect, EndEffect,
   ResendEffect, GarbleEffect DEF TypeOK, Wait, Use, ClientStep

LEMMA LeaseClient ==
  ASSUME TypeOK, HoldsToken, LeaseInv, NEW a \in Attempts,
         Start(a) \/ Wait(a) \/ Abort(a) \/ Use(a) \/ Resend(a) \/ Garble(a) \/ Crash(a)
  PROVE  LeaseInv'
<1> SUFFICES ASSUME NEW b \in Attempts PROVE LeaseKnown(b)'
  BY DEF LeaseInv
<1>1. started' = started
  BY ClientIdle DEF nodeVars
<1>2. LeaseKnown(b) /\ HoldsOn(b)
  BY ClientHolds DEF LeaseInv
<1> QED BY <1>1, <1>2 DEF LeaseKnown, HoldsOn

\* An answer: what must be so of the node for the invariant to hold.
LEMMA LeaseAnswered ==
  ASSUME TypeOK, LeaseInv, NEW m \in net, NEW k, NEW t, Answer(m, k, t),
         started \subseteq started',
         k = "granted" => <<t, m.att>> \in started',
         k = "renewed" /\ m.awaited => <<token[m.att], m.att>> \in started'
  PROVE  LeaseInv'
<1> SUFFICES ASSUME NEW b \in Attempts PROVE LeaseKnown(b)'
  BY DEF LeaseInv
<1>1. /\ UNCHANGED <<pc, token>> /\ m.awaited \in BOOLEAN
      /\ b # m.att => reply'[b] = reply[b]
      /\ m.awaited => reply'[m.att].kind = k /\ reply'[m.att].token = t
      /\ ~m.awaited => reply' = reply
  BY AnswerFacts
<1>2. LeaseKnown(b)
  BY DEF LeaseInv
<1>3. CASE b = m.att /\ m.awaited
  BY <1>1, <1>2, <1>3 DEF LeaseKnown
<1>4. CASE reply'[b] = reply[b]
  BY <1>1, <1>2, <1>4 DEF LeaseKnown
<1> QED BY <1>1, <1>3, <1>4

\* Every command of the node: only an acquire that grants at once, and a renewal of
\* the live grant the attempt names, are answered with a lease of its own.
LEMMA LeaseServed ==
  ASSUME TypeOK, SafetyInv, LeaseInv, NEW m \in net, Serve(m) \/ Refuse(m)
  PROVE  LeaseInv'
<1>1. ASSUME NEW k, NEW t, Answer(m, k, t), k \notin {"granted", "renewed"},
             started' = started
      PROVE  LeaseInv'
  BY <1>1, LeaseAnswered
<1>2. CASE ServeSuppressed(m) \/ ServeQueued(m) \/ Refuse(m)
  BY <1>1, <1>2 DEF ServeSuppressed, ServeQueued, Refuse, nodeVars
<1>3. CASE ServeReacquire(m)
  BY <1>1, <1>3 DEF ServeReacquire, StopWaiting
<1>4. CASE ServeArrival(m)
  <2>1. CASE GrantableNow(m.att, Holder(m), KeySet(m))
    <3>1. Answer(m, "granted", GrantedToken(m.att, Holder(m), KeySet(m)))
      BY <1>4, <2>1 DEF ServeArrival
    <3>2. started' = started \union {<<GrantedToken(m.att, Holder(m), KeySet(m)), m.att>>}
      BY <1>4, <2>1 DEF ServeArrival, Enter
    <3> QED BY <3>1, <3>2, LeaseAnswered
  <2>2. CASE ~GrantableNow(m.att, Holder(m), KeySet(m))
    <3>1. Answer(m, "notAcquired", 0)
      BY <1>4, <2>2 DEF ServeArrival
    <3>2. started' = started
      BY <1>4, <2>2 DEF ServeArrival, Enter, nodeVars
    <3> QED BY <1>1, <3>1, <3>2
  <2> QED BY <2>1, <2>2
<1>5. CASE ServeRenew(m)
  <2>1. CASE Answer(m, "notRenewed", 0) /\ UNCHANGED nodeVars
    BY <1>1, <2>1 DEF nodeVars
  <2>2. CASE \E g \in GrantsOf(Holder(m), KeySet(m)) :
               g.token = m.token /\ Restart(g, m.att) /\ Answer(m, "renewed", 0)
    <3>1. Answer(m, "renewed", 0) /\ started' = started \union {<<m.token, m.att>>}
      BY <2>2 DEF Restart
    <3>2. m.awaited => m.token = token[m.att]
      <4>1. m.att \in Attempts /\ m.op = "renew"
        BY <1>5 DEF ServeRenew, TypeOK, ClientTypeOK, Request
      <4> QED BY <4>1 DEF SafetyInv, AttemptInv, AwaitsOne
    <3> QED BY <3>1, <3>2, LeaseAnswered
  <2> QED BY <1>5, <2>1, <2>2 DEF ServeRenew
<1>6. CASE ServeRelease(m)
  BY <1>1, <1>6 DEF ServeRelease, Remove, nodeVars
<1>7. CASE ServeCancel(m)
  BY <1>1, <1>7 DEF ServeCancel, Withdraw, nodeVars
<1> QED BY <1>2, <1>3, <1>4, <1>5, <1>6, <1>7 DEF Serve

\* A Lock is returned on a lease that a command of its own attempt has started at
\* the node: a grant that was found or reacquired is renewed first (_acquire_lock).
THEOREM LeaseIsOwn == Spec => []OwnLease
<1>1. Init => LeaseInv
  BY DEF Init, LeaseInv, LeaseKnown, Holding, Nothing
<1>2. TypeOK /\ FencingInv /\ SafetyInv /\ LeaseInv /\ [Next]_vars => LeaseInv'
  <2> SUFFICES ASSUME TypeOK, FencingInv, SafetyInv, LeaseInv, [Next]_vars
               PROVE  LeaseInv'
    OBVIOUS
  <2>1. CASE \E a \in Attempts :
               Start(a) \/ Wait(a) \/ Abort(a) \/ Use(a) \/ Resend(a) \/ Garble(a) \/ Crash(a)
    BY <2>1, LeaseClient DEF FencingInv
  <2>2. CASE \E m \in net : Serve(m) \/ Refuse(m)
    BY <2>2, LeaseServed
  <2>3. CASE Expiry \/ UNCHANGED vars
    <3>1. UNCHANGED <<pc, reply, token, started>>
      BY <2>3 DEF Expiry, ExpireLease, Remove, ExpireWait, vars, clientVars, nodeVars
    <3> QED BY <3>1 DEF LeaseInv, LeaseKnown
  <2> QED BY <2>1, <2>2, <2>3 DEF Next
<1>3. LeaseInv => OwnLease
  BY DEF LeaseInv, LeaseKnown, OwnLease
<1> QED BY <1>1, <1>2, <1>3, Typing, Knowledge, Safety, PTL DEF Spec

\* A Lock with a generated holder loses its authority by the expiry of its lease
\* only: a release names holder and token, so it is the attempt's own, and that has
\* none on its way while it works under the Lock (Lock.release).
THEOREM LostByExpiry == Spec => LostOnlyByExpiry
<1> DEFINE Lost(a) == /\ call[a].holder \notin Callers
                      /\ pc[a] \in Holding
                      /\ Live(a)
                      /\ ~Live(a)'
           Inv == TypeOK /\ FencingInv /\ SafetyInv /\ OwnArguments
<1>1. Inv /\ [Next]_vars => [\A a \in Attempts : Lost(a) => Expiry]_vars
  <2> SUFFICES ASSUME Inv, Next, NEW a \in Attempts, Lost(a), ~Expiry PROVE FALSE
    OBVIOUS
  <2>1. token'[a] = token[a]
    BY ClientHolds DEF HoldsOn, Next, Serve, Refuse, ServeSuppressed, ServeReacquire,
                       ServeArrival, ServeQueued, ServeRenew, ServeRelease, ServeCancel,
                       Answer
  <2>2. PICK g \in grants : g.token = token[a] /\ g \notin grants'
    BY <2>1 DEF Live
  <2>3. NodeInv /\ NodeTypeOK
    BY DEF FencingInv, TypeOK
  <2>4. CASE \E m \in net : Serve(m) \/ Refuse(m)
    <3>1. PICK m \in net : Serve(m) \/ Refuse(m)
      BY <2>4
    <3>2. m.att \in Attempts
      BY DEF TypeOK, ClientTypeOK, Request
    <3>3. CASE ServeRelease(m)
      <4>1. PICK h \in grants : /\ h.holder = Holder(m) /\ h.token = m.token /\ Remove(h)
                                /\ m.op = "release"
        BY <2>2, <3>3 DEF ServeRelease, nodeVars, table
      <4>2. h = g
        BY <2>2, <2>3, <4>1, RemoveEffect
      <4>3. token[a] \in Heard(a)
        BY <2>2, <2>3 DEF Heard, NodeInv
      <4>4. g.holder = call[a].holder
        BY <2>2, <4>3 DEF FencingInv, KnownIssued
      <4>5. m.att = a
        BY <3>2, <4>1, <4>2, <4>4 DEF Holder, OwnArguments, Arguments, GeneratedHolder
      <4> QED BY <4>1, <4>5
              DEF SafetyInv, AttemptInv, LeavesBehind, Holding, Left
    <3>4. CASE ServeReacquire(m) \/ ServeCancel(m) \/ ServeArrival(m)
      BY <2>2, <3>4 DEF ServeReacquire, ServeCancel, ServeArrival, StopWaiting, Withdraw,
                        Enter, Settle, nodeVars, table
    <3>5. CASE ServeSuppressed(m) \/ ServeQueued(m) \/ ServeRenew(m) \/ Refuse(m)
      BY <2>2, <3>5 DEF ServeSuppressed, ServeQueued, ServeRenew, Refuse, Restart,
                        nodeVars, table
    <3> QED BY <3>1, <3>3, <3>4, <3>5 DEF Serve
  <2>5. CASE \E b \in Attempts :
               Start(b) \/ Wait(b) \/ Abort(b) \/ Use(b) \/ Resend(b) \/ Garble(b) \/ Crash(b)
    <3>1. UNCHANGED nodeVars
      BY <2>5, ClientIdle DEF FencingInv
    <3> QED BY <2>2, <3>1 DEF nodeVars, table
  <2> QED BY <2>4, <2>5 DEF Next
<1>2. Spec => []Inv
  BY Typing, Knowledge, Safety, ArgumentsKept, PTL
<1> QED BY <1>1, <1>2, PTL DEF Spec, LostOnlyByExpiry
=============================================================================
