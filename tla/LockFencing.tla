---------------------------- MODULE LockFencing ----------------------------
(***************************************************************************)
(* Type correctness and the fencing order of the lock system, for every    *)
(* number of attempts, keys and retries.                                   *)
(*                                                                         *)
(* The argument: a grant gets a token no grant had before, an attempt only *)
(* ever hears the token of a live grant of its own holder and key set, and *)
(* a token once heard never becomes live again for anybody else. So of two *)
(* attempts that share a key the one that heard the smaller token heard of *)
(* a grant that must have ended before the other one was made.             *)
(***************************************************************************)
EXTENDS LockInvariants, FiniteSetTheorems, TLAPS

-----------------------------------------------------------------------------
\* What one command of the node does to its tables, for any set of keys.

\* Of two promoted waiters the earlier one gets the smaller token.
LEMMA PromotionOrder ==
  ASSUME NodeTypeOK, NEW P \in SUBSET Waiter, IsFiniteSet(P),
         NEW v \in P, NEW w \in P, v.ticket < w.ticket
  PROVE  Promotion(v, P).token < Promotion(w, P).token
<1> DEFINE Before(x) == {u \in P : u.ticket < x.ticket}
<1>1. IsFiniteSet(Before(v)) /\ IsFiniteSet(Before(w))
  BY FS_Subset
<1>2. Cardinality(Before(v)) \in Nat /\ Cardinality(Before(w)) \in Nat
  BY <1>1, FS_CardinalityType
<1>3. v.ticket \in Nat /\ w.ticket \in Nat /\ \A u \in P : u.ticket \in Nat
  BY DEF Waiter
<1>4. Before(v) \in SUBSET Before(w)
  BY <1>3
<1>5. v \in Before(w) /\ v \notin Before(v)
  BY <1>3
<1>6. Cardinality(Before(v)) <= Cardinality(Before(w))
      /\ Cardinality(Before(v)) # Cardinality(Before(w))
  BY <1>1, <1>4, <1>5, FS_Subset
<1>7. nextToken \in Nat
  BY DEF NodeTypeOK
<1>8. Promotion(v, P).token = nextToken + Cardinality(Before(v))
      /\ Promotion(w, P).token = nextToken + Cardinality(Before(w))
  BY DEF Promotion
<1> HIDE DEF Before
<1> QED
  BY <1>2, <1>6, <1>7, <1>8

\* Promotions are numbered from nextToken on, below its next value.
LEMMA PromotionRange ==
  ASSUME NodeTypeOK, NEW P \in SUBSET Waiter, IsFiniteSet(P), NEW w \in P
  PROVE  /\ Promotion(w, P) \in Grant
         /\ nextToken <= Promotion(w, P).token
         /\ Promotion(w, P).token < nextToken + Cardinality(P)
<1> DEFINE B == {u \in P : u.ticket < w.ticket}
<1>1. IsFiniteSet(B) /\ Cardinality(B) <= Cardinality(P)
      /\ (Cardinality(P) = Cardinality(B) => P = B)
  BY FS_Subset
<1>2. Cardinality(B) \in Nat /\ Cardinality(P) \in Nat
  BY <1>1, FS_CardinalityType
<1>3. w \notin B
  BY DEF Waiter
<1>4. Cardinality(B) < Cardinality(P)
  BY <1>1, <1>2, <1>3
<1>5. nextToken \in Nat
  BY DEF NodeTypeOK
<1>6. Promotion(w, P) =
        [token |-> nextToken + Cardinality(B), holder |-> w.holder,
         keys |-> w.keys, req |-> w.req]
  BY DEF Promotion
<1>7. w.holder \in Holders /\ w.keys \in KeySets /\ w.req \in Attempts
  BY DEF Waiter
<1> HIDE DEF B
<1>8. Promotion(w, P) \in Grant
  BY <1>2, <1>5, <1>6, <1>7 DEF Grant
<1> QED
  BY <1>2, <1>4, <1>5, <1>6, <1>8

\* The end of every command, from any part gs of the grants and any queue ws:
\* types, NodeInv and where each new grant comes from.
LEMMA SettleEffect ==
  ASSUME NodeTypeOK, NodeInv,
         NEW gs \in SUBSET grants,
         NEW ws \in SUBSET Waiter, IsFiniteSet(ws), DistinctTickets(ws),
         Settle(gs, ws)
  PROVE  /\ grants' \in SUBSET Grant
         /\ waiters' \in SUBSET ws /\ IsFiniteSet(waiters')
         /\ nextToken' \in Nat /\ nextToken <= nextToken'
         /\ gs \subseteq grants'
         /\ \A g, h \in grants' : g # h => g.token # h.token /\ ~Overlap(g, h)
         /\ \A g \in grants' : 0 < g.token /\ g.token < nextToken'
         /\ \A g \in grants' \ gs :
              /\ nextToken <= g.token
              /\ \E w \in ws \ waiters' :
                   g.holder = w.holder /\ g.keys = w.keys /\ g.req = w.req
<1> DEFINE P == Promotable(gs, ws)
           new == {Promotion(w, P) : w \in P}
<1>1. P \in SUBSET ws /\ P \in SUBSET Waiter
  BY DEF Promotable
<1>2. IsFiniteSet(P) /\ Cardinality(P) \in Nat
  BY <1>1, FS_Subset, FS_CardinalityType
<1>3. /\ grants' = gs \union new
      /\ waiters' = ws \ P
      /\ nextToken' = nextToken + Cardinality(P)
  BY DEF Settle
<1>4. nextToken \in Nat /\ nextToken > 0 /\ grants \in SUBSET Grant
  BY DEF NodeTypeOK
<1>5. \A w \in P : /\ Promotion(w, P) \in Grant
                   /\ nextToken <= Promotion(w, P).token
                   /\ Promotion(w, P).token < nextToken'
  BY <1>1, <1>2, <1>3, PromotionRange
<1>6. \A w \in P : /\ Promotion(w, P).holder = w.holder
                   /\ Promotion(w, P).keys = w.keys
                   /\ Promotion(w, P).req = w.req
  BY DEF Promotion
<1>7. \A w \in P, g \in gs : ~Overlap(w, g)
  BY DEF Promotable
<1>8. \A v, w \in P : v.ticket < w.ticket => ~Overlap(v, w)
  BY DEF Promotable, Overlap
<1>9. \A v, w \in P : v.ticket < w.ticket =>
                        Promotion(v, P).token < Promotion(w, P).token
  BY <1>1, <1>2, PromotionOrder
<1>10. \A v, w \in P : v # w => v.ticket < w.ticket \/ w.ticket < v.ticket
  BY <1>1 DEF DistinctTickets, Waiter
<1>11. waiters' \in SUBSET ws /\ IsFiniteSet(waiters')
  BY <1>1, <1>3, FS_Subset
<1>12. grants' \in SUBSET Grant
  BY <1>3, <1>4, <1>5
<1>13. nextToken' \in Nat /\ nextToken <= nextToken'
  BY <1>2, <1>3, <1>4
<1>14. \A g \in gs : g.token \in Nat /\ 0 < g.token /\ g.token < nextToken
  BY <1>4 DEF NodeInv, Grant
<1>15. \A w \in P : Promotion(w, P).token \in Nat
  BY <1>5 DEF Grant
<1>16. \A g, h \in grants' : g # h => g.token # h.token /\ ~Overlap(g, h)
  <2> SUFFICES ASSUME NEW g \in grants', NEW h \in grants', g # h
               PROVE  g.token # h.token /\ ~Overlap(g, h)
    OBVIOUS
  <2>1. CASE g \in gs /\ h \in gs
    BY <2>1 DEF NodeInv
  <2>2. CASE g \in gs /\ h \in new
    <3>1. PICK w \in P : h = Promotion(w, P)
      BY <2>2
    <3>2. g.token # h.token
      BY <2>2, <3>1, <1>4, <1>5, <1>14, <1>15
    <3>3. ~Overlap(g, h)
      BY <2>2, <3>1, <1>6, <1>7 DEF Overlap
    <3> QED BY <3>2, <3>3
  <2>3. CASE g \in new /\ h \in gs
    <3>1. PICK w \in P : g = Promotion(w, P)
      BY <2>3
    <3>2. g.token # h.token
      BY <2>3, <3>1, <1>4, <1>5, <1>14, <1>15
    <3>3. ~Overlap(g, h)
      BY <2>3, <3>1, <1>6, <1>7 DEF Overlap
    <3> QED BY <3>2, <3>3
  <2>4. CASE g \in new /\ h \in new
    <3>1. PICK v \in P, w \in P : g = Promotion(v, P) /\ h = Promotion(w, P)
      BY <2>4
    <3>2. v # w
      BY <3>1
    <3>3. v.ticket < w.ticket \/ w.ticket < v.ticket
      BY <3>2, <1>10
    <3>4. g.token # h.token
      BY <3>1, <3>3, <1>9, <1>15
    <3>5. ~Overlap(v, w)
      BY <3>3, <1>8 DEF Overlap
    <3>6. ~Overlap(g, h)
      BY <3>1, <3>5, <1>6 DEF Overlap
    <3> QED BY <3>4, <3>6
  <2> QED BY <2>1, <2>2, <2>3, <2>4, <1>3
<1>17. \A g \in grants' : 0 < g.token /\ g.token < nextToken'
  <2> SUFFICES ASSUME NEW g \in grants' PROVE 0 < g.token /\ g.token < nextToken'
    OBVIOUS
  <2>1. CASE g \in gs
    BY <2>1, <1>4, <1>13, <1>14
  <2>2. CASE g \in new
    BY <2>2, <1>4, <1>5, <1>15
  <2> QED BY <2>1, <2>2, <1>3
<1>18. \A g \in grants' \ gs :
         /\ nextToken <= g.token
         /\ \E w \in ws \ waiters' :
              g.holder = w.holder /\ g.keys = w.keys /\ g.req = w.req
  <2> SUFFICES ASSUME NEW g \in grants' \ gs
               PROVE  /\ nextToken <= g.token
                      /\ \E w \in ws \ waiters' :
                           g.holder = w.holder /\ g.keys = w.keys /\ g.req = w.req
    OBVIOUS
  <2>1. PICK w \in P : g = Promotion(w, P)
    BY <1>3
  <2>2. w \in ws \ waiters'
    BY <1>1, <1>3
  <2> QED BY <2>1, <2>2, <1>5, <1>6
<1>19. gs \subseteq grants'
  BY <1>3
<1> QED
  BY <1>11, <1>12, <1>13, <1>16, <1>17, <1>18, <1>19

\* The same for the whole node state.
LEMMA CommandEffect ==
  ASSUME NodeTypeOK, NodeInv,
         NEW gs \in SUBSET grants,
         NEW ws \in SUBSET Waiter, IsFiniteSet(ws), DistinctTickets(ws),
         nextTicket' \in Nat, \A w \in ws : w.ticket < nextTicket',
         tombs' \in SUBSET Attempts, started' \subseteq Nat \X Attempts,
         Settle(gs, ws)
  PROVE  NodeTypeOK' /\ NodeInv' /\ NodeGrows /\ gs \subseteq grants'
<1>1. /\ grants' \in SUBSET Grant
      /\ waiters' \in SUBSET ws /\ IsFiniteSet(waiters')
      /\ nextToken' \in Nat /\ nextToken <= nextToken'
      /\ gs \subseteq grants'
      /\ \A g, h \in grants' : g # h => g.token # h.token /\ ~Overlap(g, h)
      /\ \A g \in grants' : 0 < g.token /\ g.token < nextToken'
      /\ \A g \in grants' \ gs : nextToken <= g.token
  BY SettleEffect
<1>2. NodeTypeOK'
  BY <1>1 DEF NodeTypeOK
<1>3. DistinctTickets(waiters)'
  BY <1>1 DEF DistinctTickets
<1>4. NodeInv'
  BY <1>1, <1>3 DEF NodeInv, Overlap
<1>5. NodeGrows
  BY <1>1 DEF NodeGrows
<1> QED
  BY <1>1, <1>2, <1>4, <1>5

\* An acquire that joins the queue, and is perhaps granted on the spot
\* (POST /v1/locks/acquire), keeps the node's invariant.
LEMMA EnterEffect ==
  ASSUME NodeTypeOK, NodeInv,
         NEW r \in Attempts, NEW h \in Holders, NEW K \in KeySets, Enter(r, h, K)
  PROVE  NodeTypeOK' /\ NodeInv' /\ NodeGrows /\ grants \subseteq grants'
<1> DEFINE n == NewWaiter(r, h, K)
           ws == waiters \union {n}
<1>1. n \in Waiter /\ n.ticket = nextTicket
  BY DEF NewWaiter, Waiter, NodeTypeOK
<1>2. ws \in SUBSET Waiter /\ IsFiniteSet(ws)
  BY <1>1, FS_AddElement DEF NodeTypeOK
<1>3. nextTicket \in Nat /\ nextTicket' = nextTicket + 1 /\ tombs' = tombs
  BY DEF Enter, NodeTypeOK
<1>4. \A w \in waiters : w.ticket \in Nat /\ w.ticket < nextTicket
  BY DEF NodeInv, NodeTypeOK, Waiter
<1>5. DistinctTickets(ws)
  BY <1>1, <1>3, <1>4 DEF DistinctTickets, NodeInv
<1>6. \A w \in ws : w.ticket < nextTicket'
  BY <1>1, <1>3, <1>4
<1>7. Settle(grants, ws)
  BY DEF Enter
<1>9. ASSUME GrantableNow(r, h, K) PROVE GrantedToken(r, h, K) \in Nat
  <2> DEFINE P == Promotable(grants, ws)
  <2>1. n \in P
    BY <1>9 DEF GrantableNow
  <2>2. P \in SUBSET Waiter /\ IsFiniteSet(P)
    BY <1>2, FS_Subset DEF Promotable
  <2>3. Promotion(n, P) \in Grant
    BY <2>1, <2>2, PromotionRange
  <2>4. GrantedToken(r, h, K) = Promotion(n, P).token
    BY DEF GrantedToken
  <2> QED BY <2>3, <2>4 DEF Grant
<1>10. started' \subseteq Nat \X Attempts
  BY <1>9 DEF Enter, NodeTypeOK
<1>8. tombs' \in SUBSET Attempts /\ nextTicket' \in Nat
  BY <1>3 DEF NodeTypeOK
<1> HIDE DEF ws
<1> QED
  BY <1>2, <1>5, <1>6, <1>7, <1>8, <1>10, CommandEffect

\* Commands that add no waiter.
LEMMA ShrinkEffect ==
  ASSUME NodeTypeOK, NodeInv,
         NEW gs \in SUBSET grants, NEW ws \in SUBSET waiters,
         nextTicket' = nextTicket, started' = started, tombs' \in SUBSET Attempts,
         Settle(gs, ws)
  PROVE  NodeTypeOK' /\ NodeInv' /\ NodeGrows /\ gs \subseteq grants'
<1>1. ws \in SUBSET Waiter /\ IsFiniteSet(ws)
  BY FS_Subset DEF NodeTypeOK
<1>2. DistinctTickets(ws) /\ (\A w \in ws : w.ticket < nextTicket')
  BY DEF DistinctTickets, NodeInv
<1>3. nextTicket' \in Nat /\ started' \subseteq Nat \X Attempts
  BY DEF NodeTypeOK
<1> QED
  BY <1>1, <1>2, <1>3, CommandEffect

\* So does one that is given its holder's grant and leaves the queue.
LEMMA StopWaitingEffect ==
  ASSUME NodeTypeOK, NodeInv, NEW r, StopWaiting(r)
  PROVE  NodeTypeOK' /\ NodeInv' /\ NodeGrows /\ grants \subseteq grants'
<1>1. Without(r) \in SUBSET waiters
  BY DEF Without
<1>2. tombs' \in SUBSET Attempts
  BY DEF StopWaiting, NodeTypeOK
<1> QED
  BY <1>1, <1>2, ShrinkEffect DEF StopWaiting

\* So does a cancel, whether it records the request id or not.
LEMMA WithdrawEffect ==
  ASSUME NodeTypeOK, NodeInv, NEW r \in Attempts, NEW durable, Withdraw(r, durable)
  PROVE  NodeTypeOK' /\ NodeInv' /\ NodeGrows /\ grants \subseteq grants'
<1>1. Without(r) \in SUBSET waiters
  BY DEF Without
<1>2. tombs' \in SUBSET Attempts
  BY DEF Withdraw, NodeTypeOK
<1> QED
  BY <1>1, <1>2, ShrinkEffect DEF Withdraw

\* So do a release and the expiry of a lease, which end one grant only.
LEMMA RemoveEffect ==
  ASSUME NodeTypeOK, NodeInv, NEW g, Remove(g)
  PROVE  NodeTypeOK' /\ NodeInv' /\ NodeGrows /\ grants \ {g} \subseteq grants'
<1>1. tombs' \in SUBSET Attempts
  BY DEF Remove, NodeTypeOK
<1> QED
  BY <1>1, ShrinkEffect DEF Remove

\* So does a queue entry that runs out, whoever is promoted over it.
LEMMA ExpireWaitEffect ==
  ASSUME NodeTypeOK, NodeInv, NEW w, ExpireWait(w)
  PROVE  NodeTypeOK' /\ NodeInv' /\ NodeGrows /\ grants \subseteq grants'
<1>1. tombs' \in SUBSET Attempts
  BY DEF ExpireWait, NodeTypeOK
<1> QED
  BY <1>1, ShrinkEffect DEF ExpireWait

-----------------------------------------------------------------------------
\* What a step of a client does.

\* The calls, one by one, and the operation each of them is.
LEMMA CallingOps ==
  /\ Calling = {"acquire", "renewReacquired", "retry", "renewFound", "cancel",
                "releaseRaced", "renewing", "releasing"}
  /\ \A w \in Calling : OpAt[w] \in Ops
<1>1. Calling = {"acquire", "renewReacquired", "retry", "renewFound", "cancel",
                 "releaseRaced", "renewing", "releasing"}
  BY DEF Calling, OpAt
<1>2. \A w \in Calling : OpAt[w] \in Ops
  BY <1>1 DEF OpAt, Ops
<1> QED BY <1>1, <1>2

\* A call that is given up stays a request, whoever sent it.
LEMMA AbandonedType ==
  ASSUME ClientTypeOK, NEW a \in Attempts
  PROVE  Abandoned(a) \in SUBSET Request
BY DEF ClientTypeOK, Abandoned, Request

\* A call sent from any location leaves locations, answers and requests typed.
LEMMA SendType ==
  ASSUME ClientTypeOK, NEW a \in Attempts, NEW w \in Calling, NEW t \in Nat,
         Send(a, w, t)
  PROVE  /\ pc' \in [Attempts -> Locations]
         /\ reply' \in [Attempts -> Reply]
         /\ resends' \in [Attempts -> 0..TransportRetries]
         /\ net' \in SUBSET Request
         /\ \A b \in Attempts : reply'[b].token \in {reply[b].token, 0}
<1>1. w \in Locations
  BY DEF Locations
<1>2. Nothing \in Reply /\ Nothing.token = 0
  BY DEF Nothing, Reply, Kinds
<1>3. 0 \in 0..TransportRetries
  BY ClientAssumption
<1>4. [att |-> a, op |-> OpAt[w], token |-> t, awaited |-> TRUE] \in Request
  BY CallingOps DEF Request
<1>5. Abandoned(a) \in SUBSET Request
  BY AbandonedType
<1> QED
  BY <1>1, <1>2, <1>3, <1>4, <1>5 DEF ClientTypeOK, Send

\* A step to another location leaves them typed.
LEMMA MoveType ==
  ASSUME ClientTypeOK, NEW a \in Attempts, NEW w \in Locations, Move(a, w)
  PROVE  /\ pc' \in [Attempts -> Locations]
         /\ reply' \in [Attempts -> Reply]
         /\ resends' \in [Attempts -> 0..TransportRetries]
         /\ net' \in SUBSET Request
         /\ \A b \in Attempts : reply'[b].token \in {reply[b].token, 0}
<1>1. Nothing \in Reply /\ Nothing.token = 0
  BY DEF Nothing, Reply, Kinds
<1>2. 0 \in 0..TransportRetries
  BY ClientAssumption
<1>3. Abandoned(a) \in SUBSET Request
  BY AbandonedType
<1> QED
  BY <1>1, <1>2, <1>3 DEF ClientTypeOK, Move

-----------------------------------------------------------------------------
\* A step of a client keeps its types, leaves the node alone, brings no token
\* but one it was sent, and a Lock only with a valid one: first for the two
\* forms nearly every action has, then for each action of _acquire_lock,
\* _cancel_lock_wait and Lock.
NeedsToken == Holding \union {"renewReacquired", "renewFound"}
Rest(a) ==
  /\ UNCHANGED <<nodeVars, call>>
  /\ token' \in [Attempts -> Nat]
  /\ token'[a] \in {token[a], reply[a].token}
  /\ \A b \in Attempts \ {a} : token'[b] = token[b]
  /\ retries' \in [Attempts -> Nat]
  /\ after' \in [Attempts -> {"timeout", "aborted"}]

\* A call that is sent keeps the client's types, tells nobody a token, and keeps
\* HoldsToken if it needs no token or has one.
LEMMA SendStep ==
  ASSUME ClientTypeOK, HoldsToken, NEW a \in Attempts, NEW w \in Calling,
         NEW t \in Nat, Send(a, w, t), Rest(a),
         w \in NeedsToken => token'[a] > 0
  PROVE  ClientTypeOK' /\ ClientStep /\ HoldsToken'
<1>1. /\ pc' \in [Attempts -> Locations]
      /\ reply' \in [Attempts -> Reply]
      /\ resends' \in [Attempts -> 0..TransportRetries]
      /\ net' \in SUBSET Request
      /\ \A b \in Attempts : reply'[b].token \in {reply[b].token, 0}
  BY SendType
<1>2. ClientTypeOK'
  BY <1>1 DEF ClientTypeOK, Rest
<1>3. ClientStep
  BY <1>1 DEF ClientStep, Rest
<1>4. pc'[a] = w /\ \A b \in Attempts \ {a} : pc'[b] = pc[b]
  BY DEF Send, ClientTypeOK
<1>5. HoldsToken'
  BY <1>4 DEF HoldsToken, Rest, NeedsToken
<1> QED BY <1>2, <1>3, <1>5

\* A step without a call does the same.
LEMMA MoveStep ==
  ASSUME ClientTypeOK, HoldsToken, NEW a \in Attempts, NEW w \in Locations,
         Move(a, w), Rest(a), w \in NeedsToken => token'[a] > 0
  PROVE  ClientTypeOK' /\ ClientStep /\ HoldsToken'
<1>1. /\ pc' \in [Attempts -> Locations]
      /\ reply' \in [Attempts -> Reply]
      /\ resends' \in [Attempts -> 0..TransportRetries]
      /\ net' \in SUBSET Request
      /\ \A b \in Attempts : reply'[b].token \in {reply[b].token, 0}
  BY MoveType
<1>2. ClientTypeOK'
  BY <1>1 DEF ClientTypeOK, Rest
<1>3. ClientStep
  BY <1>1 DEF ClientStep, Rest
<1>4. pc'[a] = w /\ \A b \in Attempts \ {a} : pc'[b] = pc[b]
  BY DEF Move, ClientTypeOK
<1>5. HoldsToken'
  BY <1>4 DEF HoldsToken, Rest, NeedsToken
<1> QED BY <1>2, <1>3, <1>5

\* Nothing but the tokens, and Learn for those.
LEMMA RestUnchanged ==
  ASSUME ClientTypeOK, NEW a \in Attempts,
         UNCHANGED <<nodeVars, call, retries, after>>,
         token' = token \/ Learn(a)
  PROVE  /\ Rest(a)
         /\ token' = token => token'[a] = token[a]
         /\ Learn(a) => token'[a] = reply[a].token
BY DEF ClientTypeOK, Learn, Reply, Rest

\* The steps a caller decides on: start an attempt, renew or release its Lock.
LEMMA StartEffect ==
  ASSUME ClientTypeOK, HoldsToken, NEW a \in Attempts,
         Start(a) \/ Renew(a) \/ Release(a)
  PROVE  ClientTypeOK' /\ ClientStep /\ HoldsToken'
<1>0. token[a] \in Nat
  BY DEF ClientTypeOK
<1>1. CASE Start(a)
  <2>1. Rest(a)
    BY <1>1, RestUnchanged DEF Start
  <2>2. "acquire" \in Calling \ NeedsToken
    BY CallingOps DEF NeedsToken, Holding
  <2> QED BY <1>1, <2>1, <2>2, SendStep DEF Start
<1>2. CASE Renew(a)
  <2>1. Rest(a) /\ token'[a] = token[a]
    BY <1>2, RestUnchanged DEF Renew
  <2>2. token[a] > 0
    BY <1>2 DEF Renew, HoldsToken, Holding
  <2>3. "renewing" \in Calling
    BY CallingOps
  <2> QED BY <1>0, <1>2, <2>1, <2>2, <2>3, SendStep DEF Renew
<1>3. CASE Release(a)
  <2>1. Rest(a)
    BY <1>3, RestUnchanged DEF Release
  <2>2. "releasing" \in Calling \ NeedsToken
    BY CallingOps DEF NeedsToken, Holding
  <2> QED BY <1>0, <1>3, <2>1, <2>2, SendStep DEF Release
<1> QED BY <1>1, <1>2, <1>3

\* A cancel (_cancel_lock_wait) needs no token.
LEMMA CancelThenStep ==
  ASSUME ClientTypeOK, HoldsToken, NEW a \in Attempts,
         NEW end \in {"timeout", "aborted"}, CancelThen(a, end),
         UNCHANGED <<nodeVars, call, token>>,
         retries' \in [Attempts -> Nat]
  PROVE  ClientTypeOK' /\ ClientStep /\ HoldsToken'
<1>1. Rest(a)
  BY DEF Rest, CancelThen, ClientTypeOK
<1>2. "cancel" \in Calling \ NeedsToken
  BY CallingOps DEF NeedsToken, Holding
<1> QED BY <1>1, <1>2, SendStep DEF CancelThen

\* A move that changes nothing else and ends in a place without a Lock.
LEMMA PlainMove ==
  ASSUME ClientTypeOK, HoldsToken, NEW a \in Attempts,
         NEW w \in Locations \ NeedsToken, Move(a, w),
         UNCHANGED <<nodeVars, call, token, after>>,
         retries' \in [Attempts -> Nat]
  PROVE  ClientTypeOK' /\ ClientStep /\ HoldsToken'
<1>1. Rest(a)
  BY DEF Rest, ClientTypeOK
<1> QED BY <1>1, MoveStep

\* The four outcomes of the first acquire of _acquire_lock.
LEMMA FirstEffect ==
  ASSUME ClientTypeOK, HoldsToken, NEW a \in Attempts,
         FirstRaises(a) \/ FirstGranted(a) \/ FirstRegranted(a) \/ FirstNotAcquired(a)
  PROVE  ClientTypeOK' /\ ClientStep /\ HoldsToken'
<1>0. reply[a].token \in Nat /\ retries \in [Attempts -> Nat]
  BY DEF ClientTypeOK, Reply
<1>u. "unsafe" \in Locations \ NeedsToken
  BY DEF Locations, Ended, NeedsToken, Holding
<1>1. CASE FirstRaises(a)
  BY <1>0, <1>1, CancelThenStep DEF FirstRaises
<1>2. CASE FirstGranted(a)
  <2>1. CASE ValidToken(a)
    <3>1. /\ Learn(a) /\ Move(a, "held")
          /\ UNCHANGED <<nodeVars, call, retries, after>>
      BY <1>2, <2>1 DEF FirstGranted, Hold
    <3>2. Rest(a) /\ token'[a] = reply[a].token
      BY <1>0, <3>1 DEF Rest, ClientTypeOK, Learn
    <3>3. "held" \in Locations
      BY DEF Locations, Holding
    <3> QED BY <2>1, <3>1, <3>2, <3>3, MoveStep DEF ValidToken
  <2>2. CASE ~ValidToken(a)
    BY <1>0, <1>u, <1>2, <2>2, PlainMove DEF FirstGranted
  <2> QED BY <2>1, <2>2
<1>3. CASE FirstRegranted(a)
  <2>1. CASE ValidToken(a)
    <3>1. /\ Learn(a) /\ Send(a, "renewReacquired", reply[a].token)
          /\ UNCHANGED <<nodeVars, call, retries, after>>
      BY <1>3, <2>1 DEF FirstRegranted
    <3>2. Rest(a) /\ token'[a] = reply[a].token
      BY <3>1, RestUnchanged
    <3>3. "renewReacquired" \in Calling
      BY CallingOps
    <3> QED BY <1>0, <2>1, <3>1, <3>2, <3>3, SendStep DEF ValidToken
  <2>2. CASE ~ValidToken(a)
    BY <1>0, <1>u, <1>3, <2>2, PlainMove DEF FirstRegranted
  <2> QED BY <2>1, <2>2
<1>4. CASE FirstNotAcquired(a)
  <2>1. {"loop", "none"} \subseteq Locations \ NeedsToken
    BY DEF Locations, Ended, NeedsToken, Holding
  <2> QED BY <1>0, <1>4, <2>1, PlainMove DEF FirstNotAcquired
<1> QED BY <1>1, <1>2, <1>3, <1>4

\* The wait loop of _acquire_lock: a retry, its outcomes, and the end of the wait.
LEMMA LoopEffect ==
  ASSUME ClientTypeOK, HoldsToken, NEW a \in Attempts,
         \/ Retry(a) \/ Abort(a) \/ GiveUp(a) \/ RetryNotAcquired(a)
         \/ RetryAcquired(a) \/ RetryRaises(a)
  PROVE  ClientTypeOK' /\ ClientStep /\ HoldsToken'
<1>0. reply[a].token \in Nat /\ retries \in [Attempts -> Nat]
  BY DEF ClientTypeOK, Reply
<1>1. CASE Retry(a)
  <2>1. Rest(a)
    BY <1>1 DEF Retry, Rest, ClientTypeOK
  <2>2. "retry" \in Calling \ NeedsToken /\ 0 \in Nat
    BY CallingOps DEF NeedsToken, Holding
  <2> QED BY <1>1, <2>1, <2>2, SendStep DEF Retry
<1>2. CASE Abort(a) \/ GiveUp(a)
  BY <1>0, <1>2, CancelThenStep DEF Abort, GiveUp
<1>3. CASE RetryNotAcquired(a)
  <2>1. "loop" \in Locations \ NeedsToken
    BY DEF Locations, NeedsToken, Holding
  <2> QED BY <1>0, <1>3, <2>1, PlainMove DEF RetryNotAcquired
<1>4. CASE RetryAcquired(a)
  <2>1. CASE ValidToken(a)
    <3>1. /\ Learn(a) /\ Send(a, "renewFound", reply[a].token)
          /\ retries' = [retries EXCEPT ![a] = 0]
          /\ UNCHANGED <<nodeVars, call, after>>
      BY <1>4, <2>1 DEF RetryAcquired
    <3>2. Rest(a) /\ token'[a] = reply[a].token
      BY <1>0, <3>1 DEF Rest, ClientTypeOK, Learn
    <3>3. "renewFound" \in Calling
      BY CallingOps
    <3> QED BY <1>0, <2>1, <3>1, <3>2, <3>3, SendStep DEF ValidToken
  <2>2. CASE ~ValidToken(a)
    BY <1>0, <1>4, <2>2, CancelThenStep DEF RetryAcquired
  <2> QED BY <2>1, <2>2
<1>5. CASE RetryRaises(a)
  BY <1>0, <1>5, CancelThenStep DEF RetryRaises
<1> QED BY <1>1, <1>2, <1>3, <1>4, <1>5

\* The renewals: of a found or reacquired grant, and Lock.renew.
LEMMA RenewEffect ==
  ASSUME ClientTypeOK, HoldsToken, NEW a \in Attempts,
         RenewSucceeds(a) \/ RenewFails(a) \/ RenewAnswered(a)
  PROVE  ClientTypeOK' /\ ClientStep /\ HoldsToken'
<1>0. retries \in [Attempts -> Nat] /\ "held" \in Locations
  BY DEF ClientTypeOK, Locations, Holding
<1>1. ASSUME Hold(a), UNCHANGED <<nodeVars, call, token, retries, after>>,
             pc[a] \in {"renewReacquired", "renewFound", "renewing"}
      PROVE  ClientTypeOK' /\ ClientStep /\ HoldsToken'
  <2>1. Rest(a)
    BY <1>1 DEF Hold, Rest, ClientTypeOK
  <2>2. token'[a] > 0
    BY <1>1 DEF HoldsToken, Holding
  <2> QED BY <1>0, <1>1, <2>1, <2>2, MoveStep DEF Hold
<1>2. CASE RenewSucceeds(a)
  BY <1>1, <1>2 DEF RenewSucceeds, Returns
<1>3. CASE RenewFails(a)
  BY <1>0, <1>3, CancelThenStep DEF RenewFails
<1>4. CASE RenewAnswered(a)
  <2>1. pc[a] = "renewing"
    BY <1>4 DEF RenewAnswered, Returns, Raises
  <2>2. CASE Hold(a)
    BY <1>1, <1>4, <2>1, <2>2 DEF RenewAnswered
  <2>3. CASE Move(a, "lost")
    <3>1. "lost" \in Locations \ NeedsToken
      BY DEF Locations, NeedsToken, Holding
    <3> QED BY <1>0, <1>4, <2>3, <3>1, PlainMove DEF RenewAnswered
  <2>4. CASE Move(a, "held")
    <3>1. Rest(a)
      BY <1>4, <2>4 DEF RenewAnswered, Rest, ClientTypeOK
    <3>2. token'[a] > 0
      BY <1>4, <2>1 DEF RenewAnswered, HoldsToken, Holding
    <3> QED BY <1>0, <2>4, <3>1, <3>2, MoveStep
  <2> QED BY <1>4, <2>2, <2>3, <2>4 DEF RenewAnswered
<1> QED BY <1>2, <1>3, <1>4

\* The outcomes of _cancel_lock_wait and of the release of a raced grant.
LEMMA CancelEffect ==
  ASSUME ClientTypeOK, HoldsToken, NEW a \in Attempts,
         \/ CancelSucceeds(a) \/ CancelRaces(a) \/ CancelFails(a)
         \/ RacedReleased(a) \/ RacedReleaseFails(a)
  PROVE  ClientTypeOK' /\ ClientStep /\ HoldsToken'
<1>0. /\ reply[a].token \in Nat
      /\ retries \in [Attempts -> Nat]
      /\ after[a] \in {"timeout", "aborted"}
  BY DEF ClientTypeOK, Reply
<1>1. {"timeout", "aborted", "unsafe"} \subseteq Locations \ NeedsToken
  BY DEF Locations, Ended, NeedsToken, Holding
<1>2. CASE CancelSucceeds(a) \/ RacedReleased(a)
  BY <1>0, <1>1, <1>2, PlainMove DEF CancelSucceeds, RacedReleased
<1>3. CASE CancelFails(a) \/ RacedReleaseFails(a)
  BY <1>0, <1>1, <1>3, PlainMove DEF CancelFails, RacedReleaseFails
<1>4. CASE CancelRaces(a)
  <2>1. CASE ValidToken(a)
    <3>1. /\ Learn(a) /\ Send(a, "releaseRaced", reply[a].token)
          /\ UNCHANGED <<nodeVars, call, retries, after>>
      BY <1>4, <2>1 DEF CancelRaces
    <3>2. Rest(a) /\ token'[a] = reply[a].token
      BY <3>1, RestUnchanged
    <3>3. "releaseRaced" \in Calling \ NeedsToken
      BY CallingOps DEF NeedsToken, Holding
    <3> QED BY <1>0, <3>1, <3>2, <3>3, SendStep
  <2>2. CASE ~ValidToken(a)
    BY <1>0, <1>1, <1>4, <2>2, PlainMove DEF CancelRaces
  <2> QED BY <2>1, <2>2
<1> QED BY <1>2, <1>3, <1>4

\* The end of a release, and a crash, wherever the attempt was.
LEMMA EndEffect ==
  ASSUME ClientTypeOK, HoldsToken, NEW a \in Attempts,
         ReleaseEnds(a) \/ Crash(a)
  PROVE  ClientTypeOK' /\ ClientStep /\ HoldsToken'
<1>1. {"released", "crashed"} \subseteq Locations \ NeedsToken
  BY DEF Locations, Ended, NeedsToken, Holding
<1>2. retries \in [Attempts -> Nat]
  BY DEF ClientTypeOK
<1> QED BY <1>1, <1>2, PlainMove DEF ReleaseEnds, Crash

\* A call repeated by _request carries the token it had.
LEMMA ResendEffect ==
  ASSUME ClientTypeOK, HoldsToken, NEW a \in Attempts, Resend(a)
  PROVE  ClientTypeOK' /\ ClientStep /\ HoldsToken'
<1> DEFINE t == IF OpAt[pc[a]] \in {"renew", "release"} THEN token[a] ELSE 0
           m == [att |-> a, op |-> OpAt[pc[a]], awaited |-> TRUE, token |-> t]
<1>1. t \in Nat
  BY DEF ClientTypeOK
<1>2. OpAt[pc[a]] \in Ops
  BY CallingOps DEF Resend
<1> HIDE DEF t
<1>3. m \in Request
  BY <1>1, <1>2 DEF Request
<1>4. net' = net \union {m}
  BY DEF Resend, t
<1> HIDE DEF m
<1>5. net' \in SUBSET Request
  BY <1>3, <1>4 DEF ClientTypeOK
<1>6. Nothing \in Reply /\ Nothing.token = 0
  BY DEF Nothing, Reply, Kinds
<1>7. /\ reply' \in [Attempts -> Reply]
      /\ \A b \in Attempts : reply'[b].token \in {reply[b].token, 0}
  BY <1>6 DEF Resend, ClientTypeOK
<1>8. resends' \in [Attempts -> 0..TransportRetries]
  <2>1. resends[a] \in 0..TransportRetries /\ resends[a] < TransportRetries
    BY DEF Resend, CanResend, ClientTypeOK
  <2>2. resends[a] + 1 \in 0..TransportRetries
    BY <2>1, ClientAssumption
  <2> QED BY <2>2 DEF Resend, ClientTypeOK
<1>9. ClientTypeOK'
  BY <1>5, <1>7, <1>8 DEF Resend, ClientTypeOK
<1>10. ClientStep /\ HoldsToken'
  BY <1>7 DEF Resend, ClientStep, HoldsToken
<1> QED BY <1>9, <1>10

\* An answer that loses its token tells nothing new.
LEMMA GarbleEffect ==
  ASSUME ClientTypeOK, HoldsToken, NEW a \in Attempts, Garble(a)
  PROVE  ClientTypeOK' /\ ClientStep /\ HoldsToken'
<1>1. /\ reply' \in [Attempts -> Reply]
      /\ \A b \in Attempts : reply'[b].token \in {reply[b].token, 0}
  BY DEF Garble, ClientTypeOK, Reply
<1> QED BY <1>1 DEF Garble, ClientTypeOK, ClientStep, HoldsToken

-----------------------------------------------------------------------------
\* Steps of the node.
\* An answer keeps the client's types and leaves everything else of it alone.
LEMMA AnswerEffect ==
  ASSUME ClientTypeOK, HoldsToken, NEW m \in net, NEW k \in Kinds,
         NEW t \in Nat, Answer(m, k, t)
  PROVE  /\ ClientTypeOK' /\ HoldsToken' /\ UNCHANGED <<call, token>>
         /\ \A a \in Attempts :
              reply'[a].token = reply[a].token \/ (a = m.att /\ reply'[a].token = t)
<1>1. [kind |-> k, token |-> t] \in Reply /\ m.att \in Attempts
  BY DEF Reply, ClientTypeOK, Request
<1>2. reply' \in [Attempts -> Reply]
  BY <1>1 DEF Answer, ClientTypeOK
<1>3. ClientTypeOK'
  BY <1>2 DEF Answer, ClientTypeOK
<1>4. HoldsToken' /\ UNCHANGED <<call, token>>
  BY DEF Answer, HoldsToken
<1>5. \A a \in Attempts :
        reply'[a].token = reply[a].token \/ (a = m.att /\ reply'[a].token = t)
  BY <1>1 DEF Answer, ClientTypeOK
<1> QED BY <1>3, <1>4, <1>5

\* An answer tells no more than the token of a grant of the attempt's own.
LEMMA TellsEffect ==
  ASSUME ClientTypeOK, HoldsToken, NEW m \in net, NEW k \in Kinds,
         NEW t \in Nat, Answer(m, k, t),
         \/ t = 0
         \/ \E g \in grants' :
              g.token = t /\ g.holder = Holder(m) /\ g.keys = KeySet(m)
  PROVE  ClientTypeOK' /\ HoldsToken' /\ call' = call /\ TellsOnlyOwn
<1>1. /\ ClientTypeOK' /\ HoldsToken' /\ UNCHANGED <<call, token>>
      /\ \A a \in Attempts :
           reply'[a].token = reply[a].token \/ (a = m.att /\ reply'[a].token = t)
  BY AnswerEffect
<1>2. TellsOnlyOwn
  BY <1>1 DEF TellsOnlyOwn, Heard, Holder, KeySet
<1> QED BY <1>1, <1>2

\* A command that leaves the lock table alone, if not the lease of a grant.
LEMMA IdleTable ==
  ASSUME NodeTypeOK, NodeInv, UNCHANGED table, started' \subseteq Nat \X Attempts
  PROVE  NodeTypeOK' /\ NodeInv' /\ NodeGrows /\ grants' = grants
<1>1. /\ grants' = grants /\ waiters' = waiters /\ tombs' = tombs
      /\ nextToken' = nextToken /\ nextTicket' = nextTicket
  BY DEF table
<1>2. NodeTypeOK'
  BY <1>1 DEF NodeTypeOK
<1>3. NodeInv'
  BY <1>1 DEF NodeInv, DistinctTickets, Overlap
<1>4. NodeGrows
  BY <1>1 DEF NodeGrows, NodeTypeOK
<1> QED BY <1>1, <1>2, <1>3, <1>4

\* A command that leaves the node alone.
LEMMA IdleNode ==
  ASSUME NodeTypeOK, NodeInv, UNCHANGED nodeVars
  PROVE  NodeTypeOK' /\ NodeInv' /\ NodeGrows /\ grants' = grants
<1>1. UNCHANGED table /\ started' = started
  BY DEF nodeVars
<1>2. started' \subseteq Nat \X Attempts
  BY <1>1 DEF NodeTypeOK
<1> QED BY <1>1, <1>2, IdleTable

\* Every command the node serves: types, the invariant of the node, new tokens
\* from nextToken on, and answers that tell an attempt of its own grants only.
LEMMA ServeEffect ==
  ASSUME TypeOK, NodeInv, HoldsToken, NEW m \in net, Serve(m) \/ Refuse(m)
  PROVE  TypeOK' /\ NodeInv' /\ NodeGrows /\ HoldsToken' /\ call' = call /\ TellsOnlyOwn
<1> USE DEF TypeOK
<1> DEFINE r == m.att
           h == Holder(m)
           K == KeySet(m)
<1>0. r \in Attempts /\ h \in Holders /\ K \in KeySets
  BY DEF ClientTypeOK, Request, Holder, KeySet, Call
<1>k. /\ {"granted", "regranted", "notAcquired", "renewed", "notRenewed", "released",
          "notReleased", "cancelled", "raced", "capacity", "notLeader"} \subseteq Kinds
      /\ 0 \in Nat
  BY DEF Kinds
<1>g. \A g \in GrantsOf(h, K) :
        /\ g \in grants /\ g.token \in Nat
        /\ g.holder = Holder(m) /\ g.keys = KeySet(m)
  BY DEF GrantsOf, NodeTypeOK, Grant
<1> HIDE DEF r, h, K
<1>1. CASE UNCHANGED nodeVars /\ \E k \in Kinds : Answer(m, k, 0)
  BY <1>1, <1>k, IdleNode, TellsEffect
<1>2. CASE ServeSuppressed(m) \/ ServeQueued(m) \/ Refuse(m)
  BY <1>1, <1>2, <1>k DEF ServeSuppressed, ServeQueued, Refuse
<1>3. CASE ServeReacquire(m)
  <2>1. PICK g \in GrantsOf(h, K) : Answer(m, "regranted", g.token)
    BY <1>3 DEF ServeReacquire, h, K
  <2>2. NodeTypeOK' /\ NodeInv' /\ NodeGrows /\ grants \subseteq grants'
    BY <1>3, StopWaitingEffect DEF ServeReacquire
  <2> QED BY <1>g, <1>k, <2>1, <2>2, TellsEffect
<1>4. CASE ServeArrival(m)
  <2>1. CASE GrantableNow(r, h, K)
    <3> DEFINE n == NewWaiter(r, h, K)
               P == Promotable(grants, waiters \union {n})
    <3>1. Enter(r, h, K) /\ Answer(m, "granted", GrantedToken(r, h, K))
      BY <1>4, <2>1 DEF ServeArrival, r, h, K
    <3>2. NodeTypeOK' /\ NodeInv' /\ NodeGrows
      BY <1>0, <3>1, EnterEffect
    <3>3. n \in P
      BY <2>1 DEF GrantableNow
    <3>4. Promotion(n, P) \in grants'
      BY <3>1, <3>3 DEF Enter, Settle
    <3>5. Promotion(n, P).token = GrantedToken(r, h, K)
      BY DEF GrantedToken
    <3>6. Promotion(n, P).holder = h /\ Promotion(n, P).keys = K
      BY DEF Promotion, NewWaiter
    <3>7. GrantedToken(r, h, K) \in Nat
      BY <3>2, <3>4, <3>5 DEF NodeTypeOK, Grant
    <3> HIDE DEF n, P
    <3> QED BY <1>k, <3>1, <3>2, <3>4, <3>5, <3>6, <3>7, TellsEffect DEF h, K
  <2>2. CASE ~GrantableNow(r, h, K) /\ call[m.att].wait
    <3>1. Enter(r, h, K) /\ Answer(m, "notAcquired", 0)
      BY <1>4, <2>2 DEF ServeArrival, r, h, K
    <3> QED BY <1>0, <1>k, <3>1, EnterEffect, TellsEffect
  <2>3. CASE ~GrantableNow(r, h, K) /\ ~call[m.att].wait
    BY <1>1, <1>4, <1>k, <2>3 DEF ServeArrival, r, h, K
  <2> QED BY <2>1, <2>2, <2>3
<1>5. CASE ServeRenew(m)
  <2>1. CASE Answer(m, "notRenewed", 0) /\ UNCHANGED nodeVars
    BY <1>1, <1>k, <2>1
  <2>2. CASE \E g \in GrantsOf(h, K) : Restart(g, r) /\ Answer(m, "renewed", 0)
    <3>1. UNCHANGED table /\ started' \subseteq Nat \X Attempts
      BY <1>0, <1>g, <2>2 DEF Restart, NodeTypeOK
    <3> QED BY <1>k, <2>2, <3>1, IdleTable, TellsEffect
  <2> QED BY <1>5, <2>1, <2>2 DEF ServeRenew, r, h, K
<1>6. CASE ServeRelease(m)
  <2>1. CASE Answer(m, "notReleased", 0) /\ UNCHANGED nodeVars
    BY <1>1, <1>k, <2>1
  <2>2. CASE \E g \in grants : Remove(g) /\ Answer(m, "released", 0)
    BY <1>k, <2>2, RemoveEffect, TellsEffect
  <2> QED BY <1>6, <2>1, <2>2 DEF ServeRelease
<1>7. CASE ServeCancel(m)
  <2>1. CASE /\ Withdraw(r, TombstoneOnRace)
             /\ \E g \in RacedGrants(r, h, K) : Answer(m, "raced", g.token)
    <3>1. PICK g \in RacedGrants(r, h, K) : Answer(m, "raced", g.token)
      BY <2>1
    <3>2. g \in GrantsOf(h, K)
      BY DEF RacedGrants
    <3>3. NodeTypeOK' /\ NodeInv' /\ NodeGrows /\ grants \subseteq grants'
      BY <1>0, <2>1, WithdrawEffect
    <3> QED BY <1>g, <1>k, <3>1, <3>2, <3>3, TellsEffect
  <2>2. CASE Withdraw(r, TRUE) /\ Answer(m, "cancelled", 0)
    BY <1>0, <1>k, <2>2, WithdrawEffect, TellsEffect
  <2>3. CASE Answer(m, "capacity", 0) /\ UNCHANGED nodeVars
    BY <1>1, <1>k, <2>3
  <2> QED BY <1>7, <2>1, <2>2, <2>3 DEF ServeCancel, r, h, K
<1> QED BY <1>2, <1>3, <1>4, <1>5, <1>6, <1>7 DEF Serve

\* Leases and queue entries that run out: the same, and nobody is told.
LEMMA ExpiryEffect ==
  ASSUME TypeOK, NodeInv, HoldsToken, Expiry
  PROVE  TypeOK' /\ NodeInv' /\ NodeGrows /\ HoldsToken' /\ call' = call /\ TellsOnlyOwn
<1>1. NodeTypeOK' /\ NodeInv' /\ NodeGrows
  BY RemoveEffect, ExpireWaitEffect DEF TypeOK, Expiry, ExpireLease
<1>2. /\ pc' = pc /\ call' = call /\ reply' = reply /\ resends' = resends
      /\ net' = net /\ token' = token /\ retries' = retries
      /\ after' = after
  BY DEF Expiry, clientVars
<1>3. ClientTypeOK' /\ HoldsToken' /\ TellsOnlyOwn
  BY <1>2 DEF TypeOK, ClientTypeOK, HoldsToken, TellsOnlyOwn, Heard
<1> QED BY <1>1, <1>2, <1>3 DEF TypeOK

\* Any step of a client.
LEMMA ClientEffect ==
  ASSUME TypeOK, NodeInv, HoldsToken, NEW a \in Attempts,
         Start(a) \/ Wait(a) \/ Abort(a) \/ Use(a) \/ Resend(a) \/ Garble(a) \/ Crash(a)
  PROVE  TypeOK' /\ NodeInv' /\ NodeGrows /\ HoldsToken' /\ call' = call /\ TellsOnlyOwn
<1>1. ClientTypeOK' /\ ClientStep /\ HoldsToken'
  BY StartEffect, FirstEffect, LoopEffect, RenewEffect, CancelEffect, EndEffect,
     ResendEffect, GarbleEffect DEF TypeOK, Wait, Use
<1>2. NodeTypeOK' /\ NodeInv' /\ NodeGrows /\ call' = call
  BY <1>1, IdleNode DEF TypeOK, ClientStep
<1>3. TellsOnlyOwn
  BY <1>1 DEF ClientStep, TellsOnlyOwn, Heard
<1> QED BY <1>1, <1>2, <1>3 DEF TypeOK

\* Whoever steps, the knowledge of tokens stays consistent.
LEMMA KnowledgeKept ==
  ASSUME TypeOK, FencingInv,
         TypeOK', NodeInv', NodeGrows, call' = call, TellsOnlyOwn
  PROVE  KnownIssued' /\ KnownShared' /\ KnownLatest'
<1>0. /\ nextToken \in Nat /\ nextToken' \in Nat /\ nextToken <= nextToken'
      /\ \A g \in grants' : g.token \in Nat
      /\ \A g \in grants' : g \in grants \/ nextToken <= g.token
  BY DEF TypeOK, NodeTypeOK, Grant, NodeGrows
<1> DEFINE Old(a, t) == t \in Heard(a)
           New(a, t) == \E g \in grants' : /\ g.token = t
                                           /\ g.holder = call[a].holder
                                           /\ g.keys = call[a].keys
<1>1. \A a \in Attempts : \A t \in Heard(a)' : Old(a, t) \/ New(a, t)
  BY DEF TellsOnlyOwn
<1>t. \A a \in Attempts : \A t \in Heard(a)' : t \in Nat
  <2> SUFFICES ASSUME NEW a \in Attempts, NEW t \in Heard(a)' PROVE t \in Nat
    OBVIOUS
  <2>1. token'[a] \in Nat /\ reply'[a] \in Reply
    BY DEF TypeOK, ClientTypeOK
  <2> QED BY <2>1 DEF Heard, Reply
<1>2. \A a \in Attempts : \A t \in Heard(a) : t < nextToken
  BY DEF FencingInv, KnownIssued
<1>3. \A g, h \in grants' : g.token = h.token \/ Overlap(g, h) => g = h
  BY DEF NodeInv, Overlap
<1>4. KnownIssued'
  <2> SUFFICES ASSUME NEW a \in Attempts, NEW t \in Heard(a)'
               PROVE  /\ t < nextToken'
                      /\ \A g \in grants' : g.token = t =>
                           g.holder = call[a].holder /\ g.keys = call[a].keys
    BY DEF KnownIssued
  <2>1. CASE Old(a, t)
    BY <1>0, <1>2, <1>t, <2>1 DEF FencingInv, KnownIssued
  <2>2. CASE New(a, t)
    BY <1>3, <2>2 DEF NodeInv
  <2> QED BY <1>1, <2>1, <2>2
<1>5. KnownShared'
  <2> SUFFICES ASSUME NEW a \in Attempts, NEW b \in Attempts, NEW t \in Heard(a)',
                      t \in Heard(b)'
               PROVE  call[a].holder = call[b].holder /\ call[a].keys = call[b].keys
    BY DEF KnownShared
  <2>1. CASE Old(a, t) /\ Old(b, t)
    BY <2>1 DEF FencingInv, KnownShared
  <2>2. CASE New(a, t) /\ New(b, t)
    BY <1>3, <2>2
  <2>3. CASE Old(a, t) /\ New(b, t)
    BY <1>0, <1>2, <2>3 DEF FencingInv, KnownIssued
  <2>4. CASE New(a, t) /\ Old(b, t)
    BY <1>0, <1>2, <2>4 DEF FencingInv, KnownIssued
  <2> QED BY <1>1, <2>1, <2>2, <2>3, <2>4
<1>6. KnownLatest'
  <2> SUFFICES ASSUME NEW a \in Attempts, NEW t \in Heard(a)',
                      NEW g \in grants', g.keys \intersect call[a].keys # {}
               PROVE  t <= g.token
    BY DEF KnownLatest
  <2>1. CASE Old(a, t)
    BY <1>0, <1>2, <1>t, <2>1 DEF FencingInv, KnownLatest
  <2>2. CASE New(a, t)
    BY <1>0, <1>3, <2>2 DEF Overlap
  <2> QED BY <1>1, <2>1, <2>2
<1> QED BY <1>4, <1>5, <1>6

-----------------------------------------------------------------------------
\* The inductive invariant.
\* The invariant holds before anybody has called.
LEMMA InitInv == Init => TypeOK /\ FencingInv
<1> SUFFICES ASSUME Init PROVE TypeOK /\ FencingInv
  OBVIOUS
<1>1. NodeTypeOK /\ NodeInv
  BY FS_EmptySet DEF Init, NodeInit, NodeTypeOK, NodeInv, DistinctTickets
<1>2. Nothing \in Reply /\ Nothing.token = 0
  BY DEF Nothing, Reply, Kinds
<1>3. 0 \in 0..TransportRetries
  BY ClientAssumption
<1>4. "idle" \in Locations /\ "idle" \notin NeedsToken
  BY DEF Locations, NeedsToken, Holding
<1>5. call \in [Attempts -> Call]
  BY DEF Init
<1>6. ClientTypeOK
  BY <1>2, <1>3, <1>4, <1>5 DEF Init, ClientTypeOK
<1>7. \A a \in Attempts : Heard(a) = {}
  BY <1>2 DEF Init, Heard
<1>8. HoldsToken
  BY <1>4 DEF Init, HoldsToken, NeedsToken
<1> QED BY <1>1, <1>6, <1>7, <1>8 DEF TypeOK, FencingInv, KnownIssued, KnownShared, KnownLatest

\* Every step of the system: types, the node's invariant, and what may be told.
LEMMA StepEffect ==
  ASSUME TypeOK, NodeInv, HoldsToken, [Next]_vars
  PROVE  TypeOK' /\ NodeInv' /\ NodeGrows /\ HoldsToken' /\ call' = call /\ TellsOnlyOwn
<1>1. CASE \E a \in Attempts :
             Start(a) \/ Wait(a) \/ Abort(a) \/ Use(a) \/ Resend(a) \/ Garble(a) \/ Crash(a)
  BY <1>1, ClientEffect
<1>2. CASE \E m \in net : Serve(m) \/ Refuse(m)
  BY <1>2, ServeEffect
<1>3. CASE Expiry
  BY <1>3, ExpiryEffect
<1>4. CASE UNCHANGED vars
  <2>1. UNCHANGED nodeVars /\ UNCHANGED clientVars
    BY <1>4 DEF vars
  <2>2. NodeTypeOK' /\ NodeInv' /\ NodeGrows
    BY <2>1, IdleNode DEF TypeOK
  <2>3. /\ pc' = pc /\ call' = call /\ reply' = reply /\ resends' = resends
        /\ net' = net /\ token' = token /\ retries' = retries
        /\ after' = after
    BY <2>1 DEF clientVars
  <2>4. ClientTypeOK' /\ HoldsToken' /\ TellsOnlyOwn
    BY <2>3 DEF TypeOK, ClientTypeOK, HoldsToken, TellsOnlyOwn, Heard
  <2> QED BY <2>2, <2>3, <2>4 DEF TypeOK
<1> QED BY <1>1, <1>2, <1>3, <1>4 DEF Next

\* The invariant is inductive.
LEMMA StepInv == TypeOK /\ FencingInv /\ [Next]_vars => (TypeOK /\ FencingInv)'
<1> SUFFICES ASSUME TypeOK, FencingInv, [Next]_vars PROVE TypeOK' /\ FencingInv'
  OBVIOUS
<1>1. TypeOK' /\ NodeInv' /\ NodeGrows /\ HoldsToken' /\ call' = call /\ TellsOnlyOwn
  BY StepEffect DEF FencingInv
<1>2. KnownIssued' /\ KnownShared' /\ KnownLatest'
  BY <1>1, KnowledgeKept
<1> QED BY <1>1, <1>2 DEF FencingInv

\* Every reachable state has the types that LockClient and LockNode declare.
THEOREM Typing == Spec => []TypeOK
<1>1. Spec => [](TypeOK /\ FencingInv)
  BY InitInv, StepInv, PTL DEF Spec
<1> QED BY <1>1, PTL

\* Tokens that attempts heard of stay consistent with the grants of the node.
THEOREM Knowledge == Spec => []FencingInv
<1>1. Spec => [](TypeOK /\ FencingInv)
  BY InitInv, StepInv, PTL DEF Spec
<1> QED BY <1>1, PTL

\* For any attempts, keys and holders, and whatever the transport loses, delays,
\* refuses or garbles: of two Locks on a common key, the one with the smaller
\* token has no authority at the node any more, and equal tokens are one grant
\* (the fencing_token contract of Lock and _acquire_lock).
THEOREM Fencing == Spec => []FencingOrder
<1>1. TypeOK /\ FencingInv => FencingOrder
  <2> SUFFICES ASSUME TypeOK, FencingInv, NEW a \in Attempts, NEW b \in Attempts,
                      pc[a] \in Holding, pc[b] \in Holding, SharesKey(a, b)
               PROVE  \/ token[a] < token[b] /\ ~Live(a)
                      \/ token[b] < token[a] /\ ~Live(b)
                      \/ /\ token[a] = token[b]
                         /\ call[a].holder = call[b].holder
                         /\ call[a].keys = call[b].keys
    BY DEF FencingOrder
  <2>1. /\ token[a] \in Nat /\ token[b] \in Nat
        /\ token[a] \in Heard(a) /\ token[b] \in Heard(b)
    BY DEF TypeOK, ClientTypeOK, FencingInv, HoldsToken, Heard
  <2>2. ASSUME NEW c \in Attempts, NEW d \in Attempts, SharesKey(c, d),
               token[c] \in Nat, token[d] \in Nat,
               token[c] \in Heard(c), token[d] \in Heard(d), token[c] < token[d]
        PROVE  ~Live(c)
    <3> SUFFICES ASSUME NEW g \in grants, g.token = token[c] PROVE FALSE
      BY DEF Live
    <3>1. g.keys = call[c].keys
      BY <2>2 DEF FencingInv, KnownIssued
    <3>2. token[d] <= g.token
      BY <2>2, <3>1 DEF FencingInv, KnownLatest, SharesKey
    <3> QED BY <2>2, <3>2
  <2>3. SharesKey(b, a)
    BY DEF SharesKey
  <2>4. CASE token[a] < token[b]
    BY <2>1, <2>2, <2>4
  <2>5. CASE token[b] < token[a]
    BY <2>1, <2>2, <2>3, <2>5
  <2>6. CASE token[a] = token[b]
    BY <2>1, <2>6 DEF FencingInv, KnownShared
  <2> QED BY <2>1, <2>4, <2>5, <2>6
<1> QED BY <1>1, Typing, Knowledge, PTL

\* Every attempt keeps the holder that its caller supplied or it generated.
OwnArguments == \A a \in Attempts : call[a] \in Arguments(a)

\* The arguments of an attempt never change.
LEMMA ArgumentsKept == Spec => []OwnArguments
<1>1. Init => OwnArguments
  BY DEF Init, OwnArguments
<1>2. OwnArguments /\ TypeOK /\ FencingInv /\ [Next]_vars => OwnArguments'
  BY StepEffect DEF FencingInv, OwnArguments, Arguments, GeneratedHolder
<1> QED BY <1>1, <1>2, Typing, Knowledge, PTL DEF Spec

\* Two attempts of which one generated its holder never both have authority over
\* a common key: workers that name no holder exclude each other (_gen_holder).
THEOREM Exclusion == Spec => []GeneratedHoldersExclude
<1>1. OwnArguments /\ TypeOK /\ FencingInv /\ FencingOrder => GeneratedHoldersExclude
  <2> SUFFICES ASSUME OwnArguments, TypeOK, FencingOrder,
                      NEW a \in Attempts, NEW b \in Attempts, a # b,
                      call[a].holder \notin Callers,
                      pc[a] \in Holding, pc[b] \in Holding,
                      SharesKey(a, b), Live(a), Live(b)
               PROVE  FALSE
    BY DEF GeneratedHoldersExclude
  <2>1. call[a].holder = call[b].holder
    BY DEF FencingOrder
  <2>2. call[a].holder = a /\ call[b].holder \in Callers \union {b}
    BY DEF OwnArguments, Arguments, GeneratedHolder
  <2> QED BY <2>1, <2>2
<1> QED BY <1>1, ArgumentsKept, Typing, Knowledge, Fencing, PTL
=============================================================================
