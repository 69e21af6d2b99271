--------------------------- MODULE SemaphoreProofs ---------------------------
(***************************************************************************)
(* Counting semaphores, for every number of attempts and every limit: how  *)
(* many handles have authority, and what an attempt leaves behind.         *)
(*                                                                         *)
(* The client's steps are those of the locks, so their lemmas are cited.   *)
(* The node is new: it promotes as many waiters as there are free permits. *)
(* That it never promotes too many is a count: the rank of a promoted      *)
(* waiter in the queue is below the number of free permits, and no two     *)
(* waiters have one rank.                                                  *)
(***************************************************************************)
EXTENDS SemaphoreInvariants, LockSafety

-----------------------------------------------------------------------------
\* The waiters that are promoted are no more than the free permits.
LEMMA PromotedFit ==
  ASSUME NEW gs, NEW ws \in SUBSET Waiter, IsFiniteSet(gs), IsFiniteSet(ws),
         DistinctTickets(ws), NEW l \in Nat, Cardinality(gs) <= l
  PROVE  LET P == SemPromotable(gs, ws, l)
         IN  IsFiniteSet(P) /\ Cardinality(gs) + Cardinality(P) <= l
<1> DEFINE P == SemPromotable(gs, ws, l)
           Before(w) == {v \in ws : v.ticket < w.ticket}
           rank == [w \in P |-> Cardinality(Before(w))]
           free == l - Cardinality(gs)
<1>1. Cardinality(gs) \in Nat /\ free \in Nat
  BY FS_CardinalityType
<1>2. P \in SUBSET ws /\ IsFiniteSet(P) /\ Cardinality(P) \in Nat
  BY FS_Subset, FS_CardinalityType DEF SemPromotable
<1>3. \A w \in ws : IsFiniteSet(Before(w)) /\ Cardinality(Before(w)) \in Nat
  BY FS_Subset, FS_CardinalityType
<1>4. \A w \in P : rank[w] \in 0..(free - 1)
  <2> SUFFICES ASSUME NEW w \in P PROVE rank[w] \in 0..(free - 1)
    OBVIOUS
  <2>1. Cardinality(gs) + Cardinality(Before(w)) < l
    BY DEF SemPromotable
  <2>2. Cardinality(Before(w)) \in Nat /\ rank[w] = Cardinality(Before(w))
    BY <1>2, <1>3
  <2> HIDE DEF Before, rank
  <2> QED BY <1>1, <2>1, <2>2
<1>5. ASSUME NEW v \in P, NEW w \in P, v.ticket < w.ticket
      PROVE  rank[v] # rank[w]
  <2>1. v \in Waiter /\ w \in Waiter /\ \A u \in ws : u.ticket \in Nat
    BY <1>2 DEF Waiter
  <2>2. v.ticket \in Nat /\ w.ticket \in Nat
    BY <2>1 DEF Waiter
  <2>3. Before(v) \in SUBSET Before(w) /\ v \in Before(w) /\ v \notin Before(v)
    BY <1>2, <1>5, <2>1, <2>2
  <2>4. Cardinality(Before(v)) # Cardinality(Before(w))
    BY <1>2, <1>3, <2>3, FS_Subset
  <2> QED BY <2>4
<1>6. \A v, w \in P : v # w => v.ticket < w.ticket \/ w.ticket < v.ticket
  BY <1>2 DEF DistinctTickets, Waiter
<1>7. rank \in Injection(P, 0..(free - 1))
  <2>1. \A v, w \in P : rank[v] = rank[w] => v = w
    BY <1>5, <1>6
  <2>2. rank \in [P -> 0..(free - 1)]
    BY <1>4
  <2> HIDE DEF P, rank
  <2> QED BY <2>1, <2>2 DEF Injection, IsInjective
<1> HIDE DEF P, rank, free
<1>8. IsFiniteSet(0..(free - 1)) /\ Cardinality(0..(free - 1)) = free
  <2>1. 0 \in Int /\ free - 1 \in Int /\ (0 > free - 1 => free = 0)
    BY <1>1
  <2>2. /\ IsFiniteSet(0..(free - 1))
        /\ Cardinality(0..(free - 1)) = IF 0 > free - 1 THEN 0 ELSE (free - 1) - 0 + 1
    BY <2>1, FS_Interval
  <2> QED BY <1>1, <2>1, <2>2
<1>9. Cardinality(P) <= free
  BY <1>7, <1>8, FS_Injection
<1> QED BY <1>1, <1>2, <1>9 DEF P, free

\* The end of every command, from any part gs of the permits and any queue ws that
\* hold one entry per attempt.
LEMMA SemSettleEffect ==
  ASSUME NodeTypeOK, PermitInv, NEW l \in Nat,
         NEW gs \in SUBSET grants, IsFiniteSet(gs), Cardinality(gs) <= l,
         NEW ws \in SUBSET Waiter, IsFiniteSet(ws), DistinctTickets(ws),
         Entries(gs, ws, l), UNCHANGED <<call, asked>>, SemSettle(gs, ws, l)
  PROVE  /\ grants' \in SUBSET Grant /\ IsFiniteSet(grants') /\ Cardinality(grants') <= l
         /\ waiters' \in SUBSET ws /\ IsFiniteSet(waiters')
         /\ nextToken' \in Nat \ {0} /\ nextToken <= nextToken'
         /\ gs \subseteq grants'
         /\ \A g, h \in grants' : g # h => g.token # h.token
         /\ \A g \in grants' : 0 < g.token /\ g.token < nextToken'
         /\ \A g \in grants' \ gs : nextToken <= g.token /\ \E w \in ws : g.req = w.req
         /\ Entries(grants', waiters', l)
<1> DEFINE P == SemPromotable(gs, ws, l)
           new == {Promotion(w, P) : w \in P}
<1>1. P \in SUBSET ws /\ P \in SUBSET Waiter
  BY DEF SemPromotable
<1>2. IsFiniteSet(P) /\ Cardinality(gs) + Cardinality(P) <= l /\ Cardinality(P) \in Nat
  BY PromotedFit, FS_CardinalityType
<1>3. /\ grants' = gs \union new
      /\ waiters' = ws \ P
      /\ nextToken' = nextToken + Cardinality(P)
  BY DEF SemSettle
<1>4. nextToken \in Nat /\ nextToken > 0 /\ grants \in SUBSET Grant
  BY DEF NodeTypeOK
<1>5. \A w \in P : /\ Promotion(w, P) \in Grant
                   /\ nextToken <= Promotion(w, P).token
                   /\ Promotion(w, P).token < nextToken'
  BY <1>1, <1>2, <1>3, PromotionRange
<1>6. \A w \in P : /\ Promotion(w, P).holder = w.holder
                   /\ Promotion(w, P).keys = w.keys
                   /\ Promotion(w, P).req = w.req
  BY DEF Promotion
<1>7. \A v, w \in P : v.ticket < w.ticket =>
                        Promotion(v, P).token < Promotion(w, P).token
  BY <1>1, <1>2, PromotionOrder
<1>8. \A v, w \in P : v # w => v.ticket < w.ticket \/ w.ticket < v.ticket
  BY <1>1 DEF DistinctTickets, Waiter
<1>9. IsFiniteSet(new) /\ Cardinality(new) <= Cardinality(P) /\ Cardinality(new) \in Nat
  <2> DEFINE f == [w \in P |-> Promotion(w, P)]
  <2>1. f \in Surjection(P, new)
    BY DEF Surjection
  <2> QED BY <1>2, <2>1, FS_Surjection, FS_CardinalityType
<1>10. IsFiniteSet(grants') /\ Cardinality(grants') <= l
  <2>1. /\ IsFiniteSet(gs \union new) /\ IsFiniteSet(gs \intersect new)
        /\ Cardinality(gs \union new)
             = Cardinality(gs) + Cardinality(new) - Cardinality(gs \intersect new)
    BY <1>9, FS_Union, FS_Intersection
  <2>2. Cardinality(gs) \in Nat /\ Cardinality(gs \intersect new) \in Nat
    BY <2>1, FS_CardinalityType
  <2> HIDE DEF P, new
  <2>3. Cardinality(gs \union new) <= l
    BY <1>2, <1>9, <2>1, <2>2
  <2> QED BY <1>3, <2>1, <2>3
<1> HIDE DEF P
<1>11. waiters' \in SUBSET ws /\ IsFiniteSet(waiters')
  BY <1>1, <1>3, FS_Subset
<1>12. nextToken' \in Nat \ {0} /\ nextToken <= nextToken'
  BY <1>2, <1>3, <1>4
<1>13. \A g \in gs : g.token \in Nat /\ 0 < g.token /\ g.token < nextToken
  BY <1>4 DEF PermitInv, Grant
<1>14. \A w \in P : Promotion(w, P).token \in Nat
  BY <1>5 DEF Grant
<1>15. \A g, h \in grants' : g # h => g.token # h.token
  <2> SUFFICES ASSUME NEW g \in grants', NEW h \in grants', g # h
               PROVE  g.token # h.token
    OBVIOUS
  <2>1. CASE g \in gs /\ h \in gs
    BY <2>1 DEF PermitInv
  <2>2. ASSUME NEW x \in gs, NEW y \in new PROVE x.token < y.token
    <3>1. PICK w \in P : y = Promotion(w, P)
      BY <2>2
    <3> QED BY <3>1, <1>4, <1>5, <1>13, <1>14
  <2>3. CASE g \in new /\ h \in new
    <3>1. PICK v \in P, w \in P : g = Promotion(v, P) /\ h = Promotion(w, P)
      BY <2>3
    <3>2. v.ticket < w.ticket \/ w.ticket < v.ticket
      BY <3>1, <1>8
    <3> QED BY <3>1, <3>2, <1>7, <1>14
  <2>4. \A x \in gs, y \in new : x.token # y.token
    <3>1. \A y \in new : y.token \in Nat
      BY <1>14
    <3> QED BY <2>2, <3>1, <1>13
  <2> QED BY <2>1, <2>3, <2>4, <1>3
<1>16. \A g \in grants' : 0 < g.token /\ g.token < nextToken'
  <2>1. \A g \in gs : 0 < g.token /\ g.token < nextToken'
    BY <1>4, <1>12, <1>13
  <2>2. \A w \in P : 0 < Promotion(w, P).token /\ Promotion(w, P).token < nextToken'
    BY <1>4, <1>5, <1>14
  <2> QED BY <2>1, <2>2, <1>3
<1>17. \A g \in grants' \ gs : nextToken <= g.token /\ \E w \in ws : g.req = w.req
  BY <1>1, <1>3, <1>5, <1>6
<1>18. Entries(grants', waiters', l)
  <2>1. \A x \in gs \union ws : /\ x.holder = call[x.req].holder
                                /\ x.keys = call[x.req].keys
                                /\ asked[x.req] = l
    BY DEF Entries
  <2>2. \A x \in grants' \union waiters' : /\ x.holder = call[x.req].holder
                                           /\ x.keys = call[x.req].keys
                                           /\ asked[x.req] = l
    BY <1>1, <1>3, <1>6, <2>1
  <2>3. \A g, h \in grants' : g.req = h.req => g = h
    BY <1>1, <1>3, <1>6 DEF Entries
  <2>4. \A v, w \in waiters' : v.req = w.req => v = w
    BY <1>11 DEF Entries
  <2>5. \A g \in grants', w \in waiters' : g.req # w.req
    BY <1>1, <1>3, <1>6 DEF Entries
  <2> QED BY <2>2, <2>3, <2>4, <2>5 DEF Entries
<1> QED
  BY <1>3, <1>5, <1>4, <1>10, <1>11, <1>12, <1>15, <1>16, <1>17, <1>18

-----------------------------------------------------------------------------
\* Steps of the node.

\* What every command keeps.
NodeKept ==
  /\ NodeTypeOK' /\ IsFiniteSet(grants') /\ limit' \in Limits \union {0}
  /\ PermitInv' /\ NodeGrows
  /\ Entries(grants', waiters', limit')
  /\ Cardinality(grants') <= limit'
StepKept ==
  NodeKept /\ ClientTypeOK' /\ HoldsToken' /\ TellsOnlyOwn /\ UNCHANGED <<call, asked>>

\* The limits are numbers, and a semaphore that is not configured has none.
LEMMA LimitNat ==
  ASSUME SemTypeOK PROVE limit \in Nat /\ \A a \in Attempts : asked[a] \in Nat \ {0}
<1>1. Limits \subseteq Nat \ {0}
  BY LimitsAssumption
<1>2. 0 \in Nat
  OBVIOUS
<1> QED BY <1>1, <1>2 DEF SemTypeOK

\* SemSettleEffect for the whole node state.
LEMMA SemCommand ==
  ASSUME SemTypeOK, CountInv, limit' \in Limits \union {0},
         NEW gs \in SUBSET grants, Cardinality(gs) <= limit',
         NEW ws \in SUBSET Waiter, IsFiniteSet(ws), DistinctTickets(ws),
         nextTicket' \in Nat, \A w \in ws : w.ticket < nextTicket',
         tombs' \in SUBSET Attempts, started' \subseteq Nat \X Attempts,
         UNCHANGED <<call, asked>>,
         Entries(gs, ws, limit'), SemSettle(gs, ws, limit')
  PROVE  /\ NodeKept /\ gs \subseteq grants' /\ waiters' \subseteq ws
         /\ \A g \in grants' : g \in gs \/ \E w \in ws : g.req = w.req
<1>1. limit' \in Nat /\ IsFiniteSet(gs) /\ NodeTypeOK /\ PermitInv
  BY LimitsAssumption, FS_Subset DEF SemTypeOK, TypeOK, CountInv
<1>2. /\ grants' \in SUBSET Grant /\ IsFiniteSet(grants') /\ Cardinality(grants') <= limit'
      /\ waiters' \in SUBSET ws /\ IsFiniteSet(waiters')
      /\ nextToken' \in Nat \ {0} /\ nextToken <= nextToken'
      /\ gs \subseteq grants'
      /\ \A g, h \in grants' : g # h => g.token # h.token
      /\ \A g \in grants' : 0 < g.token /\ g.token < nextToken'
      /\ \A g \in grants' \ gs : nextToken <= g.token /\ \E w \in ws : g.req = w.req
      /\ Entries(grants', waiters', limit')
  BY <1>1, SemSettleEffect
<1>3. NodeTypeOK'
  BY <1>2 DEF NodeTypeOK
<1>4. DistinctTickets(waiters') /\ \A w \in waiters' : w.ticket < nextTicket'
  BY <1>2 DEF DistinctTickets
<1>5. PermitInv'
  BY <1>2, <1>4 DEF PermitInv, DistinctTickets
<1>6. NodeGrows
  BY <1>2 DEF NodeGrows
<1> QED BY <1>2, <1>3, <1>5, <1>6 DEF NodeKept

\* Commands that add no waiter leave the limit and spare every attempt.
LEMMA SemShrink ==
  ASSUME SemTypeOK, CountInv, NEW gs \in SUBSET grants, NEW ws \in SUBSET waiters,
         UNCHANGED <<nextTicket, started, limit, call, asked>>, tombs' \in SUBSET Attempts,
         SemSettle(gs, ws, limit)
  PROVE  /\ NodeKept /\ gs \subseteq grants' /\ waiters' \subseteq ws
         /\ \A g \in grants' : g \in gs \/ \E w \in ws : g.req = w.req
         /\ \A b \in Attempts : Spares(b)
<1>1. ws \in SUBSET Waiter /\ IsFiniteSet(ws)
  BY FS_Subset DEF SemTypeOK, TypeOK, NodeTypeOK
<1>2. /\ DistinctTickets(ws) /\ nextTicket' \in Nat /\ \A w \in ws : w.ticket < nextTicket'
      /\ started' \subseteq Nat \X Attempts
  BY DEF CountInv, PermitInv, DistinctTickets, SemTypeOK, TypeOK, NodeTypeOK
<1>3. Cardinality(gs) <= limit'
  <2>1. IsFiniteSet(gs) /\ Cardinality(gs) <= Cardinality(grants)
    BY FS_Subset DEF SemTypeOK
  <2>2. Cardinality(gs) \in Nat /\ Cardinality(grants) \in Nat /\ limit \in Nat
    BY <2>1, FS_CardinalityType, LimitNat DEF SemTypeOK
  <2> QED BY <2>1, <2>2 DEF CountInv
<1>4. Entries(gs, ws, limit')
  BY DEF CountInv, Entries
<1>5. limit' \in Limits \union {0} /\ SemSettle(gs, ws, limit')
  BY DEF SemTypeOK
<1>6. /\ NodeKept /\ gs \subseteq grants' /\ waiters' \subseteq ws
      /\ \A g \in grants' : g \in gs \/ \E w \in ws : g.req = w.req
  BY <1>1, <1>2, <1>3, <1>4, <1>5, SemCommand
<1>7. \A b \in Attempts : Spares(b)
  BY <1>6 DEF Spares, WaitsFor, GrantsFor
<1> QED BY <1>6, <1>7

\* A command that leaves the permits alone, if not the lease of one.
LEMMA SemIdleTable ==
  ASSUME SemTypeOK, CountInv, UNCHANGED <<table, limit, call, asked>>,
         started' \subseteq Nat \X Attempts
  PROVE  NodeKept
<1>1. /\ grants' = grants /\ waiters' = waiters /\ tombs' = tombs
      /\ nextToken' = nextToken /\ nextTicket' = nextTicket
  BY DEF table
<1>2. NodeTypeOK' /\ PermitInv' /\ NodeGrows
  BY <1>1 DEF SemTypeOK, TypeOK, NodeTypeOK, CountInv, PermitInv, DistinctTickets, NodeGrows
<1>3. Entries(grants', waiters', limit')
  BY <1>1 DEF CountInv, Entries
<1> QED BY <1>1, <1>2, <1>3 DEF NodeKept, SemTypeOK, CountInv

\* A command that leaves the node alone.
LEMMA SemIdle ==
  ASSUME SemTypeOK, CountInv, UNCHANGED <<nodeVars, limit, call, asked>>
  PROVE  NodeKept
<1>1. UNCHANGED <<table, limit, call, asked>> /\ started' = started
  BY DEF nodeVars
<1>2. started' \subseteq Nat \X Attempts
  BY <1>1 DEF SemTypeOK, TypeOK, NodeTypeOK
<1> QED BY <1>1, <1>2, SemIdleTable

\* An arrival that is granted has started the lease of its permit.
LEMMA ArrivalStarts ==
  ASSUME SemTypeOK, NEW m \in net, SemArrival(m)
  PROVE  started' \subseteq Nat \X Attempts
<1> DEFINE n == NewWaiter(m.att, Holder(m), KeySet(m))
           ws == waiters \union {n}
           P == SemPromotable(grants, ws, asked[m.att])
<1>1. m.att \in Attempts /\ call[m.att] \in Call /\ NodeTypeOK
  BY DEF SemTypeOK, TypeOK, ClientTypeOK, Request
<1>2. n \in Waiter
  BY <1>1 DEF NewWaiter, Waiter, Call, Holder, KeySet, NodeTypeOK
<1>3. ws \in SUBSET Waiter /\ IsFiniteSet(ws)
  BY <1>1, <1>2, FS_AddElement DEF NodeTypeOK
<1>4. P \in SUBSET Waiter /\ IsFiniteSet(P)
  BY <1>3, FS_Subset DEF SemPromotable
<1>5. CASE n \in P
  <2>1. started' = started \union {<<Promotion(n, P).token, m.att>>}
    BY <1>5 DEF SemArrival
  <2>2. Promotion(n, P).token \in Nat
    BY <1>1, <1>4, <1>5, PromotionRange DEF Grant
  <2> QED BY <1>1, <2>1, <2>2 DEF NodeTypeOK
<1>6. CASE n \notin P
  BY <1>1, <1>6 DEF SemArrival, NodeTypeOK
<1> QED BY <1>5, <1>6

\* An acquire that joins the queue, under the limit it asked for, spares every other
\* attempt.
LEMMA SemEnter ==
  ASSUME SemTypeOK, CountInv, UNCHANGED <<call, asked, tombs>>, NEW r \in Attempts,
         limit \in {0, asked[r]}, limit' = asked[r], nextTicket' = nextTicket + 1,
         started' \subseteq Nat \X Attempts,
         Arrives(r, call[r].holder, call[r].keys),
         SemSettle(grants, waiters \union {NewWaiter(r, call[r].holder, call[r].keys)},
                   asked[r])
  PROVE  NodeKept /\ \A b \in Attempts \ {r} : Spares(b)
<1> DEFINE n == NewWaiter(r, call[r].holder, call[r].keys)
           ws == waiters \union {n}
<1>1. n.ticket = nextTicket /\ n.req = r /\ n.holder = call[r].holder /\ n.keys = call[r].keys
  BY DEF NewWaiter
<1>2. call[r].holder \in Holders /\ call[r].keys \in KeySets
  <2>1. call[r] \in Call
    BY DEF SemTypeOK, TypeOK, ClientTypeOK
  <2> QED BY <2>1 DEF Call
<1>3. n \in Waiter /\ nextTicket \in Nat
  BY <1>2 DEF NewWaiter, Waiter, SemTypeOK, TypeOK, NodeTypeOK
<1> HIDE DEF n
<1>4. ws \in SUBSET Waiter /\ IsFiniteSet(ws)
  BY <1>3, FS_AddElement DEF SemTypeOK, TypeOK, NodeTypeOK
<1>5. \A w \in waiters : w.ticket \in Nat /\ w.ticket < nextTicket
  BY DEF CountInv, PermitInv, SemTypeOK, TypeOK, NodeTypeOK, Waiter
<1>6. DistinctTickets(ws) /\ nextTicket' \in Nat /\ \A w \in ws : w.ticket < nextTicket'
  BY <1>1, <1>3, <1>5 DEF DistinctTickets, CountInv, PermitInv
<1>7. /\ \A w \in waiters : w.req # r
      /\ \A g \in grants : g.req # r
  <2>1. \A w \in waiters : w.req # r
    BY DEF Arrives
  <2>2. \A g \in grants : g.req = r => g \in GrantsOf(call[r].holder, call[r].keys)
    BY DEF CountInv, Entries, GrantsOf
  <2> QED BY <2>1, <2>2 DEF Arrives
<1>8. limit' \in Limits /\ asked[r] \in Nat \ {0} /\ limit \in Nat
  BY LimitNat DEF SemTypeOK
<1>9. limit = 0 => grants = {} /\ waiters = {}
  <2>1. \A x \in grants \union waiters : asked[x.req] = limit /\ x.req \in Attempts
    BY DEF CountInv, Entries, SemTypeOK, TypeOK, NodeTypeOK, Grant, Waiter
  <2> QED BY <2>1, LimitNat
<1>10. Cardinality(grants) <= limit'
  <2>1. Cardinality(grants) \in Nat /\ Cardinality(grants) <= limit
    BY FS_CardinalityType DEF SemTypeOK, CountInv
  <2>2. limit <= asked[r]
    BY <1>8
  <2> QED BY <1>8, <2>1, <2>2
<1>11. Entries(grants, ws, limit')
  BY <1>1, <1>7, <1>9 DEF CountInv, Entries
<1>12. SemSettle(grants, ws, limit') /\ tombs' \in SUBSET Attempts
  BY DEF n, SemTypeOK, TypeOK, NodeTypeOK
<1>13. /\ NodeKept /\ waiters' \subseteq ws
       /\ \A g \in grants' : g \in grants \/ \E w \in ws : g.req = w.req
  BY <1>4, <1>6, <1>8, <1>10, <1>11, <1>12, SemCommand
<1>14. \A b \in Attempts \ {r} : Spares(b)
  BY <1>1, <1>13 DEF Spares, WaitsFor, GrantsFor
<1> QED BY <1>13, <1>14

\* Every command of the node: types, its count, and answers that tell an attempt of
\* its own permits only.
LEMMA SemServeKept ==
  ASSUME SemTypeOK, CountInv, UNCHANGED asked, NEW m \in net,
         \/ SemAcquire(m) \/ SemRelease(m) \/ SemCancel(m)
         \/ (ServeRenew(m) \/ Refuse(m)) /\ UNCHANGED limit
  PROVE  StepKept
<1> DEFINE r == m.att
           h == Holder(m)
           K == KeySet(m)
<1>0. /\ r \in Attempts /\ h = call[r].holder /\ K = call[r].keys
      /\ ClientTypeOK /\ HoldsToken /\ NodeTypeOK
  BY DEF SemTypeOK, TypeOK, ClientTypeOK, Request, Holder, KeySet, CountInv
<1>k. {"granted", "regranted", "notAcquired", "mismatch", "renewed", "notRenewed",
       "released", "notReleased", "cancelled", "raced", "capacity", "notLeader"}
        \subseteq Kinds
  BY DEF Kinds
<1>g. \A g \in GrantsOf(h, K) :
        /\ g \in grants /\ g.token \in Nat
        /\ g.holder = Holder(m) /\ g.keys = KeySet(m)
  BY <1>0 DEF GrantsOf, NodeTypeOK, Grant
<1>w. Without(r) \in SUBSET waiters /\ tombs \in SUBSET Attempts
  BY <1>0 DEF Without, NodeTypeOK
<1> HIDE DEF r, h, K
<1>1. ASSUME NEW k \in Kinds, NEW t \in Nat, Answer(m, k, t), NodeKept,
             t = 0 \/ \E g \in grants' :
                        g.token = t /\ g.holder = Holder(m) /\ g.keys = KeySet(m)
      PROVE  StepKept
  BY <1>0, <1>1, TellsEffect DEF StepKept
<1>2. ASSUME NEW k \in Kinds, Answer(m, k, 0), UNCHANGED <<nodeVars, limit>>
      PROVE  StepKept
  <2>1. UNCHANGED call
    BY <1>2 DEF Answer
  <2>2. NodeKept
    BY <1>2, <2>1, SemIdle
  <2> QED BY <1>1, <1>2, <2>2
<1>3. CASE SemAcquire(m)
  <2>1. CASE SemArrival(m)
    <3> DEFINE n == NewWaiter(r, h, K)
               P == SemPromotable(grants, waiters \union {n}, asked[r])
    <3>1. /\ limit \in {0, asked[r]} /\ Arrives(r, h, K) /\ UNCHANGED <<call, tombs>>
      BY <2>1 DEF SemArrival, Answer, r, h, K
    <3>2. CASE n \in P \/ call[r].wait
      <4>1. /\ SemSettle(grants, waiters \union {n}, asked[r])
            /\ nextTicket' = nextTicket + 1 /\ limit' = asked[r]
        BY <2>1, <3>2 DEF SemArrival, r, h, K
      <4>2. NodeKept
        BY <1>0, <2>1, <3>1, <4>1, SemEnter, ArrivalStarts
      <4>3. CASE n \in P
        <5>1. Answer(m, "granted", Promotion(n, P).token)
          BY <2>1, <4>3 DEF SemArrival, r, h, K
        <5>2. Promotion(n, P) \in grants'
          BY <4>1, <4>3 DEF SemSettle
        <5>3. Promotion(n, P).holder = Holder(m) /\ Promotion(n, P).keys = KeySet(m)
          BY DEF Promotion, NewWaiter, h, K
        <5>4. Promotion(n, P).token \in Nat
          BY <4>2, <5>2 DEF NodeKept, NodeTypeOK, Grant
        <5> HIDE DEF n, P
        <5> QED BY <1>1, <1>k, <4>2, <5>1, <5>2, <5>3, <5>4
      <4>4. CASE n \notin P
        <5>1. Answer(m, "notAcquired", 0)
          BY <2>1, <4>4 DEF SemArrival, r, h, K
        <5> QED BY <1>1, <1>k, <4>2, <5>1
      <4> QED BY <4>3, <4>4
    <3>3. CASE ~(n \in P \/ call[r].wait)
      <4>1. UNCHANGED <<nodeVars, limit>> /\ Answer(m, "notAcquired", 0)
        BY <2>1, <3>3 DEF SemArrival, nodeVars, table, r, h, K
      <4> QED BY <1>2, <1>k, <4>1
    <3> QED BY <3>2, <3>3
  <2>2. CASE SemReacquire(m)
    <3>1. PICK g \in GrantsOf(h, K) : Answer(m, "regranted", g.token)
      BY <2>2 DEF SemReacquire, h, K
    <3>2. /\ SemSettle(grants, Without(r), limit)
          /\ UNCHANGED <<tombs, nextTicket, started, limit, call>>
      BY <2>2, <3>1 DEF SemReacquire, Answer, r
    <3>3. NodeKept /\ grants \subseteq grants'
      BY <1>w, <3>2, SemShrink
    <3> QED BY <1>1, <1>g, <1>k, <3>1, <3>3
  <2>3. CASE SemMismatch(m) \/ ((ServeSuppressed(m) \/ ServeQueued(m)) /\ UNCHANGED limit)
    BY <1>2, <1>k, <2>3 DEF SemMismatch, ServeSuppressed, ServeQueued
  <2> QED BY <1>3, <2>1, <2>2, <2>3 DEF SemAcquire
<1>4. CASE SemRelease(m)
  <2>1. CASE Answer(m, "notReleased", 0) /\ UNCHANGED <<nodeVars, limit>>
    BY <1>2, <1>k, <2>1
  <2>2. CASE \E g \in grants : SemRemove(g) /\ Answer(m, "released", 0)
    <3>1. PICK g \in grants : SemRemove(g) /\ Answer(m, "released", 0)
      BY <2>2
    <3>2. /\ SemSettle(grants \ {g}, waiters, limit)
          /\ UNCHANGED <<tombs, nextTicket, started, limit, call>>
      BY <3>1 DEF SemRemove, Answer
    <3>3. NodeKept
      BY <1>w, <3>2, SemShrink
    <3> QED BY <1>1, <1>k, <3>1, <3>3
  <2> QED BY <1>4, <2>1, <2>2 DEF SemRelease
<1>5. CASE SemCancel(m)
  <2> DEFINE raced == RacedGrants(r, h, K)
             kind == IF TombsFull(r) THEN "capacity"
                     ELSE IF raced # {} THEN "raced" ELSE "cancelled"
             t == IF kind = "raced" THEN (CHOOSE g \in raced : TRUE).token ELSE 0
  <2>1. Answer(m, kind, t) /\ UNCHANGED <<nextTicket, started, limit>>
    BY <1>5 DEF SemCancel, r, h, K
  <2>2. UNCHANGED call
    BY <2>1 DEF Answer
  <2>3. raced \subseteq GrantsOf(h, K)
    BY DEF RacedGrants
  <2>4. CASE kind = "capacity"
    <3>1. UNCHANGED nodeVars
      BY <1>5, <2>1, <2>4 DEF SemCancel, nodeVars, table, r, h, K
    <3> QED BY <1>2, <1>k, <2>1, <2>4, <3>1
  <2>5. CASE kind # "capacity"
    <3>1. SemSettle(grants, Without(r), limit) /\ tombs' = tombs \union {r}
      BY <1>5, <2>5 DEF SemCancel, r, h, K
    <3>2. NodeKept /\ grants \subseteq grants'
      BY <1>0, <1>w, <2>1, <2>2, <3>1, SemShrink
    <3>3. t = 0 \/ \E g \in raced : t = g.token
      OBVIOUS
    <3>4. kind \in Kinds
      BY <1>k
    <3> HIDE DEF kind, t, raced
    <3>5. t = 0 \/ \E g \in grants' :
                     g.token = t /\ g.holder = Holder(m) /\ g.keys = KeySet(m)
      BY <1>g, <2>3, <3>2, <3>3
    <3>6. t \in Nat
      BY <1>g, <2>3, <3>3
    <3> QED BY <1>1, <2>1, <3>2, <3>4, <3>5, <3>6
  <2> QED BY <2>4, <2>5
<1>6. CASE (ServeRenew(m) \/ Refuse(m)) /\ UNCHANGED limit
  <2>1. CASE \E k \in Kinds : Answer(m, k, 0) /\ UNCHANGED nodeVars
    BY <1>2, <1>6, <2>1
  <2>2. CASE \E g \in GrantsOf(h, K) : Restart(g, r) /\ Answer(m, "renewed", 0)
    <3>1. /\ UNCHANGED <<table, call>> /\ Answer(m, "renewed", 0)
          /\ started' \subseteq Nat \X Attempts
      BY <1>0, <1>g, <2>2 DEF Restart, Answer, NodeTypeOK
    <3>2. NodeKept
      BY <1>6, <3>1, SemIdleTable
    <3> QED BY <1>1, <1>k, <3>1, <3>2
  <2> QED BY <1>6, <1>k, <2>1, <2>2 DEF ServeRenew, Refuse, r, h, K
<1> QED BY <1>3, <1>4, <1>5, <1>6

\* Leases, queue entries and an idle semaphore that run out; nobody is told.
LEMMA SemExpiryKept ==
  ASSUME SemTypeOK, CountInv, UNCHANGED asked, SemExpiry
  PROVE  StepKept /\ \A b \in Attempts : Spares(b)
<1>1. /\ pc' = pc /\ call' = call /\ reply' = reply /\ resends' = resends
      /\ net' = net /\ token' = token /\ retries' = retries
      /\ after' = after
  BY DEF SemExpiry, clientVars
<1>2. ClientTypeOK' /\ HoldsToken' /\ TellsOnlyOwn
  BY <1>1 DEF SemTypeOK, TypeOK, ClientTypeOK, CountInv, HoldsToken, TellsOnlyOwn, Heard
<1>3. CASE \/ \E g \in grants : SemRemove(g)
           \/ \E w \in waiters : /\ SemSettle(grants, waiters \ {w}, limit)
                                 /\ UNCHANGED <<tombs, nextTicket, started, limit>>
  <2>1. /\ UNCHANGED <<tombs, nextTicket, started, limit>>
        /\ \E gs \in SUBSET grants, ws \in SUBSET waiters : SemSettle(gs, ws, limit)
    BY <1>3 DEF SemRemove
  <2>2. tombs' \in SUBSET Attempts
    BY <2>1 DEF SemTypeOK, TypeOK, NodeTypeOK
  <2>3. NodeKept /\ \A b \in Attempts : Spares(b)
    BY <1>1, <2>1, <2>2, SemShrink
  <2> QED BY <1>1, <1>2, <2>3 DEF StepKept
<1>4. CASE grants = {} /\ waiters = {} /\ limit' = 0 /\ UNCHANGED nodeVars
  <2>1. /\ grants' = {} /\ waiters' = {} /\ tombs' = tombs
        /\ nextToken' = nextToken /\ nextTicket' = nextTicket /\ started' = started
    BY <1>4 DEF nodeVars, table
  <2>2. NodeTypeOK' /\ IsFiniteSet(grants') /\ Cardinality(grants') <= limit'
    BY <1>4, <2>1, FS_EmptySet DEF SemTypeOK, TypeOK, NodeTypeOK
  <2>3. PermitInv' /\ NodeGrows /\ Entries(grants', waiters', limit')
    BY <2>1 DEF PermitInv, DistinctTickets, NodeGrows, Entries, SemTypeOK, TypeOK, NodeTypeOK
  <2>4. NodeKept
    BY <1>4, <2>2, <2>3 DEF NodeKept
  <2>5. \A b \in Attempts : Spares(b)
    BY <2>1 DEF Spares, GrantsFor, WaitsFor
  <2> QED BY <1>1, <1>2, <2>4, <2>5 DEF StepKept
<1> QED BY <1>3, <1>4 DEF SemExpiry

-----------------------------------------------------------------------------
\* Steps of a client: those of the locks, and the two that another limit leads to.
SemClient(a) ==
  \/ SemFirst(a) \/ SemLoop(a) \/ SemCancelWait(a) \/ SemHandle(a)
  \/ Resend(a) \/ Garble(a) \/ Crash(a)

LEMMA SemClientKept ==
  ASSUME SemTypeOK, CountInv, UNCHANGED <<asked, limit>>, NEW a \in Attempts, SemClient(a)
  PROVE  StepKept /\ UNCHANGED nodeVars
<1>0. ClientTypeOK /\ HoldsToken /\ retries \in [Attempts -> Nat]
  BY DEF SemTypeOK, TypeOK, ClientTypeOK, CountInv
<1>1. CASE FirstMismatch(a)
  <2>1. "aborted" \in Locations \ NeedsToken
    BY DEF Locations, Ended, NeedsToken, Holding
  <2>2. ClientTypeOK' /\ ClientStep /\ HoldsToken'
    BY <1>0, <1>1, <2>1, PlainMove DEF FirstMismatch
  <2> QED BY <2>2, SemIdle DEF ClientStep, TellsOnlyOwn, Heard, StepKept
<1>2. CASE RetryMismatch(a)
  <2>1. ClientTypeOK' /\ ClientStep /\ HoldsToken'
    BY <1>0, <1>2, CancelThenStep DEF RetryMismatch
  <2> QED BY <2>1, SemIdle DEF ClientStep, TellsOnlyOwn, Heard, StepKept
<1>3. CASE ~FirstMismatch(a) /\ ~RetryMismatch(a)
  <2>1. ClientTypeOK' /\ ClientStep /\ HoldsToken'
    BY <1>0, <1>3, StartEffect, FirstEffect, LoopEffect, RenewEffect, CancelEffect,
       EndEffect, ResendEffect, GarbleEffect
       DEF SemClient, SemFirst, SemLoop, SemCancelWait, SemHandle
  <2> QED BY <2>1, SemIdle DEF ClientStep, TellsOnlyOwn, Heard, StepKept
<1> QED BY <1>1, <1>2, <1>3

-----------------------------------------------------------------------------
\* The inductive invariant of the count.

\* A token an attempt has heard of stays that of a permit of its holder.
LEMMA IssuedKept ==
  ASSUME SemTypeOK, CountInv, StepKept
  PROVE  KnownIssued'
<1>1. /\ nextToken \in Nat /\ nextToken' \in Nat /\ nextToken <= nextToken'
      /\ \A g \in grants' : g.token \in Nat /\ (g \in grants \/ nextToken <= g.token)
      /\ call' = call
  BY DEF SemTypeOK, TypeOK, StepKept, NodeKept, NodeTypeOK, Grant, NodeGrows
<1>2. \A g, h \in grants' : g.token = h.token => g = h
  BY DEF StepKept, NodeKept, PermitInv
<1>3. \A g \in grants' : g.token < nextToken'
  BY DEF StepKept, NodeKept, PermitInv
<1>4. \A a \in Attempts : \A t \in Heard(a)' : t \in Nat
  <2> SUFFICES ASSUME NEW a \in Attempts, NEW t \in Heard(a)' PROVE t \in Nat
    OBVIOUS
  <2>1. token'[a] \in Nat /\ reply'[a] \in Reply
    BY DEF StepKept, ClientTypeOK
  <2> QED BY <2>1 DEF Heard, Reply
<1> SUFFICES ASSUME NEW a \in Attempts, NEW t \in Heard(a)'
             PROVE  /\ t < nextToken'
                    /\ \A g \in grants' : g.token = t =>
                         g.holder = call[a].holder /\ g.keys = call[a].keys
  BY <1>1 DEF KnownIssued
<1>5. CASE t \in Heard(a)
  <2>1. /\ t < nextToken
        /\ \A g \in grants : g.token = t =>
             g.holder = call[a].holder /\ g.keys = call[a].keys
    BY <1>5 DEF CountInv, KnownIssued
  <2> QED BY <1>1, <1>4, <2>1
<1>6. CASE \E g \in grants' : /\ g.token = t /\ g.holder = call[a].holder
                              /\ g.keys = call[a].keys
  BY <1>2, <1>3, <1>6
<1> QED BY <1>5, <1>6 DEF StepKept, TellsOnlyOwn

LEMMA SemStepInv ==
  ASSUME SemTypeOK, CountInv, [SemNext]_semVars
  PROVE  SemTypeOK' /\ CountInv' /\ UNCHANGED call
<1>1. CASE SemNext
  <2>1. UNCHANGED asked
    BY <1>1 DEF SemNext
  <2>2. ASSUME NEW a \in Attempts, SemClient(a), UNCHANGED limit PROVE StepKept
    BY <2>1, <2>2, SemClientKept
  <2>3. ASSUME NEW m \in net,
               \/ SemAcquire(m) \/ SemRelease(m) \/ SemCancel(m)
               \/ (ServeRenew(m) \/ Refuse(m)) /\ UNCHANGED limit
        PROVE  StepKept
    BY <2>1, <2>3, SemServeKept
  <2>4. ASSUME SemExpiry PROVE StepKept
    BY <2>1, <2>4, SemExpiryKept
  <2>5. StepKept
    BY <1>1, <2>2, <2>3, <2>4 DEF SemNext, SemClient
  <2>6. KnownIssued'
    BY <2>5, IssuedKept
  <2>7. SemTypeOK'
    BY <2>5 DEF SemTypeOK, TypeOK, StepKept, NodeKept
  <2>8. CountInv'
    <3>1. Entries(grants, waiters, limit)'
      BY <2>5 DEF StepKept, NodeKept, Entries
    <3> QED BY <2>5, <2>6, <3>1 DEF CountInv, StepKept, NodeKept
  <2> QED BY <2>5, <2>7, <2>8 DEF StepKept
<1>2. CASE UNCHANGED semVars
  <2>1. /\ pc' = pc /\ call' = call /\ reply' = reply /\ resends' = resends
        /\ net' = net /\ token' = token /\ retries' = retries
        /\ after' = after /\ grants' = grants /\ waiters' = waiters /\ tombs' = tombs
        /\ nextToken' = nextToken /\ nextTicket' = nextTicket /\ started' = started
        /\ asked' = asked /\ limit' = limit
    BY <1>2 DEF semVars, vars, clientVars, nodeVars, table
  <2>2. SemTypeOK'
    BY <2>1 DEF SemTypeOK, TypeOK, ClientTypeOK, NodeTypeOK
  <2> QED BY <2>1, <2>2 DEF CountInv, PermitInv, DistinctTickets, Entries, KnownIssued,
                            Heard, HoldsToken
<1> QED BY <1>1, <1>2

LEMMA SemInitInv ==
  ASSUME SemInit PROVE SemTypeOK /\ CountInv /\ OwnArguments
<1>1. TypeOK /\ KnownIssued /\ HoldsToken
  BY InitInv DEF SemInit, FencingInv
<1>2. grants = {} /\ waiters = {} /\ IsFiniteSet(grants) /\ Cardinality(grants) = 0
  BY FS_EmptySet DEF SemInit, Init, NodeInit
<1>3. SemTypeOK
  BY <1>1, <1>2 DEF SemInit, SemTypeOK
<1>4. PermitInv /\ Entries(grants, waiters, limit)
  BY <1>2 DEF PermitInv, DistinctTickets, Entries
<1>5. OwnArguments
  BY DEF SemInit, Init, OwnArguments
<1> QED BY <1>1, <1>2, <1>3, <1>4, <1>5 DEF SemInit, CountInv

\* Every reachable state of the semaphore has the declared types, and its count is
\* right: the node never keeps more permits than the limit that every one of their
\* attempts asked for, one entry per attempt.
THEOREM Counting == SemSpec => [](SemTypeOK /\ CountInv /\ OwnArguments)
<1>1. SemInit => SemTypeOK /\ CountInv /\ OwnArguments
  BY SemInitInv
<1>2. SemTypeOK /\ CountInv /\ OwnArguments /\ [SemNext]_semVars
        => (SemTypeOK /\ CountInv /\ OwnArguments)'
  BY SemStepInv DEF OwnArguments, Arguments, GeneratedHolder
<1> QED BY <1>1, <1>2, PTL DEF SemSpec

\* For any number of workers that name no holder and any limits they ask for: of
\* those that count on a limit, no more than it have authority at a time, whatever
\* the transport loses or repeats and whichever leases run out (_acquire_semaphore).
THEOREM WithinLimit == SemSpec => []HandlesWithinLimit
<1>1. SemTypeOK /\ CountInv /\ OwnArguments => HandlesWithinLimit
  <2> SUFFICES ASSUME SemTypeOK, CountInv, OwnArguments, NEW a \in Handles
               PROVE  Cardinality(Handles) <= asked[a]
    BY DEF HandlesWithinLimit
  <2> DEFINE Permit(b) == CHOOSE g \in grants : g.token = token[b]
             f == [b \in Handles |-> Permit(b)]
  <2>1. \A b \in Handles : Permit(b) \in grants /\ Permit(b).token = token[b]
    BY DEF Handles, Live
  <2> HIDE DEF Permit
  <2>2. ASSUME NEW b \in Handles PROVE Permit(b).req = b /\ asked[b] = limit
    <3>1. b \in Attempts /\ call[b].holder \notin Callers /\ token[b] \in Heard(b)
      BY DEF Handles, Heard, CountInv, HoldsToken, SemTypeOK, TypeOK, ClientTypeOK
    <3>2. Permit(b).holder = call[b].holder
      BY <2>1, <3>1 DEF CountInv, KnownIssued
    <3>3. /\ Permit(b).req \in Attempts /\ asked[Permit(b).req] = limit
          /\ Permit(b).holder = call[Permit(b).req].holder
      BY <2>1 DEF CountInv, Entries, SemTypeOK, TypeOK, NodeTypeOK, Grant
    <3>4. \A c \in Attempts : call[c].holder \in Callers \union {c}
      BY DEF OwnArguments, Arguments, GeneratedHolder
    <3>5. call[b].holder = b
      BY <3>1, <3>4
    <3>6. Permit(b).req = b
      BY <3>1, <3>2, <3>3, <3>4, <3>5
    <3> QED BY <3>3, <3>6
  <2>3. f \in Injection(Handles, grants)
    <3>1. f \in [Handles -> grants]
      BY <2>1
    <3>2. \A b, c \in Handles : f[b] = f[c] => b = c
      BY <2>2
    <3> QED BY <3>1, <3>2 DEF Injection, IsInjective
  <2>4. IsFiniteSet(grants) /\ Cardinality(grants) <= limit
    BY DEF SemTypeOK, CountInv
  <2>5. IsFiniteSet(Handles) /\ Cardinality(Handles) <= Cardinality(grants)
    BY <2>3, <2>4, FS_Injection
  <2>6. Cardinality(Handles) \in Nat /\ Cardinality(grants) \in Nat /\ limit \in Nat
    BY <2>4, <2>5, FS_CardinalityType, LimitNat
  <2> QED BY <2>2, <2>4, <2>5, <2>6
<1> QED BY <1>1, Counting, PTL

-----------------------------------------------------------------------------
\* What an attempt leaves behind: the invariant of the locks, where no two workers
\* share a holder. The answer to a shared one may name another attempt's permit.
SemInv == SemTypeOK /\ CountInv /\ OwnArguments /\ SafetyInv

\* The permits of a generated holder are those of its attempt: one at most, and
\* then it no longer waits.
LEMMA OwnPermit ==
  ASSUME SemInv, Callers = {}, NEW a \in Attempts
  PROVE  /\ GrantsOf(call[a].holder, call[a].keys) = GrantsFor(a)
         /\ \A g, h \in GrantsFor(a) : g = h
         /\ GrantsFor(a) # {} => WaitsFor(a) = {}
<1>1. \A b \in Attempts : call[b].holder = b
  BY DEF SemInv, OwnArguments, Arguments, GeneratedHolder
<1>2. \A g \in grants : /\ g.req \in Attempts /\ g.holder = call[g.req].holder
                        /\ g.keys = call[g.req].keys
  BY DEF SemInv, SemTypeOK, TypeOK, NodeTypeOK, Grant, CountInv, Entries
<1>3. GrantsOf(call[a].holder, call[a].keys) = GrantsFor(a)
  BY <1>1, <1>2 DEF GrantsOf, GrantsFor
<1> QED BY <1>3 DEF SemInv, CountInv, Entries, GrantsFor, WaitsFor

\* The steps of a client: those of the locks, and the two that another limit leads to.
LEMMA SemClientSafe ==
  ASSUME SemInv, NEW a \in Attempts, SemClient(a)
  PROVE  SafetyInv'
<1>0. TypeOK /\ SafetyInv
  BY DEF SemInv, SemTypeOK
<1>1. CASE FirstMismatch(a)
  <2>1. /\ Returns(a, "acquire", "mismatch") /\ Move(a, "aborted")
        /\ UNCHANGED <<nodeVars, call, token, after>>
    BY <1>1 DEF FirstMismatch
  <2>2. Quiet(a) /\ NoRelease(a)
    BY <1>0, <2>1, NothingUnderWay DEF Returns, Left, CleaningUp
  <2>3. NothingKept(a) /\ CannotCommit(a)
    BY <1>0, <2>1, <2>2
       DEF SafetyInv, AttemptInv, BeforeTheGrant, Returns, CannotCommit, Quiet
  <2>4. "aborted" \in Locations \ Calling
    BY CallingOps DEF Locations, Ended
  <2> QED BY <1>0, <2>1, <2>2, <2>3, <2>4, MoveKeeps
<1>2. CASE RetryMismatch(a)
  <2>1. /\ Returns(a, "retry", "mismatch") /\ CancelThen(a, "aborted")
        /\ UNCHANGED <<nodeVars, call, token>>
    BY <1>2 DEF RetryMismatch
  <2>2. NoRelease(a)
    BY <1>0, <2>1, NothingUnderWay DEF Returns, Left
  <2> QED BY <1>0, <2>1, <2>2, CancelThenKeeps
<1>3. CASE ~FirstMismatch(a) /\ ~RetryMismatch(a)
  BY <1>0, <1>3, FirstKeeps, LoopKeeps, RenewKeeps, CancelKeeps, EndKeeps, ResendKeeps,
     GarbleKeeps DEF SemClient, SemFirst, SemLoop, SemCancelWait, SemHandle
<1> QED BY <1>1, <1>2, <1>3

\* A command that adds no waiter keeps every entry with its attempt, and what it
\* says to its own attempt has to be true.
LEMMA ShrinkServed ==
  ASSUME SemInv, UNCHANGED <<asked, limit, nextTicket, started>>, NEW m \in net, NEW k, NEW t,
         Answer(m, k, t), k # "nothing",
         NEW gs \in SUBSET grants, NEW ws \in SUBSET waiters, SemSettle(gs, ws, limit),
         tombs' \in SUBSET Attempts, tombs \subseteq tombs',
         /\ waiters' \subseteq ws
         /\ \A g \in grants' : g \in gs \/ \E w \in ws : g.req = w.req
         /\ m.awaited
         => BeforeTheGrant(m.att)' /\ UnderTheGrant(m.att)' /\ AfterTheCancel(m.att)'
  PROVE  SafetyInv'
<1>1. m.att \in Attempts /\ UNCHANGED call
  BY AnswerFacts DEF SemInv, SemTypeOK
<1>2. /\ NodeKept /\ waiters' \subseteq ws
      /\ \A g \in grants' : g \in gs \/ \E w \in ws : g.req = w.req
      /\ \A b \in Attempts : Spares(b)
  BY <1>1, SemShrink DEF SemInv
<1>3. OwnEntries'
  BY <1>1, <1>2 DEF NodeKept, Entries, OwnEntries
<1> QED BY <1>1, <1>2, <1>3, ServedKeeps DEF SemInv, SemTypeOK

\* An attempt that is given its permit again keeps no queue entry.
LEMMA SemReacquireServed ==
  ASSUME SemInv, Callers = {}, UNCHANGED asked, NEW m \in net, m.op = "acquire",
         SemReacquire(m)
  PROVE  SafetyInv'
<1> DEFINE a == m.att
<1>1. PICK g \in GrantsOf(call[a].holder, call[a].keys) : Answer(m, "regranted", g.token)
  BY DEF SemReacquire, Holder, KeySet
<1>2. /\ a \in Attempts /\ UNCHANGED <<pc, call, token, after>>
      /\ m.awaited => reply'[a].kind = "regranted" /\ reply'[a].token = g.token
  BY <1>1, AnswerFacts DEF SemInv, SemTypeOK
<1>3. /\ SemSettle(grants, Without(a), limit)
      /\ UNCHANGED <<tombs, nextTicket, started, limit>>
  BY DEF SemReacquire
<1>4. Without(a) \in SUBSET waiters /\ tombs' \in SUBSET Attempts
  BY <1>3 DEF Without, SemInv, SemTypeOK, TypeOK, NodeTypeOK
<1>5. ASSUME waiters' \subseteq Without(a), m.awaited,
             \A x \in grants' : x \in grants \/ \E w \in Without(a) : x.req = w.req
      PROVE  BeforeTheGrant(a)' /\ UnderTheGrant(a)' /\ AfterTheCancel(a)'
  <2>1. pc[a] \in {"acquire", "retry"}
    BY <1>5, AwaitedAt DEF SemInv, SemTypeOK
  <2>2. OnlyGrant(a, g.token)'
    BY <1>2, <1>5, OwnPermit DEF OnlyGrant, WaitsFor, GrantsFor, Without
  <2> QED BY <1>2, <1>5, <2>1, <2>2
          DEF BeforeTheGrant, UnderTheGrant, Granted, Authorized, Holding, AfterTheCancel
<1> QED BY <1>1, <1>3, <1>4, <1>5, ShrinkServed

\* An acquire that is new to the node: granted it keeps the permit that it is told
\* of, queued it is not told that anything is over.
LEMMA SemArrivalServed ==
  ASSUME SemInv, Callers = {}, UNCHANGED asked, NEW m \in net, m.op = "acquire",
         SemArrival(m)
  PROVE  SafetyInv'
<1> DEFINE a == m.att
           h == call[a].holder
           K == call[a].keys
           n == NewWaiter(a, h, K)
           ws == waiters \union {n}
           P == SemPromotable(grants, ws, asked[a])
<1>1. /\ limit \in {0, asked[a]} /\ Arrives(a, h, K) /\ UNCHANGED tombs
  BY DEF SemArrival, Holder, KeySet
<1>2. a \in Attempts /\ TypeOK /\ SafetyInv
  BY DEF SemInv, SemTypeOK, TypeOK, ClientTypeOK, Request
<1>3. ~Suppressed(a) /\ GrantsFor(a) = {} /\ WaitsFor(a) = {}
  BY <1>1, <1>2, OwnPermit DEF Arrives, WaitsFor
<1>4. m.awaited => pc[a] \in {"acquire", "retry"}
  BY <1>2, AwaitedAt
<1>5. ASSUME NEW k \in {"granted", "notAcquired"}, NEW t, Answer(m, k, t),
             SemSettle(grants, ws, asked[a]), nextTicket' = nextTicket + 1,
             limit' = asked[a],
             k = "granted" => OnlyGrant(a, t)', k = "notAcquired" => call[a].wait
      PROVE  SafetyInv'
  <2>1. /\ net' = net \ {m} /\ UNCHANGED <<pc, call, token, after>>
        /\ m.awaited => reply'[a].kind = k /\ reply'[a].token = t
    BY <1>2, <1>5, AnswerFacts
  <2>2. NodeKept /\ \A b \in Attempts \ {a} : Spares(b)
    BY <1>1, <1>2, <1>5, <2>1, SemEnter, ArrivalStarts DEF SemInv
  <2>3. OwnEntries'
    BY <2>1, <2>2 DEF NodeKept, Entries, OwnEntries
  <2>4. ASSUME m.awaited
        PROVE  BeforeTheGrant(a)' /\ UnderTheGrant(a)' /\ AfterTheCancel(a)'
    BY <1>4, <1>5, <2>1, <2>4
       DEF BeforeTheGrant, UnderTheGrant, Granted, Authorized, Holding, AfterTheCancel
  <2> QED BY <1>1, <1>2, <1>3, <1>5, <2>2, <2>3, <2>4, ServedKeeps
<1>6. CASE n \in P
  <2>1. /\ SemSettle(grants, ws, asked[a]) /\ Answer(m, "granted", Promotion(n, P).token)
        /\ nextTicket' = nextTicket + 1 /\ limit' = asked[a]
    BY <1>6 DEF SemArrival, Holder, KeySet
  <2>2. P \subseteq ws
    BY DEF SemPromotable
  <2>3. /\ grants' = grants \union {Promotion(w, P) : w \in P}
        /\ waiters' = ws \ P
    BY <2>1 DEF SemSettle
  <2>4. \A w \in ws : w.req = a => w = n
    BY <1>3 DEF WaitsFor
  <2>5. \A w \in P : Promotion(w, P).req = w.req
    BY DEF Promotion
  <2> HIDE DEF n, P, ws
  <2>6. WaitsFor(a)' = {}
    BY <1>6, <2>3, <2>4 DEF WaitsFor
  <2>7. \A g \in GrantsFor(a)' : g = Promotion(n, P)
    BY <1>3, <2>2, <2>3, <2>4, <2>5 DEF GrantsFor
  <2>8. ASSUME NEW u, u = Promotion(n, P).token PROVE OnlyGrant(a, u)'
    BY <2>6, <2>7, <2>8 DEF OnlyGrant
  <2> QED BY <1>5, <2>1, <2>8
<1>7. CASE n \notin P /\ call[a].wait
  <2>1. /\ SemSettle(grants, ws, asked[a]) /\ Answer(m, "notAcquired", 0)
        /\ nextTicket' = nextTicket + 1 /\ limit' = asked[a]
    BY <1>7 DEF SemArrival, Holder, KeySet
  <2> QED BY <1>5, <1>7, <2>1
<1>8. CASE n \notin P /\ ~call[a].wait
  <2>1. UNCHANGED nodeVars /\ Answer(m, "notAcquired", 0)
    BY <1>8 DEF SemArrival, Holder, KeySet, nodeVars, table
  <2> QED BY <1>2, <2>1, IdleServed DEF nodeVars
<1> QED BY <1>6, <1>7, <1>8

\* The release of a raced permit ends the only one its attempt can have.
LEMMA SemReleaseServed ==
  ASSUME SemInv, UNCHANGED asked, NEW m \in net, SemRelease(m)
  PROVE  SafetyInv'
<1> DEFINE a == m.att
<1>1. CASE Answer(m, "notReleased", 0) /\ UNCHANGED nodeVars
  BY <1>1, IdleServed DEF SemInv, SemTypeOK, nodeVars
<1>2. CASE \E g \in grants : g.token = m.token /\ SemRemove(g) /\ Answer(m, "released", 0)
  <2>1. PICK g \in grants : g.token = m.token /\ SemRemove(g) /\ Answer(m, "released", 0)
    BY <1>2
  <2>2. /\ a \in Attempts /\ m.op = "release"
        /\ net' = net \ {m} /\ UNCHANGED <<pc, call, token, after>>
        /\ m.awaited => reply'[a].kind = "released"
    BY <2>1, AnswerFacts DEF SemRelease, SemInv, SemTypeOK
  <2>3. /\ SemSettle(grants \ {g}, waiters, limit) /\ UNCHANGED <<tombs, nextTicket, started, limit>>
        /\ tombs' \in SUBSET Attempts
    BY <2>1 DEF SemRemove, SemInv, SemTypeOK, TypeOK, NodeTypeOK
  <2>4. ASSUME m.awaited, waiters' \subseteq waiters,
               \A x \in grants' : x \in grants \ {g} \/ \E w \in waiters : x.req = w.req
        PROVE  BeforeTheGrant(a)' /\ UnderTheGrant(a)' /\ AfterTheCancel(a)'
    <3>1. pc[a] \in {"releaseRaced", "releasing"} /\ m.token = token[a]
      BY <2>2, <2>4, AwaitedAt DEF SemInv, SemTypeOK
    <3>2. AfterTheCancel(a)
      BY <2>2 DEF SemInv, SafetyInv, AttemptInv
    <3>3. OnlyGrant(a, token[a]) => NothingKept(a)'
      BY <2>1, <2>4, <3>1
         DEF OnlyGrant, NothingKept, GrantsFor, WaitsFor, SemInv, CountInv, PermitInv
    <3>4. NothingKept(a)' => OnlyGrant(a, token[a])'
      BY DEF NothingKept, OnlyGrant
    <3>5. CannotCommit(a) => CannotCommit(a)'
      BY <2>2, <2>3 DEF CannotCommit
    <3>6. AfterTheCancel(a)'
      BY <2>2, <2>4, <3>1, <3>2, <3>3, <3>4, <3>5 DEF AfterTheCancel, Recorded
    <3> QED BY <2>2, <3>1, <3>6
            DEF BeforeTheGrant, UnderTheGrant, Granted, Authorized, Holding
  <2> QED BY <2>1, <2>3, <2>4, ShrinkServed
<1> QED BY <1>1, <1>2 DEF SemRelease

\* A cancel leaves at most the permit that it reports, and is recorded.
LEMMA SemCancelServed ==
  ASSUME SemInv, Callers = {}, UNCHANGED asked, NEW m \in net, SemCancel(m)
  PROVE  SafetyInv'
<1> DEFINE a == m.att
           raced == RacedGrants(a, call[a].holder, call[a].keys)
           kind == IF TombsFull(a) THEN "capacity"
                   ELSE IF raced # {} THEN "raced" ELSE "cancelled"
           tok == IF kind = "raced" THEN (CHOOSE g \in raced : TRUE).token ELSE 0
<1>1. Answer(m, kind, tok) /\ UNCHANGED <<nextTicket, started, limit>> /\ m.op = "cancel"
  BY DEF SemCancel, Holder, KeySet
<1>2. CASE kind = "capacity"
  <2>1. UNCHANGED nodeVars
    BY <1>1, <1>2 DEF SemCancel, nodeVars, table, Holder, KeySet
  <2> QED BY <1>1, <1>2, <2>1, IdleServed DEF SemInv, SemTypeOK, nodeVars
<1>3. ASSUME NEW k \in {"raced", "cancelled"}, NEW t, Answer(m, k, t),
             SemSettle(grants, Without(a), limit), tombs' = tombs \union {a},
             k = "cancelled" => raced = {},
             k = "raced" => \E g \in raced : g.token = t
      PROVE  SafetyInv'
  <2>1. /\ a \in Attempts /\ UNCHANGED <<pc, call, token, after>>
        /\ m.awaited => reply'[a].kind = k /\ reply'[a].token = t
    BY <1>3, AnswerFacts DEF SemInv, SemTypeOK
  <2>2. raced \subseteq GrantsFor(a) /\ GrantsFor(a) \subseteq raced
        /\ \A x, y \in raced : x = y
    BY <2>1, OwnPermit DEF RacedGrants, GrantsFor
  <2>3. Without(a) \in SUBSET waiters /\ tombs' \in SUBSET Attempts /\ a \in tombs'
    BY <1>3, <2>1 DEF Without, SemInv, SemTypeOK, TypeOK, NodeTypeOK
  <2>4. ASSUME m.awaited, waiters' \subseteq Without(a),
               \A x \in grants' : x \in grants \/ \E w \in Without(a) : x.req = w.req
        PROVE  BeforeTheGrant(a)' /\ UnderTheGrant(a)' /\ AfterTheCancel(a)'
    <3>1. pc[a] = "cancel"
      BY <1>1, <2>4, AwaitedAt DEF SemInv, SemTypeOK
    <3>2. WaitsFor(a)' = {} /\ GrantsFor(a)' \subseteq GrantsFor(a)
      BY <2>4 DEF WaitsFor, GrantsFor, Without
    <3>3. CannotCommit(a)'
      BY <2>3 DEF CannotCommit
    <3>4. k = "raced" => OnlyGrant(a, t)'
      BY <1>3, <2>2, <3>2 DEF OnlyGrant
    <3>5. k = "cancelled" => NothingKept(a)'
      BY <1>3, <2>2, <3>2 DEF NothingKept
    <3>6. AfterTheCancel(a)'
      BY <1>3, <2>1, <2>4, <3>1, <3>2, <3>3, <3>4, <3>5 DEF AfterTheCancel, Recorded
    <3> QED BY <2>1, <3>1, <3>6
            DEF BeforeTheGrant, UnderTheGrant, Granted, Authorized, Holding
  <2> QED BY <1>1, <1>3, <2>3, <2>4, ShrinkServed
<1>4. CASE kind # "capacity"
  <2>1. SemSettle(grants, Without(a), limit) /\ tombs' = tombs \union {a}
    BY <1>1, <1>4 DEF SemCancel, Holder, KeySet
  <2>2. CASE raced # {}
    <3>1. kind = "raced" /\ \E g \in raced : g.token = tok
      BY <1>4, <2>2
    <3> QED BY <1>1, <1>3, <2>1, <3>1
  <2>3. CASE raced = {}
    <3>1. kind = "cancelled"
      BY <1>4, <2>3
    <3> QED BY <1>1, <1>3, <2>1, <2>3, <3>1
  <2> QED BY <2>2, <2>3
<1> QED BY <1>2, <1>4

\* Leases and queue entries that run out spare everybody.
LEMMA SemExpirySafe ==
  ASSUME SemInv, UNCHANGED asked, SemExpiry
  PROVE  SafetyInv'
<1>1. UNCHANGED <<pc, call, reply, token, after, net>>
  BY DEF SemExpiry, clientVars
<1>2. NodeKept /\ tombs' = tombs /\ \A b \in Attempts : Spares(b)
  BY SemExpiryKept DEF SemInv, StepKept, SemExpiry, SemRemove, nodeVars, table
<1>3. OwnEntries'
  BY <1>1, <1>2 DEF NodeKept, Entries, OwnEntries
<1>4. \A b \in Attempts : AttemptInv(b)'
  BY <1>1, <1>2, SparedKeeps DEF SemInv, SafetyInv
<1> QED BY <1>3, <1>4 DEF SafetyInv

LEMMA SemStepSafety ==
  ASSUME Callers = {}, SemInv, [SemNext]_semVars
  PROVE  SafetyInv'
<1>0. TypeOK /\ SafetyInv
  BY DEF SemInv, SemTypeOK
<1>1. CASE UNCHANGED semVars
  <2>1. /\ UNCHANGED <<pc, call, reply, token, after, net>>
        /\ grants' = grants /\ waiters' = waiters /\ tombs' = tombs
    BY <1>1 DEF semVars, vars, nodeVars, table, clientVars
  <2>2. OwnEntries' /\ \A b \in Attempts : Spares(b)
    BY <1>0, <2>1 DEF SafetyInv, OwnEntries, Spares, GrantsFor, WaitsFor
  <2>3. \A b \in Attempts : AttemptInv(b)'
    BY <1>0, <2>1, <2>2, SparedKeeps DEF SafetyInv
  <2> QED BY <2>2, <2>3 DEF SafetyInv
<1>2. ASSUME NEW a \in Attempts, SemClient(a) PROVE SafetyInv'
  BY <1>2, SemClientSafe
<1>3. ASSUME UNCHANGED asked, NEW m \in net, SemAcquire(m) PROVE SafetyInv'
  <2>1. CASE SemArrival(m) \/ SemReacquire(m)
    BY <1>3, <2>1, SemArrivalServed, SemReacquireServed DEF SemAcquire
  <2>2. CASE SemMismatch(m) \/ ServeSuppressed(m) \/ ServeQueued(m)
    BY <1>0, <2>2, IdleServed DEF SemMismatch, ServeSuppressed, ServeQueued, nodeVars
  <2> QED BY <1>3, <2>1, <2>2 DEF SemAcquire
<1>4. ASSUME UNCHANGED asked, NEW m \in net, SemRelease(m) \/ SemCancel(m)
      PROVE  SafetyInv'
  BY <1>4, SemReleaseServed, SemCancelServed
<1>5. ASSUME NEW m \in net, ServeRenew(m) \/ Refuse(m) PROVE SafetyInv'
  BY <1>0, <1>5, IdleServed DEF ServeRenew, Refuse, Restart, nodeVars
<1>6. ASSUME UNCHANGED asked, SemExpiry PROVE SafetyInv'
  BY <1>6, SemExpirySafe
<1> QED BY <1>1, <1>2, <1>3, <1>4, <1>5, <1>6 DEF SemNext, SemClient

\* Where every worker generates its holder, what the node keeps for an attempt fits
\* the place it is at: the same invariant as that of the locks.
THEOREM PermitSafety ==
  ASSUME Callers = {} PROVE SemSpec => []PermitSafetyInv
<1>1. SemInit => SafetyInv
  BY InitSafety DEF SemInit
<1>2. SemInv /\ [SemNext]_semVars => SafetyInv'
  BY SemStepSafety
<1>3. SemTypeOK /\ CountInv /\ OwnArguments /\ SafetyInv => SemInv /\ PermitSafetyInv
  BY DEF SemInv, PermitSafetyInv
<1> QED BY <1>1, <1>2, <1>3, Counting, PTL DEF SemSpec

\* A semaphore attempt that timed out, or found no permit and did not wait, holds no
\* permit and no place in the queue, then or ever after (_acquire_semaphore).
THEOREM PermitTimeoutIsSafe ==
  ASSUME Callers = {} PROVE SemSpec => []SafeTimeout
<1>1. PermitSafetyInv => SafeTimeout
  BY DEF PermitSafetyInv, SafetyInv, AttemptInv, BeforeTheGrant, AfterTheCancel,
         NothingKept, SafeTimeout
<1> QED BY <1>1, PermitSafety, PTL

\* Nor does one that ends with an exception, be it another limit's: a semaphore
\* cancel is always recorded. TombstoneOnRace, which SemSpec does not read, selects
\* the form of the lock invariant that says so.
THEOREM PermitAbortIsSafe ==
  ASSUME Callers = {}, TombstoneOnRace PROVE SemSpec => []SafeAbort
<1>1. PermitSafetyInv => SafeAbort
  BY DEF PermitSafetyInv, SafetyInv, AttemptInv, AfterTheCancel, NothingKept, SafeAbort
<1> QED BY <1>1, PermitSafety, PTL
=============================================================================
