------------------------------ MODULE LockNode ------------------------------
(***************************************************************************)
(* The lock table of a Fiducia node, as the client library relies on it.   *)
(* The node is not part of this repository: every definition here is       *)
(* external, read off what clients/python/locking.py does with the node's  *)
(* answers and off the request and response contracts in                   *)
(* contract/schemas/locks.schema.json.                                     *)
(*                                                                         *)
(* One committed command is one step: it grants, queues, cancels, releases *)
(* or expires, and promotes in the same step every waiter that thereby     *)
(* became grantable (LockReleaseResponse.promoted,                         *)
(* LockCancelResponse.promoted).                                           *)
(***************************************************************************)
EXTENDS Integers, FiniteSets

CONSTANTS
  Attempts,         \* logical acquisition attempts; each is its own request_id
  Callers,          \* holder identities a caller may supply and share
  Keys,             \* lock keys
  TombCapacity,     \* size of the node's bounded tombstone table
  CancelByHolder,   \* does a cancel report any grant of the same holder and
                    \* key set (TRUE) or only the one its own request_id got
  TombstoneOnRace   \* is a cancel that meets a live grant durable as well

ASSUME NodeAssumption ==
  /\ TombCapacity \in Nat
  /\ CancelByHolder \in BOOLEAN
  /\ TombstoneOnRace \in BOOLEAN

VARIABLES
  grants,       \* the live grants
  waiters,      \* the FIFO queue, ordered by ticket
  tombs,        \* the request_ids cancelled for good
  nextToken,    \* the next fencing token
  nextTicket,   \* the next queue ticket
  started       \* <<token, attempt>>: whose command has started, or started
                \* anew, the lease of a grant

table == <<grants, waiters, tombs, nextToken, nextTicket>>
nodeVars == <<table, started>>

\* An attempt without a caller-supplied holder generates its own.
Holders == Callers \union Attempts
KeySets == (SUBSET Keys) \ {{}}

Grant == [token: Nat, holder: Holders, keys: KeySets, req: Attempts]
Waiter == [ticket: Nat, holder: Holders, keys: KeySets, req: Attempts]

NodeTypeOK ==
  /\ grants \in SUBSET Grant
  /\ waiters \in SUBSET Waiter
  /\ IsFiniteSet(waiters)
  /\ tombs \in SUBSET Attempts
  /\ nextToken \in Nat \ {0}
  /\ nextTicket \in Nat
  /\ started \subseteq Nat \X Attempts

NodeInit ==
  /\ grants = {}
  /\ waiters = {}
  /\ tombs = {}
  /\ nextToken = 1
  /\ nextTicket = 1
  /\ started = {}

-----------------------------------------------------------------------------
\* Mutant of Overlap: only equal unions conflict.
Overlap_EqualUnions(x, y) == x.keys = y.keys

\* A union lock conflicts on any member key.
Overlap(x, y) == x.keys \intersect y.keys # {}

\* The waiters a node holding the grants gs and the queue ws can grant: no
\* member key is held, and no earlier waiter wants one of them (strict FIFO).
Promotable(gs, ws) ==
  {w \in ws : /\ \A g \in gs : ~Overlap(w, g)
              /\ \A v \in ws : v.ticket < w.ticket => ~Overlap(w, v)}

\* The grant made for w when the waiters P are promoted together.
Promotion(w, P) ==
  [token  |-> nextToken + Cardinality({v \in P : v.ticket < w.ticket}),
   holder |-> w.holder, keys |-> w.keys, req |-> w.req]

\* The end of every command: leave the grants gs and the queue ws, promoted.
Settle(gs, ws) ==
  LET P == Promotable(gs, ws)
  IN  /\ grants' = gs \union {Promotion(w, P) : w \in P}
      /\ waiters' = ws \ P
      /\ nextToken' = nextToken + Cardinality(P)

\* The live grants of one holder and exact key set (at most one).
GrantsOf(h, K) == {g \in grants : g.holder = h /\ g.keys = K}

Without(r) == {w \in waiters : w.req # r}
NewWaiter(r, h, K) == [ticket |-> nextTicket, holder |-> h, keys |-> K, req |-> r]

-----------------------------------------------------------------------------
\* POST /v1/locks/acquire. A cancelled request_id is suppressed; the holder of
\* the same key set gets its grant again, unrenewed; a queued request keeps its
\* place; a new one is granted at once if promotable, else queued if it waits.
\* Its lease starts with the grant: by its own command if that grants it, and by
\* somebody else's if a promotion does.
Suppressed(r) == r \in tombs
Reacquires(r, h, K) == ~Suppressed(r) /\ GrantsOf(h, K) # {}
Arrives(r, h, K) ==
  /\ ~Suppressed(r)
  /\ GrantsOf(h, K) = {}
  /\ \A w \in waiters : w.req # r
GrantableNow(r, h, K) ==
  /\ Arrives(r, h, K)
  /\ NewWaiter(r, h, K) \in Promotable(grants, waiters \union {NewWaiter(r, h, K)})
GrantedToken(r, h, K) ==
  Promotion(NewWaiter(r, h, K),
            Promotable(grants, waiters \union {NewWaiter(r, h, K)})).token

Enter(r, h, K) ==
  /\ Settle(grants, waiters \union {NewWaiter(r, h, K)})
  /\ nextTicket' = nextTicket + 1
  /\ started' = started \union (IF GrantableNow(r, h, K)
                                THEN {<<GrantedToken(r, h, K), r>>} ELSE {})
  /\ UNCHANGED tombs

\* An attempt that is given its holder's grant no longer waits.
StopWaiting(r) ==
  /\ Settle(grants, Without(r))
  /\ UNCHANGED <<tombs, nextTicket, started>>

\* POST /v1/locks/release, and the expiry of a lease.
Remove(g) ==
  /\ Settle(grants \ {g}, waiters)
  /\ UNCHANGED <<tombs, nextTicket, started>>

\* POST /v1/locks/cancel. A live grant is reported, never released; a full
\* tombstone table refuses; otherwise the queue entry goes and the request_id
\* is recorded so that no later acquire of it can take effect.
RacedGrants(r, h, K) ==
  {g \in GrantsOf(h, K) : CancelByHolder \/ g.req = r}
TombsFull(r) == r \notin tombs /\ Cardinality(tombs) >= TombCapacity
RacesGrant(r, h, K) ==
  RacedGrants(r, h, K) # {} /\ (TombstoneOnRace => ~TombsFull(r))
Cancels(r, h, K) == RacedGrants(r, h, K) = {} /\ ~TombsFull(r)

Withdraw(r, durable) ==
  /\ Settle(grants, Without(r))
  /\ tombs' = IF durable THEN tombs \union {r} ELSE tombs
  /\ UNCHANGED <<nextTicket, started>>

\* POST /v1/locks/renew: the lease starts anew.
Restart(g, r) ==
  /\ started' = started \union {<<g.token, r>>}
  /\ UNCHANGED table

\* wait_timeout_ms bounds the life of a queue entry, a TTL that of a grant.
ExpireWait(w) ==
  /\ w \in waiters
  /\ Settle(grants, waiters \ {w})
  /\ UNCHANGED <<tombs, nextTicket, started>>

\* Mutant of ExpireLease: a lease is only reaped when somebody waits for it.
ExpireLease_OnDemand(g) == g \in grants /\ waiters # {} /\ Remove(g)

ExpireLease(g) == g \in grants /\ Remove(g)
=============================================================================
