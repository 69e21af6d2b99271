------------------------ MODULE SemaphoreInvariants ------------------------
(***************************************************************************)
(* The inductive invariant behind the theorems of SemaphoreProofs, in      *)
(* named parts.                                                            *)
(***************************************************************************)
EXTENDS SemaphoreSystem, LockInvariants

SemTypeOK ==
  /\ TypeOK
  /\ IsFiniteSet(grants)
  /\ asked \in [Attempts -> Limits]
  /\ limit \in Limits \union {0}

\* Permits have different tokens and queue entries different tickets; both
\* counters are ahead of what they numbered.
PermitInv ==
  /\ \A g, h \in grants : g # h => g.token # h.token
  /\ \A g \in grants : 0 < g.token /\ g.token < nextToken
  /\ DistinctTickets(waiters)
  /\ \A w \in waiters : w.ticket < nextTicket

\* What the node keeps in the permits gs and the queue ws: one entry per attempt,
\* for the holder, the key and the limit that the attempt asked for.
Entries(gs, ws, l) ==
  /\ \A x \in gs \union ws : /\ x.holder = call[x.req].holder
                             /\ x.keys = call[x.req].keys
                             /\ asked[x.req] = l
  /\ \A g, h \in gs : g.req = h.req => g = h
  /\ \A v, w \in ws : v.req = w.req => v = w
  /\ \A g \in gs, w \in ws : g.req # w.req

CountInv ==
  /\ PermitInv
  /\ Entries(grants, waiters, limit)
  /\ Cardinality(grants) <= limit
  /\ KnownIssued
  /\ HoldsToken

\* With it the invariant of the lock client, where nobody shares a holder.
PermitSafetyInv == CountInv /\ SafetyInv
=============================================================================
