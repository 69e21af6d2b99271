---------------------------- MODULE MCSemaphores ----------------------------
(***************************************************************************)
(* Small instances of SemaphoreSystem for TLC.                             *)
(***************************************************************************)
EXTENDS SemaphoreInvariants, TLC

Symmetry == Permutations(Attempts)

\* Three attempts without the states in which one of them crashed or gave up
\* on a request that is still on its way.
Orderly ==
  /\ \A a \in Attempts : call[a].wait
  /\ \A m \in net : m.awaited
  /\ \A a \in Attempts : pc[a] # "crashed"

\* A limit of one is the lock of the other runs: one attempt at most asks for it.
Counting == Orderly /\ Cardinality({a \in Attempts : asked[a] = 1}) <= 1
=============================================================================
