---------------------------- MODULE MCLockSystem ----------------------------
(***************************************************************************)
(* Small instances of LockSystem for TLC.                                  *)
(***************************************************************************)
EXTENDS LockInvariants, TLC

Symmetry == Permutations(Attempts)
=============================================================================
