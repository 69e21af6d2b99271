---------------------------- MODULE DiscoveryView ----------------------------
(***************************************************************************)
(* What a consumer of service discovery is promised: a view of the         *)
(* membership of its service that moves forward only, and that claims to   *)
(* be fresh only while it covers every change the consumer was told of.    *)
(* A membership is named by the revision that made it.                     *)
(***************************************************************************)
EXTENDS Naturals

VARIABLES
  latest,   \* the registry's membership
  told,     \* the newest change the consumer heard of
  view,     \* the membership it shows
  fresh     \* whether it may be used for routing

viewVars == <<latest, told, view, fresh>>

Init == latest = 0 /\ told = 0 /\ view = 0 /\ fresh = FALSE

Change ==
  /\ latest < latest'
  /\ UNCHANGED <<told, view, fresh>>

\* Hear of a change: the view is in doubt until a membership covers it.
Hear ==
  /\ told < told' /\ told' <= latest
  /\ fresh' = FALSE
  /\ UNCHANGED <<latest, view>>

Doubt ==
  /\ fresh' = FALSE
  /\ UNCHANGED <<latest, told, view>>

\* Show a membership that is no older than the shown one and what was told.
Adopt ==
  /\ view <= view' /\ view' <= latest
  /\ told <= told' /\ told' <= view'
  /\ fresh' = TRUE
  /\ UNCHANGED latest

Next == Change \/ Hear \/ Doubt \/ Adopt

Spec == Init /\ [][Next]_viewVars
=============================================================================
