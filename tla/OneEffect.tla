------------------------------ MODULE OneEffect ------------------------------
(***************************************************************************)
(* What a caller may rely on when it sends a mutation that is protected    *)
(* against repetition: it takes effect at most once, also when the caller  *)
(* was told of a failure first; an answer means that it has taken effect,  *)
(* and a refusal that it never will.                                       *)
(***************************************************************************)
EXTENDS Naturals

CONSTANT Calls

VARIABLES
  effects,  \* how often the mutation of a call has taken effect
  outcome   \* what the caller was told

vars == <<effects, outcome>>

Init ==
  /\ effects = [c \in Calls |-> 0]
  /\ outcome = [c \in Calls |-> "open"]

TakeEffect(c) ==
  /\ effects[c] = 0
  /\ outcome[c] \in {"open", "failed"}
  /\ effects' = [effects EXCEPT ![c] = 1]
  /\ UNCHANGED outcome

Answer(c) ==
  /\ outcome[c] = "open"
  /\ effects[c] = 1
  /\ outcome' = [outcome EXCEPT ![c] = "answered"]
  /\ UNCHANGED effects

Fail(c) ==
  /\ outcome[c] = "open"
  /\ outcome' = [outcome EXCEPT ![c] = "failed"]
  /\ UNCHANGED effects

Refuse(c) ==
  /\ outcome[c] = "open"
  /\ effects[c] = 0
  /\ outcome' = [outcome EXCEPT ![c] = "refused"]
  /\ UNCHANGED effects

Next == \E c \in Calls : TakeEffect(c) \/ Answer(c) \/ Fail(c) \/ Refuse(c)

Spec == Init /\ [][Next]_vars
=============================================================================
