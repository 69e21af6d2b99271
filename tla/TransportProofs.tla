--------------------------- MODULE TransportProofs ---------------------------
(***************************************************************************)
(* That a protected mutation takes effect at most once, for any number of  *)
(* calls and retries: TransportInv is inductive, and under it every step   *)
(* of Transport is a step of OneEffect or leaves it alone.                 *)
(***************************************************************************)
EXTENDS Transport, TLAPS

\* What an action does to the call it is not about: nothing.
Untouched(d) ==
  /\ pc'[d] = pc[d] /\ attempt'[d] = attempt[d] /\ answer'[d] = answer[d]
  /\ error'[d] = error[d] /\ ledger'[d] = ledger[d] /\ applied'[d] = applied[d]
  /\ Of(d)' = Of(d)

\* The types of the state are kept by every step (TypeOK).
LEMMA TypePreserved == TypeOK /\ [Next]_vars => TypeOK'
  <1> SUFFICES ASSUME TypeOK, [Next]_vars PROVE TypeOK'
    OBVIOUS
  <1> USE TransportAssumption DEF TypeOK, Request, Statuses, Exceptions, Answers
  <1>1. CASE UNCHANGED vars
    BY <1>1 DEF vars, clientVars
  <1>2. ASSUME NEW c \in Calls, Proceed(c) PROVE TypeOK'
    <2> DEFINE new(n) == [call |-> c, attempt |-> n, keyed |-> call[c].keyed, admitted |-> FALSE]
    <2>0. \A n \in 0..MaxRetries : new(n) \in Request
      OBVIOUS
    <2>1. CASE Start(c)
      <3>1. net' = net \union {new(0)}
        BY <2>1 DEF Start, Send, CarriesKey
      <3>2. net' \in SUBSET Request
        <4>1. new(0) \in Request
          BY <2>0
        <4> HIDE DEF new
        <4>2. QED
          BY <3>1, <4>1
      <3>3. attempt' \in [Calls -> 0..MaxRetries]
        BY <2>1 DEF Start, Send
      <3>4. pc' \in [Calls -> {"idle", "waiting", "returned", "raised"}]
        BY <2>1 DEF Start, Send
      <3>5. answer' \in [Calls -> Answers \union {"none"}]
        BY <2>1 DEF Start, Send
      <3>6. QED
        BY <2>1, <3>2, <3>3, <3>4, <3>5 DEF Start
    <2>2. CASE Return(c)
      BY <2>2 DEF Return
    <2>3. CASE Retry(c)
      <3>1. attempt[c] + 1 \in 0..MaxRetries
        BY <2>3 DEF Retry
      <3>2. net' = net \union {new(attempt[c] + 1)}
        BY <2>3 DEF Retry, Send, CarriesKey
      <3>3. net' \in SUBSET Request
        BY <2>0, <3>1, <3>2
      <3>4. attempt' \in [Calls -> 0..MaxRetries]
        BY <2>3, <3>1 DEF Retry, Send
      <3>5. pc' \in [Calls -> {"idle", "waiting", "returned", "raised"}]
        BY <2>3 DEF Retry, Send
      <3>6. answer' \in [Calls -> Answers \union {"none"}]
        BY <2>3 DEF Retry, Send
      <3>7. QED
        BY <2>3, <3>3, <3>4, <3>5, <3>6 DEF Retry
    <2>4. CASE Raise(c)
      BY <2>4 DEF Raise, Errors
    <2>5. QED
      BY <1>2, <2>1, <2>2, <2>3, <2>4 DEF Proceed
  <1>3. ASSUME NEW m \in net, Serve(m) PROVE TypeOK'
    <2>1. CASE Apply(m)
      <3>1. applied' \in [Calls -> Nat] /\ value' \in Calls \union {Absent}
        <4>1. m.call \in Calls
          OBVIOUS
        <4>2. QED
          BY <2>1, <4>1 DEF Apply
      <3>2. answer' \in [Calls -> Answers \union {"none"}]
        BY <2>1 DEF Apply, Answered, Tell
      <3>3. QED
        BY <2>1, <3>1, <3>2 DEF Apply, Answered
    <2>2. CASE RefuseAtNode(m)
      BY <2>2 DEF RefuseAtNode, Answered, Tell
    <2>3. CASE Reject(m)
      BY <2>3 DEF Reject, Answered, Tell
    <2>4. CASE GiveUpWaiting(m)
      BY <2>4 DEF GiveUpWaiting, Tell
    <2>5. CASE Admit(m)
      BY <2>5 DEF Admit, clientVars
    <2>6. CASE Replay(m)
      BY <2>6 DEF Replay, Tell
    <2>7. QED
      BY <1>3, <2>1, <2>2, <2>3, <2>4, <2>5, <2>6 DEF Serve
  <1>4. QED
    BY <1>1, <1>2, <1>3 DEF Next

\* The types hold in every reachable state, for any number of calls and retries.
THEOREM TransportTyping == Spec => []TypeOK
  <1>1. Init => TypeOK
    BY TransportAssumption DEF Init, TypeOK, Request
  <1>2. QED
    BY <1>1, TypePreserved, PTL DEF Spec

\* A call that a step does not touch keeps its part of the invariant.
LEMMA Frame ==
  ASSUME NEW d \in Calls, CallInv(d), Untouched(d), call' = call
  PROVE  CallInv(d)'
  BY DEF CallInv, KeyedInv, KeylessInv, Protected, Untouched

\* A client's step is about one call: the requests of the others stay as they are.
LEMMA ClientTouches ==
  ASSUME TypeOK, NEW c \in Calls, Proceed(c), NEW d \in Calls, d # c
  PROVE  Untouched(d)
  <1>1. Of(d)' = Of(d)
    BY DEF Proceed, Start, Return, Retry, Raise, Send, Of
  <1>2. QED
    BY <1>1 DEF Proceed, Start, Return, Retry, Raise, Send, TypeOK, Untouched

\* So is a step of the node or the edge.
LEMMA ServerTouches ==
  ASSUME TypeOK, NEW m \in net, Serve(m), NEW d \in Calls, d # m.call
  PROVE  Untouched(d)
  <1>1. Of(d)' = Of(d)
    BY DEF Serve, Apply, RefuseAtNode, Reject, GiveUpWaiting, Admit, Replay, Answered, Of,
           TypeOK, Request
  <1>2. QED
    BY <1>1 DEF Serve, Apply, RefuseAtNode, Reject, GiveUpWaiting, Admit, Replay, Answered,
                Tell, clientVars, TypeOK, Request, Untouched

\* Each step of _request keeps the invariant of its call.
LEMMA ClientKeeps ==
  ASSUME TypeOK, NEW c \in Calls, CallInv(c), Proceed(c)
  PROVE  CallInv(c)'
  <1> USE DEF TypeOK
  <1>1. CASE Start(c)
    <2>1. Of(c)' = {[call |-> c, attempt |-> 0, keyed |-> call[c].keyed, admitted |-> FALSE]}
      BY <1>1 DEF CallInv, Start, Send, CarriesKey, Of
    <2>2. applied'[c] = 0 /\ answer'[c] = "none" /\ pc'[c] = "waiting" /\ call' = call
          /\ ledger' = ledger /\ ledger[c] = ledger'[c]
      BY <1>1 DEF CallInv, Start, Send
    <2>3. Protected(c) /\ call[c].keyed => ledger[c] # "ok"
      BY <1>1 DEF CallInv, KeyedInv, Start
    <2>4. QED
      BY <2>1, <2>2, <2>3 DEF CallInv, KeyedInv, KeylessInv, Protected
  <1>2. CASE Return(c)
    <2>1. Of(c)' = Of(c)
      BY <1>2 DEF Return, Of
    <2>2. QED
      BY <1>2, <2>1 DEF Return, CallInv, KeyedInv, KeylessInv, Protected
  <1>3. CASE Retry(c)
    <2> DEFINE n == [call |-> c, attempt |-> attempt[c] + 1, keyed |-> call[c].keyed,
                     admitted |-> FALSE]
    <2>1. Of(c)' = Of(c) \union {n}
      BY <1>3 DEF Retry, Send, CarriesKey, Of
    <2>2. applied' = applied /\ answer'[c] = "none" /\ pc'[c] = "waiting" /\ call' = call
          /\ ledger' = ledger
      BY <1>3 DEF Retry, Send
    <2>3. Protected(c) /\ ~call[c].keyed => Of(c) = {} /\ applied[c] = 0
      BY <1>3 DEF Retry, Retryable, ReplaySafe, IdempotentMethods, Errors, Exceptions, Statuses,
                  Protected, CallInv, KeylessInv
    <2> HIDE DEF n
    <2>4. n.keyed = call[c].keyed /\ ~n.admitted
      BY DEF n
    <2>5. Protected(c) /\ call[c].keyed => KeyedInv(c)'
      BY <2>1, <2>2, <2>4 DEF CallInv, KeyedInv
    <2>6. Protected(c) /\ ~call[c].keyed => KeylessInv(c)'
      BY <2>1, <2>2, <2>3, <2>4 DEF KeylessInv
    <2>7. QED
      BY <2>2, <2>5, <2>6 DEF CallInv, Protected
  <1>4. CASE Raise(c)
    <2>1. Of(c)' = Of(c)
      BY <1>4 DEF Raise, Of
    <2>2. error'[c] = "notLeader" => answer[c] = "notLeader"
      BY <1>4 DEF Raise, Errors, Exceptions, Statuses
    <2>3. QED
      BY <1>4, <2>1, <2>2 DEF Raise, CallInv, KeyedInv, KeylessInv, Protected
  <1>5. QED
    BY <1>1, <1>2, <1>3, <1>4 DEF Proceed

\* So does each step of the node and the edge.
LEMMA ServerKeeps ==
  ASSUME TypeOK, NEW m \in net, CallInv(m.call), Serve(m)
  PROVE  CallInv(m.call)'
  <1> DEFINE c == m.call
  <1>0. c \in Calls /\ m \in Of(c) /\ CallInv(c)
    BY DEF TypeOK, Request, Of
  <1> HIDE DEF c
  <1>1. call' = call /\ pc' = pc /\ error' = error
    BY DEF Serve, Apply, RefuseAtNode, Reject, GiveUpWaiting, Admit, Replay, Answered, clientVars
  <1>2. pc[c] # "idle" /\ (answer'[c] # answer[c] => pc[c] = "waiting")
    BY <1>0 DEF CallInv, Serve, Apply, RefuseAtNode, Reject, GiveUpWaiting, Admit, Replay,
                Answered, Tell, clientVars, c, TypeOK
  <1>3. ASSUME NEW a, NEW r, Answered(m, a, r)
        PROVE  /\ Of(c)' = Of(c) \ {m}
               /\ answer'[c] \in {answer[c], a}
               /\ ledger'[c] = ledger[c] \/ (ThroughLedger(m) /\ ledger'[c] = r)
    BY <1>0, <1>3 DEF Answered, Tell, Of, c, TypeOK
  <1>4. AtNode(m) /\ Protected(c) /\ call[c].keyed => m.admitted
    BY <1>0 DEF AtNode, ThroughLedger, Protected, CallInv, KeyedInv, c
  <1>5. CASE Apply(m)
    <2>1. Answered(m, "ok", "ok") /\ AtNode(m)
      BY <1>5 DEF Apply
    <2>2. Protected(c) => applied[c] = 0 /\ applied'[c] = 1
      BY <1>0, <1>4, <1>5, <2>1 DEF Apply, Protected, CallInv, KeyedInv, KeylessInv, c, TypeOK
    <2>3. Protected(c) /\ call[c].keyed => KeyedInv(c)'
      BY <1>0, <1>3, <1>4, <2>1, <2>2 DEF CallInv, KeyedInv
    <2>4. Protected(c) /\ ~call[c].keyed => KeylessInv(c)'
      BY <1>0, <1>1, <1>3, <2>1, <2>2 DEF CallInv, KeylessInv
    <2>5. QED
      BY <1>1, <1>2, <1>3, <2>1, <2>2, <2>3, <2>4 DEF CallInv, Protected, c
  <1>6. CASE RefuseAtNode(m)
    <2> DEFINE r == IF KeepsRefusals THEN "notLeader" ELSE "absent"
    <2>1. Answered(m, "notLeader", r) /\ AtNode(m) /\ applied' = applied
      BY <1>6 DEF RefuseAtNode
    <2>2. r \notin {"running", "ok"}
      OBVIOUS
    <2> HIDE DEF r
    <2>3. Protected(c) /\ call[c].keyed => KeyedInv(c)'
      BY <1>0, <1>3, <1>4, <2>1, <2>2 DEF CallInv, KeyedInv
    <2>4. Protected(c) /\ ~call[c].keyed => KeylessInv(c)'
      BY <1>0, <1>1, <1>3, <2>1 DEF CallInv, KeylessInv
    <2>5. QED
      BY <1>1, <1>2, <1>3, <2>1, <2>3, <2>4 DEF CallInv, Protected, c
  <1>7. CASE Reject(m)
    <2>1. Answered(m, "rejected", "rejected") /\ AtNode(m) /\ applied' = applied
      BY <1>7 DEF Reject
    <2>2. Protected(c) /\ call[c].keyed => KeyedInv(c)'
      BY <1>0, <1>3, <1>4, <2>1 DEF CallInv, KeyedInv
    <2>3. Protected(c) /\ ~call[c].keyed => KeylessInv(c)'
      BY <1>0, <1>1, <1>3, <2>1 DEF CallInv, KeylessInv
    <2>4. QED
      BY <1>1, <1>2, <1>3, <2>1, <2>2, <2>3 DEF CallInv, Protected, c
  <1>8. CASE GiveUpWaiting(m)
    <2>1. Of(c)' = Of(c) /\ applied' = applied /\ ledger' = ledger
          /\ answer'[c] \in {answer[c], "ambiguous"}
      BY <1>0, <1>8 DEF GiveUpWaiting, Tell, Of, c, TypeOK
    <2>2. QED
      BY <1>1, <1>2, <2>1 DEF CallInv, KeyedInv, KeylessInv, Protected, c
  <1>9. CASE Admit(m)
    <2> DEFINE k == [m EXCEPT !.admitted = TRUE]
    <2>1. k.call = c /\ k.keyed = m.keyed /\ k.admitted
      BY <1>0 DEF c, TypeOK, Request
    <2> HIDE DEF k
    <2>2. Of(c)' = (Of(c) \ {m}) \union {k}
      BY <1>9, <2>1 DEF Admit, Of, k
    <2>3. ledger[c] = "absent" /\ ledger'[c] = "running" /\ applied' = applied
          /\ answer' = answer /\ ThroughLedger(m)
      BY <1>0, <1>9 DEF Admit, clientVars, c, TypeOK
    <2>4. Protected(c) /\ call[c].keyed => KeyedInv(c)'
      BY <1>0, <2>1, <2>2, <2>3 DEF CallInv, KeyedInv
    <2>5. ~(Protected(c) /\ ~call[c].keyed)
      BY <1>0, <2>3 DEF CallInv, KeylessInv, ThroughLedger
    <2>6. QED
      BY <1>1, <1>2, <2>3, <2>4, <2>5 DEF CallInv, Protected, c
  <1>10. CASE Replay(m)
    <2>1. Of(c)' = Of(c) \ {m} /\ applied' = applied /\ ledger' = ledger
          /\ answer'[c] \in {answer[c], "rejected", ledger[c]} /\ ledger[c] # "absent"
          /\ ThroughLedger(m)
      BY <1>0, <1>10 DEF Replay, Tell, Of, c, TypeOK
    <2>2. Protected(c) => call[c].keyed
      BY <1>0, <2>1 DEF CallInv, KeylessInv, ThroughLedger
    <2>3. Protected(c) => KeyedInv(c)'
      BY <1>0, <2>1, <2>2 DEF CallInv, KeyedInv
    <2>4. Protected(c) /\ answer'[c] = "ok" => applied'[c] = 1
      BY <1>0, <2>1, <2>2 DEF CallInv, KeyedInv
    <2>5. QED
      BY <1>1, <1>2, <2>1, <2>2, <2>3, <2>4 DEF CallInv, Protected, c
  <1>11. QED
    BY <1>5, <1>6, <1>7, <1>8, <1>9, <1>10 DEF Serve

\* Only one call is touched, and its own part of the invariant is kept.
LEMMA InvPreserved == TypeOK /\ TransportInv /\ [Next]_vars => TransportInv'
  <1> SUFFICES ASSUME TypeOK, TransportInv, [Next]_vars, NEW d \in Calls PROVE CallInv(d)'
    BY DEF TransportInv
  <1>1. call' = call
    BY DEF vars, clientVars, Next, Proceed, Start, Return, Retry, Raise, Serve, Apply, RefuseAtNode,
           Reject, GiveUpWaiting, Admit, Replay, Answered
  <1>2. CASE UNCHANGED vars
    BY <1>1, <1>2, Frame DEF TransportInv, Untouched, vars, clientVars, Of
  <1>3. ASSUME NEW c \in Calls, Proceed(c) PROVE CallInv(d)'
    BY <1>1, <1>3, Frame, ClientTouches, ClientKeeps DEF TransportInv
  <1>4. ASSUME NEW m \in net, Serve(m) PROVE CallInv(d)'
    <2>1. m.call \in Calls
      BY DEF TypeOK, Request
    <2>2. QED
      BY <1>1, <1>4, <2>1, Frame, ServerTouches, ServerKeeps DEF TransportInv
  <1>5. QED
    BY <1>2, <1>3, <1>4 DEF Next

\* No mutation that must not be repeated has two ways left to take effect, and
\* what its caller has heard is true: TransportInv, for any number of retries.
THEOREM OneWayThrough == Spec => []TransportInv
  <1>1. Init => TransportInv
    <2> SUFFICES ASSUME Init, NEW c \in Calls PROVE CallInv(c)
      BY DEF TransportInv
    <2>1. Of(c) = {}
      BY DEF Init, Of
    <2>2. pc[c] = "idle" /\ answer[c] = "none" /\ ledger[c] = "absent" /\ applied[c] = 0
      BY DEF Init
    <2>3. QED
      BY <2>1, <2>2 DEF CallInv, KeyedInv, KeylessInv
  <1>2. QED
    BY <1>1, InvPreserved, TypePreserved, TransportTyping, PTL DEF Spec

-----------------------------------------------------------------------------
\* The refinement mapping of OnceSpec.
Effects == [c \in Calls |-> IF Protected(c) THEN applied[c] ELSE 0]
Outcomes == [c \in Calls |-> IF Protected(c) THEN Outcome(c) ELSE "open"]

\* What the abstract specification sees of an untouched call stays the same.
LEMMA SeenSame ==
  ASSUME NEW d \in Calls, Untouched(d), call' = call
  PROVE  Effects'[d] = Effects[d] /\ Outcomes'[d] = Outcomes[d]
  <1>1. Protected(d)' = Protected(d) /\ Outcome(d)' = Outcome(d)
    BY DEF Protected, Outcome, Untouched
  <1>2. QED
    BY <1>1 DEF Effects, Outcomes, Untouched

\* A step about call c is a step of OneEffect if it is one for c alone.
LEMMA OneCall ==
  ASSUME NEW c \in Calls,
         \A d \in Calls : d # c => Effects'[d] = Effects[d] /\ Outcomes'[d] = Outcomes[d],
         \/ Effects'[c] = Effects[c] /\ Outcomes'[c] = Outcomes[c]
         \/ /\ Effects[c] = 0 /\ Outcomes[c] \in {"open", "failed"}
            /\ Effects'[c] = 1 /\ Outcomes'[c] = Outcomes[c]
         \/ /\ Outcomes[c] = "open" /\ Effects'[c] = Effects[c]
            /\ \/ Outcomes'[c] = "answered" /\ Effects[c] = 1
               \/ Outcomes'[c] = "failed"
               \/ Outcomes'[c] = "refused" /\ Effects[c] = 0
  PROVE  [Once!Next]_(Once!vars)
  <1>1. /\ Effects = [d \in Calls |-> Effects[d]] /\ Effects' = [d \in Calls |-> Effects'[d]]
        /\ Outcomes = [d \in Calls |-> Outcomes[d]] /\ Outcomes' = [d \in Calls |-> Outcomes'[d]]
    BY DEF Effects, Outcomes
  <1> DEFINE E == Effects   F == Effects'   O == Outcomes   P == Outcomes'
  <1>2. /\ Once!vars = <<E, O>> /\ (Once!vars)' = <<F, P>>
        /\ Once!TakeEffect(c) <=> E[c] = 0 /\ O[c] \in {"open", "failed"}
                                 /\ F = [E EXCEPT ![c] = 1] /\ P = O
        /\ Once!Answer(c) <=> O[c] = "open" /\ E[c] = 1 /\ P = [O EXCEPT ![c] = "answered"] /\ F = E
        /\ Once!Fail(c) <=> O[c] = "open" /\ P = [O EXCEPT ![c] = "failed"] /\ F = E
        /\ Once!Refuse(c) <=> O[c] = "open" /\ E[c] = 0 /\ P = [O EXCEPT ![c] = "refused"] /\ F = E
    BY DEF Effects, Outcomes, Once!vars, Once!TakeEffect, Once!Answer, Once!Fail, Once!Refuse
  <1>3. (F = [E EXCEPT ![c] = F[c]]) /\ (P = [O EXCEPT ![c] = P[c]])
    BY <1>1
  <1>4. (F[c] = E[c] => F = E) /\ (P[c] = O[c] => P = O)
    BY <1>1
  <1> HIDE DEF E, F, O, P
  <1>5. \/ F[c] = E[c] /\ P[c] = O[c]
        \/ E[c] = 0 /\ O[c] \in {"open", "failed"} /\ F[c] = 1 /\ P[c] = O[c]
        \/ /\ O[c] = "open" /\ F[c] = E[c]
           /\ \/ P[c] = "answered" /\ E[c] = 1
              \/ P[c] = "failed"
              \/ P[c] = "refused" /\ E[c] = 0
    BY DEF E, F, O, P
  <1>6. QED
    BY <1>2, <1>3, <1>4, <1>5 DEF Once!Next

\* A step of _request is at most an answer, a failure or a refusal of its call.
LEMMA ClientStep ==
  ASSUME TypeOK, TransportInv, NEW c \in Calls, Proceed(c)
  PROVE  [Once!Next]_(Once!vars)
  <1>1. call' = call /\ applied' = applied
    BY DEF Proceed, Start, Return, Retry, Raise
  <1>2. Protected(c)' = Protected(c)
    BY <1>1 DEF Protected
  <1>3. Effects'[c] = Effects[c]
    BY <1>1, <1>2 DEF Effects
  <1>4. \A d \in Calls : d # c => Effects'[d] = Effects[d] /\ Outcomes'[d] = Outcomes[d]
    BY <1>1, ClientTouches, SeenSame
  <1>5. CallInv(c)
    BY DEF TransportInv
  <1>6. Outcomes[c] = (IF Protected(c) THEN Outcome(c) ELSE "open")
        /\ Outcomes'[c] = (IF Protected(c) THEN Outcome(c)' ELSE "open")
        /\ Effects[c] = (IF Protected(c) THEN applied[c] ELSE 0)
    BY <1>2 DEF Outcomes, Effects
  <1>7. CASE ~Protected(c)
    BY <1>3, <1>4, <1>6, <1>7, OneCall
  <1>8. CASE Protected(c) /\ (Start(c) \/ Retry(c))
    <2>1. Outcome(c) = "open" /\ Outcome(c)' = "open"
      BY <1>8 DEF Start, Retry, Send, Outcome, TypeOK
    <2>2. QED
      BY <1>3, <1>4, <1>6, <2>1, OneCall
  <1>9. CASE Protected(c) /\ Return(c)
    <2>1. Outcome(c) = "open" /\ Outcome(c)' = "answered" /\ applied[c] = 1
      BY <1>5, <1>9 DEF Return, Outcome, TypeOK, CallInv
    <2>2. QED
      BY <1>3, <1>4, <1>6, <1>9, <2>1, OneCall
  <1>10. CASE Protected(c) /\ Raise(c)
    <2>1. Outcome(c) = "open" /\ pc'[c] = "raised"
      BY <1>10 DEF Raise, Outcome, TypeOK
    <2>2. error'[c] = "notLeader" => answer[c] = "notLeader"
      BY <1>10 DEF Raise, Errors, Exceptions, Statuses, TypeOK
    <2>3. Outcome(c)' = "failed" \/ (Outcome(c)' = "refused" /\ applied[c] = 0)
      BY <1>1, <1>5, <1>10, <2>1, <2>2 DEF Outcome, CallInv, KeylessInv
    <2>4. QED
      BY <1>3, <1>4, <1>6, <1>10, <2>1, <2>3, OneCall
  <1>11. QED
    BY <1>7, <1>8, <1>9, <1>10 DEF Proceed

\* A step of the node or the edge is at most the one effect of its call.
LEMMA ServerStep ==
  ASSUME TypeOK, TransportInv, NEW m \in net, Serve(m)
  PROVE  [Once!Next]_(Once!vars)
  <1>1. PICK c \in Calls : c = m.call
    BY DEF TypeOK, Request
  <1>2. call' = call /\ pc' = pc /\ error' = error
    BY DEF Serve, Apply, RefuseAtNode, Reject, GiveUpWaiting, Admit, Replay, Answered, clientVars
  <1>3. Protected(c)' = Protected(c) /\ Outcome(c)' = Outcome(c)
    BY <1>2 DEF Protected, Outcome
  <1>4. \A d \in Calls : d # c => Effects'[d] = Effects[d] /\ Outcomes'[d] = Outcomes[d]
    BY <1>1, <1>2, ServerTouches, SeenSame
  <1>5. CallInv(c) /\ m \in Of(c)
    BY <1>1 DEF TransportInv, Of
  <1>6. Outcomes'[c] = Outcomes[c]
        /\ Outcomes[c] = (IF Protected(c) THEN Outcome(c) ELSE "open")
        /\ Effects[c] = (IF Protected(c) THEN applied[c] ELSE 0)
        /\ Effects'[c] = (IF Protected(c) THEN applied'[c] ELSE 0)
    BY <1>3 DEF Outcomes, Effects
  <1>7. CASE ~Protected(c)
    BY <1>4, <1>6, <1>7, OneCall
  <1>8. CASE Protected(c) /\ Apply(m)
    <2>1. call[c].keyed => m.admitted
      BY <1>5, <1>8 DEF Apply, AtNode, ThroughLedger, Protected, CallInv, KeyedInv
    <2>2. applied[c] = 0
      BY <1>5, <1>8, <2>1 DEF CallInv, KeyedInv, KeylessInv
    <2>3. applied'[c] = 1
      BY <1>1, <1>8, <2>2 DEF Apply, Protected, TypeOK
    <2>4. pc[c] # "returned"
      BY <1>5, <1>8, <2>2 DEF CallInv
    <2>5. ~(pc[c] = "raised" /\ error[c] = "notLeader" /\ ~call[c].keyed)
      BY <1>5, <1>8 DEF CallInv, KeylessInv
    <2>6. Outcome(c) \in {"open", "failed"}
      BY <2>4, <2>5 DEF Outcome
    <2>7. QED
      BY <1>4, <1>6, <1>8, <2>2, <2>3, <2>6, OneCall
  <1>9. CASE Protected(c) /\ ~Apply(m)
    <2>1. applied' = applied
      BY <1>9 DEF Serve, RefuseAtNode, Reject, GiveUpWaiting, Admit, Replay
    <2>2. QED
      BY <1>4, <1>6, <2>1, OneCall
  <1>10. QED
    BY <1>7, <1>8, <1>9

\* A mutation that carries a key to the edge, or that no method makes repeatable,
\* takes effect at most once, and its caller is told the truth: OnceSpec
\* (fiducia.py:308-310), for any number of calls and retries.
THEOREM AtMostOnce == Spec => OnceSpec
  <1>1. Init => Once!Init
    <2> SUFFICES ASSUME Init PROVE Once!Init
      OBVIOUS
    <2>1. \A c \in Calls : (IF Protected(c) THEN applied[c] ELSE 0) = 0
                          /\ (IF Protected(c) THEN Outcome(c) ELSE "open") = "open"
      BY DEF Init, Outcome
    <2>2. QED
      BY <2>1 DEF Once!Init
  <1>2. TypeOK /\ TransportInv /\ [Next]_vars => [Once!Next]_(Once!vars)
    <2> SUFFICES ASSUME TypeOK, TransportInv, [Next]_vars PROVE [Once!Next]_(Once!vars)
      OBVIOUS
    <2>1. CASE UNCHANGED vars
      BY <2>1 DEF vars, clientVars, Once!vars, Protected, Outcome
    <2>2. CASE Next
      BY <2>2, ClientStep, ServerStep DEF Next
    <2>3. QED
      BY <2>1, <2>2
  <1>3. QED
    BY <1>1, <1>2, TransportTyping, OneWayThrough, PTL DEF Spec, OnceSpec, Once!Spec
=============================================================================
