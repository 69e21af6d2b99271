------------------------------ MODULE Transport ------------------------------
(***************************************************************************)
(* FiduciaClient._request (clients/python/fiducia.py:198-214): one call    *)
(* sends its request again after some of its failures.  Any number of      *)
(* calls run against one endpoint, through the hosted edge or directly.    *)
(* The edge's replay ledger and the node are external, after PROTOCOL.md   *)
(* ("Idempotency keys", "Errors").  A request that nobody waits for any    *)
(* more may still be served later, or never.                               *)
(***************************************************************************)
EXTENDS Naturals

CONSTANTS
  Calls,          \* calls of _request; a keyed one has a key of its own
  MaxRetries,     \* FiduciaClient(max_retries), or the option of the call
  Edge,           \* is the endpoint the hosted edge, or a node
  KeepsRefusals,  \* does the ledger replay a refusal, or forget it
  Absent          \* the value of a deleted key

ASSUME TransportAssumption ==
  /\ MaxRetries \in Nat
  /\ Edge \in BOOLEAN
  /\ KeepsRefusals \in BOOLEAN
  /\ Absent \notin Calls

VARIABLES
  pc,       \* where the call is
  call,     \* its method, and whether the caller supplied a key
  attempt,  \* the loop counter of _request
  answer,   \* to the attempt in progress, once there is one
  error,    \* the exception a call ended with
  net,      \* requests on their way
  ledger,   \* the edge's record of each key
  applied,  \* how often the node has applied a call
  value     \* what the calls write: the last one applied

clientVars == <<pc, call, attempt, answer, error>>
vars == <<clientVars, net, ledger, applied, value>>

Methods == {"GET", "PUT", "DELETE", "POST"}
IdempotentMethods == {"GET", "PUT", "DELETE"}

\* notLeader: a 503 that is marked retryable.  ambiguous: one of 408, 425, 429,
\* 500, 502, 503, 504.  rejected: any other status.  timeout: TimeoutError and
\* URLError.  broken: any other exception, as of a body that breaks off.
Statuses == {"notLeader", "ambiguous", "rejected"}
Exceptions == {"timeout", "broken"}
Answers == {"ok"} \union Statuses
Request == [call: Calls, attempt: 0..MaxRetries, keyed: BOOLEAN, admitted: BOOLEAN]

TypeOK ==
  /\ pc \in [Calls -> {"idle", "waiting", "returned", "raised"}]
  /\ call \in [Calls -> [method: Methods, keyed: BOOLEAN]]
  /\ attempt \in [Calls -> 0..MaxRetries]
  /\ answer \in [Calls -> Answers \union {"none"}]
  /\ error \in [Calls -> Statuses \union Exceptions \union {"none"}]
  /\ net \in SUBSET Request
  /\ ledger \in [Calls -> {"absent", "running", "ok", "rejected", "notLeader"}]
  /\ applied \in [Calls -> Nat]
  /\ value \in Calls \union {Absent}

Init ==
  /\ pc = [c \in Calls |-> "idle"]
  /\ call \in [Calls -> [method: Methods, keyed: BOOLEAN]]
  /\ attempt = [c \in Calls |-> 0]
  /\ answer = [c \in Calls |-> "none"]
  /\ error = [c \in Calls |-> "none"]
  /\ net = {}
  /\ ledger = [c \in Calls |-> "absent"]
  /\ applied = [c \in Calls |-> 0]
  /\ value = Absent

-----------------------------------------------------------------------------
\* _request and _request_once.

\* Mutant of CarriesKey: the key is consumed by the first attempt.
CarriesKey_FirstOnly(c, n) == call[c].keyed /\ n = 0

\* Every attempt carries the caller's Idempotency-Key, and none invents one.
CarriesKey(c, n) == call[c].keyed

Send(c, n) ==
  /\ pc' = [pc EXCEPT ![c] = "waiting"]
  /\ attempt' = [attempt EXCEPT ![c] = n]
  /\ answer' = [answer EXCEPT ![c] = "none"]
  /\ net' = net \union
       {[call |-> c, attempt |-> n, keyed |-> CarriesKey(c, n), admitted |-> FALSE]}

\* Mutant of ReplaySafe: every method may be repeated.
ReplaySafe_Always(c) == TRUE
ReplaySafe(c) == call[c].method \in IdempotentMethods \/ call[c].keyed

\* _retryable: a refused request was not applied; one that may have been is
\* repeated only where that is safe.
Retryable(c, e) ==
  \/ e = "notLeader"
  \/ ReplaySafe(c) /\ e \in {"ambiguous", "timeout"}

\* What the attempt in progress can end with, other than an answer that is good.
Errors(c) == Exceptions \union ({answer[c]} \intersect Statuses)

Start(c) ==
  /\ pc[c] = "idle"
  /\ Send(c, 0)
  /\ UNCHANGED <<call, error, ledger, applied, value>>

Return(c) ==
  /\ pc[c] = "waiting"
  /\ answer[c] = "ok"
  /\ pc' = [pc EXCEPT ![c] = "returned"]
  /\ UNCHANGED <<call, attempt, answer, error, net, ledger, applied, value>>

\* Mutant of Retry: the loop does not count its turns.
Retry_Uncounted(c) ==
  /\ pc[c] = "waiting"
  /\ attempt[c] < MaxRetries
  /\ \E e \in Errors(c) : Retryable(c, e)
  /\ Send(c, attempt[c])
  /\ UNCHANGED <<call, error, ledger, applied, value>>

\* Mutant of Retry: one attempt too many.
Retry_OneMore(c) ==
  /\ pc[c] = "waiting"
  /\ attempt[c] <= MaxRetries
  /\ \E e \in Errors(c) : Retryable(c, e)
  /\ Send(c, attempt[c] + 1)
  /\ UNCHANGED <<call, error, ledger, applied, value>>

Retry(c) ==
  /\ pc[c] = "waiting"
  /\ attempt[c] < MaxRetries
  /\ \E e \in Errors(c) : Retryable(c, e)
  /\ Send(c, attempt[c] + 1)
  /\ UNCHANGED <<call, error, ledger, applied, value>>

Raise(c) ==
  /\ pc[c] = "waiting"
  /\ \E e \in Errors(c) :
       /\ attempt[c] >= MaxRetries \/ ~Retryable(c, e)
       /\ error' = [error EXCEPT ![c] = e]
  /\ pc' = [pc EXCEPT ![c] = "raised"]
  /\ UNCHANGED <<call, attempt, answer, net, ledger, applied, value>>

-----------------------------------------------------------------------------
\* The node and the edge (external).

\* The caller hears a if it still waits for the attempt that m is.
Tell(m, a) ==
  answer' = IF pc[m.call] = "waiting" /\ attempt[m.call] = m.attempt
            THEN [answer EXCEPT ![m.call] = a] ELSE answer

ThroughLedger(m) == Edge /\ m.keyed
AtNode(m) == m \in net /\ (ThroughLedger(m) => m.admitted)

\* The node is done with m. Its answer a passes the edge, which records r under
\* the key and tells the caller, or is lost on its way.
Answered(m, a, r) ==
  /\ net' = net \ {m}
  /\ \/ /\ ledger' = IF ThroughLedger(m) THEN [ledger EXCEPT ![m.call] = r] ELSE ledger
        /\ Tell(m, a)
     \/ UNCHANGED <<ledger, answer>>
  /\ UNCHANGED <<pc, call, attempt, error>>

Apply(m) ==
  /\ AtNode(m)
  /\ IF call[m.call].method = "GET"
     THEN UNCHANGED <<applied, value>>
     ELSE /\ applied' = [applied EXCEPT ![m.call] = @ + 1]
          /\ value' = IF call[m.call].method = "DELETE" THEN Absent ELSE m.call
  /\ Answered(m, "ok", "ok")

\* The node is not the leader, and refuses before it applies anything.
RefuseAtNode(m) ==
  /\ AtNode(m)
  /\ Answered(m, "notLeader", IF KeepsRefusals THEN "notLeader" ELSE "absent")
  /\ UNCHANGED <<applied, value>>

Reject(m) ==
  /\ AtNode(m)
  /\ Answered(m, "rejected", "rejected")
  /\ UNCHANGED <<applied, value>>

\* The edge answers 502 or 504 for a request that is still under way.
GiveUpWaiting(m) ==
  /\ m \in net
  /\ Tell(m, "ambiguous")
  /\ UNCHANGED <<pc, call, attempt, error, net, ledger, applied, value>>

\* A new key is recorded before its request goes on to the node.
Admit(m) ==
  /\ m \in net /\ ThroughLedger(m) /\ ~m.admitted
  /\ ledger[m.call] = "absent"
  /\ ledger' = [ledger EXCEPT ![m.call] = "running"]
  /\ net' = (net \ {m}) \union {[m EXCEPT !.admitted = TRUE]}
  /\ UNCHANGED <<clientVars, applied, value>>

\* A known one is answered from the ledger: 409 while its request is running.
Replay(m) ==
  /\ m \in net /\ ThroughLedger(m) /\ ~m.admitted
  /\ ledger[m.call] # "absent"
  /\ Tell(m, IF ledger[m.call] = "running" THEN "rejected" ELSE ledger[m.call])
  /\ net' = net \ {m}
  /\ UNCHANGED <<pc, call, attempt, error, ledger, applied, value>>

-----------------------------------------------------------------------------
Proceed(c) == Start(c) \/ Return(c) \/ Retry(c) \/ Raise(c)
Serve(m) ==
  Apply(m) \/ RefuseAtNode(m) \/ Reject(m) \/ GiveUpWaiting(m) \/ Admit(m) \/ Replay(m)

Next == (\E c \in Calls : Proceed(c)) \/ (\E m \in net : Serve(m))

Spec == Init /\ [][Next]_vars

\* Every attempt has a timeout, so a call that was begun does not stand still.
\* Nobody has to be served.
Fairness == \A c \in Calls : WF_vars(Return(c) \/ Retry(c) \/ Raise(c))
FairSpec == Spec /\ Fairness

-----------------------------------------------------------------------------
\* The mutations that nothing may repeat: those with a key at the edge that
\* keeps the ledger, and those whose method is not idempotent.
Protected(c) ==
  /\ call[c].method # "GET"
  /\ IF call[c].keyed THEN Edge ELSE call[c].method = "POST"

\* A keyless mutation is only ever sent again after a refusal, so a refusal that
\* ends it speaks for all of its attempts. With a key an earlier attempt may
\* still be under way.
Outcome(c) ==
  CASE pc[c] = "returned" -> "answered"
    [] pc[c] = "raised" /\ error[c] = "notLeader" /\ ~call[c].keyed -> "refused"
    [] pc[c] = "raised" /\ ~(error[c] = "notLeader" /\ ~call[c].keyed) -> "failed"
    [] OTHER -> "open"

\* A protected mutation takes effect at most once, whichever of its attempts are
\* lost, delayed or served behind the caller's back; an answer means it did; and
\* a refusal means it never will (fiducia.py:308-310, PROTOCOL.md:395-398).
Once == INSTANCE OneEffect WITH
  effects <- [c \in Calls |-> IF Protected(c) THEN applied[c] ELSE 0],
  outcome <- [c \in Calls |-> IF Protected(c) THEN Outcome(c) ELSE "open"]
OnceSpec == Once!Spec

\* Why: what is on its way for a call, and what that leaves open.
Of(c) == {m \in net : m.call = c}

\* A key lets one request through to the node, and is kept once it was applied.
KeyedInv(c) ==
  /\ applied[c] = 1 => ledger[c] \in {"running", "ok"}
  /\ ledger[c] = "ok" => applied[c] = 1
  /\ \A m \in Of(c) : m.keyed
  /\ \A m \in Of(c) : m.admitted => ledger[c] = "running" /\ applied[c] = 0
  /\ \A m, k \in Of(c) : m.admitted /\ k.admitted => m = k

\* Without a key nothing else is on its way, and nothing at all after a refusal.
KeylessInv(c) ==
  /\ \A m \in Of(c) : ~m.keyed /\ applied[c] = 0
  /\ \A m, k \in Of(c) : m = k
  /\ answer[c] = "notLeader" \/ (pc[c] = "raised" /\ error[c] = "notLeader")
       => Of(c) = {} /\ applied[c] = 0

CallInv(c) ==
  /\ pc[c] = "idle" => Of(c) = {} /\ applied[c] = 0 /\ answer[c] = "none"
  /\ pc[c] = "returned" => answer[c] = "ok"
  /\ Protected(c) =>
       /\ applied[c] \in {0, 1}
       /\ answer[c] = "ok" => applied[c] = 1
       /\ IF call[c].keyed THEN KeyedInv(c) ELSE KeylessInv(c)

\* A protected mutation can take effect through one request at most, and what its
\* caller has heard agrees with whether it did.
TransportInv == \A c \in Calls : CallInv(c)

\* Every call ends, however often it is refused or left without an answer.
EveryCallEnds == \A c \in Calls : pc[c] = "waiting" ~> pc[c] \in {"returned", "raised"}

\* "PUT/DELETE converge to the same server state when replayed" (fiducia.py:110):
\* applying such a call once more changes nothing.
ReplayConverges ==
  [][\A c \in Calls :
       /\ call[c].method \in IdempotentMethods
       /\ 0 < applied[c] /\ applied[c] < applied'[c]
       => value' = value]_vars
=============================================================================
