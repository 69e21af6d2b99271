----------------------------- MODULE LockClient -----------------------------
(***************************************************************************)
(* The high-level lock client of clients/python/locking.py, any number of  *)
(* attempts running against one node over an unreliable transport; with    *)
(* Abortable, that of clients/ts/locking.ts, whose waits take a signal.    *)
(*                                                                         *)
(* An attempt is one call of _acquire_lock (try_lock, lock, with_lock) and *)
(* the Lock it returns.  Each of its remote calls is a request in net that *)
(* the node serves at any later time, or never; the answer reaches the     *)
(* attempt only while it still waits for that very call.  An attempt may   *)
(* stop waiting for an answer at any time: that is the exception every     *)
(* remote call of the library can raise.                                   *)
(***************************************************************************)
EXTENDS LockNode, Sequences

CONSTANTS
  MaxWait,           \* max_wait_ms, in retry intervals
  RetryInterval,     \* retry_interval_ms
  DelayCap,          \* the 2000 ms ceiling of the back-off
  MaxRetries,        \* max_retries, or NoLimit
  NoLimit,           \* None: the budget alone ends the wait
  TransportRetries,  \* FiduciaClient(max_retries)
  Malformed,         \* may an answer lose its fencing token
  Abortable          \* may the caller abort a wait: opts.signal

ASSUME ClientAssumption ==
  /\ MaxWait \in Nat
  /\ RetryInterval \in Nat \ {0}
  /\ DelayCap \in Nat \ {0}
  /\ MaxRetries \in Nat \union {NoLimit}
  /\ TransportRetries \in Nat
  /\ Malformed \in BOOLEAN
  /\ Abortable \in BOOLEAN

VARIABLES
  pc,       \* where the attempt is
  call,     \* its arguments: holder, keys, wait
  reply,    \* the answer to its call in progress, once there is one
  resends,  \* transport retries of that call
  net,      \* requests on their way to the node
  token,    \* the fencing token it knows
  retries,  \* the local attempts of the wait loop
  after     \* how the attempt ends once its cancel succeeds

clientVars == <<pc, call, reply, resends, net, token, retries, after>>
vars == <<nodeVars, clientVars>>

\* The calls _acquire_lock, _cancel_lock_wait and Lock wait for, by location.
Ops == {"acquire", "renew", "cancel", "release"}
OpAt == [acquire |-> "acquire", renewReacquired |-> "renew", retry |-> "acquire",
         renewFound |-> "renew", cancel |-> "cancel", releaseRaced |-> "release",
         renewing |-> "renew", releasing |-> "release"]
Calling == DOMAIN OpAt
Holding == {"held", "renewing"}
Ended == {"none", "timeout", "aborted", "unsafe", "released", "crashed"}
Locations == Calling \union Holding \union Ended \union {"idle", "loop", "lost"}

Call == [holder: Holders, keys: KeySets, wait: BOOLEAN]
Kinds == {"nothing", "granted", "regranted", "notAcquired", "mismatch", "renewed",
          "notRenewed", "released", "notReleased", "cancelled", "raced",
          "capacity", "notLeader"}
Reply == [kind: Kinds, token: Nat]
\* `awaited` while its attempt still waits for the answer.
Request == [att: Attempts, op: Ops, token: Nat, awaited: BOOLEAN]

Nothing == [kind |-> "nothing", token |-> 0]

ClientTypeOK ==
  /\ pc \in [Attempts -> Locations]
  /\ call \in [Attempts -> Call]
  /\ reply \in [Attempts -> Reply]
  /\ resends \in [Attempts -> 0..TransportRetries]
  /\ net \in SUBSET Request
  /\ token \in [Attempts -> Nat]
  /\ retries \in [Attempts -> Nat]
  /\ after \in [Attempts -> {"timeout", "aborted"}]

TypeOK == NodeTypeOK /\ ClientTypeOK

\* Mutant of GeneratedHolder: a default identity shared by the whole process.
GeneratedHolder_Shared(a) == CHOOSE b \in Attempts : TRUE

\* _gen_holder: a fresh uuid, so no other attempt can have it.
GeneratedHolder(a) == a
Arguments(a) ==
  [holder: Callers \union {GeneratedHolder(a)}, keys: KeySets, wait: BOOLEAN]

Init ==
  /\ NodeInit
  /\ pc = [a \in Attempts |-> "idle"]
  /\ call \in {f \in [Attempts -> Call] : \A a \in Attempts : f[a] \in Arguments(a)}
  /\ reply = [a \in Attempts |-> Nothing]
  /\ resends = [a \in Attempts |-> 0]
  /\ net = {}
  /\ token = [a \in Attempts |-> 0]
  /\ retries = [a \in Attempts |-> 0]
  /\ after = [a \in Attempts |-> "aborted"]

-----------------------------------------------------------------------------
\* Remote calls.

\* Nobody waits any more for what attempt a has on its way.
Abandoned(a) ==
  {IF m.att = a THEN [m EXCEPT !.awaited = FALSE] ELSE m : m \in net}

\* Attempt a goes to location w and waits there for the answer to a new call.
Send(a, w, t) ==
  /\ pc' = [pc EXCEPT ![a] = w]
  /\ net' = Abandoned(a) \union
       {[att |-> a, op |-> OpAt[w], token |-> t, awaited |-> TRUE]}
  /\ reply' = [reply EXCEPT ![a] = Nothing]
  /\ resends' = [resends EXCEPT ![a] = 0]

\* Attempt a goes to location w without calling.
Move(a, w) ==
  /\ pc' = [pc EXCEPT ![a] = w]
  /\ net' = Abandoned(a)
  /\ reply' = [reply EXCEPT ![a] = Nothing]
  /\ resends' = [resends EXCEPT ![a] = 0]

\* Mutant of CanResend: the retry budget is never looked at.
CanResend_Unbounded(a) == reply[a].kind = "notLeader"

\* _request repeats a call that a marked 503 not_leader refused.
CanResend(a) == reply[a].kind = "notLeader" /\ resends[a] < TransportRetries
Resend(a) ==
  /\ pc[a] \in Calling
  /\ CanResend(a)
  /\ resends' = [resends EXCEPT ![a] = @ + 1]
  /\ reply' = [reply EXCEPT ![a] = Nothing]
  /\ net' = net \union
       {[att |-> a, op |-> OpAt[pc[a]], awaited |-> TRUE,
         token |-> IF OpAt[pc[a]] \in {"renew", "release"} THEN token[a] ELSE 0]}
  /\ UNCHANGED <<nodeVars, pc, call, token, retries, after>>

\* The call in progress raises: a timeout, a lost answer, an error status, or
\* not_leader with no retry left.
Raises(a, w) ==
  /\ pc[a] = w
  /\ ~CanResend(a)

\* It returns an answer of kind k.
Returns(a, w, k) ==
  /\ pc[a] = w
  /\ reply[a].kind = k

\* _cancel_lock_wait; `end` is what becomes of the attempt if it succeeds.
CancelThen(a, end) ==
  /\ Send(a, "cancel", 0)
  /\ after' = [after EXCEPT ![a] = end]

\* _fencing_token accepts positive integers only.
Learn(a) == token' = [token EXCEPT ![a] = reply[a].token]

\* Mutant of ValidToken: the token is taken as it comes.
ValidToken_Unchecked(a) == TRUE
ValidToken(a) == reply[a].token > 0

Hold(a) == Move(a, "held")

-----------------------------------------------------------------------------
\* _acquire_lock, up to the answer of its first acquire.
Start(a) ==
  /\ pc[a] = "idle"
  /\ Send(a, "acquire", 0)
  /\ UNCHANGED <<nodeVars, call, token, retries, after>>

\* Mutant of FirstRaises: the exception is passed on without a cancel.
FirstRaises_NoCancel(a) ==
  /\ Raises(a, "acquire")
  /\ Move(a, "aborted")
  /\ UNCHANGED <<nodeVars, call, token, retries, after>>

FirstRaises(a) ==
  /\ Raises(a, "acquire")
  /\ CancelThen(a, "aborted")
  /\ UNCHANGED <<nodeVars, call, token, retries>>

FirstGranted(a) ==
  /\ Returns(a, "acquire", "granted")
  /\ IF ValidToken(a)
     THEN Learn(a) /\ Hold(a)
     ELSE Move(a, "unsafe") /\ UNCHANGED token
  /\ UNCHANGED <<nodeVars, call, retries, after>>

FirstRegranted(a) ==
  /\ Returns(a, "acquire", "regranted")
  /\ IF ValidToken(a)
     THEN Learn(a) /\ Send(a, "renewReacquired", reply[a].token)
     ELSE Move(a, "unsafe") /\ UNCHANGED token
  /\ UNCHANGED <<nodeVars, call, retries, after>>

FirstNotAcquired(a) ==
  /\ Returns(a, "acquire", "notAcquired")
  /\ Move(a, IF call[a].wait THEN "loop" ELSE "none")
  /\ UNCHANGED <<nodeVars, call, token, retries, after>>

\* The wait loop. The back-off doubles three times, up to its ceiling; Slept[n]
\* is what the first n sleeps take of max_wait_ms, the last one cut short by it.
\* The calls take any part of it too, so the deadline can pass at any turn.
Min2(m, n) == IF m <= n THEN m ELSE n
Delay(n) == Min2(RetryInterval * <<1, 2, 4, 8>>[1 + Min2(n, 3)], DelayCap)
Slept[n \in Nat] == IF n = 0 THEN 0 ELSE Min2(Slept[n - 1] + Delay(n - 1), MaxWait)

Sleeps(a) ==
  /\ pc[a] = "loop"
  /\ MaxRetries # NoLimit => retries[a] < MaxRetries
  /\ Slept[retries[a]] < MaxWait

Retry(a) ==
  /\ Sleeps(a)
  /\ retries' = [retries EXCEPT ![a] = @ + 1]
  /\ Send(a, "retry", 0)
  /\ UNCHANGED <<nodeVars, call, token, after>>

\* Mutant of Abort: the signal ends the wait without the cancel.
Abort_NoCancel(a) ==
  /\ Abortable
  /\ Sleeps(a)
  /\ Move(a, "aborted")
  /\ retries' = [retries EXCEPT ![a] = 0]
  /\ UNCHANGED <<nodeVars, call, token, after>>

\* LockAbortedError: the signal ends a sleep, and the finally clause cancels. It
\* ends no call in progress: what a call answered is looked at first.
Abort(a) ==
  /\ Abortable
  /\ Sleeps(a)
  /\ CancelThen(a, "aborted")
  /\ retries' = [retries EXCEPT ![a] = 0]
  /\ UNCHANGED <<nodeVars, call, token>>

\* Mutant of GiveUp: the wait is over without the cancel of the finally clause.
GiveUp_NoCancel(a) ==
  /\ pc[a] = "loop"
  /\ Move(a, "timeout")
  /\ retries' = [retries EXCEPT ![a] = 0]
  /\ UNCHANGED <<nodeVars, call, token, after>>

\* Mutant of GiveUp: only max_retries ends the wait, never the deadline.
GiveUp_RetriesOnly(a) ==
  /\ pc[a] = "loop"
  /\ retries[a] = MaxRetries
  /\ CancelThen(a, "timeout")
  /\ retries' = [retries EXCEPT ![a] = 0]
  /\ UNCHANGED <<nodeVars, call, token>>

\* MaxRetries is reached or nothing remains of max_wait_ms: return None, and
\* the finally clause cancels.
GiveUp(a) ==
  /\ pc[a] = "loop"
  /\ CancelThen(a, "timeout")
  /\ retries' = [retries EXCEPT ![a] = 0]
  /\ UNCHANGED <<nodeVars, call, token>>

RetryNotAcquired(a) ==
  /\ Returns(a, "retry", "notAcquired")
  /\ Move(a, "loop")
  /\ UNCHANGED <<nodeVars, call, token, retries, after>>

\* Mutant of RetryAcquired: the Lock is returned on the lease that was found.
RetryAcquired_NoRenewal(a) ==
  /\ \E k \in {"granted", "regranted"} : Returns(a, "retry", k)
  /\ Learn(a)
  /\ Hold(a)
  /\ retries' = [retries EXCEPT ![a] = 0]
  /\ UNCHANGED <<nodeVars, call, after>>

\* A retry finds the lock granted, perhaps long ago by a promotion: renew it.
RetryAcquired(a) ==
  /\ \E k \in {"granted", "regranted"} : Returns(a, "retry", k)
  /\ retries' = [retries EXCEPT ![a] = 0]
  /\ IF ValidToken(a)
     THEN /\ Learn(a)
          /\ Send(a, "renewFound", reply[a].token)
          /\ UNCHANGED after
     ELSE CancelThen(a, "aborted") /\ UNCHANGED token
  /\ UNCHANGED <<nodeVars, call>>

\* Mutant of RetryRaises: the wait loop swallows the exception and goes on.
RetryRaises_Swallowed(a) ==
  /\ Raises(a, "retry")
  /\ Move(a, "loop")
  /\ UNCHANGED <<nodeVars, call, token, retries, after>>

RetryRaises(a) ==
  /\ Raises(a, "retry")
  /\ retries' = [retries EXCEPT ![a] = 0]
  /\ CancelThen(a, "aborted")
  /\ UNCHANGED <<nodeVars, call, token>>

\* The renewal of a reacquired or found grant, before the Lock is returned.
RenewSucceeds(a) ==
  /\ \E w \in {"renewReacquired", "renewFound"} : Returns(a, w, "renewed")
  /\ Hold(a)
  /\ UNCHANGED <<nodeVars, call, token, retries, after>>

RenewFails(a) ==
  /\ \E w \in {"renewReacquired", "renewFound"} :
       Returns(a, w, "notRenewed") \/ Raises(a, w)
  /\ CancelThen(a, "aborted")
  /\ UNCHANGED <<nodeVars, call, token, retries>>

-----------------------------------------------------------------------------
\* Mutant of CancelSucceeds: cancellation_capacity counts as a cancellation.
CancelSucceeds_AnyAnswer(a) ==
  /\ \E k \in {"cancelled", "capacity"} : Returns(a, "cancel", k)
  /\ Move(a, after[a])
  /\ UNCHANGED <<nodeVars, call, token, retries, after>>

\* _cancel_lock_wait: a raced grant is released, and anything but a proof that
\* the attempt is gone is an error.
CancelSucceeds(a) ==
  /\ Returns(a, "cancel", "cancelled")
  /\ Move(a, after[a])
  /\ UNCHANGED <<nodeVars, call, token, retries, after>>

\* Mutant of CancelRaces: the raced grant is left to its TTL.
CancelRaces_NoRelease(a) ==
  /\ Returns(a, "cancel", "raced")
  /\ Move(a, after[a])
  /\ UNCHANGED <<nodeVars, call, token, retries, after>>

CancelRaces(a) ==
  /\ Returns(a, "cancel", "raced")
  /\ IF ValidToken(a)
     THEN Learn(a) /\ Send(a, "releaseRaced", reply[a].token)
     ELSE Move(a, "unsafe") /\ UNCHANGED token
  /\ UNCHANGED <<nodeVars, call, retries, after>>

CancelFails(a) ==
  /\ Raises(a, "cancel") \/ Returns(a, "cancel", "capacity")
  /\ Move(a, "unsafe")
  /\ UNCHANGED <<nodeVars, call, token, retries, after>>

RacedReleased(a) ==
  /\ Returns(a, "releaseRaced", "released")
  /\ Move(a, after[a])
  /\ UNCHANGED <<nodeVars, call, token, retries, after>>

RacedReleaseFails(a) ==
  /\ Raises(a, "releaseRaced") \/ Returns(a, "releaseRaced", "notReleased")
  /\ Move(a, "unsafe")
  /\ UNCHANGED <<nodeVars, call, token, retries, after>>

-----------------------------------------------------------------------------
\* The Lock that was returned.
Renew(a) ==
  /\ pc[a] = "held"
  /\ Send(a, "renewing", token[a])
  /\ UNCHANGED <<nodeVars, call, token, retries, after>>

\* Lock.renew raises when authority is lost, and the work under it must stop;
\* an exception of the call itself leaves the Lock as it was.
RenewAnswered(a) ==
  /\ \/ Returns(a, "renewing", "renewed") /\ Hold(a)
     \/ Returns(a, "renewing", "notRenewed") /\ Move(a, "lost")
     \/ Raises(a, "renewing") /\ Move(a, "held")
  /\ UNCHANGED <<nodeVars, call, token, retries, after>>

\* Lock.release, __exit__ and with_lock: one call, whose answer is not read.
Release(a) ==
  /\ pc[a] \in {"held", "lost"}
  /\ Send(a, "releasing", token[a])
  /\ UNCHANGED <<nodeVars, call, token, retries, after>>

ReleaseEnds(a) ==
  /\ \/ Raises(a, "releasing")
     \/ \E k \in {"released", "notReleased"} : Returns(a, "releasing", k)
  /\ Move(a, "released")
  /\ UNCHANGED <<nodeVars, call, token, retries, after>>

\* The process dies; what it sent stays on its way.
Crash(a) ==
  /\ pc[a] \notin Ended \union {"idle"}
  /\ Move(a, "crashed")
  /\ UNCHANGED <<nodeVars, call, token, retries, after>>

=============================================================================
