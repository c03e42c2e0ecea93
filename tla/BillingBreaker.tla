--------------------------- MODULE BillingBreaker ---------------------------
(***************************************************************************)
(* The circuit breaker in front of the platform's wallet calls             *)
(* (pkg/common/billing_breaker.go), the client that turns HTTP replies     *)
(* into errors (billing_client.go), and the degraded admission that reads  *)
(* the breaker when a pre-authorization fails (billing_cache.go).          *)
(*                                                                         *)
(* One replica: the breaker is process-local.  Callers are the goroutines  *)
(* of concurrent requests, each making one wallet call after another.      *)
(***************************************************************************)
EXTENDS Integers

CONSTANTS
  Callers,
  Replies,         \* what the platform may reply: [op, status, balance]
  Threshold,       \* BillingBreakerDefaultThreshold
  Timeout,         \* BillingBreakerDefaultTimeout
  HalfOpenTimeout, \* BillingBreakerDefaultHalfOpenTimeout
  CallTimeout,     \* deadline of a wallet call
  MaxCancels       \* bound on calls abandoned by their own caller

Ops == {"preauth", "settle", "release"}

ASSUME BreakerAssumption ==
  /\ Threshold \in Nat \ {0} /\ Timeout \in Nat /\ HalfOpenTimeout \in Nat
  /\ CallTimeout \in Nat /\ MaxCancels \in Nat
  /\ Replies \subseteq [op : Ops, status : 200 .. 599, balance : BOOLEAN]

\* 5s against 15s: no call outlives the cooldown or the probe deadline.
ASSUME CallsEndInTime == CallTimeout < Timeout /\ CallTimeout < HalfOpenTimeout

VARIABLES
  state, fails,        \* platformBreaker.state, consecutiveFails (up to Threshold)
  sinceFail,           \* time since lastFailTime, up to Timeout
  sinceProbe,          \* time since halfOpenSince, up to HalfOpenTimeout
  pc, op,              \* where each caller is, and which call it makes
  elapsed,             \* how long its call has been running
  err,                 \* the error its pre-authorization came back with
  up,                  \* whether the platform answers
  cancels,
  probe,               \* ghost: the call holds the probe slot
  verdict,             \* ghost: whether the platform refused this call with a 4xx, and
                       \* whether in a form the client knows
  unsecured,           \* ghost: the request was admitted without a hold
  outages,             \* ghost: calls in a row without an answer the client knows
  misread              \* ghost: a 4xx refusal is among them

breakerVars == <<state, fails, sinceFail, sinceProbe>>
callVars == <<pc, op, elapsed, err, probe, verdict, unsecured>>
ghosts == <<outages, misread>>
vars == <<breakerVars, callVars, up, cancels, ghosts>>

Errors == {"nil", "insufficient", "rejected", "bare"}
Verdicts == {"none", "known", "unknown"}

TypeOK ==
  /\ state \in {"closed", "open", "half_open"}
  /\ fails \in 0 .. Threshold
  /\ sinceFail \in 0 .. Timeout /\ sinceProbe \in 0 .. HalfOpenTimeout
  /\ pc \in [Callers -> {"idle", "calling", "failed"}]
  /\ op \in [Callers -> Ops]
  /\ elapsed \in [Callers -> 0 .. CallTimeout]
  /\ err \in [Callers -> Errors]
  /\ up \in BOOLEAN /\ cancels \in 0 .. MaxCancels
  /\ probe \in [Callers -> BOOLEAN] /\ verdict \in [Callers -> Verdicts]
  /\ unsecured \in [Callers -> BOOLEAN]
  /\ outages \in 0 .. Threshold /\ misread \in BOOLEAN

Init ==
  /\ state = "closed" /\ fails = 0
  /\ sinceFail = Timeout /\ sinceProbe = HalfOpenTimeout
  /\ pc = [c \in Callers |-> "idle"]
  /\ op = [c \in Callers |-> "preauth"]
  /\ elapsed = [c \in Callers |-> 0]
  /\ err = [c \in Callers |-> "nil"]
  /\ up \in BOOLEAN /\ cancels = 0
  /\ probe = [c \in Callers |-> FALSE]
  /\ verdict = [c \in Callers |-> "none"]
  /\ unsecured = [c \in Callers |-> FALSE]
  /\ outages = 0 /\ misread = FALSE

Capped(n, max) == IF n < max THEN n + 1 ELSE max

-----------------------------------------------------------------------------
\* The client: which error a reply becomes.

\* Mutant: a 400 of a pre-authorization reads like a missing platform.
PreAuthorizeBare(r) ==
  IF r.status \in {400, 402, 409} /\ r.balance THEN "insufficient"
  ELSE IF r.status \in {200, 201} THEN "nil" ELSE "bare"

\* PreAuthorize
PreAuthorize(r) ==
  IF r.status \in {400, 402, 409} /\ r.balance THEN "insufficient"
  ELSE IF r.status = 400 THEN "rejected"
  ELSE IF r.status \in {200, 201} THEN "nil" ELSE "bare"

isPreAuthVerdict(r) == r.status \in {400, 404, 409}

\* SettlePreAuth and ReleasePreAuth
ClosePreAuth(r) ==
  IF r.status = 200 THEN "nil"
  ELSE IF isPreAuthVerdict(r) THEN "rejected" ELSE "bare"

ClientError(r) == IF r.op = "preauth" THEN PreAuthorize(r) ELSE ClosePreAuth(r)

platformAnswered(e) == e \in {"insufficient", "rejected"}

-----------------------------------------------------------------------------
\* The breaker.

\* Mutant: a half-open breaker never hands its slot out again.
AllowsNoRearm ==
  \/ state = "closed"
  \/ state = "open" /\ sinceFail = Timeout

\* Mutant: a half-open breaker lets every caller through.
AllowsEarly ==
  \/ state = "closed"
  \/ state = "open" /\ sinceFail = Timeout
  \/ state = "half_open"

\* BillingBreakerAllow: whether a call may go out.
Allows ==
  \/ state = "closed"
  \/ state = "open" /\ sinceFail = Timeout
  \/ state = "half_open" /\ sinceProbe = HalfOpenTimeout

\* BillingBreakerAllow: the caller walks away with the probe slot.
TakeSlot ==
  IF state = "closed" THEN UNCHANGED <<state, sinceProbe>>
  ELSE state' = "half_open" /\ sinceProbe' = 0

\* BillingBreakerSuccess
BillingBreakerSuccess ==
  /\ state' = "closed" /\ fails' = 0
  /\ UNCHANGED <<sinceFail, sinceProbe>>

\* BillingBreakerFailure
BillingBreakerFailure ==
  /\ fails' = Capped(fails, Threshold)
  /\ sinceFail' = 0
  /\ state' = IF state = "half_open" \/ fails' = Threshold THEN "open" ELSE state
  /\ UNCHANGED sinceProbe

\* recordBillingOutcome, for a caller that is still there
recordBillingOutcome(e) ==
  IF e = "nil" \/ platformAnswered(e) THEN BillingBreakerSuccess ELSE BillingBreakerFailure

-----------------------------------------------------------------------------
\* PreAuthorizeWithBreaker, SettleWithBreaker, ReleaseWithBreaker: the gate.
Gate(c, o) ==
  /\ pc[c] = "idle"
  /\ op' = [op EXCEPT ![c] = o]
  /\ elapsed' = [elapsed EXCEPT ![c] = 0]
  /\ verdict' = [verdict EXCEPT ![c] = "none"]
  /\ unsecured' = [unsecured EXCEPT ![c] = FALSE]
  /\ \/ /\ Allows
        /\ TakeSlot
        /\ pc' = [pc EXCEPT ![c] = "calling"]
        /\ err' = [err EXCEPT ![c] = "nil"]
        /\ probe' = [probe EXCEPT ![c] = state # "closed"]
     \/ /\ ~Allows
        /\ pc' = [pc EXCEPT ![c] = IF o = "preauth" THEN "failed" ELSE "idle"]
        /\ err' = [err EXCEPT ![c] = "bare"]
        /\ UNCHANGED <<state, sinceProbe, probe>>
  /\ UNCHANGED <<fails, sinceFail, up, cancels, ghosts>>

\* The call returns e, with the platform's verdict v on it.  A failed
\* pre-authorization goes on to TryDegradedPreAuth, a failed settle or release
\* to the outbox.
Return(c, e, v) ==
  /\ pc' = [pc EXCEPT ![c] = IF e # "nil" /\ op[c] = "preauth" THEN "failed" ELSE "idle"]
  /\ err' = [err EXCEPT ![c] = e]
  /\ verdict' = [verdict EXCEPT ![c] = v]
  /\ probe' = [probe EXCEPT ![c] = FALSE]
  /\ elapsed' = [elapsed EXCEPT ![c] = 0]
  /\ UNCHANGED <<op, unsecured, up>>

\* The platform has said something the client has words for: done, malformed, out
\* of money, or, of a hold, gone.
Explained(r) ==
  \/ r.status \in {200, 400}
  \/ r.op = "preauth" /\ r.status = 201
  \/ r.op = "preauth" /\ r.status \in {402, 409} /\ r.balance
  \/ r.op # "preauth" /\ r.status \in {404, 409}

Refused(r) == r.status \in 400 .. 499

\* The platform replies.
Reply(c, r) ==
  /\ pc[c] = "calling" /\ up /\ r.op = op[c]
  /\ Return(c, ClientError(r),
            IF ~Refused(r) THEN "none" ELSE IF Explained(r) THEN "known" ELSE "unknown")
  /\ outages' = IF Explained(r) THEN 0 ELSE Capped(outages, Threshold)
  /\ misread' = (~Explained(r) /\ (misread \/ Refused(r)))
  /\ recordBillingOutcome(ClientError(r))
  /\ UNCHANGED cancels

\* The platform is unreachable, or does not reply within the deadline.
NoReply(c) ==
  /\ pc[c] = "calling" /\ ~up
  /\ Return(c, "bare", "none")
  /\ recordBillingOutcome("bare")
  /\ outages' = Capped(outages, Threshold)
  /\ UNCHANGED <<cancels, misread>>

\* Our own caller gives up (context canceled): nothing is recorded, and the
\* abandoned pre-authorization fails like any other.
Cancel(c) ==
  /\ pc[c] = "calling" /\ cancels < MaxCancels
  /\ cancels' = cancels + 1
  /\ Return(c, "bare", "none")
  /\ UNCHANGED <<breakerVars, ghosts>>

\* Mutant: the degraded path does not ask whether the platform answered.
degradeAdmissibleAny(e) == state = "open"

\* degradeAdmissible, the cached balance being fresh and ample
degradeAdmissible(e) == state = "open" /\ ~platformAnswered(e)

\* TryDegradedPreAuth after a failed pre-authorization.  The cached balance and
\* the spend cap may refuse in any case.
TryDegradedPreAuth(c) ==
  /\ pc[c] = "failed"
  /\ \E admit \in {FALSE, degradeAdmissible(err[c])} :
       unsecured' = [unsecured EXCEPT ![c] = admit]
  /\ pc' = [pc EXCEPT ![c] = "idle"]
  /\ UNCHANGED <<breakerVars, op, elapsed, err, probe, verdict, up, cancels, ghosts>>

\* The platform goes down or comes back.
Outage ==
  /\ up' = ~up
  /\ UNCHANGED <<breakerVars, callVars, cancels, ghosts>>

\* A unit of time passes; every call ends by its deadline.
Tick ==
  /\ \A c \in Callers : pc[c] = "calling" => elapsed[c] < CallTimeout
  /\ elapsed' = [c \in Callers |-> IF pc[c] = "calling" THEN elapsed[c] + 1 ELSE 0]
  /\ sinceFail' = Capped(sinceFail, Timeout)
  /\ sinceProbe' = Capped(sinceProbe, HalfOpenTimeout)
  /\ UNCHANGED <<state, fails, pc, op, err, probe, verdict, unsecured, up, cancels, ghosts>>

Next ==
  \/ \E c \in Callers :
       \/ \E o \in Ops : Gate(c, o)
       \/ \E r \in Replies : Reply(c, r)
       \/ NoReply(c) \/ Cancel(c) \/ TryDegradedPreAuth(c)
  \/ Outage \/ Tick

Spec == Init /\ [][Next]_vars

\* Requests keep coming, calls end, time passes.
LiveSpec ==
  /\ Spec /\ WF_vars(Tick)
  /\ \A c \in Callers :
       /\ WF_vars(\E o \in Ops : Gate(c, o))
       /\ WF_vars((\E r \in Replies : Reply(c, r)) \/ NoReply(c))
       /\ WF_vars(TryDegradedPreAuth(c))

-----------------------------------------------------------------------------
Probing(c) == pc[c] = "calling" /\ probe[c]

\* "one probe request allowed": while the breaker is not closed, no two calls
\* hold a probe slot at the same time, the half-open re-arm included.
OneProbe == \A c, d \in Callers : Probing(c) /\ Probing(d) => c = d

\* The breaker leaves closed only on Threshold calls in a row that brought no answer
\* the client knows, however calls, probes, cancellations and late failures interleave
\* ("only failures to get an answer count against it").
OpenMeansOutage == state # "closed" => outages = Threshold

\* A request is served without a hold only while the breaker's last Threshold calls all
\* went without such an answer, its own refused by the platform in no form the client
\* knows (TryDegradedPreAuth: "the breaker is actually OPEN", "the platform did NOT
\* answer this request").
DegradedOnlyInOutage ==
  [][\A c \in Callers :
       unsecured'[c] /\ ~unsecured[c] => outages = Threshold /\ verdict[c] # "known"]_vars

\* "a verdict (insufficient balance, any other 4xx refusal) is the platform up and
\* answering: a success": no refusal is among the calls that opened the breaker.
OpenMeansSilence == state # "closed" => ~misread

\* "a 4xx verdict ... every one of them still fails closed": no request that
\* the platform refused is admitted on the cached balance.
VerdictFailsClosed == \A c \in Callers : unsecured[c] => verdict[c] = "none"

\* Once the platform answers for good, in forms the client knows, billing calls go
\* through again: no abandoned probe wedges the breaker.
Recovers == <>[](up /\ ~misread) => <>[](state = "closed")
=============================================================================
