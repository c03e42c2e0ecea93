------------------------ MODULE BillingBreakerProofs ------------------------
(***************************************************************************)
(* The breaker's probe slot, for any number of callers and any timeouts    *)
(* that outlast a call; and, for any replies, that only calls in a row     *)
(* without an answer the client knows open the breaker, and only then is a *)
(* request served without a hold.  Then how far the unsecured spend of a   *)
(* tenant can pass its cap while the breaker is open, for any number of    *)
(* concurrent handlers, estimates and faults.                              *)
(***************************************************************************)
EXTENDS BillingBreaker, DegradedSpend, FiniteSetTheorems, TLAPS

ProbeTypes ==
  /\ state \in {"closed", "open", "half_open"}
  /\ sinceFail \in 0 .. Timeout /\ sinceProbe \in 0 .. HalfOpenTimeout
  /\ pc \in [Callers -> {"idle", "calling", "failed"}]
  /\ elapsed \in [Callers -> 0 .. CallTimeout]
  /\ probe \in [Callers -> BOOLEAN]

\* A probe in flight is at least as old as the slot it was handed, and as the
\* failure that reopened the breaker over it.
ProbeAge ==
  \A c \in Callers : Probing(c) =>
    /\ state = "half_open" => elapsed[c] >= sinceProbe
    /\ state = "open" => elapsed[c] >= sinceFail

ProbeInv == ProbeTypes /\ ProbeAge /\ OneProbe

\* Recording an outcome closes the breaker or stamps a fresh failure.
LEMMA OutcomeStamps ==
  ASSUME ProbeTypes, NEW e, recordBillingOutcome(e)
  PROVE  /\ state' = "closed" \/ (state' = "open" /\ sinceFail' = 0)
         /\ sinceFail' \in 0 .. Timeout /\ sinceProbe' = sinceProbe
<1>1. CASE BillingBreakerSuccess
  BY <1>1 DEF BillingBreakerSuccess, ProbeTypes
<1>2. CASE BillingBreakerFailure
  <2>1. Timeout \in Nat
    BY BreakerAssumption
  <2> QED BY <1>2, <2>1 DEF BillingBreakerFailure, ProbeTypes
<1> QED BY <1>1, <1>2 DEF recordBillingOutcome

\* A call that ends with an outcome lets go of its slot.
LEMMA ReturnProbe ==
  ASSUME ProbeInv, NEW c \in Callers, NEW e, NEW v,
         Return(c, e, v), \E x : recordBillingOutcome(x)
  PROVE  ProbeInv'
<1>1. /\ state' = "closed" \/ (state' = "open" /\ sinceFail' = 0)
      /\ sinceFail' \in 0 .. Timeout /\ sinceProbe' = sinceProbe
  BY OutcomeStamps DEF ProbeInv
<1>2. /\ pc' = [pc EXCEPT ![c] = IF e # "nil" /\ op[c] = "preauth" THEN "failed" ELSE "idle"]
      /\ probe' = [probe EXCEPT ![c] = FALSE]
      /\ elapsed' = [elapsed EXCEPT ![c] = 0]
  BY DEF Return
<1>3. ProbeTypes'
  <2>1. CallTimeout \in Nat
    BY BreakerAssumption
  <2>2. /\ pc' \in [Callers -> {"idle", "calling", "failed"}]
        /\ probe' \in [Callers -> BOOLEAN] /\ elapsed' \in [Callers -> 0 .. CallTimeout]
    BY <1>2, <2>1 DEF ProbeInv, ProbeTypes
  <2> QED BY <1>1, <2>2 DEF ProbeInv, ProbeTypes
<1>4. \A d \in Callers : Probing(d)' => d # c /\ Probing(d) /\ elapsed'[d] = elapsed[d]
  BY <1>2 DEF Probing, ProbeInv, ProbeTypes
<1>5. OneProbe'
  BY <1>4 DEF OneProbe, ProbeInv
<1>6. \A d \in Callers : elapsed'[d] >= 0
  BY <1>3, BreakerAssumption DEF ProbeTypes
<1>7. ProbeAge'
  BY <1>1, <1>6 DEF ProbeAge
<1> QED BY <1>3, <1>5, <1>7 DEF ProbeInv

\* The slot is handed out only when no probe is left in flight.
LEMMA GateProbe ==
  ASSUME ProbeInv, NEW c \in Callers, NEW o \in Ops, Gate(c, o)
  PROVE  ProbeInv'
<1>1. /\ pc[c] = "idle" /\ elapsed' = [elapsed EXCEPT ![c] = 0]
      /\ sinceFail' = sinceFail
  BY DEF Gate
<1>2. CallTimeout \in Nat /\ Timeout \in Nat /\ HalfOpenTimeout \in Nat
  BY BreakerAssumption
<1>3. elapsed' \in [Callers -> 0 .. CallTimeout]
  BY <1>1, <1>2 DEF ProbeInv, ProbeTypes
<1>4. CASE ~Allows
  <2>1. /\ pc' = [pc EXCEPT ![c] = IF o = "preauth" THEN "failed" ELSE "idle"]
        /\ state' = state /\ sinceProbe' = sinceProbe /\ probe' = probe
    BY <1>4 DEF Gate
  <2>2. ProbeTypes'
    BY <1>1, <1>3, <2>1 DEF ProbeInv, ProbeTypes
  <2>3. \A d \in Callers : Probing(d)' => Probing(d) /\ elapsed'[d] = elapsed[d]
    BY <1>1, <2>1 DEF Probing, ProbeInv, ProbeTypes
  <2> QED BY <1>1, <2>1, <2>2, <2>3 DEF ProbeInv, ProbeAge, OneProbe
<1>5. CASE Allows
  <2>1. /\ TakeSlot
        /\ pc' = [pc EXCEPT ![c] = "calling"]
        /\ probe' = [probe EXCEPT ![c] = state # "closed"]
    BY <1>5 DEF Gate
  <2>2. ProbeTypes'
    BY <1>1, <1>2, <1>3, <2>1 DEF TakeSlot, ProbeInv, ProbeTypes
  <2>3. \A d \in Callers \ {c} : (Probing(d)' <=> Probing(d)) /\ elapsed'[d] = elapsed[d]
    BY <1>1, <2>1 DEF Probing, ProbeInv, ProbeTypes
  <2>4. elapsed'[c] = 0 /\ ~Probing(c) /\ (Probing(c)' <=> state # "closed")
    BY <1>1, <2>1 DEF Probing, ProbeInv, ProbeTypes
  <2>5. CASE state = "closed"
    <3>1. state' = "closed" /\ sinceProbe' = sinceProbe
      BY <2>1, <2>5 DEF TakeSlot
    <3>2. ProbeAge' /\ OneProbe'
      BY <2>3, <2>4, <2>5, <3>1 DEF ProbeInv, ProbeAge, OneProbe
    <3> QED BY <2>2, <3>2 DEF ProbeInv
  <2>6. CASE state # "closed"
    <3>1. state' = "half_open" /\ sinceProbe' = 0
      BY <2>1, <2>6 DEF TakeSlot
    <3>2. ASSUME NEW d \in Callers, Probing(d) PROVE FALSE
      <4>1. elapsed[d] \in 0 .. CallTimeout
        BY DEF ProbeInv, ProbeTypes
      <4>2. \/ state = "open" /\ sinceFail = Timeout
            \/ state = "half_open" /\ sinceProbe = HalfOpenTimeout
        BY <1>5, <2>6 DEF Allows
      <4>3. \/ elapsed[d] >= Timeout
            \/ elapsed[d] >= HalfOpenTimeout
        BY <3>2, <4>2 DEF ProbeInv, ProbeAge
      <4> QED BY <1>2, <4>1, <4>3, CallsEndInTime
    <3>3. \A d \in Callers : Probing(d)' => d = c
      BY <2>3, <3>2
    <3>4. OneProbe'
      BY <3>3 DEF OneProbe
    <3>5. ProbeAge'
      BY <2>4, <3>1, <3>3 DEF ProbeAge
    <3> QED BY <2>2, <3>4, <3>5 DEF ProbeInv
  <2> QED BY <2>5, <2>6
<1> QED BY <1>4, <1>5

\* Time ages the probe and its slot alike.
LEMMA TickProbe ==
  ASSUME ProbeInv, Tick
  PROVE  ProbeInv'
<1>1. /\ state' = state /\ pc' = pc /\ probe' = probe
      /\ elapsed' = [c \in Callers |-> IF pc[c] = "calling" THEN elapsed[c] + 1 ELSE 0]
      /\ \A c \in Callers : pc[c] = "calling" => elapsed[c] < CallTimeout
      /\ sinceFail' = Capped(sinceFail, Timeout)
      /\ sinceProbe' = Capped(sinceProbe, HalfOpenTimeout)
  BY DEF Tick
<1>2. CallTimeout \in Nat /\ Timeout \in Nat /\ HalfOpenTimeout \in Nat
  BY BreakerAssumption
<1>3. /\ sinceFail' \in 0 .. Timeout /\ sinceFail' <= sinceFail + 1
      /\ sinceProbe' \in 0 .. HalfOpenTimeout /\ sinceProbe' <= sinceProbe + 1
  BY <1>1, <1>2 DEF Capped, ProbeInv, ProbeTypes
<1>4. elapsed' \in [Callers -> 0 .. CallTimeout]
  BY <1>1, <1>2 DEF ProbeInv, ProbeTypes
<1>5. ProbeTypes'
  BY <1>1, <1>3, <1>4 DEF ProbeInv, ProbeTypes
<1>6. OneProbe'
  BY <1>1 DEF ProbeInv, OneProbe, Probing
<1>7. ASSUME NEW c \in Callers, Probing(c)'
      PROVE /\ state' = "half_open" => elapsed'[c] >= sinceProbe'
            /\ state' = "open" => elapsed'[c] >= sinceFail'
  <2>1. Probing(c) /\ elapsed'[c] = elapsed[c] + 1
    BY <1>1, <1>7 DEF Probing
  <2>2. elapsed[c] \in Nat /\ sinceFail \in Nat /\ sinceProbe \in Nat
    BY <1>2 DEF ProbeInv, ProbeTypes
  <2>3. /\ state = "half_open" => elapsed[c] >= sinceProbe
        /\ state = "open" => elapsed[c] >= sinceFail
    BY <2>1 DEF ProbeInv, ProbeAge
  <2> QED BY <1>1, <1>2, <1>3, <2>1, <2>2, <2>3
<1>8. ProbeAge'
  BY <1>7 DEF ProbeAge
<1> QED BY <1>5, <1>6, <1>8 DEF ProbeInv

\* The invariant of every step.
LEMMA ProbeStep == ProbeInv /\ [Next]_vars => ProbeInv'
<1> SUFFICES ASSUME ProbeInv, [Next]_vars PROVE ProbeInv'
  OBVIOUS
<1>1. ASSUME NEW c \in Callers, NEW r \in Replies, Reply(c, r) PROVE ProbeInv'
  BY <1>1, ReturnProbe DEF Reply
<1>2. ASSUME NEW c \in Callers, NoReply(c) PROVE ProbeInv'
  BY <1>2, ReturnProbe DEF NoReply
<1>3. ASSUME NEW c \in Callers, Cancel(c) PROVE ProbeInv'
  <2>1. /\ pc' = [pc EXCEPT ![c] = IF op[c] = "preauth" THEN "failed" ELSE "idle"]
        /\ probe' = [probe EXCEPT ![c] = FALSE]
        /\ elapsed' = [elapsed EXCEPT ![c] = 0]
        /\ state' = state /\ sinceFail' = sinceFail /\ sinceProbe' = sinceProbe
    BY <1>3 DEF Cancel, Return, breakerVars
  <2>2. ProbeTypes'
    BY <2>1, BreakerAssumption DEF ProbeInv, ProbeTypes
  <2>3. \A d \in Callers : Probing(d)' => Probing(d) /\ elapsed'[d] = elapsed[d]
    BY <2>1 DEF Probing, ProbeInv, ProbeTypes
  <2> QED BY <2>1, <2>2, <2>3 DEF ProbeInv, ProbeAge, OneProbe
<1>4. ASSUME NEW c \in Callers, TryDegradedPreAuth(c) PROVE ProbeInv'
  <2>1. /\ pc[c] = "failed" /\ pc' = [pc EXCEPT ![c] = "idle"] /\ probe' = probe /\ elapsed' = elapsed
        /\ state' = state /\ sinceFail' = sinceFail /\ sinceProbe' = sinceProbe
    BY <1>4 DEF TryDegradedPreAuth, breakerVars
  <2>2. ProbeTypes'
    BY <2>1 DEF ProbeInv, ProbeTypes
  <2>3. \A d \in Callers : Probing(d)' => Probing(d)
    BY <2>1 DEF Probing, ProbeInv, ProbeTypes
  <2> QED BY <2>1, <2>2, <2>3 DEF ProbeInv, ProbeAge, OneProbe
<1>5. ASSUME UNCHANGED <<breakerVars, callVars>> PROVE ProbeInv'
  BY <1>5 DEF breakerVars, callVars, ProbeInv, ProbeTypes, ProbeAge, OneProbe, Probing
<1>6. ASSUME Outage PROVE ProbeInv'
  BY <1>5, <1>6 DEF Outage
<1>7. ASSUME UNCHANGED vars PROVE ProbeInv'
  BY <1>5, <1>7 DEF vars
<1> QED BY <1>1, <1>2, <1>3, <1>4, <1>6, <1>7, GateProbe, TickProbe DEF Next

\* BillingBreakerAllow never has two probes in flight, although the half-open
\* slot is handed out again at its deadline and failures of calls from before
\* the breaker opened restart the cooldown under a running probe.
THEOREM OneProbeCorrect == Spec => []OneProbe
<1>1. Init => ProbeInv
  BY BreakerAssumption DEF Init, ProbeInv, ProbeTypes, ProbeAge, OneProbe, Probing
<1>2. ProbeInv => OneProbe
  BY DEF ProbeInv
<1> QED BY <1>1, <1>2, ProbeStep, PTL DEF Spec

-----------------------------------------------------------------------------
\* The calls that open the breaker

OutageInv ==
  /\ fails \in 0 .. Threshold /\ outages = fails
  /\ state # "closed" => fails = Threshold

\* The client has an error that counts as an answer for the replies it can explain,
\* and for no other.
LEMMA AnswerExplained ==
  ASSUME NEW r \in Replies
  PROVE  ClientError(r) = "nil" \/ platformAnswered(ClientError(r)) <=> Explained(r)
<1>1. r.op \in Ops /\ r.status \in Int /\ r.balance \in BOOLEAN
  BY BreakerAssumption
<1>2. CASE r.op = "preauth"
  BY <1>1, <1>2 DEF Explained, platformAnswered, ClientError, PreAuthorize
<1>3. CASE r.op # "preauth"
  BY <1>1, <1>3 DEF Explained, platformAnswered, ClientError, ClosePreAuth, isPreAuthVerdict
<1> QED BY <1>2, <1>3

\* The breaker's count is the number of calls in a row without such an answer.
LEMMA OutageStep == OutageInv /\ [Next]_vars => OutageInv'
<1> SUFFICES ASSUME OutageInv, [Next]_vars PROVE OutageInv'
  OBVIOUS
<1>1. Threshold \in Nat
  BY BreakerAssumption
<1>2. ASSUME BillingBreakerSuccess, outages' = 0 PROVE OutageInv'
  BY <1>1, <1>2 DEF BillingBreakerSuccess, OutageInv
<1>3. ASSUME BillingBreakerFailure, outages' = Capped(outages, Threshold) PROVE OutageInv'
  BY <1>1, <1>3 DEF BillingBreakerFailure, OutageInv, Capped
<1>4. ASSUME NEW c \in Callers, NEW r \in Replies, Reply(c, r) PROVE OutageInv'
  <2>1. /\ outages' = IF Explained(r) THEN 0 ELSE Capped(outages, Threshold)
        /\ recordBillingOutcome(ClientError(r))
    BY <1>4 DEF Reply
  <2>2. CASE Explained(r)
    BY <1>2, <2>1, <2>2, AnswerExplained DEF recordBillingOutcome
  <2>3. CASE ~Explained(r)
    BY <1>3, <2>1, <2>3, AnswerExplained DEF recordBillingOutcome
  <2> QED BY <2>2, <2>3
<1>5. ASSUME NEW c \in Callers, NoReply(c) PROVE OutageInv'
  BY <1>3, <1>5 DEF NoReply, recordBillingOutcome, platformAnswered
<1>6. ASSUME NEW c \in Callers, NEW o \in Ops, Gate(c, o) PROVE OutageInv'
  <2>1. fails' = fails /\ outages' = outages /\ (state' # "closed" => state # "closed")
    BY <1>6 DEF Gate, TakeSlot, ghosts
  <2> QED BY <2>1 DEF OutageInv
<1>7. ASSUME UNCHANGED <<state, fails, outages>> PROVE OutageInv'
  BY <1>7 DEF OutageInv
<1>8. ASSUME NEW c \in Callers, Cancel(c) \/ TryDegradedPreAuth(c) PROVE OutageInv'
  BY <1>7, <1>8 DEF Cancel, TryDegradedPreAuth, breakerVars, ghosts
<1>9. ASSUME Outage \/ Tick \/ UNCHANGED vars PROVE OutageInv'
  BY <1>7, <1>9 DEF Outage, Tick, vars, breakerVars, ghosts
<1> QED BY <1>4, <1>5, <1>6, <1>8, <1>9 DEF Next

\* Whatever the platform replies, the breaker leaves closed only on Threshold calls in a
\* row that brought no answer the client knows: neither a late failure of a call from
\* before the breaker closed nor an abandoned probe opens it (recordBillingOutcome).
THEOREM OpenMeansOutageCorrect == Spec => []OpenMeansOutage
<1>1. Init => OutageInv
  BY BreakerAssumption DEF Init, OutageInv
<1>2. OutageInv => OpenMeansOutage
  BY DEF OutageInv, OpenMeansOutage
<1> QED BY <1>1, <1>2, OutageStep, PTL DEF Spec

-----------------------------------------------------------------------------
\* The requests served without a hold

AdmissionInv ==
  /\ pc \in [Callers -> {"idle", "calling", "failed"}]
  /\ err \in [Callers -> Errors]
  /\ verdict \in [Callers -> Verdicts] /\ unsecured \in [Callers -> BOOLEAN]
  /\ \A c \in Callers :
       pc[c] = "failed" /\ verdict[c] = "known" => platformAnswered(err[c])

\* A failed pre-authorization remembers how the platform refused it.
LEMMA ReturnAdmission ==
  ASSUME AdmissionInv, NEW c \in Callers, NEW e \in Errors, NEW v \in Verdicts,
         v = "known" => e = "nil" \/ platformAnswered(e), Return(c, e, v)
  PROVE  AdmissionInv'
<1>1. /\ pc' = [pc EXCEPT ![c] = IF e # "nil" /\ op[c] = "preauth" THEN "failed" ELSE "idle"]
      /\ err' = [err EXCEPT ![c] = e]
      /\ verdict' = [verdict EXCEPT ![c] = v]
      /\ unsecured' = unsecured
  BY DEF Return
<1>2. /\ pc' \in [Callers -> {"idle", "calling", "failed"}]
      /\ err' \in [Callers -> Errors]
      /\ verdict' \in [Callers -> Verdicts]
  BY <1>1 DEF AdmissionInv
<1>3. \A d \in Callers \ {c} :
        pc'[d] = pc[d] /\ err'[d] = err[d] /\ verdict'[d] = verdict[d]
  BY <1>1 DEF AdmissionInv
<1>4. err'[c] = e /\ verdict'[c] = v /\ (pc'[c] = "failed" => e # "nil")
  BY <1>1 DEF AdmissionInv
<1>5. \A d \in Callers :
        pc'[d] = "failed" /\ verdict'[d] = "known" => platformAnswered(err'[d])
  BY <1>3, <1>4 DEF AdmissionInv
<1> QED BY <1>1, <1>2, <1>5 DEF AdmissionInv, platformAnswered

\* The invariant of every step.
LEMMA AdmissionStep == AdmissionInv /\ [Next]_vars => AdmissionInv'
<1> SUFFICES ASSUME AdmissionInv, [Next]_vars PROVE AdmissionInv'
  OBVIOUS
<1>1. ASSUME NEW c \in Callers, NEW r \in Replies, Reply(c, r) PROVE AdmissionInv'
  <2> DEFINE e == ClientError(r)
             v == IF ~Refused(r) THEN "none" ELSE IF Explained(r) THEN "known" ELSE "unknown"
  <2>1. e \in Errors
    BY DEF ClientError, PreAuthorize, ClosePreAuth, Errors
  <2>2. Return(c, e, v)
    BY <1>1 DEF Reply
  <2>3. v \in Verdicts /\ (v = "known" => Explained(r))
    BY DEF Verdicts
  <2>4. v = "known" => e = "nil" \/ platformAnswered(e)
    BY <2>3, AnswerExplained
  <2> HIDE DEF e, v
  <2> QED BY <2>1, <2>2, <2>3, <2>4, ReturnAdmission
<1>2. ASSUME NEW c \in Callers, NoReply(c) \/ Cancel(c) PROVE AdmissionInv'
  <2>1. Return(c, "bare", "none") /\ "bare" \in Errors /\ "none" \in Verdicts
    BY <1>2 DEF NoReply, Cancel, Errors, Verdicts
  <2> QED BY <2>1, ReturnAdmission
<1>3. ASSUME NEW c \in Callers, NEW o \in Ops, Gate(c, o) PROVE AdmissionInv'
  <2>1. /\ verdict' = [verdict EXCEPT ![c] = "none"]
        /\ unsecured' = [unsecured EXCEPT ![c] = FALSE]
        /\ \E p \in {"idle", "calling", "failed"} : pc' = [pc EXCEPT ![c] = p]
        /\ \E e \in Errors : err' = [err EXCEPT ![c] = e]
    BY <1>3 DEF Gate, Errors
  <2>2. /\ pc' \in [Callers -> {"idle", "calling", "failed"}]
        /\ err' \in [Callers -> Errors]
        /\ verdict' \in [Callers -> Verdicts] /\ unsecured' \in [Callers -> BOOLEAN]
    BY <2>1 DEF AdmissionInv, Verdicts
  <2>3. \A d \in Callers \ {c} :
          pc'[d] = pc[d] /\ err'[d] = err[d] /\ verdict'[d] = verdict[d]
    BY <2>1 DEF AdmissionInv
  <2>4. verdict'[c] = "none"
    BY <2>1 DEF AdmissionInv
  <2>5. \A d \in Callers :
          pc'[d] = "failed" /\ verdict'[d] = "known" => platformAnswered(err'[d])
    BY <2>3, <2>4 DEF AdmissionInv
  <2> QED BY <2>2, <2>5 DEF AdmissionInv, platformAnswered
<1>4. ASSUME NEW c \in Callers, TryDegradedPreAuth(c) PROVE AdmissionInv'
  <2>1. pc' = [pc EXCEPT ![c] = "idle"] /\ err' = err /\ verdict' = verdict
    BY <1>4 DEF TryDegradedPreAuth
  <2>2. PICK admit \in BOOLEAN : unsecured' = [unsecured EXCEPT ![c] = admit]
    BY <1>4 DEF TryDegradedPreAuth, degradeAdmissible
  <2> QED BY <2>1, <2>2 DEF AdmissionInv, platformAnswered
<1>5. ASSUME UNCHANGED <<pc, err, verdict, unsecured>> PROVE AdmissionInv'
  BY <1>5 DEF AdmissionInv, platformAnswered
<1>6. ASSUME Outage \/ Tick \/ UNCHANGED vars PROVE AdmissionInv'
  BY <1>5, <1>6 DEF Outage, Tick, vars, callVars
<1> QED BY <1>1, <1>2, <1>3, <1>4, <1>6 DEF Next

\* Only the degraded path serves a request without a hold, and it reads the breaker and
\* the error of the request's own call.
LEMMA AdmissionGuarded ==
  ASSUME OutageInv, AdmissionInv, [Next]_vars, NEW c \in Callers, unsecured'[c], ~unsecured[c]
  PROVE  outages = Threshold /\ verdict[c] # "known"
<1>1. ASSUME UNCHANGED unsecured PROVE FALSE
  BY <1>1
<1>2. ASSUME NEW d \in Callers, TryDegradedPreAuth(d)
      PROVE  outages = Threshold /\ verdict[c] # "known"
  <2>1. PICK admit \in {FALSE, degradeAdmissible(err[d])} :
          unsecured' = [unsecured EXCEPT ![d] = admit]
    BY <1>2 DEF TryDegradedPreAuth
  <2>2. d = c /\ degradeAdmissible(err[c])
    BY <2>1 DEF AdmissionInv, degradeAdmissible
  <2>3. pc[c] = "failed"
    BY <1>2, <2>2 DEF TryDegradedPreAuth
  <2> QED BY <2>2, <2>3 DEF degradeAdmissible, OutageInv, AdmissionInv
<1>3. ASSUME NEW d \in Callers, NEW o \in Ops, Gate(d, o) PROVE FALSE
  BY <1>3 DEF Gate, AdmissionInv
<1>4. ASSUME NEW d \in Callers, NEW r \in Replies, Reply(d, r) PROVE FALSE
  BY <1>1, <1>4 DEF Reply, Return
<1>5. ASSUME NEW d \in Callers, NoReply(d) \/ Cancel(d) PROVE FALSE
  BY <1>1, <1>5 DEF NoReply, Cancel, Return
<1>6. ASSUME Outage \/ Tick \/ UNCHANGED vars PROVE FALSE
  BY <1>1, <1>6 DEF Outage, Tick, vars, callVars
<1> QED BY <1>2, <1>3, <1>4, <1>5, <1>6 DEF Next

\* Whatever the platform replies and however many requests are in flight, the degraded
\* path serves one only after Threshold calls in a row without an answer the client
\* knows, and never one whose own call had such an answer (TryDegradedPreAuth).
THEOREM DegradedCorrect == Spec => DegradedOnlyInOutage
<1>1. Init => OutageInv /\ AdmissionInv
  BY BreakerAssumption DEF Init, OutageInv, AdmissionInv, Errors, Verdicts
<1>2. OutageInv /\ AdmissionInv /\ [Next]_vars =>
        [\A c \in Callers :
           unsecured'[c] /\ ~unsecured[c] => outages = Threshold /\ verdict[c] # "known"]_vars
  BY AdmissionGuarded
<1> QED BY <1>1, <1>2, OutageStep, AdmissionStep, PTL DEF Spec, DegradedOnlyInOutage

-----------------------------------------------------------------------------
\* The cap on unsecured spend

\* The handlers past the check and before their increment.
Passed == {s \in Slots : trip[s] = "incr"}

\* What has been spent and what may still be added without another check.
Exposure == spend + Cardinality(Passed) * MaxEstimate
Allowance == Cap + (Cardinality(Slots) + faults) * MaxEstimate

ExposureInv == SpendTypeOK /\ Exposure < Allowance

\* Multiples of the largest estimate.
LEMMA Multiples ==
  ASSUME NEW m \in Nat, NEW n \in Nat
  PROVE  /\ m * n \in Nat
         /\ (m + 1) * n = m * n + n
         /\ \A k \in Nat : m <= k => m * n <= k * n
<1>1. m * n \in Nat /\ (m + 1) * n = m * n + n
  OBVIOUS
<1>2. ASSUME NEW k \in Nat, m <= k PROVE m * n <= k * n
  <2>1. PICK d \in Nat : k = m + d
    BY <1>2
  <2>2. k * n = m * n + d * n /\ d * n \in Nat
    BY <2>1
  <2> QED BY <1>1, <2>2
<1> QED BY <1>1, <1>2

\* What is spent or promised moves from one side of the account to the other.
LEMMA Accounts ==
  ASSUME NEW s \in Nat, NEW t \in Nat, NEW a \in Nat, NEW b \in Nat,
         NEW c \in Nat, NEW d \in Nat, NEW k \in Nat,
         s + a < k + c, t + b <= s + a, c <= d
  PROVE  t + b < k + d
  OBVIOUS

\* Sums of naturals are monotonic.
LEMMA Sums ==
  ASSUME NEW s \in Nat, NEW t \in Nat, NEW a \in Nat, NEW b \in Nat
  PROVE  /\ t <= s /\ b <= a => t + b <= s + a
         /\ t <= s + a => t + b <= s + (b + a)
         /\ a + b \in Nat
  OBVIOUS

\* Passed is a part of the finite set of handlers.
LEMMA PassedSize ==
  ASSUME NEW P \in SUBSET Slots
  PROVE  /\ IsFiniteSet(P) /\ Cardinality(P) \in Nat
         /\ Cardinality(Slots) \in Nat /\ Cardinality(P) <= Cardinality(Slots)
         /\ \A s \in Slots \ P : Cardinality(P \cup {s}) = Cardinality(P) + 1
         /\ \A s \in P : Cardinality(P) = Cardinality(P \ {s}) + 1 /\ Cardinality(P \ {s}) \in Nat
<1>1. /\ IsFiniteSet(P) /\ Cardinality(P) \in Nat
      /\ Cardinality(Slots) \in Nat /\ Cardinality(P) <= Cardinality(Slots)
  BY FS_Subset, FS_CardinalityType, DegradedAssumption
<1>2. \A s \in Slots \ P : Cardinality(P \cup {s}) = Cardinality(P) + 1
  BY <1>1, FS_AddElement
<1>3. ASSUME NEW s \in P
      PROVE Cardinality(P) = Cardinality(P \ {s}) + 1 /\ Cardinality(P \ {s}) \in Nat
  <2>1. IsFiniteSet(P \ {s}) /\ Cardinality(P \ {s}) = Cardinality(P) - 1
    BY <1>1, FS_RemoveElement
  <2>2. Cardinality(P \ {s}) \in Nat
    BY <2>1, FS_CardinalityType
  <2> QED BY <1>1, <2>1, <2>2
<1> QED BY <1>1, <1>2, <1>3

\* Every step is type-correct.
LEMMA SpendTyped == SpendTypeOK /\ [SpendNext]_spendVars => SpendTypeOK'
<1> SUFFICES ASSUME SpendTypeOK, [SpendNext]_spendVars PROVE SpendTypeOK'
  OBVIOUS
<1>1. MaxFaults \in Nat /\ Estimates \subseteq Nat
  BY DegradedAssumption
<1>2. ASSUME NEW s \in Slots, NextRequest(s)
      PROVE trip' \in [Slots -> {"get", "incr", "expire"}] /\ estimate' \in [Slots -> Estimates]
  BY <1>2 DEF NextRequest, SpendTypeOK
<1>3. ASSUME NEW s \in Slots, Get(s) \/ GetRefuses(s) \/ GetFails(s) PROVE SpendTypeOK'
  BY <1>1, <1>2, <1>3 DEF Get, GetRefuses, GetFails, SpendTypeOK
<1>4. ASSUME NEW s \in Slots, Incr(s) PROVE SpendTypeOK'
  <2>1. spend' \in Nat
    <3>1. spend \in Nat /\ estimate[s] \in Nat
      BY <1>1 DEF SpendTypeOK
    <3>2. spend' \in {spend, spend + estimate[s]}
      BY <1>4 DEF Incr
    <3> QED BY <3>1, <3>2
  <2> QED BY <1>2, <1>4, <2>1 DEF Incr, SpendTypeOK
<1>5. ASSUME NEW s \in Slots, IncrFails(s) PROVE SpendTypeOK'
  <2>1. spend' \in Nat
    <3>1. spend \in Nat /\ estimate[s] \in Nat
      BY <1>1 DEF SpendTypeOK
    <3>2. spend' \in {spend, spend + estimate[s]}
      BY <1>5 DEF IncrFails
    <3> QED BY <3>1, <3>2
  <2> QED BY <1>1, <1>2, <1>5, <2>1 DEF IncrFails, SpendTypeOK
<1>6. ASSUME NEW s \in Slots, Expire(s) PROVE SpendTypeOK'
  <2>1. stamped' \in BOOLEAN
    BY <1>6 DEF Expire
  <2> QED BY <1>2, <1>6, <2>1 DEF Expire, SpendTypeOK
<1>7. ASSUME NEW s \in Slots, Crash(s) PROVE SpendTypeOK'
  BY <1>1, <1>2, <1>7 DEF Crash, SpendTypeOK
<1>8. ASSUME WindowEnds \/ UNCHANGED spendVars PROVE SpendTypeOK'
  <2>1. CASE WindowEnds
    <3>1. spend' \in Nat /\ stamped' \in BOOLEAN /\ UNCHANGED <<trip, estimate, faults>>
      BY <2>1 DEF WindowEnds
    <3> QED BY <3>1 DEF SpendTypeOK
  <2>2. CASE UNCHANGED spendVars
    BY <2>2 DEF spendVars, SpendTypeOK
  <2> QED BY <1>8, <2>1, <2>2
<1> QED BY <1>3, <1>4, <1>5, <1>6, <1>7, <1>8 DEF SpendNext

\* A step that adds nothing to the exposure, or gives up part of it.
LEMMA ExposureShrinks ==
  ASSUME ExposureInv, SpendTypeOK', Passed' \subseteq Passed, spend' <= spend, faults' >= faults
  PROVE  ExposureInv'
<1> DEFINE M == MaxEstimate
           p == Cardinality(Passed)
           q == Cardinality(Passed')
           n == Cardinality(Slots)
<1>1. Passed \in SUBSET Slots /\ Passed' \in SUBSET Slots
  BY DEF Passed
<1>2. p \in Nat /\ q \in Nat /\ n \in Nat /\ q <= p
  <2>1. IsFiniteSet(Passed) /\ p \in Nat /\ q \in Nat /\ n \in Nat
    BY <1>1, PassedSize
  <2> QED BY <2>1, FS_Subset
<1>3. M \in Nat /\ Cap \in Nat /\ spend \in Nat /\ spend' \in Nat /\ faults \in Nat /\ faults' \in Nat
  BY DegradedAssumption DEF ExposureInv, SpendTypeOK
<1>4. q * M <= p * M /\ q * M \in Nat /\ p * M \in Nat
  BY <1>2, <1>3, Multiples
<1>5. (n + faults) * M <= (n + faults') * M /\ (n + faults) * M \in Nat /\ (n + faults') * M \in Nat
  <2>1. n + faults \in Nat /\ n + faults' \in Nat /\ n + faults <= n + faults'
    BY <1>2, <1>3
  <2> QED BY <1>3, <2>1, Multiples
<1>6. spend + p * M < Cap + (n + faults) * M
  BY DEF ExposureInv, Exposure, Allowance
<1> DEFINE a == p * M
           b == q * M
           c == (n + faults) * M
           d == (n + faults') * M
<1> HIDE DEF a, b, c, d
<1>7. spend' + b < Cap + d
  <2>1. a \in Nat /\ b \in Nat /\ c \in Nat /\ d \in Nat /\ b <= a /\ c <= d
    BY <1>4, <1>5 DEF a, b, c, d
  <2>2. spend + a < Cap + c
    BY <1>6 DEF a, c
  <2>3. spend' + b <= spend + a
    BY <1>3, <2>1, Sums
  <2> QED BY <1>3, <2>1, <2>2, <2>3, Accounts
<1>8. Exposure' = spend' + b /\ Allowance' = Cap + d
  BY DEF Exposure, Allowance, b, d
<1>9. SpendTypeOK' /\ Exposure' < Allowance'
  BY <1>7, <1>8
<1> QED BY <1>9 DEF ExposureInv

\* The invariant of every step: only Get adds to the exposure unchecked, and it
\* has just seen the counter below the cap.
LEMMA ExposureStep == ExposureInv /\ [SpendNext]_spendVars => ExposureInv'
<1> SUFFICES ASSUME ExposureInv, [SpendNext]_spendVars PROVE ExposureInv'
  OBVIOUS
<1>1. SpendTypeOK /\ SpendTypeOK'
  BY SpendTyped DEF ExposureInv
<1> DEFINE M == MaxEstimate
           n == Cardinality(Slots)
<1>2. M \in Nat /\ Cap \in Nat /\ n \in Nat /\ faults \in Nat /\ spend \in Nat /\ faults' \in Nat
  <2>1. n \in Nat
    BY FS_CardinalityType, DegradedAssumption
  <2> QED BY <1>1, <2>1, DegradedAssumption DEF SpendTypeOK
<1>3. Passed \in SUBSET Slots /\ Passed' \in SUBSET Slots
  BY DEF Passed
<1>4. ASSUME NEW s \in Slots, Get(s) PROVE ExposureInv'
  <2>1. spend' = spend /\ spend < Cap /\ faults' = faults
    BY <1>4 DEF Get
  <2>2. Cardinality(Passed') \in Nat /\ Cardinality(Passed') <= n
    BY <1>3, PassedSize
  <2>3. Cardinality(Passed') <= n + faults
    BY <1>2, <2>2
  <2> DEFINE b == Cardinality(Passed') * M
             c == (n + faults) * M
  <2>4. b <= c /\ b \in Nat /\ c \in Nat
    <3>1. n + faults \in Nat
      BY <1>2
    <3> QED BY <1>2, <2>2, <2>3, <3>1, Multiples
  <2> HIDE DEF b, c
  <2>5. spend' + b < Cap + c
    BY <1>2, <2>1, <2>4
  <2> QED BY <1>1, <2>1, <2>5 DEF ExposureInv, Exposure, Allowance, b, c
<1>5. ASSUME NEW s \in Slots, GetFails(s) PROVE ExposureInv'
  <2>1. /\ spend' = spend /\ faults' = faults + 1 /\ trip[s] = "get"
        /\ Passed' = Passed \cup {s} /\ s \notin Passed
    BY <1>1, <1>5 DEF GetFails, Passed, SpendTypeOK
  <2>2. Cardinality(Passed') = Cardinality(Passed) + 1 /\ Cardinality(Passed) \in Nat
    BY <1>3, <2>1, PassedSize
  <2> DEFINE a == Cardinality(Passed) * M
             c == (n + faults) * M
  <2>3. Cardinality(Passed') * M = a + M /\ a \in Nat
    BY <1>2, <2>2, Multiples
  <2>4. (n + faults') * M = c + M /\ c \in Nat
    <3>1. n + faults \in Nat /\ n + faults' = (n + faults) + 1
      BY <1>2, <2>1
    <3>2. ((n + faults) + 1) * M = c + M /\ c \in Nat
      BY <1>2, <3>1, Multiples
    <3> QED BY <3>1, <3>2
  <2>5. spend + a < Cap + c
    BY DEF ExposureInv, Exposure, Allowance
  <2> HIDE DEF a, c
  <2>6. spend' + (a + M) < Cap + (c + M)
    BY <1>2, <2>1, <2>3, <2>4, <2>5
  <2> QED BY <1>1, <2>3, <2>4, <2>6 DEF ExposureInv, Exposure, Allowance
<1>6. ASSUME NEW s \in Slots, trip[s] = "incr", spend' \in {spend, spend + estimate[s]},
             Passed' = Passed \ {s}, faults' >= faults
      PROVE ExposureInv'
  <2>1. s \in Passed /\ estimate[s] \in Nat /\ estimate[s] <= M
    <3>1. s \in Passed
      BY <1>6 DEF Passed
    <3>2. estimate[s] \in 1 .. M
      BY <1>1, DegradedAssumption DEF SpendTypeOK
    <3> QED BY <1>2, <3>1, <3>2
  <2>2. Cardinality(Passed) = Cardinality(Passed') + 1 /\ Cardinality(Passed') \in Nat
    BY <1>3, <1>6, <2>1, PassedSize
  <2> DEFINE b == Cardinality(Passed') * M
             c == (n + faults) * M
             d == (n + faults') * M
  <2>3. Cardinality(Passed) * M = b + M /\ b \in Nat
    BY <1>2, <2>2, Multiples
  <2>4. c <= d /\ c \in Nat /\ d \in Nat
    <3>1. n + faults \in Nat /\ n + faults' \in Nat /\ n + faults <= n + faults'
      BY <1>2, <1>6
    <3> QED BY <1>2, <3>1, Multiples
  <2>5. spend + (b + M) < Cap + c
    BY <2>3 DEF ExposureInv, Exposure, Allowance
  <2> HIDE DEF b, c, d
  <2>6. spend' + b < Cap + d
    <3>1. spend' \in Nat /\ spend' <= spend + M
      BY <1>2, <1>6, <2>1
    <3>2. b \in Nat
      BY <2>3
    <3>3. b + M \in Nat /\ spend' + b <= spend + (b + M)
      BY <1>2, <3>1, <3>2, Sums
    <3> QED BY <1>2, <2>4, <2>5, <3>1, <3>2, <3>3, Accounts
  <2> QED BY <1>1, <2>6 DEF ExposureInv, Exposure, Allowance, b, d
<1>7. ASSUME NEW s \in Slots, Incr(s) PROVE ExposureInv'
  <2>1. trip[s] = "incr" /\ spend' \in {spend, spend + estimate[s]} /\ faults' >= faults
    BY <1>2, <1>7 DEF Incr
  <2>2. Passed' = Passed \ {s}
    BY <1>1, <1>7 DEF Incr, NextRequest, Passed, SpendTypeOK
  <2> QED BY <1>6, <2>1, <2>2
<1>8. ASSUME NEW s \in Slots, IncrFails(s) PROVE ExposureInv'
  <2>1. trip[s] = "incr" /\ spend' \in {spend, spend + estimate[s]} /\ faults' >= faults
    BY <1>2, <1>8 DEF IncrFails
  <2>2. Passed' = Passed \ {s}
    BY <1>1, <1>8 DEF IncrFails, NextRequest, Passed, SpendTypeOK
  <2> QED BY <1>6, <2>1, <2>2
<1>9. ASSUME NEW s \in Slots, GetRefuses(s) \/ Expire(s) \/ Crash(s) PROVE ExposureInv'
  <2>1. spend' <= spend /\ faults' >= faults
    BY <1>2, <1>9 DEF GetRefuses, Expire, Crash
  <2>2. Passed' \subseteq Passed
    BY <1>1, <1>9 DEF GetRefuses, Expire, Crash, NextRequest, Passed, SpendTypeOK
  <2> QED BY <1>1, <2>1, <2>2, ExposureShrinks
<1>10. ASSUME WindowEnds \/ UNCHANGED spendVars PROVE ExposureInv'
  <2>1. spend' <= spend /\ faults' >= faults /\ Passed' = Passed
    BY <1>2, <1>10 DEF WindowEnds, spendVars, Passed
  <2> QED BY <1>1, <2>1, ExposureShrinks
<1> QED BY <1>4, <1>5, <1>7, <1>8, <1>9, <1>10 DEF SpendNext

\* The window opens empty, within its types.
LEMMA SpendInitTyped == SpendInit => SpendTypeOK
<1> SUFFICES ASSUME SpendInit PROVE SpendTypeOK
  OBVIOUS
<1>1. spend = 0 /\ faults = 0 /\ MaxFaults \in Nat
  BY DegradedAssumption DEF SpendInit
<1>2. spend \in Nat /\ faults \in 0 .. MaxFaults
  BY <1>1
<1>3. /\ stamped \in BOOLEAN /\ trip \in [Slots -> {"get", "incr", "expire"}]
      /\ estimate \in [Slots -> Estimates]
  BY DEF SpendInit
<1> QED BY <1>1, <1>2, <1>3 DEF SpendTypeOK

\* The spend counter never goes below zero and every handler is at one of its
\* three round trips (reserveDegradedSpend), whatever Redis loses.
THEOREM SpendTypeCorrect == SpendSpec => []SpendTypeOK
<1> QED BY SpendInitTyped, SpendTyped, PTL DEF SpendSpec

\* The unsecured spend of reserveDegradedSpend passes its cap by less than one
\* estimate per concurrent handler and per Redis error, whatever the number of
\* handlers: check-then-increment is bounded, but not by one request.
THEOREM OvershootCorrect == SpendSpec => []OvershootBounded
<1>1. SpendInit => ExposureInv
  <2> SUFFICES ASSUME SpendInit PROVE ExposureInv
    OBVIOUS
  <2>1. SpendTypeOK /\ faults = 0 /\ spend = 0
    BY SpendInitTyped DEF SpendInit
  <2>2. Passed = {}
    BY DEF SpendInit, Passed
  <2>3. Cardinality(Passed) = 0 /\ Cardinality(Slots) \in Nat
    BY <2>2, FS_EmptySet, FS_CardinalityType, DegradedAssumption
  <2>4. Cardinality(Passed) * MaxEstimate = 0 /\ (Cardinality(Slots) + faults) * MaxEstimate \in Nat
    BY <2>1, <2>3, DegradedAssumption
  <2>5. Exposure = 0
    BY <2>1, <2>4 DEF Exposure
  <2>6. Allowance > 0
    BY <2>4, DegradedAssumption DEF Allowance
  <2> QED BY <2>1, <2>5, <2>6 DEF ExposureInv
<1>2. ExposureInv => OvershootBounded
  <2> SUFFICES ASSUME ExposureInv PROVE OvershootBounded
    OBVIOUS
  <2> DEFINE a == Cardinality(Passed) * MaxEstimate
             c == (Cardinality(Slots) + faults) * MaxEstimate
  <2>1. Cardinality(Passed) \in Nat /\ Cardinality(Slots) \in Nat
    BY PassedSize DEF Passed
  <2>2. spend \in Nat /\ faults \in Nat /\ MaxEstimate \in Nat /\ Cap \in Nat
    BY DegradedAssumption DEF ExposureInv, SpendTypeOK
  <2>3. a \in Nat /\ c \in Nat
    BY <2>1, <2>2, Multiples
  <2>4. spend + a < Cap + c
    BY DEF ExposureInv, Exposure, Allowance
  <2> HIDE DEF a, c
  <2>5. spend < Cap + c
    BY <2>2, <2>3, <2>4
  <2> QED BY <2>5 DEF OvershootBounded, c
<1> QED BY <1>1, <1>2, ExposureStep, PTL DEF SpendSpec

-----------------------------------------------------------------------------
\* Types

\* The error of a reply.
LEMMA ClientErrorTyped ==
  ASSUME NEW r
  PROVE  ClientError(r) \in Errors
  BY DEF ClientError, PreAuthorize, ClosePreAuth, Errors

\* A counter that stops at its cap.
LEMMA CappedTyped ==
  ASSUME NEW max \in Nat, NEW n \in 0 .. max
  PROVE  Capped(n, max) \in 0 .. max
  BY DEF Capped

\* The callers' records after a call has returned.
LEMMA ReturnTyped ==
  ASSUME TypeOK, NEW c \in Callers, NEW e \in Errors, NEW v \in Verdicts, Return(c, e, v)
  PROVE  /\ pc' \in [Callers -> {"idle", "calling", "failed"}] /\ op' \in [Callers -> Ops]
         /\ elapsed' \in [Callers -> 0 .. CallTimeout] /\ err' \in [Callers -> Errors]
         /\ probe' \in [Callers -> BOOLEAN] /\ verdict' \in [Callers -> Verdicts]
         /\ unsecured' \in [Callers -> BOOLEAN] /\ up' \in BOOLEAN
<1>1. 0 \in 0 .. CallTimeout
  BY BreakerAssumption
<1>2. elapsed' \in [Callers -> 0 .. CallTimeout]
  BY <1>1 DEF Return, TypeOK
<1>3. pc' \in [Callers -> {"idle", "calling", "failed"}] /\ err' \in [Callers -> Errors]
  BY DEF Return, TypeOK
<1>4. /\ probe' \in [Callers -> BOOLEAN] /\ verdict' \in [Callers -> Verdicts]
      /\ unsecured' \in [Callers -> BOOLEAN] /\ op' \in [Callers -> Ops] /\ up' \in BOOLEAN
  BY DEF Return, TypeOK
<1> QED BY <1>2, <1>3, <1>4

\* The breaker after an outcome.
LEMMA OutcomeTyped ==
  ASSUME TypeOK, NEW e, recordBillingOutcome(e)
  PROVE  /\ state' \in {"closed", "open", "half_open"} /\ fails' \in 0 .. Threshold
         /\ sinceFail' \in 0 .. Timeout /\ sinceProbe' \in 0 .. HalfOpenTimeout
<1>1. Threshold \in Nat /\ Timeout \in Nat
  BY BreakerAssumption
<1>2. Capped(fails, Threshold) \in 0 .. Threshold
  BY <1>1, CappedTyped DEF TypeOK
<1>3. CASE BillingBreakerSuccess
  BY <1>1, <1>3 DEF BillingBreakerSuccess, TypeOK
<1>4. CASE BillingBreakerFailure
  BY <1>1, <1>2, <1>4 DEF BillingBreakerFailure, TypeOK
<1> QED BY <1>3, <1>4 DEF recordBillingOutcome

\* Every step is type-correct.
LEMMA TypeStep == TypeOK /\ [Next]_vars => TypeOK'
<1> SUFFICES ASSUME TypeOK, [Next]_vars PROVE TypeOK'
  OBVIOUS
<1>1. /\ Threshold \in Nat /\ Timeout \in Nat /\ HalfOpenTimeout \in Nat
      /\ CallTimeout \in Nat /\ MaxCancels \in Nat
  BY BreakerAssumption
<1>2. Capped(outages, Threshold) \in 0 .. Threshold /\ 0 \in 0 .. Threshold
  BY <1>1, CappedTyped DEF TypeOK
<1>3. ASSUME NEW c \in Callers, NEW o \in Ops, Gate(c, o) PROVE TypeOK'
  <2>1. /\ op' \in [Callers -> Ops] /\ elapsed' \in [Callers -> 0 .. CallTimeout]
        /\ verdict' \in [Callers -> Verdicts] /\ unsecured' \in [Callers -> BOOLEAN]
        /\ UNCHANGED <<fails, sinceFail, up, cancels, outages, misread>>
    BY <1>1, <1>3 DEF Gate, TypeOK, ghosts, Verdicts
  <2>2. CASE Allows
    <3>1. /\ pc' \in [Callers -> {"idle", "calling", "failed"}] /\ err' \in [Callers -> Errors]
          /\ probe' \in [Callers -> BOOLEAN]
      BY <1>3, <2>2 DEF Gate, TypeOK, Errors
    <3>2. state' \in {"closed", "open", "half_open"} /\ sinceProbe' \in 0 .. HalfOpenTimeout
      BY <1>1, <1>3, <2>2 DEF Gate, TakeSlot, TypeOK
    <3> QED BY <2>1, <3>1, <3>2 DEF TypeOK
  <2>3. CASE ~Allows
    <3>1. /\ pc' \in [Callers -> {"idle", "calling", "failed"}] /\ err' \in [Callers -> Errors]
          /\ UNCHANGED <<state, sinceProbe, probe>>
      BY <1>3, <2>3 DEF Gate, TypeOK, Errors
    <3> QED BY <2>1, <3>1 DEF TypeOK
  <2> QED BY <2>2, <2>3
<1>4. ASSUME NEW c \in Callers, NEW r \in Replies, Reply(c, r) PROVE TypeOK'
  <2> DEFINE e == ClientError(r)
             v == IF ~Refused(r) THEN "none" ELSE IF Explained(r) THEN "known" ELSE "unknown"
  <2>1. Return(c, e, v) /\ recordBillingOutcome(e) /\ cancels' = cancels
    BY <1>4 DEF Reply
  <2>2. outages' \in 0 .. Threshold /\ misread' \in BOOLEAN
    BY <1>2, <1>4 DEF Reply
  <2>3. v \in Verdicts
    BY DEF Verdicts
  <2>4. e \in Errors
    BY ClientErrorTyped
  <2> HIDE DEF e, v
  <2> QED BY <2>1, <2>2, <2>3, <2>4, ReturnTyped, OutcomeTyped DEF TypeOK
<1>5. ASSUME NEW c \in Callers, NoReply(c) PROVE TypeOK'
  <2>1. Return(c, "bare", "none") /\ recordBillingOutcome("bare") /\ cancels' = cancels
        /\ outages' \in 0 .. Threshold /\ misread' = misread
        /\ "bare" \in Errors /\ "none" \in Verdicts
    BY <1>2, <1>5 DEF NoReply, Errors, Verdicts
  <2> QED BY <2>1, ReturnTyped, OutcomeTyped DEF TypeOK
<1>6. ASSUME NEW c \in Callers, Cancel(c) PROVE TypeOK'
  <2>1. Return(c, "bare", "none") /\ "bare" \in Errors /\ "none" \in Verdicts
    BY <1>6 DEF Cancel, Errors, Verdicts
  <2>2. cancels' \in 0 .. MaxCancels /\ UNCHANGED <<breakerVars, outages, misread>>
    BY <1>1, <1>6 DEF Cancel, ghosts, TypeOK
  <2> QED BY <2>1, <2>2, ReturnTyped DEF breakerVars, TypeOK
<1>7. ASSUME NEW c \in Callers, TryDegradedPreAuth(c) PROVE TypeOK'
  <2>1. PICK a \in BOOLEAN : unsecured' = [unsecured EXCEPT ![c] = a]
    BY <1>7 DEF TryDegradedPreAuth, degradeAdmissible
  <2> QED BY <1>7, <2>1 DEF TryDegradedPreAuth, breakerVars, ghosts, TypeOK
<1>8. ASSUME Outage \/ UNCHANGED vars PROVE TypeOK'
  BY <1>8 DEF Outage, vars, breakerVars, callVars, ghosts, TypeOK
<1>9. ASSUME Tick PROVE TypeOK'
  <2>1. Capped(sinceFail, Timeout) \in 0 .. Timeout
        /\ Capped(sinceProbe, HalfOpenTimeout) \in 0 .. HalfOpenTimeout
    BY <1>1, CappedTyped DEF TypeOK
  <2>2. elapsed' \in [Callers -> 0 .. CallTimeout]
    BY <1>1, <1>9 DEF Tick, TypeOK
  <2> QED BY <1>9, <2>1, <2>2 DEF Tick, ghosts, TypeOK
<1> QED BY <1>3, <1>4, <1>5, <1>6, <1>7, <1>8, <1>9 DEF Next

\* The breaker's counters and clocks stay within their caps for any thresholds,
\* timeouts and callers (platformBreaker).
THEOREM TypeCorrect == Spec => []TypeOK
<1>1. ASSUME Init PROVE TypeOK
  <2>1. op \in [Callers -> Ops] /\ err \in [Callers -> Errors]
        /\ verdict \in [Callers -> Verdicts]
    BY <1>1 DEF Init, Ops, Errors, Verdicts
  <2>2. fails \in 0 .. Threshold /\ outages \in 0 .. Threshold
        /\ sinceFail \in 0 .. Timeout /\ sinceProbe \in 0 .. HalfOpenTimeout
        /\ elapsed \in [Callers -> 0 .. CallTimeout] /\ cancels \in 0 .. MaxCancels
    BY <1>1, BreakerAssumption DEF Init
  <2>3. up \in BOOLEAN /\ misread \in BOOLEAN /\ probe \in [Callers -> BOOLEAN]
        /\ unsecured \in [Callers -> BOOLEAN]
    BY <1>1, Zenon DEF Init
  <2> QED BY <1>1, <2>1, <2>2, <2>3 DEF Init, TypeOK
<1> QED BY <1>1, TypeStep, PTL DEF Spec
=============================================================================
