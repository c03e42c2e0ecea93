---------------------------- MODULE BillingOutbox ----------------------------
(***************************************************************************)
(* The billing outboxes (app/billing_outbox.go, billing_debit_outbox.go):  *)
(* wallet calls that failed live are parked in a table, and the ticker of  *)
(* every replica claims due rows, calls the platform and records the       *)
(* answer.                                                                 *)
(*                                                                         *)
(* Replicas crash between any two steps; a claim outlives its owner by     *)
(* outboxClaimLease; a call that times out may still be applied later.     *)
(* Time is kept as ages that stop at the bound they are compared with, so  *)
(* a behaviour has no last tick.                                           *)
(***************************************************************************)
EXTENDS Integers, FiniteSets

CONSTANTS
  Entries,        \* the calls that may get parked, at most one per hold or debit
  Settles,        \* those that settle a pre-auth hold
  Debits,         \* those of billing_debit_outbox; the rest release a hold
  Workers,        \* the replicas' outbox loops
  MaxRetries,     \* outboxMaxRetries
  MaxBackoff,     \* outboxMaxBackoff
  Lease,          \* outboxClaimLease
  Limit,          \* LIMIT of the claim statement
  CallTimeout,    \* per-entry deadline of ProcessBillingOutbox
  Poll,           \* billingOutboxInterval
  LongestRequest, \* how long after its pre-auth a request may still park a call
  HoldTTL,        \* PreAuthHoldTTL
  MaxCrashes,     \* bound on replica crashes
  MaxUnwritten,   \* bound on closing updates the database refuses
  Switchable      \* whether the platform console may flip unified billing

ASSUME OutboxAssumption ==
  /\ IsFiniteSet(Entries) /\ Settles \subseteq Entries /\ Debits \subseteq Entries
  /\ Settles \cap Debits = {}
  /\ MaxRetries \in Nat \ {0} /\ MaxBackoff \in Nat \ {0}
  /\ Limit \in Nat \ {0} /\ CallTimeout \in Nat \ {0}
  /\ Lease \in Nat /\ Poll \in Nat \ {0} /\ LongestRequest \in Nat
  /\ HoldTTL \in Nat /\ MaxCrashes \in Nat /\ MaxUnwritten \in Nat
  /\ Switchable \in BOOLEAN

\* 300s against 50 entries of at most 5s each.
ASSUME LeaseCoversBatch == Lease > Limit * CallTimeout

VARIABLES
  platform, \* the platform's state of each hold (or debit)
  ttl,      \* time until the platform expires the hold
  status,   \* status column of each row; "absent" before it is parked
  retry,    \* retry_count column
  wait,     \* time until next_retry; negative once the row is overdue
  age,      \* time since updated_at of a row being processed
  batch,    \* the claimed rows a replica still has to process
  read,     \* the retry_count each claimed row was loaded with
  answer,   \* the platform's answer to the call a replica has just made
  busy,     \* time a replica has spent on its current row
  late,     \* calls given up on that may still reach the platform
  lost,     \* rows noteMoneyLost("settle") was raised for
  calls,    \* ghost: calls made for each row
  crashes,
  unwritten, \* closing updates that failed, unknown to anyone
  unified   \* common.BillingUnifiedEnabled()

rowVars == <<status, retry, wait, age>>
workerVars == <<batch, read, answer, busy>>
vars == <<platform, ttl, rowVars, workerVars, late, lost, calls, crashes, unwritten, unified>>

Answers == {"none", "ok", "futile", "error"}

TypeOK ==
  /\ platform \in [Entries -> {"active", "settled", "released", "expired"}]
  /\ ttl \in [Entries -> 0 .. HoldTTL]
  /\ status \in [Entries -> {"absent", "pending", "processing", "done", "failed"}]
  /\ retry \in [Entries -> Nat]
  /\ wait \in [Entries -> -Poll .. MaxBackoff]
  /\ age \in [Entries -> 0 .. Lease + Poll]
  /\ batch \in [Workers -> SUBSET Entries]
  /\ read \in [Workers -> [Entries -> Nat]]
  /\ answer \in [Workers -> [Entries -> Answers]]
  /\ busy \in [Workers -> 0 .. CallTimeout]
  /\ late \subseteq Entries /\ lost \subseteq Settles
  /\ calls \in [Entries -> Nat]
  /\ crashes \in 0 .. MaxCrashes /\ unwritten \in 0 .. MaxUnwritten
  /\ unified \in BOOLEAN

Init ==
  /\ platform = [e \in Entries |-> "active"]
  /\ ttl = [e \in Entries |-> HoldTTL]
  /\ status = [e \in Entries |-> "absent"]
  /\ retry = [e \in Entries |-> 0]
  /\ wait = [e \in Entries |-> 0]
  /\ age = [e \in Entries |-> 0]
  /\ batch = [w \in Workers |-> {}]
  /\ read = [w \in Workers |-> [e \in Entries |-> 0]]
  /\ answer = [w \in Workers |-> [e \in Entries |-> "none"]]
  /\ busy = [w \in Workers |-> 0]
  /\ late = {} /\ lost = {}
  /\ calls = [e \in Entries |-> 0]
  /\ crashes = 0 /\ unwritten = 0
  /\ unified = TRUE

-----------------------------------------------------------------------------
\* The platform, as the hub meets it.  A call applied to an active hold closes
\* it; a call that already closed it is replayed as a success (settles and
\* releases by Idempotency-Key, debits by RefID); any other call on a closed
\* hold is refused (409).

Closed(e) == IF e \in Settles \cup Debits THEN "settled" ELSE "released"
Applied(e) ==
  [platform EXCEPT ![e] = IF platform[e] = "active" THEN Closed(e) ELSE platform[e]]
Verdict(e) == IF platform[e] \in {"active", Closed(e)} THEN "ok" ELSE "futile"

\* A request the hub has stopped waiting for reaches the platform after all.
LateDelivery(e) ==
  /\ e \in late
  /\ late' = late \ {e}
  /\ platform' = Applied(e)
  /\ UNCHANGED <<ttl, rowVars, workerVars, lost, calls, crashes, unwritten, unified>>

-----------------------------------------------------------------------------
\* EnqueueSettle, EnqueueRelease, EnqueueDebit: after a live call that got no
\* answer, and may be applied all the same.
Park(e) ==
  /\ status[e] = "absent"
  /\ HoldTTL - ttl[e] <= LongestRequest
  /\ status' = [status EXCEPT ![e] = "pending"]
  /\ late' \in {late, late \cup {e}}
  /\ UNCHANGED <<platform, ttl, retry, wait, age, workerVars, lost, calls, crashes, unwritten, unified>>

-----------------------------------------------------------------------------
\* ProcessBillingOutbox and processDebitOutbox

\* Mutant: nothing re-claims a row whose owner died.
DueWithoutLease(table) == {e \in table : status[e] = "pending" /\ wait[e] <= 0}

\* The rows of a table the claim statement matches: due, or claimed by a
\* replica whose lease has run out.
Due(table) ==
  {e \in table : \/ status[e] = "pending" /\ wait[e] <= 0
                 \/ status[e] = "processing" /\ age[e] >= Lease}

Tables == {Debits, Entries \ Debits}

\* The claim statement: at most LIMIT rows, and fewer only if there are no more.
Claimable(table) ==
  {S \in SUBSET Due(table) :
     \/ S = Due(table) /\ Cardinality(S) <= Limit
     \/ Cardinality(S) = Limit}

\* Mutant: a bare SELECT hands the rows out without marking them claimed.
ClaimUnmarked(w, table) ==
  /\ unified /\ batch[w] = {}
  /\ \E S \in Claimable(table) \ {{}} :
       /\ batch' = [batch EXCEPT ![w] = S]
       /\ read' = [read EXCEPT ![w] = [e \in Entries |-> IF e \in S THEN retry[e] ELSE 0]]
  /\ UNCHANGED <<platform, ttl, rowVars, answer, busy, late, lost, calls, crashes, unwritten, unified>>

\* billingOutboxTick, claimOutboxRows: one UPDATE ... RETURNING on one of the
\* two tables; a claim that returns no row is not a step.
Claim(w, table) ==
  /\ unified /\ batch[w] = {}
  /\ \E S \in Claimable(table) \ {{}} :
       /\ batch' = [batch EXCEPT ![w] = S]
       /\ read' = [read EXCEPT ![w] = [e \in Entries |-> IF e \in S THEN retry[e] ELSE 0]]
       /\ status' = [e \in Entries |-> IF e \in S THEN "processing" ELSE status[e]]
       /\ age' = [e \in Entries |-> IF e \in S THEN 0 ELSE age[e]]
       /\ wait' = [e \in Entries |-> IF e \in S THEN 0 ELSE wait[e]]
  /\ busy' = [busy EXCEPT ![w] = 0]
  /\ UNCHANGED <<platform, ttl, retry, answer, late, lost, calls, crashes, unwritten, unified>>

\* settleOutboxCall, releaseOutboxCall, debitWalletGRPC: answered, or given up
\* on at the deadline.
Call(w, e) ==
  /\ e \in batch[w]
  /\ \A f \in Entries : answer[w][f] = "none"
  /\ \/ /\ platform' = Applied(e)
        /\ answer' = [answer EXCEPT ![w][e] = Verdict(e)]
        /\ UNCHANGED late
     \/ /\ answer' = [answer EXCEPT ![w][e] = "error"]
        /\ late' \in {late, late \cup {e}}
        /\ UNCHANGED platform
  /\ calls' = [calls EXCEPT ![e] = @ + 1]
  /\ UNCHANGED <<ttl, rowVars, batch, read, busy, lost, crashes, unwritten, unified>>

\* Mutant: the delay is not capped.
BackoffUncapped(n) == 2 ^ n

\* outboxBackoff, in units of its base delay
Backoff(n) == IF 2 ^ n < MaxBackoff THEN 2 ^ n ELSE MaxBackoff

\* Mutant: a refused call is recorded as done.
OutcomeRefusedIsDone(ans, n) ==
  IF ans \in {"ok", "futile"} THEN "done" ELSE IF n >= MaxRetries THEN "failed" ELSE "pending"

\* Mutant: one attempt too many.
OutcomeOffByOne(ans, n) ==
  IF ans = "ok" THEN "done"
  ELSE IF ans = "futile" \/ n > MaxRetries THEN "failed" ELSE "pending"

\* The status written for an answer to attempt n.
Outcome(ans, n) ==
  IF ans = "ok" THEN "done"
  ELSE IF ans = "futile" \/ n >= MaxRetries THEN "failed" ELSE "pending"

\* PreAuthRetryIsFutile on a settle: the alarm of noteMoneyLost.
NoteMoneyLost(e, ans) == e \in Settles /\ ans = "futile"

\* A replica is done with a row, whether or not its closing update succeeds; the
\* alarm is raised before that.
PutDown(w, e) ==
  /\ e \in batch[w] /\ answer[w][e] # "none"
  /\ lost' = IF NoteMoneyLost(e, answer[w][e]) THEN lost \cup {e} ELSE lost
  /\ batch' = [batch EXCEPT ![w] = @ \ {e}]
  /\ read' = [read EXCEPT ![w][e] = 0]
  /\ answer' = [answer EXCEPT ![w][e] = "none"]
  /\ busy' = [busy EXCEPT ![w] = 0]
  /\ UNCHANGED <<platform, ttl, late, calls, crashes, unified>>

\* The closing update, guarded by the row still being "processing".
Record(w, e) ==
  /\ PutDown(w, e)
  /\ LET ans == answer[w][e]
         n == IF ans = "ok" THEN read[w][e] ELSE read[w][e] + 1
     IN IF status[e] = "processing"
        THEN /\ status' = [status EXCEPT ![e] = Outcome(ans, n)]
             /\ retry' = [retry EXCEPT ![e] = n]
             /\ wait' = [wait EXCEPT ![e] =
                  IF Outcome(ans, n) = "pending" THEN Backoff(n) ELSE 0]
             /\ age' = [age EXCEPT ![e] = 0]
        ELSE UNCHANGED rowVars
  /\ UNCHANGED unwritten

\* The closing update fails, and nobody looks at its error: the row stays claimed
\* until its lease runs out, and the attempt is not counted.
RecordFails(w, e) ==
  /\ PutDown(w, e)
  /\ unwritten < MaxUnwritten
  /\ unwritten' = unwritten + 1
  /\ UNCHANGED rowVars

-----------------------------------------------------------------------------
\* A replica is killed, and its successor starts with nothing claimed.
Crash(w) ==
  /\ batch[w] # {} /\ crashes < MaxCrashes
  /\ batch' = [batch EXCEPT ![w] = {}]
  /\ read' = [read EXCEPT ![w] = [e \in Entries |-> 0]]
  /\ answer' = [answer EXCEPT ![w] = [e \in Entries |-> "none"]]
  /\ busy' = [busy EXCEPT ![w] = 0]
  /\ crashes' = crashes + 1
  /\ UNCHANGED <<platform, ttl, rowVars, late, lost, calls, unwritten, unified>>

\* SetBillingUnifiedEnabled, from the config poller
SetBillingUnifiedEnabled ==
  /\ Switchable
  /\ unified' = ~unified
  /\ UNCHANGED <<platform, ttl, rowVars, workerVars, late, lost, calls, crashes, unwritten>>

\* An idle replica's ticker has fired since the row became claimable.
Overdue(e) ==
  \/ status[e] = "pending" /\ wait[e] = -Poll
  \/ status[e] = "processing" /\ age[e] = Lease + Poll

\* A unit of time passes.  No row a replica works on outlasts CallTimeout, and
\* no idle replica leaves a claimable row alone for longer than Poll.  The
\* platform's sweep expires the holds whose time is up.
Tick ==
  /\ \A w \in Workers : batch[w] # {} => busy[w] < CallTimeout
  /\ unified /\ (\E w \in Workers : batch[w] = {}) => \A e \in Entries : ~Overdue(e)
  /\ busy' = [w \in Workers |-> IF batch[w] # {} THEN busy[w] + 1 ELSE busy[w]]
  /\ wait' = [e \in Entries |->
       IF status[e] = "pending" /\ wait[e] > -Poll THEN wait[e] - 1 ELSE wait[e]]
  /\ age' = [e \in Entries |->
       IF status[e] = "processing" /\ age[e] < Lease + Poll THEN age[e] + 1 ELSE age[e]]
  /\ ttl' = [e \in Entries |-> IF ttl[e] > 0 THEN ttl[e] - 1 ELSE 0]
  /\ platform' = [e \in Entries |->
       IF platform[e] = "active" /\ e \notin Debits /\ ttl[e] <= 1
       THEN "expired" ELSE platform[e]]
  /\ UNCHANGED <<status, retry, batch, read, answer, late, lost, calls, crashes, unwritten, unified>>

Next ==
  \/ \E e \in Entries : Park(e) \/ LateDelivery(e)
  \/ \E w \in Workers, table \in Tables : Claim(w, table)
  \/ \E w \in Workers, e \in Entries : Call(w, e) \/ Record(w, e) \/ RecordFails(w, e)
  \/ \E w \in Workers : Crash(w)
  \/ SetBillingUnifiedEnabled
  \/ Tick

Spec == Init /\ [][Next]_vars

\* Time passes, and a live replica's loop keeps going.
LiveSpec ==
  /\ Spec /\ WF_vars(Tick)
  /\ \A w \in Workers :
       /\ \A table \in Tables : WF_vars(Claim(w, table))
       /\ WF_vars(\E e \in Entries : Call(w, e) \/ Record(w, e) \/ RecordFails(w, e))

-----------------------------------------------------------------------------
\* No row is in the hands of two replicas: "the 3 replicas' tickers cannot hand
\* the same entry to the platform twice" (billing_outbox.go), lease expiry and
\* crashes included.
OneOwner == \A v, w \in Workers : v # w => batch[v] \cap batch[w] = {}

\* A row is marked done only if the platform has carried its call out.
DoneMeansApplied == \A e \in Entries : status[e] = "done" => platform[e] = Closed(e)

\* noteMoneyLost is raised only for a settle the platform will never collect.
LostMeansUnbilled == \A e \in lost : platform[e] # "settled"

\* What the outbox and its alarms say of a hold agrees with the platform,
\* through timeouts, late deliveries, crashes and retries.
RecordsTrue == DoneMeansApplied /\ LostMeansUnbilled

\* The outbox keeps its promise for every call it takes over (ParkedCall): no
\* call takes effect twice or after its hold is gone, "done" and noteMoneyLost are
\* said of the right calls only, and no final status is ever written over.
Effect(e) ==
  IF platform[e] = "active" THEN "open"
  ELSE IF platform[e] = Closed(e) THEN "carried" ELSE "barred"
Word(e) ==
  CASE status[e] = "absent" -> "none"
    [] status[e] \in {"pending", "processing"} -> "parked"
    [] OTHER -> status[e]

Promise == INSTANCE ParkedCall WITH
  Calls <- Entries, effect <- [e \in Entries |-> Effect(e)],
  word <- [e \in Entries |-> Word(e)], alarm <- lost

PromiseKept == Promise!Spec

\* The attempts no row counts: a crash, or a closing update that failed, lost them.
Uncounted == crashes + unwritten

\* A row is called MaxRetries times at most, but for the attempts that a crash or a
\* failed closing update kept from being counted.
AttemptsBounded == \A e \in Entries : calls[e] <= MaxRetries + Uncounted

\* OutboxRetryHorizon: the delays before the attempts after the first.
BackoffSum[n \in Nat] == IF n = 0 THEN 0 ELSE BackoffSum[n - 1] + Backoff(n)

OutboxRetryHorizon == BackoffSum[MaxRetries - 1]

\* A settle is not retried once its hold has expired: PreAuthHoldTTL outlives
\* the longest request plus the retry horizon (pre_consume_quota.go).
HoldOutlivesRetries ==
  \A e \in Settles : status[e] \in {"pending", "processing"} => platform[e] # "expired"

\* Once unified billing stays on, every parked row reaches a final status, the
\* rows of a dead replica included.
EventuallyFinal ==
  <>[]unified =>
    \A e \in Entries : status[e] = "pending" ~> status[e] \in {"done", "failed"}
=============================================================================
