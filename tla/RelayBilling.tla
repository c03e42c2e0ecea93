---------------------------- MODULE RelayBilling ----------------------------
(***************************************************************************)
(* The money path of one relay request, for any number of concurrent       *)
(* requests that share one user row, one API key (token) row and one       *)
(* tenant credit pool:                                                     *)
(*                                                                         *)
(*   PreConsumeQuota    freeze the estimate (platform hold, token, user)   *)
(*   the relay          ends in a cost or in an error                      *)
(*   PostConsumeQuota   settle the difference, phase by phase              *)
(*   ReturnPreConsumedQuota   hand the freeze back when the relay failed   *)
(*                                                                         *)
(* Each phase is one statement against the database or one call to the     *)
(* platform, so each is one step; every one of them may fail on its own.   *)
(* A request is a goroutine: the steps of different requests interleave.   *)
(***************************************************************************)
EXTENDS Integers

CONSTANTS
  Requests,    \* relay requests
  Estimate,    \* QuotaToPreConsume of every request
  Costs,       \* the costs a served relay may turn out to have
  Account,     \* requests whose IdentityAccountID > 0
  Provisioned, \* requests of tenant-scoped keys: UserId = 0
  Playground,  \* console requests (IsPlayground): they carry a real key and do not charge it
  Unlimited,   \* requests whose token is unlimited
  Trustable,   \* requests whose balances may exceed GetTrustQuota
  WalletAuthoritative, \* requests of tenants with wallet_authoritative set
  AdvisoryModes, \* the LOCAL_LEDGER_ADVISORY values the platform may state
  Pooled,      \* requests whose tenant has a limited credit pool
  UserQuota0, TokenQuota0, PoolBalance0,
  Faults       \* which operations may fail

ASSUME RelayAssumption ==
  /\ Estimate \in Nat \ {0}
  /\ Costs \subseteq Nat
  /\ AdvisoryModes \subseteq BOOLEAN
  /\ Provisioned \cap (Playground \cup Trustable) = {}
  /\ UserQuota0 \in Int /\ TokenQuota0 \in Int /\ PoolBalance0 \in Int
  /\ Faults \subseteq {"platform", "userRead", "userWrite", "tokenWrite",
                       "tokenRead", "poolWrite", "outbox"}

VARIABLES
  userQuota, tokenQuota, poolBalance, \* the three database rows
  pc,        \* where each request's goroutine is
  outcome,   \* how the relay ended
  cost,      \* what it cost
  final,     \* relayInfo.FinalPreConsumedQuota
  ok,        \* localQuotaConsistent of the running PostConsumeQuota
  drawn,     \* poolDebited of the running PostConsumeQuota: "yes", "no", and
             \* "unread" for a no because the token row could not be read
  governed,  \* relayInfo.PlatformGoverned
  walletAuth, \* relayInfo.WalletAuthoritative
  advisory,  \* the local variable of the running Pre- or PostConsumeQuota
  ledgerAdvisory, \* the process-wide flag the config poller sets
  preAuth,   \* relayInfo.PlatformPreAuthID > 0
  hold,      \* the platform's record of the request's hold
  outbox,    \* the billing_outbox rows written for the hold
  debit,     \* the direct wallet debit of a request without a hold
  alarms,    \* metrics and CRITICAL lines this request raised
  userNet, tokenNet, poolNet \* what each row has paid for the request so far

rows == <<userQuota, tokenQuota, poolBalance, userNet, tokenNet, poolNet>>
mode == <<governed, walletAuth, advisory>>
relayInfo == <<outcome, cost, final, ok, drawn, mode>>
platform == <<preAuth, hold, outbox, debit>>
vars == <<rows, pc, relayInfo, platform, alarms, ledgerAdvisory>>

PCs == {"preauth", "gate", "freezeToken", "freezeUser", "rollback", "relay",
        "post1", "pool", "post3", "compUser", "compPool", "wallet",
        "settle", "parkSettle", "release", "parkRelease", "done"}
Alarms == {"rollback", "compUser", "compPool", "pool", "userMeter",
           "tokenMeter", "settlement_failed", "refund_failed",
           "lost_settle", "lost_release"}

TypeOK ==
  /\ userQuota \in Int /\ tokenQuota \in Int /\ poolBalance \in Int
  /\ pc \in [Requests -> PCs]
  /\ outcome \in [Requests -> {"none", "refused", "error", "served", "failed"}]
  /\ cost \in [Requests -> Nat]
  /\ final \in [Requests -> Nat]
  /\ ok \in [Requests -> BOOLEAN]
  /\ drawn \in [Requests -> {"no", "yes", "unread"}]
  /\ governed \in [Requests -> BOOLEAN]
  /\ walletAuth \in [Requests -> BOOLEAN]
  /\ advisory \in [Requests -> BOOLEAN]
  /\ ledgerAdvisory \in BOOLEAN
  /\ preAuth \in [Requests -> BOOLEAN]
  /\ hold \in [Requests -> {"none", "orphan", "active", "settled", "released"}]
  /\ outbox \in [Requests -> SUBSET {"settle", "release"}]
  /\ debit \in [Requests -> {"none", "pending", "paid", "parked", "lost"}]
  /\ alarms \in [Requests -> SUBSET Alarms]
  /\ userNet \in [Requests -> Int]
  /\ tokenNet \in [Requests -> Int]
  /\ poolNet \in [Requests -> Int]

Init ==
  /\ userQuota = UserQuota0 /\ tokenQuota = TokenQuota0
  /\ poolBalance = PoolBalance0
  /\ pc = [r \in Requests |-> "preauth"]
  /\ outcome = [r \in Requests |-> "none"]
  /\ cost = [r \in Requests |-> 0]
  /\ final = [r \in Requests |-> 0]
  /\ ok = [r \in Requests |-> TRUE]
  /\ drawn = [r \in Requests |-> "no"]
  /\ governed = [r \in Requests |-> FALSE]
  /\ walletAuth = [r \in Requests |-> FALSE]
  /\ advisory = [r \in Requests |-> FALSE]
  /\ ledgerAdvisory \in AdvisoryModes
  /\ preAuth = [r \in Requests |-> FALSE]
  /\ hold = [r \in Requests |-> "none"]
  /\ outbox = [r \in Requests |-> {}]
  /\ debit = [r \in Requests |-> "none"]
  /\ alarms = [r \in Requests |-> {}]
  /\ userNet = [r \in Requests |-> 0]
  /\ tokenNet = [r \in Requests |-> 0]
  /\ poolNet = [r \in Requests |-> 0]

-----------------------------------------------------------------------------
\* Shorthands

userLedger(r) == r \notin Provisioned

\* The arguments of PostConsumeQuota: a served relay settles cost - final with
\* final already taken; a failed one hands final back with nothing taken.
quotaDelta(r) == IF outcome[r] = "served" THEN cost[r] - final[r] ELSE -final[r]
preConsumed(r) == IF outcome[r] = "served" THEN final[r] ELSE 0
totalQuota(r) == quotaDelta(r) + preConsumed(r)

\* A request moves on; it never touches the process-wide flag.
Go(r, l) == pc' = [pc EXCEPT ![r] = l] /\ UNCHANGED ledgerAdvisory
Raise(r, a) == alarms' = [alarms EXCEPT ![r] = @ \cup {a}]

\* Where control goes when PostConsumeQuota returns: ReturnPreConsumedQuota
\* still has the hold to abandon, the settlement caller has nothing left.
afterPost(r) == IF outcome[r] = "failed" THEN "release" ELSE "done"

DebitUser(r, n) ==
  /\ userQuota' = userQuota - n
  /\ userNet' = [userNet EXCEPT ![r] = @ + n]
  /\ UNCHANGED <<tokenQuota, poolBalance, tokenNet, poolNet>>

DebitToken(r, n) ==
  /\ tokenQuota' = tokenQuota - n
  /\ tokenNet' = [tokenNet EXCEPT ![r] = @ + n]
  /\ UNCHANGED <<userQuota, poolBalance, userNet, poolNet>>

DebitPool(r, n) ==
  /\ poolBalance' = poolBalance - n
  /\ poolNet' = [poolNet EXCEPT ![r] = @ + n]
  /\ UNCHANGED <<userQuota, tokenQuota, userNet, tokenNet>>

-----------------------------------------------------------------------------
\* PreConsumeQuota

\* PreConsumeQuota returns an error: a 402, or a failure of our own.
Answer(r, l, o) ==
  /\ Go(r, l)
  /\ outcome' = [outcome EXCEPT ![r] = o]
  /\ UNCHANGED <<cost, final, ok, drawn>>

Refuse(r, l) == Answer(r, l, "refused")

\* PreConsumeQuota decides once whether the local ledger only shadows the
\* wallet: globally, or for this tenant, and only if the wallet admitted us.
Admit(r, viaWallet) ==
  /\ governed' = [governed EXCEPT ![r] = viaWallet]
  /\ walletAuth' = [walletAuth EXCEPT
       ![r] = viaWallet /\ ~ledgerAdvisory /\ r \in WalletAuthoritative]
  /\ advisory' = [advisory EXCEPT
       ![r] = viaWallet /\ (ledgerAdvisory \/ r \in WalletAuthoritative)]
  /\ Go(r, "gate")
  /\ UNCHANGED <<outcome, cost, final, ok, drawn>>

\* No hold, or, when the answer is lost, one whose id the hub never learns.
Unanswered(r) ==
  /\ \/ UNCHANGED hold
     \/ "platform" \in Faults /\ hold' = [hold EXCEPT ![r] = "orphan"]
  /\ UNCHANGED preAuth

\* platformPreAuthorize, skipped without an account or with unified billing
\* off: a hold, or admission without one (ShouldSkipPreAuth, or a failed call
\* and then TryDegradedPreAuth), or a refusal.
PreAuthorize(r) ==
  /\ pc[r] = "preauth"
  /\ UNCHANGED <<rows, outbox, debit, alarms>>
  /\ \/ Admit(r, FALSE) /\ UNCHANGED <<preAuth, hold>>
     \/ /\ r \in Account
        /\ \/ Unanswered(r)
           \/ /\ preAuth' = [preAuth EXCEPT ![r] = TRUE]
              /\ hold' = [hold EXCEPT ![r] = "active"]
        /\ Admit(r, TRUE)
     \/ /\ r \in Account
        /\ Unanswered(r)
        /\ Refuse(r, "done")
        /\ UNCHANGED mode

\* The local gates: GetUserQuota (a cached balance, so any answer is possible),
\* the tenant's monthly quota, the project budget, the trust decision.
GateReadFails(r) ==
  /\ pc[r] = "gate" /\ userLedger(r) /\ "userRead" \in Faults
  /\ Answer(r, "done", "error")
  /\ UNCHANGED <<rows, mode, platform, alarms>>

\* Mutant: a gate refuses without abandoning the hold.
GateRefusesKeepsHold(r) ==
  /\ pc[r] = "gate"
  /\ Refuse(r, "done")
  /\ UNCHANGED <<rows, mode, platform, alarms>>

GateRefuses(r) ==
  /\ pc[r] = "gate"
  /\ Refuse(r, "release")
  /\ UNCHANGED <<rows, mode, platform, alarms>>

GateTrusts(r) ==
  /\ pc[r] = "gate" /\ r \in Trustable
  /\ Go(r, "relay")
  /\ UNCHANGED <<rows, relayInfo, platform, alarms>>

GatePasses(r) ==
  /\ pc[r] = "gate"
  /\ Go(r, "freezeToken")
  /\ UNCHANGED <<rows, relayInfo, platform, alarms>>

\* PreConsumeTokenQuota and what PreConsumeQuota does with its answer.
FreezeToken(r) ==
  /\ pc[r] = "freezeToken"
  /\ r \in Playground \/ r \in Unlimited \/ tokenQuota >= Estimate
  /\ IF r \in Playground THEN UNCHANGED rows ELSE DebitToken(r, Estimate)
  /\ IF userLedger(r)
     THEN Go(r, "freezeUser") /\ UNCHANGED final
     ELSE Go(r, "relay") /\ final' = [final EXCEPT ![r] = Estimate]
  /\ UNCHANGED <<outcome, cost, ok, drawn, mode, platform, alarms>>

FreezeTokenCapped(r) ==
  /\ pc[r] = "freezeToken"
  /\ r \notin Playground \cup Unlimited /\ tokenQuota < Estimate
  /\ Refuse(r, "release")
  /\ UNCHANGED <<rows, mode, platform, alarms>>

FreezeTokenFails(r) ==
  /\ pc[r] = "freezeToken"
  /\ r \notin Playground /\ "tokenWrite" \in Faults
  /\ IF advisory[r]
     THEN Go(r, "relay") /\ UNCHANGED <<outcome, cost, final, ok, drawn>>
     ELSE Refuse(r, "release")
  /\ UNCHANGED <<rows, mode, platform, alarms>>

\* Mutant: read, compare, then debit without the WHERE quota >= ? guard.
FreezeUserUnguarded(r) ==
  /\ pc[r] = "freezeUser"
  /\ DebitUser(r, Estimate)
  /\ final' = [final EXCEPT ![r] = Estimate]
  /\ Go(r, "relay")
  /\ UNCHANGED <<outcome, cost, ok, drawn, mode, platform, alarms>>

\* The user debit: unconditional in advisory mode, DecreaseUserQuotaIfEnough
\* otherwise. On refusal the token freeze is rolled back first.
FreezeUser(r) ==
  /\ pc[r] = "freezeUser"
  /\ advisory[r] \/ userQuota >= Estimate
  /\ DebitUser(r, Estimate)
  /\ final' = [final EXCEPT ![r] = Estimate]
  /\ Go(r, "relay")
  /\ UNCHANGED <<outcome, cost, ok, drawn, mode, platform, alarms>>

FreezeUserRefused(r) ==
  /\ pc[r] = "freezeUser"
  /\ \/ ~advisory[r] /\ userQuota < Estimate
     \/ "userWrite" \in Faults
  /\ Go(r, "rollback")
  /\ UNCHANGED <<rows, relayInfo, platform, alarms>>

\* rollbackTokenFreeze credits the key, also that of a console request, which
\* PreConsumeTokenQuota had not charged.
Rollback(r) ==
  /\ pc[r] = "rollback"
  /\ \/ DebitToken(r, -Estimate) /\ UNCHANGED alarms
     \/ /\ "tokenWrite" \in Faults
        /\ Raise(r, "rollback")
        /\ UNCHANGED rows
  /\ IF advisory[r]
     THEN Go(r, "relay") /\ UNCHANGED <<outcome, cost, final, ok, drawn>>
     ELSE Refuse(r, "release")
  /\ UNCHANGED <<mode, platform>>

-----------------------------------------------------------------------------
\* The relay itself, and which of the two PostConsumeQuota calls follows

\* PostConsumeQuota reads the flag again: it may have been flipped since.
EnterPost(r) ==
  advisory' = [advisory EXCEPT ![r] = governed[r] /\ (ledgerAdvisory \/ walletAuth[r])]

RelayServed(r) ==
  /\ pc[r] = "relay"
  /\ \E c \in Costs : cost' = [cost EXCEPT ![r] = c]
  /\ outcome' = [outcome EXCEPT ![r] = "served"]
  /\ EnterPost(r)
  /\ Go(r, "post1")
  /\ UNCHANGED <<rows, final, ok, drawn, governed, walletAuth, platform, alarms>>

\* releasePreConsumedOnFailure -> ReturnPreConsumedQuota
RelayFailed(r) ==
  /\ pc[r] = "relay"
  /\ outcome' = [outcome EXCEPT ![r] = "failed"]
  /\ IF final[r] # 0
     THEN EnterPost(r) /\ Go(r, "post1")
     ELSE Go(r, "release") /\ UNCHANGED advisory
  /\ UNCHANGED <<rows, cost, final, ok, drawn, governed, walletAuth, platform,
                 alarms>>

-----------------------------------------------------------------------------
\* PostConsumeQuota

PostAlarm(r) == IF outcome[r] = "failed" THEN "refund_failed" ELSE "settlement_failed"

\* Phase 1: the user row. (Phase 2, the daily counter, is a rate limit and
\* moves no balance.)
PostUser(r) ==
  /\ pc[r] = "post1"
  /\ IF userLedger(r) THEN DebitUser(r, quotaDelta(r)) ELSE UNCHANGED rows
  /\ Go(r, "pool")
  /\ UNCHANGED <<relayInfo, platform, alarms>>

PostUserFails(r) ==
  /\ pc[r] = "post1" /\ userLedger(r) /\ "userWrite" \in Faults
  /\ IF advisory[r]
     THEN Raise(r, "userMeter") /\ Go(r, "pool")
     ELSE Raise(r, PostAlarm(r)) /\ Go(r, afterPost(r))
  /\ UNCHANGED <<rows, relayInfo, platform>>

\* Phase 2.5: debitTenantPool. An exhausted pool is overdrawn rather than
\* spared, so both recorded outcomes debit the full cost. When the token row
\* cannot be read the debit is skipped without a word.
PostPool(r) ==
  /\ pc[r] = "pool"
  /\ IF totalQuota(r) > 0 /\ r \in Pooled
     THEN \/ /\ DebitPool(r, totalQuota(r))
             /\ drawn' = [drawn EXCEPT ![r] = "yes"]
             /\ UNCHANGED alarms
          \/ /\ "poolWrite" \in Faults
             /\ Raise(r, "pool")
             /\ UNCHANGED <<rows, drawn>>
          \/ /\ "tokenRead" \in Faults
             /\ drawn' = [drawn EXCEPT ![r] = "unread"]
             /\ UNCHANGED <<rows, alarms>>
     ELSE UNCHANGED <<rows, drawn, alarms>>
  /\ Go(r, "post3")
  /\ UNCHANGED <<outcome, cost, final, ok, mode, platform>>

\* Phase 3: the token row.
PostToken(r) ==
  /\ pc[r] = "post3"
  /\ IF r \in Playground THEN UNCHANGED rows ELSE DebitToken(r, quotaDelta(r))
  /\ Go(r, "wallet")
  /\ UNCHANGED <<relayInfo, platform, alarms>>

\* Mutant: compensates a user row the request does not have.
PostTokenFailsAnyUser(r) ==
  /\ pc[r] = "post3" /\ r \notin Playground /\ "tokenWrite" \in Faults
  /\ ok' = [ok EXCEPT ![r] = FALSE]
  /\ Raise(r, IF advisory[r] THEN "tokenMeter" ELSE PostAlarm(r))
  /\ Go(r, "compUser")
  /\ UNCHANGED <<rows, outcome, cost, final, drawn, mode, platform>>

PostTokenFails(r) ==
  /\ pc[r] = "post3" /\ r \notin Playground /\ "tokenWrite" \in Faults
  /\ ok' = [ok EXCEPT ![r] = FALSE]
  /\ Raise(r, IF advisory[r] THEN "tokenMeter" ELSE PostAlarm(r))
  /\ Go(r, IF userLedger(r) THEN "compUser" ELSE "compPool")
  /\ UNCHANGED <<rows, outcome, cost, final, drawn, mode, platform>>

\* Phase 3 compensation: undo phase 1, then phase 2.5.
CompensateUser(r) ==
  /\ pc[r] = "compUser"
  /\ \/ DebitUser(r, -quotaDelta(r)) /\ UNCHANGED alarms
     \/ "userWrite" \in Faults /\ Raise(r, "compUser") /\ UNCHANGED rows
  /\ Go(r, "compPool")
  /\ UNCHANGED <<relayInfo, platform>>

\* Mutant: hands the pool debit back without asking whether it landed.
CompensatePoolUngated(r) ==
  /\ pc[r] = "compPool"
  /\ IF totalQuota(r) > 0 /\ r \in Pooled
     THEN DebitPool(r, -totalQuota(r)) ELSE UNCHANGED rows
  /\ Go(r, "wallet")
  /\ UNCHANGED <<relayInfo, platform, alarms>>

CompensatePool(r) ==
  /\ pc[r] = "compPool"
  /\ \/ drawn[r] # "yes" /\ UNCHANGED <<rows, alarms>>
     \/ drawn[r] = "yes" /\ DebitPool(r, -totalQuota(r)) /\ UNCHANGED alarms
     \/ /\ drawn[r] = "yes" /\ Faults \cap {"tokenRead", "poolWrite"} # {}
        /\ Raise(r, "compPool") /\ UNCHANGED rows
  /\ Go(r, "wallet")
  /\ UNCHANGED <<relayInfo, platform>>

\* Phase 5: settlePlatformWallet decides which way the money goes.
\* Mutant: the wallet is charged however the local settlement went.
MayChargeAlways(r) == TRUE

MayCharge(r) == ok[r] \/ advisory[r]

\* Mutant: the direct debit fires although a hold is being settled.
WalletDebitsHeldToo(r) ==
  /\ pc[r] = "wallet"
  /\ r \in Account /\ totalQuota(r) > 0 /\ MayCharge(r)
  /\ debit' = [debit EXCEPT ![r] = "pending"]
  /\ Go(r, IF preAuth[r] THEN "settle" ELSE afterPost(r))
  /\ UNCHANGED <<rows, relayInfo, preAuth, hold, outbox, alarms>>

Wallet(r) ==
  /\ pc[r] = "wallet"
  /\ \/ /\ r \in Account /\ totalQuota(r) > 0 /\ preAuth[r]
        /\ Go(r, IF MayCharge(r) THEN "settle" ELSE "release")
        /\ UNCHANGED debit
     \/ /\ r \in Account /\ totalQuota(r) > 0 /\ ~preAuth[r]
        /\ debit' = IF MayCharge(r) THEN [debit EXCEPT ![r] = "pending"] ELSE debit
        /\ Go(r, afterPost(r))
     \/ /\ r \notin Account \/ totalQuota(r) <= 0
        /\ Go(r, IF r \in Account /\ preConsumed(r) > 0 /\ preAuth[r]
                 THEN "release" ELSE afterPost(r))
        /\ UNCHANGED debit
  /\ UNCHANGED <<rows, relayInfo, preAuth, hold, outbox, alarms>>

-----------------------------------------------------------------------------
\* The hold's two exits

\* One settle or release call: it takes effect or not, and the hub is told or
\* not. `to` is the hold's state when it takes effect.
PlatformCall(r, to, onAck, onError) ==
  \/ /\ hold' = [hold EXCEPT ![r] = to]
     /\ onAck
  \/ /\ "platform" \in Faults
     /\ \E h \in {to, hold[r]} : hold' = [hold EXCEPT ![r] = h]
     /\ onError

ClearPreAuth(r) == preAuth' = [preAuth EXCEPT ![r] = FALSE]

\* settleOrPark
Settle(r) ==
  /\ pc[r] = "settle"
  /\ PlatformCall(r, "settled",
                  Go(r, "done") /\ ClearPreAuth(r),
                  Go(r, "parkSettle") /\ UNCHANGED preAuth)
  /\ UNCHANGED <<rows, relayInfo, outbox, debit, alarms>>

\* abandonPreAuth -> releasePlatformPreAuth; a no-op without a hold
Release(r) ==
  /\ pc[r] = "release"
  /\ \/ ~preAuth[r] /\ Go(r, "done") /\ UNCHANGED <<preAuth, hold>>
     \/ /\ preAuth[r]
        /\ PlatformCall(r, "released",
                        Go(r, "done") /\ ClearPreAuth(r),
                        Go(r, "parkRelease") /\ UNCHANGED preAuth)
  /\ UNCHANGED <<rows, relayInfo, outbox, debit, alarms>>

\* EnqueueSettle and EnqueueRelease, and noteMoneyLost when even that fails
Park(r, from, action, stage) ==
  /\ pc[r] = from
  /\ \/ /\ outbox' = [outbox EXCEPT ![r] = @ \cup {action}]
        /\ UNCHANGED alarms
     \/ "outbox" \in Faults /\ Raise(r, stage) /\ UNCHANGED outbox
  /\ ClearPreAuth(r)
  /\ Go(r, "done")
  /\ UNCHANGED <<rows, relayInfo, hold, debit>>

ParkSettle(r) == Park(r, "parkSettle", "settle", "lost_settle")
ParkRelease(r) == Park(r, "parkRelease", "release", "lost_release")

\* The detached goroutine that debits the wallet when there was no hold, and
\* enqueueFailedLegacyDebit when that fails.
DirectDebit(r) ==
  /\ debit[r] = "pending"
  /\ \E d \in {"paid"}
            \cup (IF "platform" \in Faults THEN {"parked"} ELSE {})
            \cup (IF {"platform", "outbox"} \subseteq Faults THEN {"lost"} ELSE {}) :
       debit' = [debit EXCEPT ![r] = d]
  /\ UNCHANGED <<rows, pc, relayInfo, preAuth, hold, outbox, alarms, ledgerAdvisory>>

-----------------------------------------------------------------------------
PreConsumeStep(r) ==
  \/ PreAuthorize(r)
  \/ GateReadFails(r) \/ GateRefuses(r) \/ GateTrusts(r) \/ GatePasses(r)
  \/ FreezeToken(r) \/ FreezeTokenCapped(r) \/ FreezeTokenFails(r)
  \/ FreezeUser(r) \/ FreezeUserRefused(r) \/ Rollback(r)

PostConsumeStep(r) ==
  \/ PostUser(r) \/ PostUserFails(r) \/ PostPool(r)
  \/ PostToken(r) \/ PostTokenFails(r)
  \/ CompensateUser(r) \/ CompensatePool(r) \/ Wallet(r)

HoldStep(r) ==
  \/ Settle(r) \/ Release(r) \/ ParkSettle(r) \/ ParkRelease(r)
  \/ DirectDebit(r)

Step(r) ==
  \/ PreConsumeStep(r)
  \/ RelayServed(r) \/ RelayFailed(r)
  \/ PostConsumeStep(r)
  \/ HoldStep(r)

\* Every request answered and every detached debit finished
Quiescent == \A r \in Requests : pc[r] = "done" /\ debit[r] # "pending"
Idle == Quiescent /\ UNCHANGED vars

\* SetLocalLedgerAdvisory, called by the platform config poller
SetLocalLedgerAdvisory ==
  /\ ledgerAdvisory' \in AdvisoryModes
  /\ UNCHANGED <<rows, pc, relayInfo, platform, alarms>>

Next ==
  \/ Idle
  \/ SetLocalLedgerAdvisory
  \/ \E r \in Requests : Step(r)

Spec == Init /\ [][Next]_vars

-----------------------------------------------------------------------------
\* Properties

\* The closing PostConsumeQuota failed and undid itself.
LocalFailed(r) ==
  \/ "settlement_failed" \in alarms[r]
  \/ "refund_failed" \in alarms[r]
  \/ "tokenMeter" \in alarms[r]

\* What the user row and the token row are to have paid once r is answered: the
\* cost of a served relay, nothing for a refused or refunded one.  A closing call
\* that failed leaves the freeze it found.
Charge(r) ==
  IF LocalFailed(r) THEN final[r]
  ELSE IF outcome[r] = "served" THEN cost[r] ELSE 0

\* A write the code could neither make nor undo, and said so in a CRITICAL
\* line or a meter-loss metric.
LocalWriteLost(r) ==
  \/ "rollback" \in alarms[r]
  \/ "compUser" \in alarms[r]
  \/ "userMeter" \in alarms[r]

\* What the key has paid; a console request never pays from its key, though
\* a rollback may have credited it.
KeyPaid(r, t) == IF r \in Playground THEN tokenNet[r] \in {0, -Estimate} ELSE tokenNet[r] = t

\* The local ledgers are exact: whatever failed and was rolled back on the way,
\* an answered request has moved the user row and the token row by what it cost,
\* or, when its closing call failed, the call has undone itself on both rows alike
\* and they stand where the freeze had put them, unless an alarm says which write
\* was lost (PreConsumeQuota, PostConsumeQuota phases 1 and 3, "Compensation exists
\* solely to undo Phase 1", ReturnPreConsumedQuota).
LocalChargeExact ==
  \A r \in Requests :
    pc[r] = "done" /\ ~LocalWriteLost(r) =>
      /\ userNet[r] = IF userLedger(r) THEN Charge(r) ELSE 0
      /\ KeyPaid(r, Charge(r))

\* quota.go says of a compensated request that it "is now charged to nobody".  The
\* freeze of PreConsumeQuota stays with it.
ChargedToNobody ==
  \A r \in Requests :
    pc[r] = "done" /\ LocalFailed(r) /\ ~LocalWriteLost(r) =>
      userNet[r] = 0 /\ tokenNet[r] = 0

\* The rollback undoes PreConsumeTokenQuota, which takes nothing from the key of a
\* console request.
ConsoleKeyUntouched == \A r \in Playground : tokenNet[r] = 0

\* The strengthening that makes LocalChargeExact inductive: what the two rows
\* have paid at every point of the request, unless a lost write was announced.
Paid(r, u, t) ==
  LocalWriteLost(r)
  \/ /\ userNet[r] = IF userLedger(r) THEN u ELSE 0
     /\ KeyPaid(r, t)

LocalLedger(r) ==
  /\ pc[r] \in {"preauth", "gate", "freezeToken", "freezeUser", "rollback"} /\ r \in Playground =>
       tokenNet[r] = 0
  /\ pc[r] \in {"preauth", "gate", "freezeToken", "freezeUser", "rollback"} =>
       alarms[r] = {} /\ final[r] = 0 /\ outcome[r] = "none"
  /\ pc[r] \in {"preauth", "gate", "freezeToken"} => Paid(r, 0, 0)
  /\ pc[r] \in {"freezeUser", "rollback"} => userLedger(r) /\ Paid(r, 0, Estimate)
  /\ pc[r] \in {"relay", "post1"} => ~LocalFailed(r) /\ Paid(r, final[r], final[r])
  /\ pc[r] \in {"pool", "post3"} =>
       ~LocalFailed(r) /\ Paid(r, final[r] + quotaDelta(r), final[r])
  /\ pc[r] = "compUser" =>
       /\ LocalFailed(r) /\ userLedger(r)
       /\ Paid(r, final[r] + quotaDelta(r), final[r])
  /\ pc[r] = "compPool" => LocalFailed(r) /\ Paid(r, final[r], final[r])
  /\ pc[r] \in {"post1", "pool", "post3", "compUser", "compPool"} =>
       outcome[r] \in {"served", "failed"}
  /\ pc[r] \in {"wallet", "settle", "parkSettle", "release", "parkRelease", "done"} =>
       Paid(r, Charge(r), Charge(r))

LocalInv == \A r \in Requests : LocalLedger(r)

\* The tenant pool pays the whole cost of a request whose settlement stood and
\* nothing of any other: a compensated request is handed back in full and a
\* debit that never landed is never handed back (phase 2.5, poolDebited).  A
\* debit is missing only if an alarm says so, or if the token row could not be
\* read, of which debitTenantPool says nothing.
PoolChargeExact ==
  \A r \in Requests :
    pc[r] = "done" /\ "compPool" \notin alarms[r] =>
      poolNet[r] = IF /\ r \in Pooled /\ outcome[r] = "served"
                      /\ ~LocalFailed(r) /\ "pool" \notin alarms[r]
                      /\ drawn[r] # "unread"
                   THEN cost[r] ELSE 0

\* quota_pool.go: only "a hard DB error" loses a debit, and it is announced.
PoolLossAnnounced ==
  \A r \in Requests :
    /\ pc[r] = "done" /\ r \in Pooled /\ outcome[r] = "served" /\ ~LocalFailed(r)
    /\ alarms[r] \cap {"pool", "compPool"} = {}
    => poolNet[r] = cost[r]

\* The wallet is charged, now or later, for a served relay with a cost whose
\* local settlement stood or is only advisory, and for no other
\* (settlePlatformWallet: "release instead of settling").
WalletCharged(r) == hold[r] = "settled" \/ "settle" \in outbox[r] \/ debit[r] # "none"
WalletChargeJustified ==
  \A r \in Requests :
    WalletCharged(r) =>
      /\ outcome[r] = "served" /\ cost[r] > 0
      /\ "settlement_failed" \notin alarms[r]

\* A request is never both charged through its hold and let off it, nor charged
\* by a direct debit beside a hold the hub knows of (the id is cleared at either
\* exit).  The hold of a lost answer stays beside the debit of a degraded
\* admission until the platform expires it.
OneWalletExit ==
  \A r \in Requests :
    /\ ~(WalletCharged(r) /\ (hold[r] = "released" \/ "release" \in outbox[r]))
    /\ debit[r] # "none" => hold[r] \in {"none", "orphan"}

\* Parked in the outbox, or counted as lost.
LeftToOthers(r) ==
  \/ outbox[r] # {}
  \/ "lost_settle" \in alarms[r] \/ "lost_release" \in alarms[r]

\* The three ways a request is answered with its hold left open: the gate could
\* not read the balance, phase 1 could not settle the user row, and a relay that
\* cost nothing had frozen nothing.
LeftOpen(r) ==
  \/ outcome[r] = "error"
  \/ "settlement_failed" \in alarms[r] /\ ok[r]
  \/ outcome[r] = "served" /\ cost[r] = 0 /\ final[r] = 0

\* Whatever fails, and whatever mode the request is in, a hold the hub knows of is
\* closed, parked or counted as lost once the request is answered, but for the
\* three ways of leaving it open, and there is no fourth.
HoldExit ==
  \A r \in Requests :
    pc[r] = "done" /\ hold[r] = "active" => LeftToOthers(r) \/ LeftOpen(r)

\* "every pre-auth MUST be either settled or released".
HoldAlwaysExits ==
  \A r \in Requests : pc[r] = "done" /\ hold[r] = "active" => LeftToOthers(r)

\* Compensation only undoes what phase 1 did: no request leaves the user row
\* richer than it found it.
NeverPaidOut == \A r \in Requests : userNet[r] >= 0

\* The two conditional debits keep both rows from going negative however the
\* requests race (DecreaseUserQuotaIfEnough, DecreaseTokenQuotaIfEnough), as long
\* as no relay costs more than its estimate and no failed settlement takes a
\* refund back.
NoOverdraft ==
  (\A r \in Requests : ~LocalFailed(r)) => userQuota >= 0 /\ tokenQuota >= 0
=============================================================================
