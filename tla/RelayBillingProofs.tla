------------------------- MODULE RelayBillingProofs -------------------------
(***************************************************************************)
(* What a served request costs, and what an asynchronous task costs.       *)
(*                                                                         *)
(* First RelayBilling, for any set of requests, any estimate and costs,    *)
(* any mix of request kinds and any set of failing operations; then        *)
(* TaskPolling, for any number of pollers, tasks, keys and faults.         *)
(***************************************************************************)
EXTENDS RelayBilling, TaskPolling, WellFoundedInduction, TLAPS

\* The three row updates keep every balance and every net an integer.
LEMMA RowsTyped ==
  ASSUME TypeOK, NEW r \in Requests, NEW n \in Int,
         \/ DebitUser(r, n) \/ DebitToken(r, n) \/ DebitPool(r, n)
         \/ UNCHANGED rows
  PROVE  /\ userQuota' \in Int /\ tokenQuota' \in Int /\ poolBalance' \in Int
         /\ userNet' \in [Requests -> Int]
         /\ tokenNet' \in [Requests -> Int]
         /\ poolNet' \in [Requests -> Int]
  BY DEF TypeOK, DebitUser, DebitToken, DebitPool, rows

\* The amounts PostConsumeQuota moves are integers.
LEMMA AmountsTyped ==
  ASSUME TypeOK, NEW r \in Requests
  PROVE  /\ quotaDelta(r) \in Int /\ -quotaDelta(r) \in Int
         /\ totalQuota(r) \in Int /\ -totalQuota(r) \in Int
         /\ Estimate \in Int /\ -Estimate \in Int /\ Estimate \in Nat
  BY RelayAssumption DEF TypeOK, quotaDelta, totalQuota, preConsumed

\* PreConsumeQuota, whichever way it ends, is type-correct.
LEMMA PreConsumeTyped ==
  ASSUME TypeOK, NEW r \in Requests, PreConsumeStep(r)
  PROVE  TypeOK'
<1> USE DEF PCs, Alarms, Go, Raise, Refuse, Answer, Admit
<1>1. CASE PreAuthorize(r)
  <2>1. /\ hold' \in [Requests -> {"none", "orphan", "active", "settled", "released"}]
        /\ preAuth' \in [Requests -> BOOLEAN]
    <3>1. \/ UNCHANGED hold \/ hold' = [hold EXCEPT ![r] = "orphan"]
          \/ hold' = [hold EXCEPT ![r] = "active"]
      BY <1>1, Zenon DEF PreAuthorize, Unanswered
    <3>2. UNCHANGED preAuth \/ preAuth' = [preAuth EXCEPT ![r] = TRUE]
      BY <1>1, Zenon DEF PreAuthorize, Unanswered
    <3>3. hold' \in [Requests -> {"none", "orphan", "active", "settled", "released"}]
      BY <3>1 DEF TypeOK
    <3>4. preAuth' \in [Requests -> BOOLEAN]
      <4>1. CASE UNCHANGED preAuth
        BY <4>1 DEF TypeOK
      <4>2. CASE preAuth' = [preAuth EXCEPT ![r] = TRUE]
        BY <4>2 DEF TypeOK
      <4> QED
        BY <3>2, <4>1, <4>2
    <3> QED
      BY <3>3, <3>4
  <2>2. CASE Admit(r, FALSE) \/ Admit(r, TRUE)
    <3>1. /\ pc' \in [Requests -> PCs] /\ UNCHANGED <<outcome, cost, final, ok, drawn>>
          /\ UNCHANGED <<rows, outbox, debit, alarms, ledgerAdvisory>>
      BY <1>1, <2>2 DEF TypeOK, PreAuthorize
    <3>2. /\ governed' \in [Requests -> BOOLEAN] /\ walletAuth' \in [Requests -> BOOLEAN]
          /\ advisory' \in [Requests -> BOOLEAN]
      <4>1. CASE Admit(r, FALSE)
        BY <4>1 DEF TypeOK
      <4>2. CASE Admit(r, TRUE)
        BY <4>2 DEF TypeOK
      <4> QED
        BY <2>2, <4>1, <4>2
    <3> QED
      BY <2>1, <3>1, <3>2 DEF TypeOK, rows
  <2>3. CASE Refuse(r, "done") /\ UNCHANGED mode
    BY <1>1, <2>1, <2>3 DEF TypeOK, PreAuthorize, mode, rows
  <2> QED
    BY <1>1, <2>2, <2>3 DEF PreAuthorize
<1>2. CASE GateReadFails(r) \/ GateRefuses(r) \/ GateTrusts(r) \/ GatePasses(r)
  BY <1>2 DEF TypeOK, GateReadFails, GateRefuses, GateTrusts, GatePasses,
              mode, rows, platform, relayInfo
<1>3. CASE FreezeToken(r)
  BY <1>3, RowsTyped, AmountsTyped DEF TypeOK, FreezeToken, mode, platform
<1>4. CASE FreezeTokenCapped(r) \/ FreezeTokenFails(r)
  BY <1>4 DEF TypeOK, FreezeTokenCapped, FreezeTokenFails, mode, rows, platform
<1>5. CASE FreezeUser(r)
  BY <1>5, RowsTyped, AmountsTyped DEF TypeOK, FreezeUser, mode, platform
<1>6. CASE FreezeUserRefused(r)
  BY <1>6 DEF TypeOK, FreezeUserRefused, mode, rows, platform, relayInfo
<1>7. CASE Rollback(r)
  BY <1>7, RowsTyped, AmountsTyped DEF TypeOK, Rollback, mode, platform
<1> QED
  BY <1>1, <1>2, <1>3, <1>4, <1>5, <1>6, <1>7 DEF PreConsumeStep

\* The end of the relay is type-correct: a cost is one of Costs.
LEMMA RelayTyped ==
  ASSUME TypeOK, NEW r \in Requests, RelayServed(r) \/ RelayFailed(r)
  PROVE  TypeOK'
  BY RelayAssumption DEF TypeOK, PCs, Go, EnterPost, RelayServed, RelayFailed,
       rows, platform

\* Every phase of PostConsumeQuota is type-correct.
LEMMA PostConsumeTyped ==
  ASSUME TypeOK, NEW r \in Requests, PostConsumeStep(r)
  PROVE  TypeOK'
<1> USE DEF PCs, Alarms, Go, Raise, PostAlarm, afterPost
<1>0. CASE PostUserFails(r)
  BY <1>0 DEF TypeOK, PostUserFails, rows, mode, platform, relayInfo
<1>1. CASE PostUser(r)
  BY <1>1, RowsTyped, AmountsTyped
     DEF TypeOK, PostUser, mode, platform, relayInfo
<1>2. CASE PostPool(r)
  <2>1. CASE UNCHANGED <<rows, drawn>>
    BY <1>2, <2>1 DEF TypeOK, PostPool, DebitPool, rows, mode, platform
  <2>2. CASE /\ DebitPool(r, totalQuota(r)) /\ UNCHANGED alarms
             /\ drawn' = [drawn EXCEPT ![r] = "yes"]
    BY <1>2, <2>2, RowsTyped, AmountsTyped DEF TypeOK, PostPool, mode, platform
  <2>3. CASE UNCHANGED <<rows, alarms>> /\ drawn' = [drawn EXCEPT ![r] = "unread"]
    BY <1>2, <2>3 DEF TypeOK, PostPool, rows, mode, platform
  <2> QED
    BY <1>2, <2>1, <2>2, <2>3 DEF PostPool, rows
<1>3. CASE PostToken(r)
  BY <1>3, RowsTyped, AmountsTyped
     DEF TypeOK, PostToken, mode, platform, relayInfo
<1>7. CASE PostTokenFails(r)
  BY <1>7 DEF TypeOK, PostTokenFails, rows, mode, platform
<1>4. CASE CompensateUser(r)
  BY <1>4, RowsTyped, AmountsTyped
     DEF TypeOK, CompensateUser, mode, platform, relayInfo
<1>5. CASE CompensatePool(r)
  BY <1>5, RowsTyped, AmountsTyped
     DEF TypeOK, CompensatePool, mode, platform, relayInfo
<1>6. CASE Wallet(r)
  BY <1>6 DEF TypeOK, Wallet, rows, mode, relayInfo
<1> QED
  BY <1>0, <1>1, <1>2, <1>3, <1>4, <1>5, <1>6, <1>7 DEF PostConsumeStep

\* The hold's exits and the detached debit are type-correct.
LEMMA HoldTyped ==
  ASSUME TypeOK, NEW r \in Requests, HoldStep(r)
  PROVE  TypeOK'
<1> USE DEF PCs, Alarms, Go, Raise, ClearPreAuth, rows, mode, relayInfo
<1>1. CASE Settle(r)
  <2>1. PICK h \in {"settled", hold[r]} : hold' = [hold EXCEPT ![r] = h]
    BY <1>1 DEF Settle, PlatformCall
  <2>2. hold' \in [Requests -> {"none", "orphan", "active", "settled", "released"}]
    BY <2>1 DEF TypeOK
  <2> QED
    BY <1>1, <2>2 DEF TypeOK, Settle, PlatformCall
<1>2. CASE Release(r)
  <2>1. PICK h \in {"released", hold[r]} : hold' = [hold EXCEPT ![r] = h]
    BY <1>2 DEF Release, PlatformCall, TypeOK
  <2>2. hold' \in [Requests -> {"none", "orphan", "active", "settled", "released"}]
    BY <2>1 DEF TypeOK
  <2>3. /\ \E l \in {"done", "parkRelease"} : pc' = [pc EXCEPT ![r] = l]
        /\ UNCHANGED preAuth \/ preAuth' = [preAuth EXCEPT ![r] = FALSE]
        /\ UNCHANGED <<rows, relayInfo, outbox, debit, alarms, ledgerAdvisory>>
    BY <1>2 DEF Release, PlatformCall
  <2>4. pc' \in [Requests -> PCs]
    BY <2>3 DEF TypeOK
  <2>5. preAuth' \in [Requests -> BOOLEAN]
    <3>1. CASE UNCHANGED preAuth
      BY <3>1 DEF TypeOK
    <3>2. CASE preAuth' = [preAuth EXCEPT ![r] = FALSE]
      BY <3>2 DEF TypeOK
    <3> QED
      BY <2>3, <3>1, <3>2
  <2> QED
    BY <2>2, <2>3, <2>4, <2>5 DEF TypeOK
<1>3. CASE ParkSettle(r) \/ ParkRelease(r)
  <2>1. PICK a \in {"settle", "release"}, f \in PCs, s \in Alarms : Park(r, f, a, s)
    BY <1>3 DEF ParkSettle, ParkRelease
  <2>2. outbox' \in [Requests -> SUBSET {"settle", "release"}]
    BY <2>1 DEF TypeOK, Park
  <2>3. alarms' \in [Requests -> SUBSET Alarms]
    BY <2>1 DEF TypeOK, Park
  <2> QED
    BY <2>1, <2>2, <2>3 DEF TypeOK, Park
<1>4. CASE DirectDebit(r)
  BY <1>4 DEF TypeOK, DirectDebit
<1> QED
  BY <1>1, <1>2, <1>3, <1>4 DEF HoldStep

\* Type correctness of every step.
LEMMA TypeStep ==
  ASSUME TypeOK, [Next]_vars
  PROVE  TypeOK'
<1>1. CASE SetLocalLedgerAdvisory
  BY <1>1, RelayAssumption
     DEF TypeOK, SetLocalLedgerAdvisory, rows, mode, relayInfo, platform
<1>2. CASE \E r \in Requests : Step(r)
  BY <1>2, PreConsumeTyped, RelayTyped, PostConsumeTyped, HoldTyped DEF Step
<1>3. CASE UNCHANGED vars
  BY <1>3 DEF TypeOK, vars, rows, mode, relayInfo, platform
<1> QED
  BY <1>1, <1>2, <1>3 DEF Next, Idle

\* Every state of the money path is well typed: in particular a freeze is never
\* negative, and a hold, an outbox row or a direct debit is in a state the code
\* writes.
THEOREM TypeCorrect == Spec => []TypeOK
<1>1. Init => TypeOK
  BY RelayAssumption DEF Init, TypeOK, PCs
<1> QED
  BY <1>1, TypeStep, PTL DEF Spec

-----------------------------------------------------------------------------
\* LocalChargeExact

\* What a request's ledger facts depend on.
Same(s) ==
  /\ pc'[s] = pc[s] /\ outcome'[s] = outcome[s] /\ cost'[s] = cost[s]
  /\ final'[s] = final[s] /\ alarms'[s] = alarms[s]
  /\ userNet'[s] = userNet[s] /\ tokenNet'[s] = tokenNet[s]

\* A step that leaves these alone leaves the request's ledger facts alone.
LEMMA SameKeepsLedger ==
  ASSUME NEW s \in Requests, LocalLedger(s), Same(s)
  PROVE  LocalLedger(s)'
  BY DEF Same, LocalLedger, Paid, KeyPaid, Charge, LocalFailed, LocalWriteLost,
         userLedger, quotaDelta

\* A request's step touches no other request's ledger facts.
LEMMA StepFrames ==
  ASSUME TypeOK, NEW r \in Requests, NEW s \in Requests, r # s, Step(r)
  PROVE  Same(s)
<1> USE DEF Same, TypeOK, Go, Raise, DebitUser, DebitToken, DebitPool,
            rows, mode, relayInfo, platform
<1>1. CASE PreConsumeStep(r)
  BY <1>1 DEF PreConsumeStep, PreAuthorize, Unanswered, Admit, Refuse, Answer, GateReadFails,
       GateRefuses, GateTrusts, GatePasses, FreezeToken, FreezeTokenCapped,
       FreezeTokenFails, FreezeUser, FreezeUserRefused, Rollback
<1>2. CASE RelayServed(r) \/ RelayFailed(r)
  BY <1>2 DEF RelayServed, RelayFailed, EnterPost
<1>3. CASE PostConsumeStep(r)
  BY <1>3 DEF PostConsumeStep, PostUser, PostUserFails, PostPool, PostToken,
       PostTokenFails, CompensateUser, CompensatePool, Wallet
<1>4. CASE HoldStep(r)
  BY <1>4 DEF HoldStep, Settle, Release, ParkSettle, ParkRelease, Park,
       DirectDebit, PlatformCall
<1> QED
  BY <1>1, <1>2, <1>3, <1>4 DEF Step

\* PreConsumeQuota freezes both rows or, but for an announced rollback, neither.
LEMMA PreConsumeLedger ==
  ASSUME TypeOK, NEW r \in Requests, LocalLedger(r), PreConsumeStep(r)
  PROVE  LocalLedger(r)'
<1> USE DEF Go, LocalLedger, Paid, KeyPaid, Charge, LocalFailed, LocalWriteLost,
            userLedger, quotaDelta, TypeOK, rows
<1>1. CASE PreAuthorize(r)
  BY <1>1 DEF PreAuthorize, Unanswered, Admit, Refuse, Answer
<1>2. CASE GateReadFails(r) \/ GateRefuses(r) \/ GateTrusts(r) \/ GatePasses(r)
  BY <1>2 DEF GateReadFails, GateRefuses, GateTrusts, GatePasses, Refuse, Answer, relayInfo
<1>3. CASE FreezeToken(r)
  BY <1>3, RelayAssumption DEF FreezeToken, DebitToken
<1>4. CASE FreezeTokenCapped(r) \/ FreezeTokenFails(r)
  BY <1>4 DEF FreezeTokenCapped, FreezeTokenFails, Refuse, Answer
<1>5. CASE FreezeUser(r)
  BY <1>5, RelayAssumption DEF FreezeUser, DebitUser
<1>6. CASE FreezeUserRefused(r)
  BY <1>6 DEF FreezeUserRefused, relayInfo
<1>7. CASE Rollback(r)
  <2>0. Estimate \in Nat
    BY RelayAssumption
  <2>1. CASE DebitToken(r, -Estimate) /\ UNCHANGED alarms
    <3>1. userNet'[r] = userNet[r] /\ tokenNet'[r] = tokenNet[r] - Estimate
      BY <2>0, <2>1 DEF DebitToken
    <3>2. /\ alarms'[r] = {} /\ final'[r] = 0 /\ userNet'[r] = 0
          /\ KeyPaid(r, 0)'
      BY <1>7, <2>0, <2>1, <3>1 DEF Rollback, Refuse, Answer
    <3> QED
      BY <1>7, <3>2 DEF Rollback, Refuse, Answer
  <2>2. CASE Raise(r, "rollback")
    BY <1>7, <2>2 DEF Rollback, Raise, Refuse, Answer
  <2> QED
    BY <1>7, <2>1, <2>2 DEF Rollback
<1> QED
  BY <1>1, <1>2, <1>3, <1>4, <1>5, <1>6, <1>7 DEF PreConsumeStep

\* The end of the relay moves no money.
LEMMA RelayLedger ==
  ASSUME TypeOK, NEW r \in Requests, LocalLedger(r), RelayServed(r) \/ RelayFailed(r)
  PROVE  LocalLedger(r)'
  BY RelayAssumption
     DEF RelayServed, RelayFailed, EnterPost, Go, LocalLedger, Paid, KeyPaid, Charge,
         LocalFailed, LocalWriteLost, userLedger, quotaDelta, TypeOK, rows

\* Each phase of PostConsumeQuota moves the rows as its place in the sequence says.
LEMMA PostConsumeLedger ==
  ASSUME TypeOK, NEW r \in Requests, LocalLedger(r), PostConsumeStep(r)
  PROVE  LocalLedger(r)'
<1> USE DEF Go, LocalLedger, Paid, KeyPaid, Charge, LocalFailed, LocalWriteLost,
            userLedger, quotaDelta, TypeOK, rows, PostAlarm, afterPost, Raise,
            relayInfo
<1>1. CASE PostUser(r)
  BY <1>1 DEF PostUser, DebitUser
<1>2. CASE PostUserFails(r)
  BY <1>2 DEF PostUserFails
<1>3. CASE PostPool(r)
  BY <1>3 DEF PostPool, DebitPool
<1>4. CASE PostToken(r)
  BY <1>4 DEF PostToken, DebitToken
<1>5. CASE PostTokenFails(r)
  BY <1>5 DEF PostTokenFails
<1>6. CASE CompensateUser(r)
  BY <1>6 DEF CompensateUser, DebitUser
<1>7. CASE CompensatePool(r)
  BY <1>7 DEF CompensatePool, DebitPool
<1>8. CASE Wallet(r)
  BY <1>8 DEF Wallet
<1> QED
  BY <1>1, <1>2, <1>3, <1>4, <1>5, <1>6, <1>7, <1>8 DEF PostConsumeStep

\* The hold's exits move no local row.
LEMMA HoldLedger ==
  ASSUME TypeOK, NEW r \in Requests, LocalLedger(r), HoldStep(r)
  PROVE  LocalLedger(r)'
<1> USE DEF Go, LocalLedger, Paid, KeyPaid, Charge, LocalFailed, LocalWriteLost,
            userLedger, quotaDelta, TypeOK, rows, relayInfo
<1>1. CASE Settle(r) \/ Release(r)
  BY <1>1 DEF Settle, Release, PlatformCall
<1>2. CASE ParkSettle(r) \/ ParkRelease(r)
  BY <1>2 DEF ParkSettle, ParkRelease, Park, Raise
<1>3. CASE DirectDebit(r)
  BY <1>3 DEF DirectDebit
<1> QED
  BY <1>1, <1>2, <1>3 DEF HoldStep

\* The ledger invariant of every step.
LEMMA LocalStep ==
  ASSUME TypeOK, LocalInv, [Next]_vars
  PROVE  LocalInv'
<1>1. CASE \E r \in Requests : Step(r)
  <2>1. PICK r \in Requests : Step(r)
    BY <1>1
  <2>2. LocalLedger(r)'
    BY <2>1, PreConsumeLedger, RelayLedger, PostConsumeLedger, HoldLedger
       DEF Step, LocalInv
  <2>3. \A s \in Requests : r # s => LocalLedger(s)'
    BY <2>1, StepFrames, SameKeepsLedger DEF LocalInv
  <2> QED
    BY <2>2, <2>3 DEF LocalInv
<1>2. CASE SetLocalLedgerAdvisory \/ UNCHANGED vars
  <2>1. \A s \in Requests : Same(s)
    BY <1>2 DEF SetLocalLedgerAdvisory, vars, rows, relayInfo, Same
  <2> QED
    BY <2>1, SameKeepsLedger DEF LocalInv
<1> QED
  BY <1>1, <1>2 DEF Next, Idle

\* A request that has not begun has moved nothing.
LEMMA LocalStart ==
  ASSUME Init
  PROVE  LocalInv
<1> SUFFICES ASSUME NEW r \in Requests
             PROVE  LocalLedger(r)
  BY DEF LocalInv
<1>1. /\ pc[r] = "preauth" /\ alarms[r] = {} /\ final[r] = 0 /\ outcome[r] = "none"
      /\ userNet[r] = 0 /\ tokenNet[r] = 0
  BY DEF Init
<1> QED
  BY <1>1 DEF LocalLedger, Paid, KeyPaid

\* The local ledgers are exact for every number of requests, every interleaving
\* and every combination of failing writes: an answered request has moved the
\* user row and the token row by exactly its charge, unless a lost write was
\* announced.
THEOREM LocalChargeCorrect == Spec => []LocalChargeExact
<1>1. Init => LocalInv
  BY LocalStart
<1>2. LocalInv => LocalChargeExact
  BY DEF LocalInv, LocalLedger, LocalChargeExact, Paid, KeyPaid
<1> QED
  BY <1>1, <1>2, TypeCorrect, LocalStep, PTL DEF Spec

-----------------------------------------------------------------------------
\* The pool's draws and the wallet's exits

BeforePool == {"preauth", "gate", "freezeToken", "freezeUser", "rollback", "relay",
               "post1", "pool"}
BeforeWallet == BeforePool \cup {"post3", "compUser", "compPool", "wallet"}
Closing == {"wallet", "settle", "parkSettle", "release", "parkRelease", "done"}

\* What the pool has paid for a request at each point of it.
PoolLedger(r) ==
  /\ pc[r] \in BeforePool =>
       /\ poolNet[r] = 0 /\ drawn[r] = "no"
       /\ "pool" \notin alarms[r] /\ "compPool" \notin alarms[r]
  /\ pc[r] \in {"post3", "compUser", "compPool"} =>
       /\ "compPool" \notin alarms[r]
       /\ drawn[r] = "yes" => /\ poolNet[r] = totalQuota(r) /\ totalQuota(r) > 0
                              /\ r \in Pooled /\ "pool" \notin alarms[r]
       /\ drawn[r] # "yes" => poolNet[r] = 0
       /\ drawn[r] = "no" => \/ totalQuota(r) <= 0 \/ r \notin Pooled
                             \/ "pool" \in alarms[r]
  /\ pc[r] \in Closing /\ "compPool" \notin alarms[r] =>
       poolNet[r] = IF /\ r \in Pooled /\ outcome[r] = "served"
                       /\ ~LocalFailed(r) /\ "pool" \notin alarms[r]
                       /\ drawn[r] # "unread"
                    THEN cost[r] ELSE 0

NoHoldYet(r) == hold[r] = "none" /\ ~preAuth[r]
NoneKnown(r) == hold[r] \in {"none", "orphan"} /\ ~preAuth[r]
HoldOpen(r) == hold[r] = "active" /\ preAuth[r] /\ r \in Account

\* A charge that the local settlement bears out.
Justified(r) ==
  /\ outcome[r] = "served" /\ cost[r] > 0
  /\ "settlement_failed" \notin alarms[r]

\* Where the hold, the outbox and the direct debit of a request stand.
Exits(r) ==
  /\ pc[r] \in BeforeWallet \cup {"settle", "parkSettle", "release", "parkRelease"} =>
       debit[r] = "none" /\ outbox[r] = {}
  /\ pc[r] = "preauth" => NoHoldYet(r)
  /\ pc[r] \in BeforePool \cup {"post3"} => ok[r]
  /\ pc[r] \in BeforeWallet \cup {"release"} => NoneKnown(r) \/ HoldOpen(r)
  /\ pc[r] \in BeforeWallet /\ "settlement_failed" \in alarms[r] =>
       ~ok[r] /\ ~advisory[r]
  /\ pc[r] = "wallet" => outcome[r] \in {"served", "failed"}
  /\ pc[r] \in {"settle", "parkSettle"} => Justified(r)
  /\ pc[r] = "settle" => HoldOpen(r)
  /\ pc[r] = "parkSettle" => preAuth[r] /\ hold[r] \in {"active", "settled"}
  /\ pc[r] = "parkRelease" => preAuth[r] /\ hold[r] \in {"active", "released"}
  /\ pc[r] = "done" =>
       \/ hold[r] \in {"none", "orphan"} /\ outbox[r] = {} /\ debit[r] = "none"
       \/ hold[r] \in {"none", "orphan"} /\ outbox[r] = {} /\ debit[r] # "none" /\ Justified(r)
       \/ /\ hold[r] = "active" /\ outbox[r] = {} /\ debit[r] = "none"
          /\ LeftOpen(r)
       \/ /\ hold[r] \in {"active", "settled"} /\ debit[r] = "none"
          /\ Justified(r)
          /\ \/ outbox[r] = {"settle"}
             \/ outbox[r] = {} /\ (hold[r] = "settled" \/ "lost_settle" \in alarms[r])
       \/ /\ hold[r] \in {"active", "released"} /\ debit[r] = "none"
          /\ \/ outbox[r] = {"release"}
             \/ outbox[r] = {} /\ (hold[r] = "released" \/ "lost_release" \in alarms[r])

MoneyInv == \A r \in Requests : PoolLedger(r)
ExitInv == \A r \in Requests : Exits(r)

\* What the pool's and the wallet's facts about a request depend on, besides what
\* its ledger facts do.
SameExits(s) ==
  /\ poolNet'[s] = poolNet[s] /\ drawn'[s] = drawn[s]
  /\ ok'[s] = ok[s] /\ advisory'[s] = advisory[s] /\ walletAuth'[s] = walletAuth[s]
  /\ preAuth'[s] = preAuth[s] /\ hold'[s] = hold[s]
  /\ outbox'[s] = outbox[s] /\ debit'[s] = debit[s]

\* A request's step touches none of these of another request.
LEMMA StepFramesExits ==
  ASSUME TypeOK, NEW r \in Requests, NEW s \in Requests, r # s, Step(r)
  PROVE  SameExits(s)
<1> USE DEF SameExits, TypeOK, Go, Raise, DebitUser, DebitToken, DebitPool,
            rows, mode, relayInfo, platform
<1>1. CASE PreConsumeStep(r)
  BY <1>1 DEF PreConsumeStep, PreAuthorize, Unanswered, Admit, Refuse, Answer, GateReadFails,
       GateRefuses, GateTrusts, GatePasses, FreezeToken, FreezeTokenCapped,
       FreezeTokenFails, FreezeUser, FreezeUserRefused, Rollback
<1>2. CASE RelayServed(r) \/ RelayFailed(r)
  BY <1>2 DEF RelayServed, RelayFailed, EnterPost
<1>3. CASE PostConsumeStep(r)
  BY <1>3 DEF PostConsumeStep, PostUser, PostUserFails, PostPool, PostToken,
       PostTokenFails, CompensateUser, CompensatePool, Wallet
<1>4. CASE HoldStep(r)
  BY <1>4 DEF HoldStep, Settle, Release, ParkSettle, ParkRelease, Park,
       DirectDebit, PlatformCall, ClearPreAuth
<1> QED
  BY <1>1, <1>2, <1>3, <1>4 DEF Step

\* A step that leaves a request alone leaves the pool's and the wallet's facts
\* about it alone.
LEMMA SameKeepsPool ==
  ASSUME NEW s \in Requests, PoolLedger(s), Same(s), SameExits(s)
  PROVE  PoolLedger(s)'
  BY DEF Same, SameExits, PoolLedger, totalQuota, quotaDelta, preConsumed, LocalFailed

\* And the exits of its hold.
LEMMA SameKeepsExits ==
  ASSUME NEW s \in Requests, Exits(s), Same(s), SameExits(s)
  PROVE  Exits(s)'
  BY DEF Same, SameExits, Exits, NoHoldYet, NoneKnown, HoldOpen, Justified, LeftOpen

-----------------------------------------------------------------------------
\* PoolChargeExact

\* Until the pool phase a request has drawn nothing and raised no pool alarm.
LEMMA PreConsumePool ==
  ASSUME TypeOK, NEW r \in Requests, LocalLedger(r), PoolLedger(r),
         PreConsumeStep(r)
  PROVE  PoolLedger(r)'
<1> USE DEF Go, PoolLedger, BeforePool, Closing, LocalFailed, TypeOK, rows
<1>1. CASE PreAuthorize(r)
  BY <1>1 DEF PreAuthorize, Unanswered, Admit, Refuse, Answer
<1>2. CASE GateReadFails(r) \/ GateRefuses(r) \/ GateTrusts(r) \/ GatePasses(r)
  BY <1>2 DEF GateReadFails, GateRefuses, GateTrusts, GatePasses, Refuse, Answer, relayInfo
<1>3. CASE FreezeToken(r)
  BY <1>3 DEF FreezeToken, DebitToken
<1>4. CASE FreezeTokenCapped(r) \/ FreezeTokenFails(r)
  BY <1>4 DEF FreezeTokenCapped, FreezeTokenFails, Refuse, Answer
<1>5. CASE FreezeUser(r)
  BY <1>5 DEF FreezeUser, DebitUser
<1>6. CASE FreezeUserRefused(r)
  BY <1>6 DEF FreezeUserRefused, relayInfo
<1>7. CASE Rollback(r)
  BY <1>7 DEF Rollback, DebitToken, Raise, Refuse, Answer
<1> QED
  BY <1>1, <1>2, <1>3, <1>4, <1>5, <1>6, <1>7 DEF PreConsumeStep

\* The upstream call leaves the pool alone.
LEMMA RelayPool ==
  ASSUME TypeOK, NEW r \in Requests, PoolLedger(r), RelayServed(r) \/ RelayFailed(r)
  PROVE  PoolLedger(r)'
  BY DEF RelayServed, RelayFailed, EnterPost, Go, PoolLedger, BeforePool, Closing,
         LocalFailed, TypeOK, rows

\* The pool phase draws the whole cost or says why not, and only a failed token
\* write hands a draw back.
LEMMA PostConsumePool ==
  ASSUME TypeOK, NEW r \in Requests, LocalLedger(r), PoolLedger(r),
         PostConsumeStep(r)
  PROVE  PoolLedger(r)'
<1> USE DEF Go, PoolLedger, BeforePool, Closing, LocalFailed, TypeOK, rows,
            totalQuota, quotaDelta, preConsumed, PostAlarm, afterPost, Raise, relayInfo
<1>1. CASE PostUser(r)
  BY <1>1 DEF PostUser, DebitUser
<1>2. CASE PostUserFails(r)
  BY <1>2 DEF PostUserFails
<1>3. CASE PostPool(r)
  BY <1>3 DEF PostPool, DebitPool
<1>4. CASE PostToken(r)
  BY <1>4 DEF PostToken, DebitToken, LocalLedger
<1>5. CASE PostTokenFails(r)
  BY <1>5 DEF PostTokenFails
<1>6. CASE CompensateUser(r)
  BY <1>6 DEF CompensateUser, DebitUser
<1>7. CASE CompensatePool(r)
  BY <1>7 DEF CompensatePool, DebitPool, LocalLedger
<1>8. CASE Wallet(r)
  BY <1>8 DEF Wallet
<1> QED
  BY <1>1, <1>2, <1>3, <1>4, <1>5, <1>6, <1>7, <1>8 DEF PostConsumeStep

\* So do the exits of the hold.
LEMMA HoldPool ==
  ASSUME TypeOK, NEW r \in Requests, PoolLedger(r), HoldStep(r)
  PROVE  PoolLedger(r)'
<1> USE DEF Go, PoolLedger, BeforePool, Closing, LocalFailed, TypeOK, rows,
            totalQuota, quotaDelta, preConsumed, relayInfo
<1>1. CASE Settle(r) \/ Release(r)
  BY <1>1 DEF Settle, Release, PlatformCall
<1>2. CASE ParkSettle(r) \/ ParkRelease(r)
  BY <1>2 DEF ParkSettle, ParkRelease, Park, Raise
<1>3. CASE DirectDebit(r)
  BY <1>3 DEF DirectDebit
<1> QED
  BY <1>1, <1>2, <1>3 DEF HoldStep

\* Every step keeps the account of the pool for every request.
LEMMA MoneyStep ==
  ASSUME TypeOK, LocalInv, MoneyInv, [Next]_vars
  PROVE  MoneyInv'
<1>1. CASE \E r \in Requests : Step(r)
  <2>1. PICK r \in Requests : Step(r)
    BY <1>1
  <2>2. PoolLedger(r)'
    BY <2>1, PreConsumePool, RelayPool, PostConsumePool, HoldPool
       DEF Step, LocalInv, MoneyInv
  <2>3. \A s \in Requests : r # s => PoolLedger(s)'
    BY <2>1, StepFrames, StepFramesExits, SameKeepsPool DEF MoneyInv
  <2> QED
    BY <2>2, <2>3 DEF MoneyInv
<1>2. CASE SetLocalLedgerAdvisory \/ UNCHANGED vars
  <2>1. \A s \in Requests : Same(s) /\ SameExits(s)
    BY <1>2 DEF SetLocalLedgerAdvisory, vars, rows, relayInfo, mode, platform,
         Same, SameExits
  <2> QED
    BY <2>1, SameKeepsPool DEF MoneyInv
<1> QED
  BY <1>1, <1>2 DEF Next, Idle

\* The pool pays the whole cost of a request whose settlement stood, and nothing of
\* any other, for every number of requests and every combination of failing reads
\* and writes; a debit that is missing was announced, or the token row could not be
\* read (debitTenantPool, creditTenantPool).
THEOREM PoolChargeCorrect == Spec => []PoolChargeExact
<1>1. Init => LocalInv /\ MoneyInv
  BY LocalStart DEF Init, MoneyInv, PoolLedger, Closing
<1>2. MoneyInv => PoolChargeExact
  BY DEF MoneyInv, PoolLedger, PoolChargeExact, Closing
<1>3. TypeOK /\ LocalInv /\ MoneyInv /\ [Next]_vars => LocalInv' /\ MoneyInv'
  BY LocalStep, MoneyStep
<1> QED
  BY <1>1, <1>2, <1>3, TypeCorrect, PTL DEF Spec

-----------------------------------------------------------------------------
\* WalletChargeJustified, OneWalletExit and HoldExit

\* PreConsumeQuota opens at most one hold, and every refusal but a failed balance
\* read goes through its release.
LEMMA PreConsumeExits ==
  ASSUME TypeOK, NEW r \in Requests, LocalLedger(r), Exits(r), PreConsumeStep(r)
  PROVE  Exits(r)'
<1> USE DEF Go, Exits, BeforeWallet, BeforePool, NoHoldYet, NoneKnown, HoldOpen, Justified,
            LeftOpen, LocalLedger, LocalFailed, TypeOK, mode
<1>1. CASE PreAuthorize(r)
  <2>1. CASE Refuse(r, "done")
    BY <1>1, <2>1 DEF PreAuthorize, Unanswered, Admit, Refuse, Answer
  <2>2. CASE Admit(r, FALSE) /\ UNCHANGED <<preAuth, hold>>
    BY <1>1, <2>2 DEF PreAuthorize, Unanswered, Admit
  <2>3. CASE r \in Account /\ Admit(r, TRUE)
    <3>1. pc' = [pc EXCEPT ![r] = "gate"] /\ UNCHANGED <<alarms, outbox, debit>>
      BY <1>1, <2>3 DEF PreAuthorize, Unanswered, Admit
    <3>2. ~Refuse(r, "done")
      BY <3>1 DEF Refuse, Answer
    <3>3. \/ Unanswered(r)
          \/ /\ preAuth' = [preAuth EXCEPT ![r] = TRUE]
             /\ hold' = [hold EXCEPT ![r] = "active"]
      BY <1>1, <3>2 DEF PreAuthorize, Unanswered
    <3>4. NoneKnown(r)' \/ HoldOpen(r)'
      BY <1>1, <2>3, <3>3 DEF PreAuthorize, Unanswered
    <3> QED
      BY <1>1, <2>3, <3>1, <3>4 DEF PreAuthorize, Admit
  <2> QED
    BY <1>1, <2>1, <2>2, <2>3 DEF PreAuthorize
<1>2. CASE GateReadFails(r) \/ GateRefuses(r) \/ GateTrusts(r) \/ GatePasses(r)
  BY <1>2 DEF GateReadFails, GateRefuses, GateTrusts, GatePasses, Refuse, Answer,
       relayInfo, platform
<1>3. CASE FreezeToken(r)
  BY <1>3 DEF FreezeToken, platform
<1>4. CASE FreezeTokenCapped(r) \/ FreezeTokenFails(r)
  BY <1>4 DEF FreezeTokenCapped, FreezeTokenFails, Refuse, Answer, platform
<1>5. CASE FreezeUser(r)
  BY <1>5 DEF FreezeUser, platform
<1>6. CASE FreezeUserRefused(r)
  BY <1>6 DEF FreezeUserRefused, relayInfo, platform
<1>7. CASE Rollback(r)
  BY <1>7 DEF Rollback, Raise, Refuse, Answer, platform
<1> QED
  BY <1>1, <1>2, <1>3, <1>4, <1>5, <1>6, <1>7 DEF PreConsumeStep

\* The end of the relay leaves the hold as it is.
LEMMA RelayExits ==
  ASSUME TypeOK, NEW r \in Requests, LocalLedger(r), Exits(r),
         RelayServed(r) \/ RelayFailed(r)
  PROVE  Exits(r)'
  BY DEF RelayServed, RelayFailed, EnterPost, Go, Exits, BeforeWallet, BeforePool,
         NoHoldYet, NoneKnown, HoldOpen, Justified, LeftOpen, LocalLedger, LocalFailed,
         TypeOK, platform

\* settlePlatformWallet sends a request to the settlement of its hold, to a direct
\* debit or to the release of its hold, and to the first two only when the charge is
\* borne out.
LEMMA PostConsumeExits ==
  ASSUME TypeOK, NEW r \in Requests, LocalLedger(r), Exits(r), PostConsumeStep(r)
  PROVE  Exits(r)'
<1> USE DEF Go, Exits, BeforeWallet, BeforePool, NoHoldYet, NoneKnown, HoldOpen, Justified,
            LeftOpen, LocalLedger, LocalFailed, TypeOK, Raise, PostAlarm,
            afterPost, relayInfo, mode, platform
<1>1. CASE PostUser(r) \/ PostToken(r)
  BY <1>1 DEF PostUser, PostToken
<1>2. CASE PostUserFails(r)
  BY <1>2 DEF PostUserFails
<1>3. CASE PostPool(r)
  BY <1>3 DEF PostPool
<1>5. CASE PostTokenFails(r)
  BY <1>5 DEF PostTokenFails
<1>6. CASE CompensateUser(r) \/ CompensatePool(r)
  BY <1>6 DEF CompensateUser, CompensatePool
<1>8. CASE Wallet(r)
  <2> USE DEF Wallet, MayCharge, totalQuota, quotaDelta, preConsumed
  <2>1. CASE r \in Account /\ totalQuota(r) > 0 /\ preAuth[r]
    BY <1>8, <2>1
  <2>2. CASE r \in Account /\ totalQuota(r) > 0 /\ ~preAuth[r]
    BY <1>8, <2>2
  <2>3. CASE r \notin Account \/ totalQuota(r) <= 0
    BY <1>8, <2>3
  <2> QED
    BY <1>8, <2>1, <2>2, <2>3
<1> QED
  BY <1>1, <1>2, <1>3, <1>5, <1>6, <1>8 DEF PostConsumeStep

\* A settle or a release closes the hold, parks it or announces it lost.
LEMMA HoldExits ==
  ASSUME TypeOK, NEW r \in Requests, Exits(r), HoldStep(r)
  PROVE  Exits(r)'
<1> USE DEF Go, Exits, BeforeWallet, BeforePool, NoHoldYet, NoneKnown, HoldOpen, Justified,
            LeftOpen, TypeOK, relayInfo, mode, ClearPreAuth
<1>1. CASE Settle(r)
  BY <1>1 DEF Settle, PlatformCall
<1>2. CASE Release(r)
  BY <1>2 DEF Release, PlatformCall
<1>3. CASE ParkSettle(r)
  BY <1>3 DEF ParkSettle, Park, Raise
<1>4. CASE ParkRelease(r)
  BY <1>4 DEF ParkRelease, Park, Raise
<1>5. CASE DirectDebit(r)
  BY <1>5 DEF DirectDebit, PCs
<1> QED
  BY <1>1, <1>2, <1>3, <1>4, <1>5 DEF HoldStep

\* Every step keeps the account of the holds for every request.
LEMMA ExitStep ==
  ASSUME TypeOK, LocalInv, ExitInv, [Next]_vars
  PROVE  ExitInv'
<1>1. CASE \E r \in Requests : Step(r)
  <2>1. PICK r \in Requests : Step(r)
    BY <1>1
  <2>2. Exits(r)'
    BY <2>1, PreConsumeExits, RelayExits, PostConsumeExits, HoldExits
       DEF Step, LocalInv, ExitInv
  <2>3. \A s \in Requests : r # s => Exits(s)'
    BY <2>1, StepFrames, StepFramesExits, SameKeepsExits DEF ExitInv
  <2> QED
    BY <2>2, <2>3 DEF ExitInv
<1>2. CASE SetLocalLedgerAdvisory \/ UNCHANGED vars
  <2>1. \A s \in Requests : Same(s) /\ SameExits(s)
    BY <1>2 DEF SetLocalLedgerAdvisory, vars, rows, relayInfo, mode, platform,
         Same, SameExits
  <2> QED
    BY <2>1, SameKeepsExits DEF ExitInv
<1> QED
  BY <1>1, <1>2 DEF Next, Idle

\* The three invariants together.
LEMMA ExitInvHolds == Spec => [](TypeOK /\ LocalInv /\ ExitInv)
<1>1. Init => LocalInv /\ ExitInv
  BY LocalStart DEF Init, ExitInv, Exits, BeforeWallet, BeforePool, NoHoldYet, NoneKnown
<1>2. TypeOK /\ LocalInv /\ ExitInv /\ [Next]_vars => LocalInv' /\ ExitInv'
  BY LocalStep, ExitStep
<1> QED
  BY <1>1, <1>2, TypeCorrect, PTL DEF Spec

\* The wallet is charged only for a served relay with a cost whose local settlement
\* stood or is advisory, however requests and failures interleave.
THEOREM WalletChargeCorrect == Spec => []WalletChargeJustified
<1>1. TypeOK /\ ExitInv => WalletChargeJustified
  BY DEF TypeOK, PCs, ExitInv, Exits, BeforeWallet, BeforePool, NoHoldYet, NoneKnown, HoldOpen,
         Justified, WalletChargeJustified, WalletCharged
<1> QED
  BY <1>1, ExitInvHolds, PTL

\* No request is both charged and let off, or charged twice over.
THEOREM OneWalletExitCorrect == Spec => []OneWalletExit
<1>1. ASSUME TypeOK, ExitInv, NEW r \in Requests
      PROVE  /\ ~(WalletCharged(r) /\ (hold[r] = "released" \/ "release" \in outbox[r]))
             /\ debit[r] # "none" => hold[r] \in {"none", "orphan"}
  <2> USE <1>1 DEF ExitInv, Exits, WalletCharged
  <2>1. CASE pc[r] = "done"
    BY <2>1
  <2>2. CASE pc[r] \in {"parkSettle", "parkRelease"}
    BY <2>2
  <2>3. CASE pc[r] \in BeforeWallet \cup {"settle", "release"}
    BY <2>3 DEF BeforeWallet, BeforePool, NoHoldYet, NoneKnown, HoldOpen
  <2> QED
    BY <2>1, <2>2, <2>3 DEF TypeOK, PCs, BeforeWallet, BeforePool
<1>2. TypeOK /\ ExitInv => OneWalletExit
  BY <1>1 DEF OneWalletExit
<1> QED
  BY <1>2, ExitInvHolds, PTL

\* Every hold of an answered request is closed, parked, announced lost, or left open in
\* one of the three ways LeftOpen names, for any requests, costs and failing operations
\* and however the request was admitted: the list of ways is complete.
THEOREM HoldExitCorrect == Spec => []HoldExit
<1>1. ExitInv => HoldExit
  BY DEF ExitInv, Exits, HoldExit, LeftToOthers
<1> QED
  BY <1>1, ExitInvHolds, PTL

-----------------------------------------------------------------------------
\* NoOverdraft, where no freeze is waived

\* No local ledger is advisory and nobody is trusted past the freeze.
NoWaiver ==
  AdvisoryModes \subseteq {FALSE} /\ WalletAuthoritative = {} /\ Trustable = {}

\* A request that reached the relay has frozen the whole estimate.
Frozen(r) ==
  /\ ~advisory[r] /\ ~walletAuth[r]
  /\ pc[r] \in {"relay", "post1"} => final[r] = Estimate
  /\ outcome[r] \in {"served", "failed"} => final[r] = Estimate

FrozenInv == ~ledgerAdvisory /\ \A r \in Requests : Frozen(r)

\* Admission freezes the estimate, or knows that it has not.
LEMMA PreConsumeFrozen ==
  ASSUME TypeOK, NoWaiver, NEW r \in Requests, LocalLedger(r), ~ledgerAdvisory,
         Frozen(r), PreConsumeStep(r)
  PROVE  Frozen(r)'
<1> USE DEF Go, Frozen, NoWaiver, TypeOK, mode
<1>1. CASE PreAuthorize(r)
  <2>1. CASE Refuse(r, "done") /\ UNCHANGED mode
    BY <1>1, <2>1 DEF PreAuthorize, Unanswered, Refuse, Answer
  <2>2. CASE Admit(r, TRUE) \/ Admit(r, FALSE)
    <3>1. ~advisory'[r] /\ ~walletAuth'[r]
      BY <2>2 DEF Admit
    <3> QED
      BY <1>1, <2>2, <3>1 DEF PreAuthorize, Unanswered, Admit, LocalLedger
  <2> QED
    BY <1>1, <2>1, <2>2 DEF PreAuthorize
<1>2. CASE GateReadFails(r) \/ GateRefuses(r) \/ GateTrusts(r) \/ GatePasses(r)
  BY <1>2 DEF GateReadFails, GateRefuses, GateTrusts, GatePasses, Refuse, Answer, relayInfo
<1>3. CASE FreezeToken(r)
  BY <1>3 DEF FreezeToken, LocalLedger
<1>4. CASE FreezeTokenCapped(r) \/ FreezeTokenFails(r)
  BY <1>4 DEF FreezeTokenCapped, FreezeTokenFails, Refuse, Answer
<1>5. CASE FreezeUser(r)
  BY <1>5 DEF FreezeUser
<1>6. CASE FreezeUserRefused(r)
  BY <1>6 DEF FreezeUserRefused, relayInfo
<1>7. CASE Rollback(r)
  BY <1>7 DEF Rollback, Raise, Refuse, Answer
<1> QED
  BY <1>1, <1>2, <1>3, <1>4, <1>5, <1>6, <1>7 DEF PreConsumeStep

\* What was frozen is not forgotten on the way to the settlement.
LEMMA AfterFrozen ==
  ASSUME TypeOK, NEW r \in Requests, ~ledgerAdvisory, Frozen(r),
         RelayServed(r) \/ RelayFailed(r) \/ PostConsumeStep(r) \/ HoldStep(r)
  PROVE  Frozen(r)'
<1> USE DEF Go, Frozen, TypeOK, mode, relayInfo, afterPost
<1>1. CASE RelayServed(r) \/ RelayFailed(r)
  <2>1. ~advisory'[r] /\ ~walletAuth'[r]
    BY <1>1 DEF RelayServed, RelayFailed, EnterPost
  <2> QED
    BY <1>1, <2>1 DEF RelayServed, RelayFailed
<1>2. CASE PostConsumeStep(r)
  BY <1>2 DEF PostConsumeStep, PostUser, PostUserFails, PostPool, PostToken,
       PostTokenFails, CompensateUser, CompensatePool, Wallet
<1>3. CASE HoldStep(r)
  BY <1>3 DEF HoldStep, Settle, Release, ParkSettle, ParkRelease, Park,
       DirectDebit, PlatformCall
<1> QED
  BY <1>1, <1>2, <1>3

\* Every step keeps the account of the freezes.
LEMMA FrozenStep ==
  ASSUME TypeOK, NoWaiver, LocalInv, FrozenInv, [Next]_vars
  PROVE  FrozenInv'
<1>1. CASE \E r \in Requests : Step(r)
  <2>1. PICK r \in Requests : Step(r)
    BY <1>1
  <2>2. Frozen(r)'
    BY <2>1, PreConsumeFrozen, AfterFrozen DEF Step, LocalInv, FrozenInv
  <2>3. \A s \in Requests : r # s => Frozen(s)'
    BY <2>1, StepFrames, StepFramesExits DEF FrozenInv, Frozen, Same, SameExits
  <2>4. UNCHANGED ledgerAdvisory
    BY <2>1 DEF Step, PreConsumeStep, PreAuthorize, Unanswered, Admit, Refuse, Answer, GateReadFails,
       GateRefuses, GateTrusts, GatePasses, FreezeToken, FreezeTokenCapped,
       FreezeTokenFails, FreezeUser, FreezeUserRefused, Rollback, RelayServed,
       RelayFailed, PostConsumeStep, PostUser, PostUserFails, PostPool, PostToken,
       PostTokenFails, CompensateUser, CompensatePool, Wallet, HoldStep, Settle,
       Release, ParkSettle, ParkRelease, Park, DirectDebit, PlatformCall, Go
  <2> QED
    BY <2>2, <2>3, <2>4 DEF FrozenInv
<1>2. CASE SetLocalLedgerAdvisory \/ UNCHANGED vars
  <2>1. \A s \in Requests : Same(s) /\ SameExits(s)
    BY <1>2 DEF SetLocalLedgerAdvisory, vars, rows, relayInfo, mode, platform,
         Same, SameExits
  <2>2. ~ledgerAdvisory'
    BY <1>2 DEF SetLocalLedgerAdvisory, NoWaiver, FrozenInv, vars
  <2> QED
    BY <2>1, <2>2 DEF FrozenInv, Frozen, Same, SameExits
<1> QED
  BY <1>1, <1>2 DEF Next, Idle

\* It holds where no freeze is waived.
LEMMA FrozenInvHolds ==
  ASSUME NoWaiver
  PROVE  Spec => [](TypeOK /\ LocalInv /\ FrozenInv)
<1>0. Init => ~ledgerAdvisory
  BY Zenon DEF Init, NoWaiver
<1>1. Init => LocalInv /\ FrozenInv
  BY <1>0, LocalStart DEF Init, FrozenInv, Frozen
<1>2. TypeOK /\ LocalInv /\ FrozenInv /\ [Next]_vars => LocalInv' /\ FrozenInv'
  BY LocalStep, FrozenStep
<1> QED
  BY <1>1, <1>2, TypeCorrect, PTL DEF Spec

-----------------------------------------------------------------------------
\* The configuration in which the two conditional debits guard the rows: no freeze
\* is waived, no key is unlimited and no relay costs more than its estimate.
Guarded ==
  /\ NoWaiver /\ Unlimited = {}
  /\ \A c \in Costs : c <= Estimate
  /\ UserQuota0 >= 0 /\ TokenQuota0 >= 0

GuardInv == NoOverdraft /\ \A r \in Requests : cost[r] <= Estimate

\* A request's step under the guards neither overdraws a row nor exceeds the estimate.
LEMMA GuardRequestStep ==
  ASSUME TypeOK, Guarded, LocalInv, FrozenInv, GuardInv, NEW r \in Requests, Step(r)
  PROVE  GuardInv'
<1> USE DEF TypeOK, LocalInv, FrozenInv, Go, rows
<1>1. \A s \in Requests : cost'[s] <= Estimate
  <2>1. CASE RelayServed(r)
    BY <2>1 DEF RelayServed, GuardInv, Guarded
  <2>2. CASE UNCHANGED cost
    BY <2>2 DEF GuardInv
  <2>3. RelayServed(r) \/ UNCHANGED cost
    BY DEF Step, PreConsumeStep, PreAuthorize, Unanswered, Admit, Refuse, Answer, GateReadFails,
       GateRefuses, GateTrusts, GatePasses, FreezeToken, FreezeTokenCapped,
       FreezeTokenFails, FreezeUser, FreezeUserRefused, Rollback,
       RelayFailed, PostConsumeStep, PostUser, PostUserFails, PostPool, PostToken,
       PostTokenFails, CompensateUser, CompensatePool, Wallet, HoldStep, Settle,
       Release, ParkSettle, ParkRelease, Park, DirectDebit, relayInfo
  <2> QED
    BY <2>1, <2>2, <2>3
<1>2. \A s \in Requests : LocalFailed(s) => LocalFailed(s)'
  <2>1. \A s \in Requests : alarms[s] \subseteq alarms'[s]
    BY DEF Step, PreConsumeStep, PreAuthorize, Unanswered, Admit, Refuse, Answer, GateReadFails,
       GateRefuses, GateTrusts, GatePasses, FreezeToken, FreezeTokenCapped,
       FreezeTokenFails, FreezeUser, FreezeUserRefused, Rollback, RelayServed,
       RelayFailed, PostConsumeStep, PostUser, PostUserFails, PostPool, PostToken,
       PostTokenFails, CompensateUser, CompensatePool, Wallet, HoldStep, Settle,
       Release, ParkSettle, ParkRelease, Park, DirectDebit, Raise
  <2> QED
    BY <2>1 DEF LocalFailed
<1> SUFFICES ASSUME \A s \in Requests : ~LocalFailed(s)'
             PROVE  userQuota' >= 0 /\ tokenQuota' >= 0
  BY <1>1 DEF GuardInv, NoOverdraft
<1>3. userQuota >= 0 /\ tokenQuota >= 0
  BY <1>2 DEF GuardInv, NoOverdraft
<1>4. quotaDelta(r) \in Int
  BY AmountsTyped
<1>5. pc[r] \in {"post1", "pool", "post3"} => quotaDelta(r) <= 0
  BY RelayAssumption DEF quotaDelta, LocalLedger, Frozen, GuardInv
<1>6. CASE UNCHANGED <<userQuota, tokenQuota>>
  BY <1>3, <1>6
<1>7. CASE FreezeToken(r) \/ FreezeUser(r) \/ Rollback(r)
  BY <1>3, <1>7, RelayAssumption
     DEF FreezeToken, FreezeUser, Rollback, DebitToken, DebitUser, Frozen, Guarded
<1>8. CASE PostUser(r) \/ PostToken(r)
  BY <1>3, <1>4, <1>5, <1>8 DEF PostUser, PostToken, DebitUser, DebitToken
<1>9. CASE CompensateUser(r)
  BY <1>2, <1>9 DEF CompensateUser, LocalLedger
<1> QED
  BY <1>6, <1>7, <1>8, <1>9
     DEF Step, PreConsumeStep, PreAuthorize, Unanswered, Admit, Refuse, Answer, GateReadFails,
       GateRefuses, GateTrusts, GatePasses, FreezeTokenCapped,
       FreezeTokenFails, FreezeUserRefused, RelayServed,
       RelayFailed, PostConsumeStep, PostUserFails, PostPool, DebitPool,
       PostTokenFails, CompensatePool, Wallet, HoldStep, Settle,
       Release, ParkSettle, ParkRelease, Park, DirectDebit

\* Every step keeps the balances above what is frozen.
LEMMA GuardStep ==
  ASSUME TypeOK, Guarded, LocalInv, FrozenInv, GuardInv, [Next]_vars
  PROVE  GuardInv'
<1>1. CASE SetLocalLedgerAdvisory \/ UNCHANGED vars
  BY <1>1 DEF SetLocalLedgerAdvisory, vars, rows, relayInfo, GuardInv, NoOverdraft,
       LocalFailed
<1> QED
  BY <1>1, GuardRequestStep DEF Next, Idle

\* However the requests race, the two conditional debits keep both rows from going
\* negative, where no freeze is waived, no key is unlimited and no relay costs more
\* than its estimate, until a failed settlement takes a refund back.
THEOREM NoOverdraftCorrect ==
  ASSUME Guarded
  PROVE  Spec => []NoOverdraft
<1>1. Init => GuardInv
  BY RelayAssumption DEF Guarded, Init, GuardInv, NoOverdraft
<1>2. TypeOK /\ LocalInv /\ FrozenInv /\ GuardInv /\ [Next]_vars => GuardInv'
  BY GuardStep
<1>3. GuardInv => NoOverdraft
  BY DEF GuardInv
<1>4. NoWaiver
  BY DEF Guarded
<1> QED
  BY <1>1, <1>2, <1>3, <1>4, FrozenInvHolds, PTL DEF Spec

-----------------------------------------------------------------------------
\* The inductive invariant of TaskPolling

\* What has been charged for a task at submission.
Base(k) == IF k.at \in {"log", "done"} THEN k.est ELSE 0

\* What a submission has said of a task is fixed from then on.
RowOK(k) ==
  /\ k.at = "none" => k.status = "none"
  /\ k.at # "none" => k.key \in Keys /\ k.est > 0 /\ k.via \in Channels
  /\ k.status # "none" => k.kind \in {"suno", "video", "mj"} /\ k.cost > 0
                          /\ (k.kind # "video" => k.cost = k.est)

\* Where a poller can be with an answer.
Stage(q, k) ==
  /\ k.status # "none"
  /\ q.at \in {"ask", "user", "key"} => ~q.moved
  /\ q.at \in {"user", "key"} => q.ans = "failure" \/ (q.ans = "success" /\ k.kind = "video")
  /\ q.at = "rewrite" => q.ans = "success" /\ k.kind = "video"
  /\ q.at = "save" /\ q.moved => q.ans = "success" \/ (q.ans = "failure" /\ k.kind = "suno")

PollOK(q) ==
  /\ q.at = "idle" => q = IdlePoller
  /\ q.at # "idle" => q.cur \in Tasks /\ Stage(q, task[q.cur])
  /\ q.at \in {"key", "rewrite"} => q.row \in DOMAIN log

\* The money of the poll has moved.
MovedBy(q) == q.at \in {"key", "rewrite"} \/ (q.at = "save" /\ q.moved)

Gap(q, k) == IF q.ans = "failure" THEN -k.est ELSE k.cost - k.est

\* A task in the hands of one poller, and a task in nobody's; exact: no leg of its
\* money was lost.
Held(q, k, exact) ==
  /\ k.status = IF q.at \in {"user", "key"} /\ q.ans = "failure" /\ k.kind # "suno"
                THEN "FAILURE" ELSE "pending"
  /\ k.refunds = IF MovedBy(q) /\ q.ans = "failure" THEN 1 ELSE 0
  /\ exact => /\ k.quota = k.est
              /\ k.user = Base(k) + (IF MovedBy(q) THEN Gap(q, k) ELSE 0)
              /\ q.at = "save" /\ q.ans = "failure" /\ k.kind = "suno" => q.moved

Free(k, exact) ==
  /\ k.refunds <= 1 /\ (k.status # "FAILURE" => k.refunds = 0)
  /\ exact /\ k.status # "none" =>
       /\ k.user = Base(k) + (IF k.status = "FAILURE" THEN -k.est ELSE k.quota - k.est)
       /\ k.status = "pending" => k.quota = k.est

Exact(t) == t \notin uncharged /\ t \notin lost /\ t \notin unrefunded

TaskOK(t) ==
  /\ RowOK(task[t])
  /\ task[t].at = "dead" /\ task[t].status # "none" => ~Exact(t)
  /\ t \notin shared /\ t \notin crossed /\ t \notin unsaved =>
       /\ \A p, q \in Pollers : poll[p].cur = t /\ poll[q].cur = t => p = q
       /\ \A p \in Pollers : poll[p].cur = t => Held(poll[p], task[t], Exact(t))
       /\ (\A p \in Pollers : poll[p].cur # t) => Free(task[t], Exact(t))

\* The row of which an endpoint has a copy.
SeenOK(c) == c.at = "looking" => c.cur \in Tasks /\ task[c.cur].status # "none"

SettleInv == /\ TaskTypeOK
             /\ \A h \in Handlers : SeenOK(seen[h])
             /\ \A p \in Pollers : PollOK(poll[p])
             /\ \A t \in Tasks : TaskOK(t)

\* The consume row a task was submitted with.
Entry(k) == [key |-> k.key, quota |-> k.est, chan |-> k.via]

\* The tasks whose consume row is still to be found: its settlement has not rewritten it.
Done(q) == q.at = "save" /\ q.ans = "success" /\ q.moved
Rewritten(t) == \E p \in Pollers : poll[p].cur = t /\ Done(poll[p])
Sought == {t \in Tasks : /\ task[t].at = "done" /\ task[t].status \in {"pending", "FAILURE"}
                         /\ ~Rewritten(t)}

\* Each of the tasks S, whose rows are g, has a consume row of its own in l.
Matching(S, g, l) ==
  \E m \in [S -> DOMAIN l] :
    /\ \A t \in S : l[m[t]] = Entry(g[t])
    /\ \A t, u \in S : m[t] = m[u] => t = u

Alone == \A p, q \in Pollers : p # q /\ poll[p].cur \in Tasks /\ poll[q].cur \in Tasks =>
                                 ~SameLoop(poll[p].cur, poll[q].cur)

\* What a poller has found belongs to its task.
Found(q) ==
  q.at \in {"key", "rewrite"} =>
    /\ task[q.cur].at = "done"
    /\ log[q.row].key = task[q.cur].key
    /\ q.ans = "success" => log[q.row] = Entry(task[q.cur])

Orderly == unlogged = {} /\ unsaved = {} /\ missed = {} /\ crossed = {} /\ ~overlap

Payers == /\ shared = {} /\ misdirected = {} /\ Alone
          /\ Matching(Sought, task, log)
          /\ \A p \in Pollers : Found(poll[p])

PayerInv == SettleInv /\ (Orderly => Payers)

-----------------------------------------------------------------------------
\* Types

\* The row of a task not submitted yet, and the record of an idle poller.
LEMMA TaskIdleTyped ==
  /\ None \in TaskRows /\ None.at = "none" /\ None.status = "none" /\ None.refunds = 0
  /\ IdlePoller \in Polls /\ IdlePoller.at = "idle" /\ IdlePoller.cur = "none"
  /\ IdlePoller.cur \notin Tasks /\ NoCopy \in Copies /\ NoCopy.at = "idle"
  BY TaskAssumption DEF None, IdlePoller, NoCopy, TaskRows, Polls, Copies, Finals, Stages

\* The fields of rows and pollers, one by one.
LEMMA TaskFields ==
  ASSUME TaskTypeOK
  PROVE  /\ \A t \in Tasks :
              /\ task[t] \in TaskRows
              /\ task[t].at \in {"none", "charge", "log", "done", "dead"}
              /\ task[t].est \in Nat /\ task[t].cost \in Nat /\ task[t].quota \in Nat
              /\ task[t].user \in Int /\ task[t].refunds \in Nat
              /\ task[t].status \in {"none", "pending", "SUCCESS", "FAILURE"}
         /\ \A p \in Pollers :
              /\ poll[p] \in Polls /\ poll[p].at \in Stages /\ poll[p].ans \in Finals
              /\ poll[p].moved \in BOOLEAN
<1>1. \A t \in Tasks : task[t] \in TaskRows
  BY DEF TaskTypeOK
<1>2. \A p \in Pollers : poll[p] \in Polls
  BY DEF TaskTypeOK
<1>3. ASSUME NEW t \in Tasks
      PROVE  /\ task[t].at \in {"none", "charge", "log", "done", "dead"}
             /\ task[t].est \in Nat /\ task[t].cost \in Nat /\ task[t].quota \in Nat
             /\ task[t].user \in Int /\ task[t].refunds \in Nat
             /\ task[t].status \in {"none", "pending", "SUCCESS", "FAILURE"}
  BY <1>1 DEF TaskRows
<1>4. ASSUME NEW p \in Pollers
      PROVE  poll[p].at \in Stages /\ poll[p].ans \in Finals /\ poll[p].moved \in BOOLEAN
  BY <1>2 DEF Polls
<1> QED
  BY <1>1, <1>2, <1>3, <1>4

\* A set of indices has a largest element.
LEMMA MaxIn ==
  ASSUME NEW n \in Nat, NEW S \in SUBSET (1..n), S # {}
  PROVE  Max(S) \in S
<1> DEFINE T == {n - i : i \in S}
           R == OpToRel(<, Nat)
<1>1. T \subseteq Nat /\ T # {}
  <2>1. \A i \in S : n - i \in Nat
    OBVIOUS
  <2> QED
    BY <2>1
<1>2. IsWellFoundedOn(R, Nat)
  BY NatLessThanWellFounded
<1>3. \A x \in Nat, y \in Nat : x < y => <<x, y>> \in R
  BY DEF OpToRel
<1> HIDE DEF R, T
<1>4. PICK x \in T : \A y \in T : ~(<<y, x>> \in R)
  BY <1>1, <1>2, WFMin
<1>5. PICK i \in S : x = n - i
  BY DEF T
<1>6. \A y \in S : i >= y
  <2> SUFFICES ASSUME NEW y \in S, i < y
               PROVE  FALSE
    BY <1>5
  <2>1. n - y \in T /\ n - y \in Nat /\ x \in Nat /\ n - y < x
    BY <1>5 DEF T
  <2> QED
    BY <1>3, <1>4, <2>1
<1> QED
  BY <1>6 DEF Max

\* resolveTaskChargeLedger finds a row of the channel and the amount, or none.
LEMMA ResolveFinds ==
  ASSUME NEW n \in Nat, NEW c, NEW q \in Nat, NEW s \in Nat, DOMAIN log = 1..n
  PROVE  \/ Resolve(c, q, s) = 0
         \/ /\ Resolve(c, q, s) \in Candidates(c, q, s)
            /\ \A i, j \in Candidates(c, q, s) : log[i].key = log[j].key
<1>1. Candidates(c, q, s) \in SUBSET (1..n)
  BY DEF Candidates, Rows
<1>2. Candidates(c, q, s) # {} => Max(Candidates(c, q, s)) \in Candidates(c, q, s)
  BY <1>1, MaxIn
<1> QED
  BY <1>2 DEF Resolve

-----------------------------------------------------------------------------
\* Steps

\* A step of a poller: it moves one task and itself.
LEMMA PollerFrame ==
  ASSUME SettleInv, NEW p \in Pollers, NEW t \in Tasks, poll[p].cur = t,
         NEW n \in Polls, NEW k \in TaskRows,
         poll' = [poll EXCEPT ![p] = n], task' = [task EXCEPT ![t] = k],
         seen' = seen, shared' = shared, crossed' = crossed, uncharged' = uncharged,
         unsaved \subseteq unsaved', lost \subseteq lost', lost' \subseteq lost \cup {t},
         unrefunded \subseteq unrefunded', unrefunded' \subseteq unrefunded \cup {t},
         DOMAIN log \subseteq DOMAIN log',
         k.at = task[t].at, k.kind = task[t].kind, k.key = task[t].key /\ k.via = task[t].via,
         k.est = task[t].est, k.cost = task[t].cost, k.status # "none",
         n = IdlePoller \/ (n.at # "idle" /\ n.cur = t /\ Stage(n, k)),
         n.at \in {"key", "rewrite"} => n.row \in DOMAIN log',
         t \notin shared /\ t \notin crossed /\ t \notin unsaved' =>
           IF n = IdlePoller THEN Free(k, Exact(t)') ELSE Held(n, k, Exact(t)')
  PROVE  /\ \A r \in Pollers : PollOK(poll[r])'
         /\ \A u \in Tasks : TaskOK(u)'
         /\ \A h \in Handlers : SeenOK(seen[h])'
<1>1. /\ task'[t] = k /\ \A u \in Tasks \ {t} : task'[u] = task[u]
      /\ poll'[p] = n /\ \A r \in Pollers \ {p} : poll'[r] = poll[r]
  BY DEF SettleInv, TaskTypeOK
<1>2. /\ \A r \in Pollers : PollOK(poll[r])
      /\ \A u \in Tasks : TaskOK(u)
  BY DEF SettleInv
<1>3. task[t].status # "none" /\ poll[p].at # "idle"
  BY <1>2, TaskIdleTyped DEF PollOK, Stage
<1>4. ASSUME NEW r \in Pollers
      PROVE  PollOK(poll[r])'
  <2>1. CASE r = p
    BY <1>1, <2>1, TaskIdleTyped DEF PollOK
  <2>2. CASE r # p
    <3>1. poll'[r] = poll[r] /\ PollOK(poll[r])
      BY <1>1, <1>2, <2>2
    <3>2. ASSUME poll[r].at # "idle"
          PROVE  Stage(poll[r], task'[poll[r].cur])
      <4>1. poll[r].cur \in Tasks /\ Stage(poll[r], task[poll[r].cur])
        BY <3>1, <3>2 DEF PollOK
      <4>2. CASE poll[r].cur = t
        BY <1>1, <4>1, <4>2 DEF Stage
      <4>3. CASE poll[r].cur # t
        BY <1>1, <4>1, <4>3
      <4> QED
        BY <4>2, <4>3
    <3> QED
      BY <3>1, <3>2 DEF PollOK
  <2> QED
    BY <2>1, <2>2
<1>5. ASSUME NEW u \in Tasks
      PROVE  TaskOK(u)'
  <2>1. TaskOK(u)
    BY <1>2
  <2>2. n.cur # u \/ u = t
    BY TaskIdleTyped
  <2>3. CASE u # t
    <3>1. task'[u] = task[u] /\ Exact(u)' = Exact(u)
      BY <1>1, <2>3 DEF Exact
    <3>2. \A r \in Pollers : /\ poll'[r].cur = u <=> poll[r].cur = u
                             /\ poll'[r].cur = u => poll'[r] = poll[r]
      BY <1>1, <2>2, <2>3
    <3> QED
      BY <2>1, <3>1, <3>2 DEF TaskOK
  <2>4. CASE u = t
    <3>1. RowOK(k)
      BY <1>3, <2>1, <2>4 DEF TaskOK, RowOK
    <3>2. k.at = "dead" => ~Exact(t)'
      BY <1>3, <2>1, <2>4 DEF TaskOK, Exact
    <3>3. ASSUME t \notin shared', t \notin crossed', t \notin unsaved'
          PROVE  /\ \A r \in Pollers \ {p} : poll'[r].cur # t
                 /\ n = IdlePoller => Free(k, Exact(t)')
                 /\ n # IdlePoller => Held(n, k, Exact(t)') /\ n.cur = t
      <4>1. t \notin shared /\ t \notin crossed /\ t \notin unsaved
        BY <3>3
      <4>2. \A r \in Pollers : poll[r].cur = t => r = p
        BY <2>1, <2>4, <4>1 DEF TaskOK
      <4> QED
        BY <1>1, <3>3, <4>2
    <3> QED
      BY <1>1, <2>4, <3>1, <3>2, <3>3, TaskIdleTyped DEF TaskOK
  <2> QED
    BY <2>3, <2>4
<1>6. \A h \in Handlers : SeenOK(seen[h])'
  BY <1>1 DEF SettleInv, SeenOK
<1> QED
  BY <1>4, <1>5, <1>6

\* A step of a submission: it moves one task.
LEMMA SubmitFrame ==
  ASSUME SettleInv, NEW t \in Tasks, NEW k \in TaskRows,
         task' = [task EXCEPT ![t] = k], UNCHANGED <<poll, shared, unsaved>>,
         lost \subseteq lost', lost' \subseteq lost \cup {t},
         uncharged \subseteq uncharged', uncharged' \subseteq uncharged \cup {t},
         unrefunded \subseteq unrefunded', unrefunded' \subseteq unrefunded \cup {t},
         crossed \subseteq crossed', crossed' \subseteq crossed \cup {t},
         \A h \in Handlers : seen'[h] = seen[h] \/ SeenOK(seen[h])',
         DOMAIN log \subseteq DOMAIN log',
         RowOK(k), k.at = "dead" /\ k.status # "none" => ~Exact(t)',
         task[t].status # "none" => k.status # "none" /\ k.kind = task[t].kind,
         t \notin crossed' =>
           /\ \A r \in Pollers : poll[r].cur = t /\ Held(poll[r], task[t], Exact(t)) =>
                                  Held(poll[r], k, Exact(t)')
           /\ (\A r \in Pollers : poll[r].cur # t) /\ Free(task[t], Exact(t)) =>
                Free(k, Exact(t)')
  PROVE  /\ \A r \in Pollers : PollOK(poll[r])'
         /\ \A u \in Tasks : TaskOK(u)'
         /\ \A h \in Handlers : SeenOK(seen[h])'
<1>1. task'[t] = k /\ \A u \in Tasks \ {t} : task'[u] = task[u]
  BY DEF SettleInv, TaskTypeOK
<1>2. /\ \A r \in Pollers : PollOK(poll[r])
      /\ \A u \in Tasks : TaskOK(u)
  BY DEF SettleInv
<1>3. ASSUME NEW r \in Pollers
      PROVE  PollOK(poll[r])'
  <2>1. PollOK(poll[r])
    BY <1>2
  <2>2. ASSUME poll[r].at # "idle"
        PROVE  Stage(poll[r], task'[poll[r].cur])
    <3>1. poll[r].cur \in Tasks /\ Stage(poll[r], task[poll[r].cur])
      BY <2>1, <2>2 DEF PollOK
    <3>2. CASE poll[r].cur = t
      BY <1>1, <3>1, <3>2 DEF Stage
    <3>3. CASE poll[r].cur # t
      BY <1>1, <3>1, <3>3
    <3> QED
      BY <3>2, <3>3
  <2> QED
    BY <2>1, <2>2 DEF PollOK
<1>4. ASSUME NEW u \in Tasks
      PROVE  TaskOK(u)'
  <2>1. TaskOK(u)
    BY <1>2
  <2>2. CASE u # t
    <3>1. task'[u] = task[u] /\ Exact(u)' = Exact(u)
      BY <1>1, <2>2 DEF Exact
    <3> QED
      BY <2>1, <2>2, <3>1 DEF TaskOK
  <2>3. CASE u = t
    <3>1. RowOK(task'[t]) /\ (task'[t].at = "dead" /\ task'[t].status # "none" => ~Exact(t)')
      BY <1>1
    <3>2. ASSUME t \notin shared', t \notin crossed', t \notin unsaved'
          PROVE  /\ \A p, q \in Pollers : poll'[p].cur = t /\ poll'[q].cur = t => p = q
                 /\ \A p \in Pollers : poll'[p].cur = t => Held(poll'[p], task'[t], Exact(t)')
                 /\ (\A p \in Pollers : poll'[p].cur # t) => Free(task'[t], Exact(t)')
      BY <1>1, <2>1, <2>3, <3>2 DEF TaskOK
    <3> QED
      BY <2>3, <3>1, <3>2 DEF TaskOK
  <2> QED
    BY <2>2, <2>3
<1>5. ASSUME NEW h \in Handlers
      PROVE  SeenOK(seen[h])'
  <2>1. CASE SeenOK(seen[h])'
    BY <2>1
  <2>2. CASE seen'[h] = seen[h]
    BY <1>1, <2>2 DEF SettleInv, SeenOK
  <2> QED
    BY <2>1, <2>2
<1> QED
  BY <1>3, <1>4, <1>5

\* What a submission may be.
LEMMA OfferTyped ==
  ASSUME NEW t \in Tasks, NEW o \in Offers[t]
  PROVE  /\ o.kind \in {"suno", "video", "mj"} /\ o.key \in Keys
         /\ o.est \in Nat /\ o.est > 0 /\ o.cost \in Nat /\ o.cost > 0 /\ o.id \in BOOLEAN
         /\ o.kind # "video" => o.cost = o.est
         /\ o.chan \in Channels /\ o.via \in Channels
<1>1. /\ o \in [kind : {"suno", "video", "mj"}, key : Keys, est : Nat \ {0}, cost : Nat \ {0},
                id : BOOLEAN, chan : Channels, via : Channels]
      /\ o.kind # "video" => o.cost = o.est
  BY TaskAssumption
<1> QED
  BY <1>1

\* The row of an offer.
LEMMA InsertedTyped ==
  ASSUME NEW t \in Tasks, NEW o \in Offers[t], NEW a \in {"charge", "dead"},
         NEW k, k = Inserted(o, a)
  PROVE  /\ k \in TaskRows /\ k.at = a /\ k.kind = o.kind /\ k.key = o.key /\ k.via = o.via
         /\ k.est = o.est /\ k.cost = o.cost /\ k.status = "pending" /\ k.quota = o.est
         /\ k.user = 0 /\ k.refunds = 0
  BY OfferTyped DEF Inserted, TaskRows, Finals

\* A task that is submitted is in nobody's hands and owes nothing.
LEMMA FreshSubmit ==
  ASSUME SettleInv, NEW t \in Tasks, task[t].at = "none", NEW k \in TaskRows,
         task' = [task EXCEPT ![t] = k], 
         UNCHANGED <<poll, seen, shared, unsaved, log, unrefunded, crossed>>,
         lost' = lost, uncharged \subseteq uncharged', uncharged' \subseteq uncharged \cup {t},
         RowOK(k), k.at = "dead" /\ k.status # "none" => t \in uncharged',
         k.at \in {"charge", "dead"}, k.refunds = 0, k.user = 0,
         k.status \in {"none", "pending"}, k.quota \in Nat,
         k.status = "pending" => k.quota = k.est
  PROVE  /\ \A r \in Pollers : PollOK(poll[r])'
         /\ \A u \in Tasks : TaskOK(u)'
         /\ \A h \in Handlers : SeenOK(seen[h])'
<1>1. task[t].status = "none"
  BY DEF SettleInv, TaskOK, RowOK
<1>2. Free(k, Exact(t)')
  BY DEF Free, Base
<1>3. \A r \in Pollers : ~Held(poll[r], task[t], Exact(t))
  BY <1>1 DEF Held
<1>4. k.at = "dead" /\ k.status # "none" => ~Exact(t)'
  BY DEF Exact
<1> QED
  BY <1>1, <1>2, <1>3, <1>4, SubmitFrame

\* The insert of a submission, done, uncharged or failed, settles nothing yet.
LEMMA SubmitSettle ==
  ASSUME SettleInv, NEW t \in Tasks, NEW o \in Offers[t],
         Submit(t, o) \/ SubmitUncharged(t, o) \/ SubmitFails(t, o), seen' = seen
  PROVE  SettleInv'
<1>1. TaskTypeOK /\ task[t].at = "none"
  BY DEF SettleInv, Submit, SubmitUncharged, SubmitFails
<1>2. UNCHANGED <<poll, paid, returned, log, shared, overlap, missed, unrefunded, crossed, unsaved, lost, unlogged,
                  misdirected>>
  BY DEF Submit, SubmitUncharged, SubmitFails, ghosts
<1>3. faults' \in 0..MaxFaults
  BY <1>1, TaskAssumption DEF Submit, SubmitUncharged, SubmitFails, Fault, TaskTypeOK
<1>4. ASSUME NEW k \in TaskRows, task' = [task EXCEPT ![t] = k],
             RowOK(k), k.at \in {"charge", "dead"}, k.refunds = 0, k.user = 0,
             k.status \in {"none", "pending"}, k.quota \in Nat,
             k.status = "pending" => k.quota = k.est,
             k.at = "dead" /\ k.status # "none" => t \in uncharged',
             uncharged \subseteq uncharged', uncharged' \subseteq uncharged \cup {t}
      PROVE  SettleInv'
  <2>1. TaskTypeOK'
    BY <1>1, <1>2, <1>3, <1>4 DEF TaskTypeOK
  <2>2. /\ \A r \in Pollers : PollOK(poll[r])'
        /\ \A u \in Tasks : TaskOK(u)'
        /\ \A h \in Handlers : SeenOK(seen[h])'
    BY <1>1, <1>2, <1>4, FreshSubmit
  <2> QED
    BY <2>1, <2>2 DEF SettleInv
<1>5. CASE Submit(t, o)
  <2>k. PICK k : k = Inserted(o, "charge")
    OBVIOUS
  <2>1. task' = [task EXCEPT ![t] = k] /\ uncharged' = uncharged
    BY <1>5, <2>k DEF Submit, ghosts
  <2>2. /\ k \in TaskRows /\ k.at = "charge" /\ k.refunds = 0 /\ k.user = 0
        /\ k.status = "pending" /\ k.quota = o.est /\ k.est = o.est /\ k.kind = o.kind
        /\ k.key = o.key /\ k.via = o.via /\ k.cost = o.cost
    BY <2>k, InsertedTyped
  <2>3. RowOK(k)
    BY <2>2, OfferTyped DEF RowOK
  <2> QED
    BY <1>4, <2>1, <2>2, <2>3, OfferTyped
<1>6. CASE SubmitUncharged(t, o)
  <2>k. PICK k : k = Inserted(o, "dead")
    OBVIOUS
  <2>1. task' = [task EXCEPT ![t] = k] /\ uncharged' = uncharged \cup {t}
    BY <1>6, <2>k DEF SubmitUncharged
  <2>2. /\ k \in TaskRows /\ k.at = "dead" /\ k.refunds = 0 /\ k.user = 0
        /\ k.status = "pending" /\ k.quota = o.est /\ k.est = o.est /\ k.kind = o.kind
        /\ k.key = o.key /\ k.via = o.via /\ k.cost = o.cost
    BY <2>k, InsertedTyped
  <2>3. RowOK(k)
    BY <2>2, OfferTyped DEF RowOK
  <2> QED
    BY <1>4, <2>1, <2>2, <2>3, OfferTyped
<1>7. CASE SubmitFails(t, o)
  <2>a. PICK a : a = IF o.kind = "mj" THEN "charge" ELSE "dead"
    OBVIOUS
  <2>i. PICK i : i = Inserted(o, a)
    OBVIOUS
  <2>k. PICK k : k = [i EXCEPT !.status = "none", !.quota = 0]
    OBVIOUS
  <2>1. task' = [task EXCEPT ![t] = k] /\ uncharged' = uncharged
    BY <1>7, <2>a, <2>i, <2>k DEF SubmitFails, ghosts
  <2>2. a \in {"charge", "dead"}
    BY <2>a
  <2>3. /\ k \in TaskRows /\ k.at = a /\ k.refunds = 0 /\ k.user = 0
        /\ k.status = "none" /\ k.quota = 0 /\ k.est = o.est /\ k.key = o.key /\ k.via = o.via
    <3>1. /\ i \in TaskRows /\ i.at = a /\ i.key = o.key /\ i.via = o.via /\ i.est = o.est
          /\ i.user = 0 /\ i.refunds = 0
      BY <2>2, <2>i, InsertedTyped
    <3> QED
      BY <2>k, <3>1 DEF TaskRows
  <2>4. RowOK(k)
    BY <2>2, <2>3, OfferTyped DEF RowOK
  <2>5. /\ k.at \in {"charge", "dead"} /\ k.status # "pending" /\ k.quota \in Nat
        /\ k.status \in {"none", "pending"} /\ uncharged' \subseteq uncharged \cup {t}
        /\ ~(k.at = "dead" /\ k.status # "none")
    BY <2>1, <2>2, <2>3
  <2> QED
    BY <1>4, <2>1, <2>3, <2>4, <2>5
<1> QED
  BY <1>5, <1>6, <1>7

\* The amounts compared below are integers.
LEMMA BaseTyped ==
  ASSUME NEW k \in TaskRows
  PROVE  Base(k) \in Int /\ k.user \in Int
  BY DEF Base, TaskRows

\* The charge and the consume row, made or not: what was charged is Base.
LEMMA ChargeSettle ==
  ASSUME SettleInv, NEW t \in Tasks,
         ChargeTask(t) \/ ChargeFails(t) \/ Record(t) \/ SubmitDies(t), seen' = seen
  PROVE  SettleInv'
<1>e. PICK e : e = task[t]
  OBVIOUS
<1>1. TaskTypeOK /\ e.at \in {"charge", "log"} /\ TaskOK(t)
  BY <1>e DEF SettleInv, ChargeTask, ChargeFails, Record, SubmitDies
<1>2. UNCHANGED <<poll, returned, shared, overlap, missed, unrefunded, crossed, unsaved, unlogged, misdirected>>
  BY DEF ChargeTask, ChargeFails, Record, SubmitDies, ghosts
<1>3. faults' \in 0..MaxFaults
  BY <1>1, TaskAssumption DEF ChargeTask, ChargeFails, Record, SubmitDies, Fault, TaskTypeOK
<1>4. e \in TaskRows /\ e.est \in Nat /\ e.user \in Int /\ e.key \in Keys /\ e.via \in Channels
  BY <1>e, <1>1, TaskFields DEF TaskOK, RowOK
<1>5. paid' \in [Keys -> Int] /\ log' \in Seq([key : Keys, quota : Nat, chan : Channels])
      /\ DOMAIN log \subseteq DOMAIN log'
  <2>1. CASE ChargeTask(t)
    <3>1. paid' = [paid EXCEPT ![e.key] = paid[e.key] + e.est] /\ log' = log
      BY <1>e, <2>1 DEF ChargeTask
    <3> QED
      BY <1>1, <1>4, <3>1 DEF TaskTypeOK
  <2>2. CASE Record(t)
    <3>1. log' = Append(log, [key |-> e.key, quota |-> e.est, chan |-> e.via]) /\ paid' = paid
      BY <1>e, <2>2 DEF Record
    <3>2. log \in Seq([key : Keys, quota : Nat, chan : Channels])
          /\ [key |-> e.key, quota |-> e.est, chan |-> e.via] \in [key : Keys, quota : Nat, chan : Channels]
      BY <1>1, <1>4 DEF TaskTypeOK
    <3> QED
      BY <1>1, <3>1, <3>2 DEF TaskTypeOK
  <2>3. CASE ChargeFails(t) \/ SubmitDies(t)
    BY <1>1, <2>3 DEF ChargeFails, SubmitDies, TaskTypeOK
  <2> QED
    BY <2>1, <2>2, <2>3
<1>6. ASSUME NEW k \in TaskRows, NEW a \in {"log", "done", "dead"}, NEW d \in {0, e.est},
             task' = [task EXCEPT ![t] = k],
             k.at = a, k.user = e.user + d, k.kind = e.kind, k.key = e.key /\ k.via = e.via,
             k.est = e.est, k.cost = e.cost, k.status = e.status,
             k.quota = e.quota, k.refunds = e.refunds,
             lost \subseteq lost', lost' \subseteq lost \cup {t},
             uncharged \subseteq uncharged', uncharged' \subseteq uncharged \cup {t},
             \/ t \in uncharged' \/ t \in lost'
             \/ a = "log" /\ e.at = "charge" /\ d = e.est
             \/ a = "done" /\ e.at = "log" /\ d = 0
      PROVE  SettleInv'
  <2>1. TaskTypeOK'
    BY <1>1, <1>2, <1>3, <1>5, <1>6 DEF TaskTypeOK
  <2>2. RowOK(k)
    BY <1>e, <1>1, <1>6 DEF RowOK, TaskOK
  <2>3. d \in Int
    BY <1>4
  <2>4. ASSUME Exact(t)'
        PROVE  a # "dead" /\ k.user - Base(k) = e.user - Base(e) /\ Exact(t)
    BY <1>2, <1>4, <1>6, <2>3, <2>4 DEF Exact, Base
  <2>5. ASSUME NEW r \in Pollers, Held(poll[r], e, Exact(t))
        PROVE  Held(poll[r], k, Exact(t)')
    <3>g. PICK g : g = IF MovedBy(poll[r]) THEN Gap(poll[r], e) ELSE 0
      OBVIOUS
    <3>1. Gap(poll[r], k) = Gap(poll[r], e) /\ g \in Int
      BY <1>e, <1>1, <1>6, <3>g, TaskFields DEF Gap
    <3>2. ASSUME Exact(t)'
          PROVE  k.user = Base(k) + g
      <4>1. e.user = Base(e) + g
        BY <2>4, <2>5, <3>g, <3>2 DEF Held
      <4> QED
        BY <1>4, <2>4, <3>1, <3>2, <4>1, BaseTyped
    <3> QED
      BY <1>6, <2>4, <2>5, <3>g, <3>1, <3>2 DEF Held
  <2>6. ASSUME Free(e, Exact(t))
        PROVE  Free(k, Exact(t)')
    <3>g. PICK g : g = IF e.status = "FAILURE" THEN -e.est ELSE e.quota - e.est
      OBVIOUS
    <3>1. g \in Int
      BY <1>e, <1>1, <3>g, TaskFields
    <3>2. ASSUME Exact(t)', e.status # "none"
          PROVE  k.user = Base(k) + g
      <4>1. e.user = Base(e) + g
        BY <2>4, <2>6, <3>g, <3>2 DEF Free
      <4> QED
        BY <1>4, <2>4, <3>1, <3>2, <4>1, BaseTyped
    <3> QED
      BY <1>6, <2>4, <2>6, <3>g, <3>2 DEF Free
  <2>7. k.at = "dead" /\ k.status # "none" => ~Exact(t)'
    BY <1>6, <2>4
  <2>8. /\ \A r \in Pollers : PollOK(poll[r])'
        /\ \A u \in Tasks : TaskOK(u)'
        /\ \A h \in Handlers : SeenOK(seen[h])'
    BY <1>e, <1>2, <1>5, <1>6, <2>2, <2>5, <2>6, <2>7, SubmitFrame
  <2> QED
    BY <2>1, <2>8 DEF SettleInv
<1>7. CASE ChargeTask(t)
  <2>k. PICK k : k = [e EXCEPT !.at = "log", !.user = e.user + e.est]
    OBVIOUS
  <2>1. task' = [task EXCEPT ![t] = k] /\ lost' = lost /\ uncharged' = uncharged
        /\ e.at = "charge"
    BY <1>e, <1>1, <1>7, <2>k DEF ChargeTask, ghosts, TaskTypeOK
  <2>2. e.user + e.est \in Int
    BY <1>4
  <2>3. /\ k \in TaskRows /\ k.at = "log" /\ k.user = e.user + e.est /\ k.kind = e.kind
        /\ k.key = e.key /\ k.via = e.via /\ k.est = e.est /\ k.cost = e.cost /\ k.status = e.status
        /\ k.quota = e.quota /\ k.refunds = e.refunds
    BY <1>4, <2>k, <2>2 DEF TaskRows
  <2> QED
    BY <1>6, <2>1, <2>3
<1>8. ASSUME NEW a \in {"log", "done", "dead"},
             task' = [task EXCEPT ![t] = [e EXCEPT !.at = a]],
             lost \subseteq lost', lost' \subseteq lost \cup {t},
             uncharged \subseteq uncharged', uncharged' \subseteq uncharged \cup {t},
             t \in uncharged' \/ t \in lost' \/ (a = "done" /\ e.at = "log")
      PROVE  SettleInv'
  <2>k. PICK k : k = [e EXCEPT !.at = a]
    OBVIOUS
  <2>1. /\ k \in TaskRows /\ k.at = a /\ k.user = e.user /\ k.kind = e.kind
        /\ k.key = e.key /\ k.via = e.via /\ k.est = e.est /\ k.cost = e.cost /\ k.status = e.status
        /\ k.quota = e.quota /\ k.refunds = e.refunds
    BY <1>4, <2>k DEF TaskRows
  <2>2. e.user = e.user + 0 /\ 0 \in {0, e.est}
    BY <1>4
  <2> QED
    BY <1>6, <1>8, <2>k, <2>1, <2>2
<1>9. CASE ChargeFails(t)
  <2>1. /\ task' = [task EXCEPT ![t] = [e EXCEPT !.at = "log"]]
        /\ lost' = lost /\ uncharged' = uncharged \cup {t}
    BY <1>e, <1>1, <1>9 DEF ChargeFails, TaskTypeOK
  <2> QED
    BY <1>8, <2>1
<1>10. CASE Record(t)
  <2>1. /\ task' = [task EXCEPT ![t] = [e EXCEPT !.at = "done"]]
        /\ lost' = lost /\ uncharged' = uncharged /\ e.at = "log"
    BY <1>e, <1>1, <1>10 DEF Record, ghosts, TaskTypeOK
  <2> QED
    BY <1>8, <2>1
<1>11. CASE SubmitDies(t)
  <2>1. /\ task' = [task EXCEPT ![t] = [e EXCEPT !.at = "dead"]]
        /\ lost' = lost \cup {t}
        /\ uncharged \subseteq uncharged' /\ uncharged' \subseteq uncharged \cup {t}
    BY <1>e, <1>1, <1>11 DEF SubmitDies, TaskTypeOK
  <2> QED
    BY <1>8, <2>1
<1> QED
  BY <1>7, <1>9, <1>10, <1>11

\* Every consume row names a key and an amount.
LEMMA LogTyped ==
  ASSUME TaskTypeOK
  PROVE  \A i \in DOMAIN log : log[i] \in [key : Keys, quota : Nat, chan : Channels]
<1> DEFINE S == [key : Keys, quota : Nat, chan : Channels]
<1>1. log \in Seq(S)
  BY DEF TaskTypeOK
<1> HIDE DEF S
<1>2. \A i \in DOMAIN log : log[i] \in S
  BY <1>1
<1> QED
  BY <1>2 DEF S

-----------------------------------------------------------------------------
\* The pollers settle with the user

\* What is known of a poller at work: q is its record, t its task, e that task's row.
LEMMA AtWork ==
  ASSUME SettleInv, NEW p \in Pollers, poll[p].at # "idle",
         NEW q, q = poll[p], NEW t, t = q.cur, NEW e, e = task[t]
  PROVE  /\ t \in Tasks /\ e \in TaskRows /\ q \in Polls /\ Stage(q, e) /\ RowOK(e)
         /\ q.at \in Stages /\ q.ans \in Finals /\ q.moved \in BOOLEAN
         /\ e.est \in Nat /\ e.cost \in Nat /\ e.quota \in Nat /\ e.user \in Int
         /\ e.refunds \in Nat /\ Base(e) \in Int
         /\ q.at \in {"key", "rewrite"} => q.row \in DOMAIN log
         /\ t \notin shared /\ t \notin crossed /\ t \notin unsaved => Held(q, e, Exact(t))
<1>1. PollOK(q) /\ TaskTypeOK
  BY DEF SettleInv
<1>2. t \in Tasks /\ Stage(q, e)
  BY <1>1 DEF PollOK
<1>3. TaskOK(t)
  BY <1>2 DEF SettleInv
<1>4. e \in TaskRows /\ q \in Polls
  BY <1>1, <1>2 DEF TaskTypeOK
<1>5. /\ q.at \in Stages /\ q.ans \in Finals /\ q.moved \in BOOLEAN
      /\ e.est \in Nat /\ e.cost \in Nat /\ e.quota \in Nat /\ e.user \in Int
      /\ e.refunds \in Nat
  BY <1>1, <1>2, TaskFields
<1>6. t \notin shared /\ t \notin crossed /\ t \notin unsaved => Held(q, e, Exact(t))
  BY <1>3 DEF TaskOK
<1> QED
  BY <1>1, <1>2, <1>3, <1>4, <1>5, <1>6, BaseTyped DEF PollOK, TaskOK

\* A step of a poller keeps the invariant if it does so for its task.
LEMMA PollerSettle ==
  ASSUME SettleInv, NEW p \in Pollers, NEW t \in Tasks, poll[p].cur = t,
         NEW n \in Polls, NEW k \in TaskRows,
         poll' = [poll EXCEPT ![p] = n], task' = [task EXCEPT ![t] = k],
         UNCHANGED <<seen, shared, uncharged, overlap, crossed>>,
         unrefunded \subseteq unrefunded', unrefunded' \subseteq unrefunded \cup {t},
         missed' \subseteq missed \cup {t},
         unsaved \subseteq unsaved', unsaved' \subseteq unsaved \cup {t},
         lost \subseteq lost', lost' \subseteq lost \cup {t},
         unlogged' \subseteq unlogged \cup {t}, misdirected' \subseteq misdirected \cup {t},
         paid' \in [Keys -> Int], returned' \in [Keys -> Nat],
         log' \in Seq([key : Keys, quota : Nat, chan : Channels]), DOMAIN log \subseteq DOMAIN log',
         faults' = faults \/ Fault,
         k.at = task[t].at, k.kind = task[t].kind, k.key = task[t].key /\ k.via = task[t].via,
         k.est = task[t].est, k.cost = task[t].cost, k.status # "none",
         n = IdlePoller \/ (n.at # "idle" /\ n.cur = t /\ Stage(n, k)),
         n.at \in {"key", "rewrite"} => n.row \in DOMAIN log',
         t \notin shared /\ t \notin crossed /\ t \notin unsaved' =>
           IF n = IdlePoller THEN Free(k, Exact(t)') ELSE Held(n, k, Exact(t)')
  PROVE  SettleInv'
<1>1. TaskTypeOK
  BY DEF SettleInv
<1>2. faults' \in 0..MaxFaults
  BY <1>1, TaskAssumption DEF Fault, TaskTypeOK
<1>3. TaskTypeOK'
  BY <1>1, <1>2 DEF TaskTypeOK
<1>4. /\ \A r \in Pollers : PollOK(poll[r])'
      /\ \A u \in Tasks : TaskOK(u)'
      /\ \A h \in Handlers : SeenOK(seen[h])'
  BY PollerFrame
<1> QED
  BY <1>3, <1>4 DEF SettleInv

\* The same for the steps that leave the tasks' rows and the money alone.
LEMMA PollerMoves ==
  ASSUME SettleInv, NEW p \in Pollers, NEW q, q = poll[p], q.at # "idle",
         NEW t, t = q.cur, NEW e, e = task[t], NEW n \in Polls,
         poll' = [poll EXCEPT ![p] = n],
         UNCHANGED <<task, seen, shared, uncharged, overlap, missed, unrefunded, crossed, unlogged>>,
         unsaved \subseteq unsaved', unsaved' \subseteq unsaved \cup {t},
         lost \subseteq lost', lost' \subseteq lost \cup {t},
         misdirected' \subseteq misdirected \cup {t},
         paid' \in [Keys -> Int], returned' \in [Keys -> Nat],
         log' \in Seq([key : Keys, quota : Nat, chan : Channels]), DOMAIN log \subseteq DOMAIN log',
         faults' = faults \/ Fault,
         n = IdlePoller \/ (n.at # "idle" /\ n.cur = t /\ Stage(n, e)),
         n.at \in {"key", "rewrite"} => n.row \in DOMAIN log',
         Held(q, e, Exact(t)) /\ t \notin unsaved' =>
           IF n = IdlePoller THEN Free(e, Exact(t)') ELSE Held(n, e, Exact(t)')
  PROVE  SettleInv'
<1>1. /\ t \in Tasks /\ e \in TaskRows /\ Stage(q, e)
      /\ t \notin shared /\ t \notin crossed /\ t \notin unsaved => Held(q, e, Exact(t))
  BY AtWork
<1>2. task' = [task EXCEPT ![t] = e]
  BY <1>1 DEF SettleInv, TaskTypeOK
<1>3. e.status # "none"
  BY <1>1 DEF Stage
<1>4. t \notin shared /\ t \notin crossed /\ t \notin unsaved' =>
        IF n = IdlePoller THEN Free(e, Exact(t)') ELSE Held(n, e, Exact(t)')
  BY <1>1
<1> QED
  BY <1>1, <1>2, <1>3, <1>4, PollerSettle

\* A task let go before its money moved.
LEMMA Dropped ==
  ASSUME NEW e \in TaskRows, NEW q, NEW x \in BOOLEAN, NEW y \in BOOLEAN, Held(q, e, x),
         y => x /\ ~MovedBy(q) /\ e.status = "pending",
         MovedBy(q) /\ q.ans = "failure" => e.status = "FAILURE"
  PROVE  Free(e, y)
<1>1. e.est \in Nat /\ e.quota \in Nat /\ e.user \in Int /\ Base(e) \in Int
  BY BaseTyped DEF TaskRows
<1>2. e.refunds <= 1 /\ (e.status # "FAILURE" => e.refunds = 0)
  BY DEF Held
<1>3. ASSUME y
      PROVE  e.status = "pending" /\ e.quota = e.est /\ e.user = Base(e) + 0
  BY <1>3 DEF Held
<1>4. y => e.user = Base(e) + (e.quota - e.est)
  BY <1>1, <1>3
<1> QED
  BY <1>2, <1>3, <1>4 DEF Free

\* A task that fails without being asked for is on the list of those nobody refunds.
LEMMA FailUnaskedSettle ==
  ASSUME SettleInv, NEW p \in Pollers, FailUnasked(p), seen' = seen
  PROVE  SettleInv'
<1>q. PICK q : q = poll[p]
  OBVIOUS
<1>t. PICK t : t = q.cur
  OBVIOUS
<1>e. PICK e : e = task[t]
  OBVIOUS
<1>k. PICK k : k = [e EXCEPT !.status = "FAILURE"]
  OBVIOUS
<1>1. q.at = "ask" /\ TaskTypeOK
  BY <1>q DEF FailUnasked, At, SettleInv
<1>2. /\ t \in Tasks /\ e \in TaskRows /\ Stage(q, e)
      /\ t \notin shared /\ t \notin crossed /\ t \notin unsaved => Held(q, e, Exact(t))
  BY <1>q, <1>t, <1>e, <1>1, AtWork
<1>3. /\ k \in TaskRows /\ k.at = e.at /\ k.kind = e.kind /\ k.key = e.key /\ k.via = e.via /\ k.est = e.est
      /\ k.cost = e.cost /\ k.status = "FAILURE" /\ k.refunds = e.refunds
  BY <1>2, <1>k DEF TaskRows
<1>4. /\ poll' = [poll EXCEPT ![p] = IdlePoller] /\ task' = [task EXCEPT ![t] = k]
      /\ unrefunded' = unrefunded \cup {t}
      /\ UNCHANGED <<shared, uncharged, overlap, missed, lost, crossed, unsaved, unlogged,
                     misdirected, paid, returned, log>>
      /\ faults' = faults \/ Fault
  BY <1>q, <1>t, <1>e, <1>k DEF FailUnasked
<1>5. ~Exact(t)'
  BY <1>4 DEF Exact
<1>6. t \notin shared /\ t \notin crossed /\ t \notin unsaved' => Free(k, Exact(t)')
  BY <1>1, <1>2, <1>3, <1>4, <1>5 DEF Free, Held, MovedBy
<1>7. /\ paid' \in [Keys -> Int] /\ returned' \in [Keys -> Nat]
      /\ log' \in Seq([key : Keys, quota : Nat, chan : Channels]) /\ DOMAIN log \subseteq DOMAIN log'
  BY <1>1, <1>4 DEF TaskTypeOK
<1> QED
  BY <1>q, <1>t, <1>e, <1>2, <1>3, <1>4, <1>6, <1>7, TaskIdleTyped, PollerSettle

\* The answer sends the poller to the stage its kind of task calls for.
LEMMA FetchSettle ==
  ASSUME SettleInv, NEW p \in Pollers, Fetch(p), seen' = seen
  PROVE  SettleInv'
<1>q. PICK q : q = poll[p]
  OBVIOUS
<1>t. PICK t : t = q.cur
  OBVIOUS
<1>e. PICK e : e = task[t]
  OBVIOUS
<1>1. q.at = "ask" /\ TaskTypeOK
  BY <1>q DEF Fetch, At, SettleInv
<1>2. /\ t \in Tasks /\ e \in TaskRows /\ q \in Polls /\ Stage(q, e) /\ RowOK(e)
      /\ t \notin shared /\ t \notin crossed /\ t \notin unsaved => Held(q, e, Exact(t))
  BY <1>q, <1>t, <1>e, <1>1, AtWork
<1>a. PICK a \in Says(t) : /\ task' = [task EXCEPT ![t].up = a]
                           /\ poll' = [poll EXCEPT ![p].at = FirstStage(t, a), ![p].ans = a]
  BY <1>q, <1>t DEF Fetch
<1>l. PICK l : l = FirstStage(t, a)
  OBVIOUS
<1>k. PICK k : k = [e EXCEPT !.up = a]
  OBVIOUS
<1>n. PICK n : n = [q EXCEPT !.at = l, !.ans = a]
  OBVIOUS
<1>3. a \in Finals /\ l \in {"user", "save"}
  <2>1. e.up \in Finals
    BY <1>2 DEF TaskRows
  <2> QED
    BY <1>a, <1>e, <1>l, <2>1 DEF Says, Finals, FirstStage
<1>4. /\ k \in TaskRows /\ k.at = e.at /\ k.kind = e.kind /\ k.key = e.key /\ k.via = e.via /\ k.est = e.est
      /\ k.cost = e.cost /\ k.status = e.status /\ k.refunds = e.refunds
      /\ k.user = e.user /\ k.quota = e.quota
  BY <1>2, <1>3, <1>k DEF TaskRows
<1>5. n \in Polls /\ n.at = l /\ n.cur = t /\ n.ans = a /\ n.moved = q.moved
  BY <1>2, <1>3, <1>n, <1>t DEF Polls, Stages
<1>6. /\ poll' = [poll EXCEPT ![p] = n] /\ task' = [task EXCEPT ![t] = k]
  BY <1>q, <1>t, <1>e, <1>a, <1>k, <1>l, <1>n, <1>1 DEF TaskTypeOK
<1>7. UNCHANGED <<shared, uncharged, overlap, missed, unrefunded, crossed, unsaved, unlogged, misdirected, paid,
                  returned, log, faults, lost>>
  BY DEF Fetch, ghosts
<1>8. q.moved = FALSE /\ e.status # "none"
  BY <1>1, <1>2, <1>q DEF Stage, Polls
<1>9. Stage(n, k)
  <2>1. l = "user" => a = "failure" \/ (a = "success" /\ e.kind = "video")
    BY <1>2, <1>8, <1>e, <1>l DEF FirstStage, RowOK
  <2> QED
    BY <1>3, <1>4, <1>5, <1>8, <2>1 DEF Stage
<1>10. ASSUME t \notin shared /\ t \notin crossed, t \notin unsaved'
       PROVE  Held(n, k, Exact(t)')
  <2>1. Held(q, e, Exact(t)) /\ Exact(t)' = Exact(t)
    BY <1>2, <1>7, <1>10 DEF Exact
  <2>2. l = "user" /\ a = "failure" => e.kind = "suno"
    BY <1>e, <1>l DEF FirstStage
  <2>3. l = "save" /\ a = "failure" => e.kind # "suno"
    BY <1>e, <1>l DEF FirstStage
  <2>4. ~MovedBy(n) /\ ~MovedBy(q)
    BY <1>1, <1>3, <1>5, <1>8 DEF MovedBy
  <2>5. Base(k) = Base(e)
    BY <1>4 DEF Base
  <2> QED
    BY <1>1, <1>3, <1>4, <1>5, <2>1, <2>2, <2>3, <2>4, <2>5 DEF Held
<1>11. /\ paid' \in [Keys -> Int] /\ returned' \in [Keys -> Nat]
       /\ log' \in Seq([key : Keys, quota : Nat, chan : Channels]) /\ DOMAIN log \subseteq DOMAIN log'
  BY <1>1, <1>7 DEF TaskTypeOK
<1>12. n # IdlePoller
  BY <1>2, <1>5, TaskIdleTyped
<1>13. n.at # "idle" /\ n.at \notin {"key", "rewrite"} /\ poll[p].cur = t /\ k.status # "none"
       /\ shared' = shared /\ unsaved' = unsaved /\ lost' = lost
       /\ unlogged' = unlogged /\ misdirected' = misdirected
  BY <1>q, <1>t, <1>3, <1>4, <1>5, <1>7, <1>8
<1> QED
  BY <1>e, <1>2, <1>4, <1>5, <1>6, <1>7, <1>9, <1>10, <1>11, <1>12, <1>13, PollerSettle

\* A poll with nothing new leaves the task as it found it.
LEMMA FetchSkipsSettle ==
  ASSUME SettleInv, NEW p \in Pollers, FetchSkips(p), seen' = seen
  PROVE  SettleInv'
<1>q. PICK q : q = poll[p]
  OBVIOUS
<1>t. PICK t : t = q.cur
  OBVIOUS
<1>e. PICK e : e = task[t]
  OBVIOUS
<1>1. q.at = "ask" /\ TaskTypeOK
  BY <1>q DEF FetchSkips, At, SettleInv
<1>2. e \in TaskRows /\ t \in Tasks
  BY <1>q, <1>t, <1>e, <1>1, AtWork
<1>3. /\ poll' = [poll EXCEPT ![p] = IdlePoller]
      /\ UNCHANGED <<task, shared, uncharged, overlap, missed, unrefunded, crossed, unsaved, unlogged, misdirected, paid,
                     returned, log, lost>>
      /\ faults' = faults \/ Fault
  BY DEF FetchSkips, ghosts
<1>4. ~MovedBy(q) /\ Exact(t)' = Exact(t) /\ Exact(t) \in BOOLEAN
  BY <1>1, <1>3 DEF MovedBy, Exact
<1>5. Held(q, e, Exact(t)) => Free(e, Exact(t)')
  <2>1. Held(q, e, Exact(t)) => e.status = "pending"
    BY <1>1 DEF Held
  <2> QED
    BY <1>2, <1>4, <2>1, Dropped
<1>6. /\ paid' \in [Keys -> Int] /\ returned' \in [Keys -> Nat]
      /\ log' \in Seq([key : Keys, quota : Nat, chan : Channels]) /\ DOMAIN log \subseteq DOMAIN log'
  BY <1>1, <1>3 DEF TaskTypeOK
<1> QED
  BY <1>q, <1>t, <1>e, <1>1, <1>3, <1>5, <1>6, TaskIdleTyped, PollerMoves

\* After the money: Settled.
LEMMA SettledIs ==
  ASSUME NEW q \in Polls, NEW e, e = task[q.cur], NEW b \in BOOLEAN, NEW n, n = Settled(q, b)
  PROVE  /\ n \in Polls
         /\ q.ans = "failure" /\ e.kind # "suno" => n = IdlePoller
         /\ ~(q.ans = "failure" /\ e.kind # "suno") =>
              n.at = "save" /\ n.cur = q.cur /\ n.ans = q.ans /\ n.moved = b
<1>1. q.ans = "failure" /\ e.kind # "suno" => n = IdlePoller
  BY DEF Settled, RefundsFirst
<1>2. ~(q.ans = "failure" /\ e.kind # "suno") => n = [q EXCEPT !.at = "save", !.moved = b]
  BY DEF Settled, RefundsFirst
<1>3. ASSUME n = [q EXCEPT !.at = "save", !.moved = b]
      PROVE  n \in Polls /\ n.at = "save" /\ n.cur = q.cur /\ n.ans = q.ans /\ n.moved = b
  BY <1>3 DEF Polls, Stages
<1> QED
  BY <1>1, <1>2, <1>3, TaskIdleTyped

\* The answer of a poller that moves money.
LEMMA Moving ==
  ASSUME NEW e \in TaskRows, NEW q, Stage(q, e), q.at \in {"user", "key"}
  PROVE  /\ q.ans \in {"failure", "success"} /\ (q.ans = "success" => e.kind = "video")
         /\ ~q.moved /\ e.status # "none"
  BY DEF Stage

\* refundTaskQuota and resettleVideoTask, the user's balance.
LEMMA UserLegSettle ==
  ASSUME SettleInv, NEW p \in Pollers, UserLeg(p), seen' = seen
  PROVE  SettleInv'
<1>q. PICK q : q = poll[p]
  OBVIOUS
<1>t. PICK t : t = q.cur
  OBVIOUS
<1>e. PICK e : e = task[t]
  OBVIOUS
<1>1. q.at = "user" /\ TaskTypeOK
  BY <1>q DEF UserLeg, At, SettleInv
<1>2. /\ t \in Tasks /\ e \in TaskRows /\ q \in Polls /\ Stage(q, e) /\ RowOK(e)
      /\ e.est \in Nat /\ e.cost \in Nat /\ e.user \in Int /\ e.refunds \in Nat
      /\ Base(e) \in Int
      /\ t \notin shared /\ t \notin crossed /\ t \notin unsaved => Held(q, e, Exact(t))
  BY <1>q, <1>t, <1>e, <1>1, AtWork
<1>3. /\ q.ans \in {"failure", "success"} /\ (q.ans = "success" => e.kind = "video")
      /\ ~q.moved /\ e.status # "none"
  BY <1>1, <1>2, Moving
<1>d. PICK d : d = Gap(q, e)
  OBVIOUS
<1>f. PICK f : f = IF q.ans = "failure" THEN e.refunds + 1 ELSE e.refunds
  OBVIOUS
<1>w. PICK since \in 0 .. Len(log) : \E r \in {0, Resolve(e.chan, e.est, since)} :
        /\ poll' = [poll EXCEPT ![p] = IF r = 0 THEN Settled(q, TRUE)
                                       ELSE [q EXCEPT !.at = "key", !.row = r]]
        /\ missed' = IF r # 0 /\ Misses(e, since) THEN missed \cup {t} ELSE missed
  BY <1>q, <1>t, <1>e DEF UserLeg
<1>s. PICK r \in {0, Resolve(e.chan, e.est, since)} :
        /\ poll' = [poll EXCEPT ![p] = IF r = 0 THEN Settled(q, TRUE)
                                       ELSE [q EXCEPT !.at = "key", !.row = r]]
        /\ missed' = IF r # 0 /\ Misses(e, since) THEN missed \cup {t} ELSE missed
  BY <1>w
<1>k. PICK k : k = [e EXCEPT !.user = e.user + d, !.refunds = f]
  OBVIOUS
<1>n. PICK n : n = IF r = 0 THEN Settled(q, TRUE) ELSE [q EXCEPT !.at = "key", !.row = r]
  OBVIOUS
<1>4. d \in Int /\ f \in Nat /\ e.user + d \in Int
  BY <1>2, <1>d, <1>f DEF Gap
<1>5. r = 0 \/ r \in DOMAIN log
  <2>1. PICK m \in Nat : DOMAIN log = 1..m
    BY <1>1 DEF TaskTypeOK
  <2>2. since \in Nat
    BY <1>1 DEF TaskTypeOK
  <2>3. r = 0 \/ r \in Candidates(e.chan, e.est, since)
    BY <1>2, <1>s, <2>1, <2>2, ResolveFinds
  <2> QED
    BY <2>3 DEF Candidates, Rows
<1>6. r \in Nat
  BY <1>1, <1>5 DEF TaskTypeOK
<1>7. /\ k \in TaskRows /\ k.at = e.at /\ k.kind = e.kind /\ k.key = e.key /\ k.via = e.via /\ k.est = e.est
      /\ k.cost = e.cost /\ k.status = e.status /\ k.refunds = f
      /\ k.user = e.user + d /\ k.quota = e.quota
  BY <1>2, <1>4, <1>k DEF TaskRows
<1>8. /\ poll' = [poll EXCEPT ![p] = n] /\ task' = [task EXCEPT ![t] = k]
  <2>1. Delta(p) = d
    BY <1>q, <1>t, <1>e, <1>d DEF Delta, Gap
  <2> QED
    BY <1>q, <1>t, <1>e, <1>f, <1>s, <1>k, <1>n, <1>1, <1>2, <2>1 DEF UserLeg, TaskTypeOK
<1>9. /\ UNCHANGED <<shared, uncharged, overlap, unrefunded, crossed, unsaved, misdirected, paid,
                     returned, log, lost, faults>>
      /\ unlogged' \subseteq unlogged \cup {t} /\ missed' \subseteq missed \cup {t}
  BY <1>q, <1>t, <1>s DEF UserLeg
<1>10. r = 0 => /\ n \in Polls
                /\ q.ans = "failure" /\ e.kind # "suno" => n = IdlePoller
                /\ ~(q.ans = "failure" /\ e.kind # "suno") =>
                     n.at = "save" /\ n.cur = t /\ n.ans = q.ans /\ n.moved = TRUE
  <2>b. PICK b \in BOOLEAN : b = TRUE
    OBVIOUS
  <2>1. e = task[q.cur] /\ (r = 0 => n = Settled(q, b))
    BY <1>e, <1>n, <1>t, <2>b
  <2>2. ASSUME r = 0
        PROVE  /\ n \in Polls
               /\ q.ans = "failure" /\ e.kind # "suno" => n = IdlePoller
               /\ ~(q.ans = "failure" /\ e.kind # "suno") =>
                    n.at = "save" /\ n.cur = q.cur /\ n.ans = q.ans /\ n.moved = b
    BY <1>2, <2>1, <2>2, SettledIs
  <2> QED
    BY <1>t, <2>b, <2>2
<1>11. r # 0 => /\ n \in Polls /\ n.at = "key" /\ n.cur = t /\ n.ans = q.ans
                /\ n.moved = q.moved /\ n.row = r
  BY <1>2, <1>6, <1>n, <1>t DEF Polls, Stages
<1>12. n \in Polls /\ (n = IdlePoller \/ (n.at # "idle" /\ n.cur = t /\ Stage(n, k)))
  <2>1. ASSUME n # IdlePoller
        PROVE  n.at # "idle" /\ n.cur = t /\ Stage(n, k)
    <3>1. n.cur = t /\ n.ans = q.ans /\ ((n.at = "key" /\ n.moved = q.moved) \/ n.at = "save")
      BY <1>10, <1>11, <2>1
    <3>2. n.at = "save" => q.ans = "success" \/ (q.ans = "failure" /\ e.kind = "suno")
      BY <1>3, <1>10, <1>11, <2>1
    <3> QED
      BY <1>3, <1>7, <3>1, <3>2 DEF Stage
  <2> QED
    BY <1>10, <1>11, <2>1
<1>13. ASSUME t \notin shared /\ t \notin crossed, t \notin unsaved'
       PROVE  IF n = IdlePoller THEN Free(k, Exact(t)') ELSE Held(n, k, Exact(t)')
  <2>1. Held(q, e, Exact(t)) /\ Exact(t)' = Exact(t)
    BY <1>2, <1>9, <1>13 DEF Exact
  <2>2. /\ e.status = IF q.ans = "failure" /\ e.kind # "suno" THEN "FAILURE" ELSE "pending"
        /\ e.refunds = 0 /\ (Exact(t) => e.quota = e.est /\ e.user = Base(e) + 0)
    BY <1>1, <2>1 DEF Held, MovedBy
  <2>3. Base(k) = Base(e) /\ Gap(n, k) = Gap(n, e) /\ (Exact(t) => k.user = Base(k) + d)
    <3>1. Base(k) = Base(e) /\ Gap(n, k) = Gap(n, e)
      BY <1>7 DEF Base, Gap
    <3>2. Exact(t) => k.user = Base(e) + d
      BY <1>2, <1>4, <1>7, <2>2
    <3> QED
      BY <3>1, <3>2
  <2>4. k.refunds = IF q.ans = "failure" THEN 1 ELSE 0
    BY <1>7, <1>f, <2>2
  <2>5. CASE n = IdlePoller
    <3>1. q.ans = "failure" /\ e.kind # "suno"
      BY <1>2, <1>10, <1>11, <2>5, TaskIdleTyped
    <3>2. d = -e.est /\ e.status = "FAILURE"
      BY <1>d, <2>2, <3>1 DEF Gap
    <3> QED
      BY <1>7, <2>1, <2>3, <2>4, <2>5, <3>1, <3>2 DEF Free
  <2>6. CASE n # IdlePoller
    <3>1. MovedBy(n) /\ n.ans = q.ans /\ Gap(n, e) = d
      BY <1>10, <1>11, <1>d, <2>6 DEF MovedBy, Gap
    <3>2. n.at = "save" => n.moved /\ ~(q.ans = "failure" /\ e.kind # "suno")
      BY <1>10, <1>11, <2>6
    <3>3. k.status = IF n.at \in {"user", "key"} /\ n.ans = "failure" /\ k.kind # "suno"
                     THEN "FAILURE" ELSE "pending"
      <4>1. n.at = "key" \/ n.at = "save"
        BY <1>10, <1>11, <2>6
      <4> QED
        BY <1>7, <2>2, <3>1, <3>2, <4>1
    <3> QED
      BY <1>7, <2>1, <2>2, <2>3, <2>4, <2>6, <3>1, <3>2, <3>3 DEF Held
  <2> QED
    BY <2>5, <2>6
<1>14. /\ paid' \in [Keys -> Int] /\ returned' \in [Keys -> Nat]
       /\ log' \in Seq([key : Keys, quota : Nat, chan : Channels]) /\ DOMAIN log \subseteq DOMAIN log'
  BY <1>1, <1>9 DEF TaskTypeOK
<1>15. n.at \in {"key", "rewrite"} => n.row \in DOMAIN log'
  BY <1>5, <1>9, <1>10, <1>11, TaskIdleTyped
<1>16. poll[p].cur = t /\ k.status # "none"
  BY <1>q, <1>t, <1>3, <1>7
<1> QED
  BY <1>e, <1>2, <1>7, <1>8, <1>9, <1>12, <1>13, <1>14, <1>15, <1>16, PollerSettle

\* The user's balance could not be moved.
LEMMA UserLegFailsSettle ==
  ASSUME SettleInv, NEW p \in Pollers, UserLegFails(p), seen' = seen
  PROVE  SettleInv'
<1>q. PICK q : q = poll[p]
  OBVIOUS
<1>t. PICK t : t = q.cur
  OBVIOUS
<1>e. PICK e : e = task[t]
  OBVIOUS
<1>n. PICK n : n = Settled(q, FALSE)
  OBVIOUS
<1>1. q.at = "user" /\ TaskTypeOK
  BY <1>q DEF UserLegFails, At, SettleInv
<1>2. /\ t \in Tasks /\ e \in TaskRows /\ q \in Polls /\ Stage(q, e)
  BY <1>q, <1>t, <1>e, <1>1, AtWork
<1>3. /\ q.ans \in {"failure", "success"} /\ (q.ans = "success" => e.kind = "video")
      /\ ~q.moved /\ e.status # "none"
  BY <1>1, <1>2, Moving
<1>4. /\ poll' = [poll EXCEPT ![p] = n]
      /\ lost' = IF q.ans = "failure" THEN lost \cup {t} ELSE lost
      /\ UNCHANGED <<task, shared, uncharged, overlap, missed, unrefunded, crossed, unsaved, unlogged, misdirected, paid,
                     returned, log>>
      /\ Fault
  BY <1>q, <1>t, <1>n DEF UserLegFails
<1>5. /\ n \in Polls
      /\ q.ans = "failure" /\ e.kind # "suno" => n = IdlePoller
      /\ ~(q.ans = "failure" /\ e.kind # "suno") =>
           n.at = "save" /\ n.cur = t /\ n.ans = q.ans /\ n.moved = FALSE
  <2>b. PICK b \in BOOLEAN : b = FALSE
    OBVIOUS
  <2>1. e = task[q.cur] /\ n = Settled(q, b)
    BY <1>e, <1>n, <1>t, <2>b
  <2> QED
    BY <1>2, <1>t, <2>b, <2>1, SettledIs
<1>6. n = IdlePoller \/ (n.at # "idle" /\ n.cur = t /\ Stage(n, e))
  BY <1>3, <1>5 DEF Stage
<1>7. ASSUME Held(q, e, Exact(t))
      PROVE  IF n = IdlePoller THEN Free(e, Exact(t)') ELSE Held(n, e, Exact(t)')
  <2>1. Exact(t)' => Exact(t) /\ q.ans = "success"
    BY <1>3, <1>4 DEF Exact
  <2>2. ~MovedBy(q) /\ Exact(t) \in BOOLEAN /\ Exact(t)' \in BOOLEAN
    BY <1>1 DEF MovedBy, Exact
  <2>3. CASE n = IdlePoller
    <3>1. q.ans = "failure"
      BY <1>2, <1>5, <2>3, TaskIdleTyped
    <3>2. ~Exact(t)'
      BY <2>1, <3>1
    <3> QED
      BY <1>2, <1>7, <2>2, <2>3, <3>2, Dropped
  <2>4. CASE n # IdlePoller
    <3>1. ~MovedBy(n) /\ n.at = "save" /\ n.ans = q.ans /\ ~(q.ans = "failure" /\ e.kind # "suno")
      BY <1>5, <2>4 DEF MovedBy
    <3>2. e.status = "pending" /\ e.refunds = 0
      BY <1>1, <1>7, <2>2, <3>1 DEF Held
    <3>3. Exact(t)' => e.quota = e.est /\ e.user = Base(e) + 0
      BY <1>7, <2>1, <2>2 DEF Held
    <3> QED
      BY <2>1, <2>4, <3>1, <3>2, <3>3 DEF Held
  <2> QED
    BY <2>3, <2>4
<1>8. /\ paid' \in [Keys -> Int] /\ returned' \in [Keys -> Nat]
      /\ log' \in Seq([key : Keys, quota : Nat, chan : Channels]) /\ DOMAIN log \subseteq DOMAIN log'
  BY <1>1, <1>4 DEF TaskTypeOK
<1>9. n.at \notin {"key", "rewrite"} /\ lost \subseteq lost' /\ lost' \subseteq lost \cup {t}
  BY <1>4, <1>5, TaskIdleTyped
<1> QED
  BY <1>q, <1>t, <1>e, <1>1, <1>4, <1>5, <1>6, <1>7, <1>8, <1>9, PollerMoves

\* The rest of a settlement after the user's leg: the money has moved and stays so.
LEMMA Carried ==
  ASSUME NEW e \in TaskRows, NEW q \in Polls, NEW n, q.cur # "none",
         q.at \in {"key", "rewrite"}, Stage(q, e), NEW x \in BOOLEAN, NEW y \in BOOLEAN, y => x,
         IF q.ans = "failure" /\ e.kind # "suno" THEN n = IdlePoller
         ELSE /\ n.cur = q.cur /\ n.ans = q.ans
              /\ (n.at = "save" /\ n.moved) \/ (n.at = "rewrite" /\ q.ans = "success")
  PROVE  /\ n = IdlePoller \/ (n.at # "idle" /\ n.cur = q.cur /\ Stage(n, e))
         /\ Held(q, e, x) => IF n = IdlePoller THEN Free(e, y) ELSE Held(n, e, y)
<1>1. /\ q.ans \in {"failure", "success"} /\ (q.ans = "success" => e.kind = "video")
      /\ e.status # "none" /\ MovedBy(q)
  BY DEF Stage, MovedBy
<1>2. e.est \in Nat /\ e.refunds \in Nat /\ e.user \in Int /\ Base(e) \in Int
  BY BaseTyped DEF TaskRows
<1>3. CASE q.ans = "failure" /\ e.kind # "suno"
  <2>1. n = IdlePoller /\ q.at = "key"
    BY <1>3 DEF Stage
  <2>2. ASSUME Held(q, e, x)
        PROVE  Free(e, y)
    <3>1. e.status = "FAILURE" /\ e.refunds = 1
      BY <1>1, <1>3, <2>1, <2>2 DEF Held
    <3>2. y => e.user = Base(e) + (-e.est)
      BY <1>1, <1>3, <2>2 DEF Held, Gap
    <3> QED
      BY <3>1, <3>2 DEF Free
  <2> QED
    BY <2>1, <2>2
<1>4. CASE ~(q.ans = "failure" /\ e.kind # "suno")
  <2>1. /\ n.cur = q.cur /\ n.ans = q.ans /\ n # IdlePoller
        /\ (n.at = "save" /\ n.moved) \/ (n.at = "rewrite" /\ q.ans = "success")
    BY <1>4, TaskIdleTyped
  <2>2. Stage(n, e)
    BY <1>1, <1>4, <2>1 DEF Stage
  <2>3. MovedBy(n) /\ Gap(n, e) = Gap(q, e)
    BY <2>1 DEF MovedBy, Gap
  <2>4. ASSUME Held(q, e, x)
        PROVE  Held(n, e, y)
    <3>1. e.status = "pending" /\ (e.refunds = IF q.ans = "failure" THEN 1 ELSE 0)
      BY <1>1, <1>4, <2>4 DEF Held
    <3>2. y => e.quota = e.est /\ e.user = Base(e) + Gap(q, e)
      BY <1>1, <2>4 DEF Held
    <3> QED
      BY <2>1, <2>3, <3>1, <3>2 DEF Held
  <2> QED
    BY <2>1, <2>2, <2>4
<1> QED
  BY <1>3, <1>4

\* Where the key's leg leads.
LEMMA KeyDoneIs ==
  ASSUME NEW q \in Polls, NEW t, t = q.cur, NEW e \in TaskRows, e = task[t],
         q.ans \in {"failure", "success"}, NEW n, n = KeyDone(q)
  PROVE  /\ n \in Polls /\ (n = IdlePoller \/ n.row = q.row)
         /\ IF q.ans = "failure" /\ e.kind # "suno" THEN n = IdlePoller
            ELSE /\ n.cur = q.cur /\ n.ans = q.ans
                 /\ (n.at = "save" /\ n.moved) \/ (n.at = "rewrite" /\ q.ans = "success")
<1>1. CASE q.ans = "success"
  <2>1. n = [q EXCEPT !.at = "rewrite"]
    BY <1>1 DEF KeyDone
  <2> QED
    BY <1>1, <2>1 DEF Polls, Stages
<1>2. CASE q.ans = "failure" /\ e.kind # "suno"
  BY <1>2, TaskIdleTyped DEF KeyDone, Settled, RefundsFirst
<1>3. CASE q.ans = "failure" /\ e.kind = "suno"
  <2>1. n = [q EXCEPT !.at = "save", !.moved = TRUE]
    BY <1>3 DEF KeyDone, Settled, RefundsFirst
  <2> QED
    BY <1>3, <2>1 DEF Polls, Stages
<1> QED
  BY <1>1, <1>2, <1>3

\* creditTaskLedgers: the user's side is not touched.
LEMMA KeyLegSettle ==
  ASSUME SettleInv, NEW p \in Pollers, KeyLeg(p), seen' = seen
  PROVE  SettleInv'
<1>q. PICK q : q = poll[p]
  OBVIOUS
<1>t. PICK t : t = q.cur
  OBVIOUS
<1>e. PICK e : e = task[t]
  OBVIOUS
<1>n. PICK n : n = KeyDone(q)
  OBVIOUS
<1>d. PICK d : d = Gap(q, e)
  OBVIOUS
<1>g. PICK g : g = log[q.row].key
  OBVIOUS
<1>1. q.at = "key" /\ TaskTypeOK
  BY <1>q DEF KeyLeg, At, SettleInv
<1>2. /\ t \in Tasks /\ e \in TaskRows /\ q \in Polls /\ Stage(q, e)
      /\ e.est \in Nat /\ e.cost \in Nat /\ q.row \in DOMAIN log
  BY <1>q, <1>t, <1>e, <1>1, AtWork
<1>3. q.ans \in {"failure", "success"}
  BY <1>1, <1>2, Moving
<1>4. /\ poll' = [poll EXCEPT ![p] = n]
      /\ UNCHANGED <<task, shared, uncharged, overlap, missed, unrefunded, crossed, unsaved, unlogged, log, lost, faults>>
      /\ misdirected' \subseteq misdirected \cup {t}
  BY <1>q, <1>t, <1>n DEF KeyLeg
<1>5. /\ n \in Polls /\ (n = IdlePoller \/ n.row = q.row)
      /\ IF q.ans = "failure" /\ e.kind # "suno" THEN n = IdlePoller
         ELSE /\ n.cur = q.cur /\ n.ans = q.ans
              /\ (n.at = "save" /\ n.moved) \/ (n.at = "rewrite" /\ q.ans = "success")
  BY <1>2, <1>e, <1>n, <1>t, <1>3, KeyDoneIs
<1>6. Exact(t) = Exact(t)' /\ Exact(t) \in BOOLEAN /\ q.cur # "none"
  BY <1>2, <1>4, <1>t, TaskAssumption DEF Exact
<1>7. /\ n = IdlePoller \/ (n.at # "idle" /\ n.cur = t /\ Stage(n, e))
      /\ Held(q, e, Exact(t)) => IF n = IdlePoller THEN Free(e, Exact(t)') ELSE Held(n, e, Exact(t)')
  BY <1>1, <1>2, <1>5, <1>6, <1>t, Carried
<1>8. paid' \in [Keys -> Int] /\ returned' \in [Keys -> Nat]
  <2>1. d = Delta(p) /\ d \in Int /\ (q.ans = "failure" => d = -e.est)
    <3>1. d = IF q.ans = "failure" THEN -e.est ELSE e.cost - e.est
      BY <1>d DEF Gap
    <3>2. Delta(p) = d
      BY <1>q, <1>t, <1>e, <3>1 DEF Delta
    <3> QED
      BY <1>2, <3>1, <3>2
  <2>2. g \in Keys /\ paid \in [Keys -> Int] /\ returned \in [Keys -> Nat]
    BY <1>1, <1>2, <1>g, LogTyped DEF TaskTypeOK
  <2>3. paid' = [paid EXCEPT ![g] = paid[g] + d]
    BY <1>q, <1>g, <2>1 DEF KeyLeg
  <2>4. returned' = IF q.ans = "failure" THEN [returned EXCEPT ![g] = returned[g] - d]
                    ELSE returned
    BY <1>q, <1>g, <2>1 DEF KeyLeg
  <2>5. paid[g] + d \in Int
    BY <2>1, <2>2
  <2>6. q.ans = "failure" => returned[g] - d \in Nat
    BY <1>2, <2>1, <2>2
  <2> QED
    BY <2>2, <2>3, <2>4, <2>5, <2>6
<1>9. log' \in Seq([key : Keys, quota : Nat, chan : Channels]) /\ DOMAIN log \subseteq DOMAIN log'
      /\ (n.at \in {"key", "rewrite"} => n.row \in DOMAIN log')
  BY <1>1, <1>2, <1>4, <1>5, TaskIdleTyped DEF TaskTypeOK
<1> QED
  BY <1>q, <1>t, <1>e, <1>1, <1>4, <1>5, <1>7, <1>8, <1>9, PollerMoves

\* The key's leg fails: a charge is taken back whole, a refund goes on.
LEMMA KeyLegFailsSettle ==
  ASSUME SettleInv, NEW p \in Pollers, KeyLegFails(p), seen' = seen
  PROVE  SettleInv'
<1>q. PICK q : q = poll[p]
  OBVIOUS
<1>t. PICK t : t = q.cur
  OBVIOUS
<1>e. PICK e : e = task[t]
  OBVIOUS
<1>d. PICK d : d = Gap(q, e)
  OBVIOUS
<1>1. q.at = "key" /\ TaskTypeOK
  BY <1>q DEF KeyLegFails, At, SettleInv
<1>2. /\ t \in Tasks /\ e \in TaskRows /\ q \in Polls /\ Stage(q, e)
      /\ e.est \in Nat /\ e.cost \in Nat /\ e.user \in Int /\ Base(e) \in Int /\ q.row \in DOMAIN log
      /\ t \notin shared /\ t \notin crossed /\ t \notin unsaved => Held(q, e, Exact(t))
  BY <1>q, <1>t, <1>e, <1>1, AtWork
<1>3. q.ans \in {"failure", "success"} /\ e.status # "none"
      /\ (q.ans = "success" => e.kind = "video")
  BY <1>1, <1>2, Moving
<1>4. /\ UNCHANGED <<shared, uncharged, overlap, missed, unrefunded, crossed, unsaved, unlogged, log, misdirected, paid,
                     returned>>
      /\ Fault
  BY DEF KeyLegFails
<1>5. d = Delta(p) /\ d \in Int
  BY <1>q, <1>t, <1>e, <1>d, <1>2 DEF Delta, Gap
<1>6. /\ paid' \in [Keys -> Int] /\ returned' \in [Keys -> Nat]
      /\ log' \in Seq([key : Keys, quota : Nat, chan : Channels]) /\ DOMAIN log \subseteq DOMAIN log'
  BY <1>1, <1>4 DEF TaskTypeOK
<1>7. CASE d > 0
  <2>k. PICK k : k = [e EXCEPT !.user = e.user - d]
    OBVIOUS
  <2>n. PICK n : n = [q EXCEPT !.at = "save", !.moved = FALSE]
    OBVIOUS
  <2>1. q.ans = "success"
    BY <1>2, <1>3, <1>7, <1>d DEF Gap
  <2>2. n = Settled(q, FALSE)
    BY <2>1, <2>n DEF Settled
  <2>3. n \in Polls /\ n.at = "save" /\ n.cur = t /\ n.ans = "success" /\ ~n.moved
    BY <1>2, <1>t, <2>1, <2>n DEF Polls, Stages
  <2>4. e.user - d \in Int
    BY <1>2, <1>5
  <2>5. /\ k \in TaskRows /\ k.at = e.at /\ k.kind = e.kind /\ k.key = e.key /\ k.via = e.via /\ k.est = e.est
        /\ k.cost = e.cost /\ k.status = e.status /\ k.refunds = e.refunds
        /\ k.user = e.user - d /\ k.quota = e.quota
    BY <1>2, <2>4, <2>k DEF TaskRows
  <2>6. task' = [task EXCEPT ![t] = k] /\ poll' = [poll EXCEPT ![p] = n] /\ lost' = lost
    BY <1>q, <1>t, <1>e, <1>1, <1>5, <1>7, <2>2, <2>k DEF KeyLegFails, TaskTypeOK
  <2>7. Stage(n, k)
    BY <1>3, <2>3, <2>5 DEF Stage
  <2>8. ASSUME t \notin shared /\ t \notin crossed, t \notin unsaved'
        PROVE  Held(n, k, Exact(t)')
    <3>1. Held(q, e, Exact(t)) /\ Exact(t)' = Exact(t)
      BY <1>2, <1>4, <2>6, <2>8 DEF Exact
    <3>2. e.status = "pending" /\ e.refunds = 0
      BY <1>1, <2>1, <3>1 DEF Held
    <3>3. Exact(t) => e.quota = e.est /\ e.user = Base(e) + d
      BY <1>1, <1>d, <3>1 DEF Held, MovedBy
    <3>4. Exact(t) => k.user = Base(e) + 0
      BY <1>2, <1>5, <2>5, <3>3
    <3>5. Base(k) = Base(e) /\ ~MovedBy(n)
      BY <2>3, <2>5 DEF Base, MovedBy
    <3> QED
      BY <2>3, <2>5, <3>1, <3>2, <3>3, <3>4, <3>5 DEF Held
  <2>9. n # IdlePoller /\ poll[p].cur = t /\ k.status # "none"
    BY <1>q, <1>t, <1>2, <1>3, <2>3, <2>5, TaskIdleTyped
  <2> QED
    BY <1>e, <1>2, <1>4, <1>6, <2>3, <2>5, <2>6, <2>7, <2>8, <2>9, PollerSettle
<1>8. CASE ~(d > 0)
  <2>n. PICK n : n = KeyDone(q)
    OBVIOUS
  <2>1. /\ poll' = [poll EXCEPT ![p] = n] /\ lost' = lost \cup {t} /\ task' = task
    BY <1>q, <1>t, <1>5, <1>8, <2>n DEF KeyLegFails
  <2>2. /\ n \in Polls /\ (n = IdlePoller \/ n.row = q.row)
        /\ IF q.ans = "failure" /\ e.kind # "suno" THEN n = IdlePoller
           ELSE /\ n.cur = q.cur /\ n.ans = q.ans
                /\ (n.at = "save" /\ n.moved) \/ (n.at = "rewrite" /\ q.ans = "success")
    BY <1>2, <1>e, <1>t, <1>3, <2>n, KeyDoneIs
  <2>3. Exact(t)' = FALSE /\ Exact(t)' \in BOOLEAN /\ Exact(t) \in BOOLEAN /\ q.cur # "none"
    BY <1>2, <1>t, <2>1, TaskAssumption DEF Exact
  <2>4. /\ n = IdlePoller \/ (n.at # "idle" /\ n.cur = t /\ Stage(n, e))
        /\ Held(q, e, Exact(t)) => IF n = IdlePoller THEN Free(e, Exact(t)') ELSE Held(n, e, Exact(t)')
    BY <1>1, <1>2, <1>t, <2>2, <2>3, Carried
  <2>5. n.at \in {"key", "rewrite"} => n.row \in DOMAIN log'
    BY <1>2, <1>4, <2>2, TaskIdleTyped
  <2> QED
    BY <1>q, <1>t, <1>e, <1>1, <1>4, <1>6, <2>1, <2>2, <2>4, <2>5, PollerMoves
<1> QED
  BY <1>7, <1>8

\* rewriteTaskConsumeRow, done or not, leaves the settlement as it is.
LEMMA RewriteSettle ==
  ASSUME SettleInv, NEW p \in Pollers, Rewrite(p) \/ RewriteFails(p), seen' = seen
  PROVE  SettleInv'
<1>q. PICK q : q = poll[p]
  OBVIOUS
<1>t. PICK t : t = q.cur
  OBVIOUS
<1>e. PICK e : e = task[t]
  OBVIOUS
<1>n. PICK n : n = [q EXCEPT !.at = "save", !.moved = TRUE]
  OBVIOUS
<1>1. q.at = "rewrite" /\ TaskTypeOK
  BY <1>q DEF Rewrite, RewriteFails, At, SettleInv
<1>2. /\ t \in Tasks /\ e \in TaskRows /\ q \in Polls /\ Stage(q, e)
      /\ e.cost \in Nat /\ q.row \in DOMAIN log
  BY <1>q, <1>t, <1>e, <1>1, AtWork
<1>3. q.ans = "success"
  BY <1>1, <1>2 DEF Stage
<1>4. n \in Polls /\ n.at = "save" /\ n.cur = q.cur /\ n.ans = q.ans /\ n.moved
  BY <1>2, <1>n DEF Polls, Stages
<1>5. n = Settled(q, TRUE)
  BY <1>3, <1>n DEF Settled
<1>6. /\ poll' = [poll EXCEPT ![p] = n]
      /\ UNCHANGED <<task, shared, uncharged, overlap, missed, unrefunded, crossed, unsaved, unlogged, misdirected, paid,
                     returned>>
      /\ lost \subseteq lost' /\ lost' \subseteq lost \cup {t}
      /\ faults' = faults \/ Fault
  BY <1>q, <1>t, <1>5 DEF Rewrite, RewriteFails, ghosts
<1>7. log' \in Seq([key : Keys, quota : Nat, chan : Channels]) /\ DOMAIN log \subseteq DOMAIN log'
  <2>1. CASE Rewrite(p)
    <3>1. log' = [log EXCEPT ![q.row].quota = e.cost]
      BY <1>q, <1>t, <1>e, <2>1 DEF Rewrite
    <3>g. PICK g : g = [log[q.row] EXCEPT !.quota = e.cost]
      OBVIOUS
    <3>2. log \in Seq([key : Keys, quota : Nat, chan : Channels]) /\ log[q.row] \in [key : Keys, quota : Nat, chan : Channels]
      BY <1>1, <1>2, LogTyped DEF TaskTypeOK
    <3>3. g \in [key : Keys, quota : Nat, chan : Channels]
      BY <1>2, <3>g, <3>2
    <3>4. log' = [log EXCEPT ![q.row] = g]
      BY <1>2, <3>1, <3>2, <3>g
    <3> QED
      BY <1>2, <3>2, <3>3, <3>4
  <2>2. CASE RewriteFails(p)
    BY <1>1, <2>2 DEF RewriteFails, TaskTypeOK
  <2> QED
    BY <2>1, <2>2
<1>8. /\ Exact(t)' => Exact(t)
      /\ Exact(t) \in BOOLEAN /\ Exact(t)' \in BOOLEAN /\ q.cur # "none"
  BY <1>2, <1>6, <1>t, TaskAssumption DEF Exact
<1>9. /\ n = IdlePoller \/ (n.at # "idle" /\ n.cur = t /\ Stage(n, e))
      /\ Held(q, e, Exact(t)) => IF n = IdlePoller THEN Free(e, Exact(t)') ELSE Held(n, e, Exact(t)')
  BY <1>1, <1>2, <1>3, <1>4, <1>8, <1>t, Carried
<1>10. paid' \in [Keys -> Int] /\ returned' \in [Keys -> Nat] /\ n.at \notin {"key", "rewrite"}
  BY <1>1, <1>4, <1>6 DEF TaskTypeOK
<1> QED
  BY <1>q, <1>t, <1>e, <1>1, <1>4, <1>6, <1>7, <1>9, <1>10, PollerMoves

\* The save before the refund (updateVideoSingleTask, updateMidjourneyTasks), or the last one.
LEMMA SaveSettle ==
  ASSUME SettleInv, NEW p \in Pollers, Save(p), seen' = seen
  PROVE  SettleInv'
<1>q. PICK q : q = poll[p]
  OBVIOUS
<1>t. PICK t : t = q.cur
  OBVIOUS
<1>e. PICK e : e = task[t]
  OBVIOUS
<1>s. PICK s : s = Status(q.ans)
  OBVIOUS
<1>c. PICK c : c = IF q.ans = "success" /\ q.moved THEN e.cost ELSE e.est
  OBVIOUS
<1>k. PICK k : k = [e EXCEPT !.status = s, !.quota = c]
  OBVIOUS
<1>n. PICK n : n = IF q.ans = "failure" /\ e.kind # "suno" THEN [q EXCEPT !.at = "user"]
                   ELSE IdlePoller
  OBVIOUS
<1>1. q.at = "save" /\ TaskTypeOK
  BY <1>q DEF Save, At, SettleInv
<1>2. /\ t \in Tasks /\ e \in TaskRows /\ q \in Polls /\ Stage(q, e)
      /\ q.ans \in Finals /\ e.est \in Nat /\ e.cost \in Nat /\ e.user \in Int /\ Base(e) \in Int
      /\ t \notin shared /\ t \notin crossed /\ t \notin unsaved => Held(q, e, Exact(t))
  BY <1>q, <1>t, <1>e, <1>1, AtWork
<1>3. /\ s \in {"pending", "SUCCESS", "FAILURE"} /\ (s = "FAILURE" <=> q.ans = "failure")
      /\ (s = "pending" <=> q.ans = "running")
  BY <1>2, <1>s DEF Status, Finals
<1>4. c \in Nat
  BY <1>2, <1>c
<1>5. /\ k \in TaskRows /\ k.at = e.at /\ k.kind = e.kind /\ k.key = e.key /\ k.via = e.via /\ k.est = e.est
      /\ k.cost = e.cost /\ k.status = s /\ k.refunds = e.refunds
      /\ k.user = e.user /\ k.quota = c
  BY <1>2, <1>3, <1>4, <1>k DEF TaskRows
<1>6. poll' = [poll EXCEPT ![p] = n] /\ task' = [task EXCEPT ![t] = k]
  <2>1. RefundsFirst(t) = (e.kind = "suno")
    BY <1>e DEF RefundsFirst
  <2> QED
    BY <1>q, <1>t, <1>e, <1>s, <1>c, <1>k, <1>n, <1>1, <1>2, <2>1 DEF Save, TaskTypeOK
<1>7. UNCHANGED <<shared, uncharged, overlap, missed, unrefunded, crossed, unsaved, unlogged, misdirected, paid,
                  returned, log, faults, lost>>
  BY DEF Save, ghosts
<1>8. IF q.ans = "failure" /\ e.kind # "suno"
      THEN n \in Polls /\ n.at = "user" /\ n.cur = t /\ n.ans = "failure" /\ n.moved = q.moved
      ELSE n \in Polls /\ n = IdlePoller
  BY <1>2, <1>t, <1>n, TaskIdleTyped DEF Polls, Stages
<1>9. q.moved => q.ans = "success" \/ (q.ans = "failure" /\ e.kind = "suno")
  BY <1>1, <1>2 DEF Stage
<1>10. n = IdlePoller \/ (n.at # "idle" /\ n.cur = t /\ Stage(n, k))
  BY <1>3, <1>5, <1>8, <1>9 DEF Stage
<1>11. ASSUME t \notin shared /\ t \notin crossed, t \notin unsaved'
       PROVE  IF n = IdlePoller THEN Free(k, Exact(t)') ELSE Held(n, k, Exact(t)')
  <2>1. Held(q, e, Exact(t)) /\ Exact(t)' = Exact(t)
    BY <1>2, <1>7, <1>11 DEF Exact
  <2>2. Base(k) = Base(e) /\ (MovedBy(q) <=> q.moved)
    BY <1>1, <1>5 DEF Base, MovedBy
  <2>3. /\ e.refunds = IF q.moved /\ q.ans = "failure" THEN 1 ELSE 0
        /\ Exact(t) => /\ e.user = Base(e) + (IF q.moved THEN Gap(q, e) ELSE 0)
                       /\ q.ans = "failure" /\ e.kind = "suno" => q.moved
    BY <1>1, <2>1, <2>2 DEF Held
  <2>4. CASE q.ans = "failure" /\ e.kind # "suno"
    <3>1. ~q.moved /\ c = e.est /\ s = "FAILURE"
      BY <1>3, <1>9, <1>c, <2>4
    <3>2. n.at = "user" /\ n.ans = "failure" /\ n # IdlePoller /\ ~MovedBy(n)
      BY <1>2, <1>8, <2>4, TaskIdleTyped DEF MovedBy
    <3>3. k.status = "FAILURE" /\ k.refunds = 0
      BY <1>5, <2>3, <3>1
    <3>4. Exact(t) => k.quota = k.est /\ k.user = Base(k) + 0
      BY <1>5, <2>2, <2>3, <3>1
    <3> QED
      BY <1>5, <2>1, <2>4, <3>2, <3>3, <3>4 DEF Held
  <2>5. CASE ~(q.ans = "failure" /\ e.kind # "suno")
    <3>1. n = IdlePoller
      BY <1>8, <2>5
    <3>2. k.refunds <= 1 /\ (k.status # "FAILURE" => k.refunds = 0)
      BY <1>3, <1>5, <2>3
    <3>3. k.status = "pending" => k.quota = k.est
      BY <1>3, <1>5, <1>c
    <3>4. ASSUME Exact(t)
          PROVE  k.user = Base(k) + (IF k.status = "FAILURE" THEN -k.est ELSE k.quota - k.est)
      <4>1. CASE q.ans = "failure"
        <5>1. q.moved /\ k.status = "FAILURE" /\ Gap(q, e) = -e.est
          BY <1>3, <1>5, <2>3, <2>5, <3>4, <4>1 DEF Gap
        <5> QED
          BY <1>5, <2>2, <2>3, <3>4, <5>1
      <4>2. CASE q.ans # "failure" /\ q.moved
        <5>1. k.status # "FAILURE" /\ k.quota = e.cost /\ Gap(q, e) = e.cost - e.est
          BY <1>3, <1>5, <1>9, <1>c, <4>2 DEF Gap
        <5> QED
          BY <1>5, <2>2, <2>3, <3>4, <4>2, <5>1
      <4>3. CASE q.ans # "failure" /\ ~q.moved
        <5>1. k.status # "FAILURE" /\ k.quota = e.est /\ k.user = Base(e) + 0
          BY <1>3, <1>5, <1>c, <2>3, <3>4, <4>3
        <5> QED
          BY <1>2, <1>5, <2>2, <5>1
      <4> QED
        BY <4>1, <4>2, <4>3
    <3> QED
      BY <2>1, <3>1, <3>2, <3>3, <3>4 DEF Free
  <2> QED
    BY <2>4, <2>5
<1>12. /\ paid' \in [Keys -> Int] /\ returned' \in [Keys -> Nat]
       /\ log' \in Seq([key : Keys, quota : Nat, chan : Channels]) /\ DOMAIN log \subseteq DOMAIN log'
  BY <1>1, <1>7 DEF TaskTypeOK
<1>13. n \in Polls /\ n.at \notin {"key", "rewrite"} /\ poll[p].cur = t /\ k.status # "none"
  BY <1>q, <1>t, <1>3, <1>5, <1>8, TaskIdleTyped
<1> QED
  BY <1>e, <1>2, <1>5, <1>6, <1>7, <1>10, <1>11, <1>12, <1>13, PollerSettle

\* A poll is given up, at a save that fails or anywhere: what had moved is on the lists.
LEMMA GivenUpSettle ==
  ASSUME SettleInv, NEW p \in Pollers, SaveFails(p) \/ Kill(p), seen' = seen
  PROVE  SettleInv'
<1>q. PICK q : q = poll[p]
  OBVIOUS
<1>t. PICK t : t = q.cur
  OBVIOUS
<1>e. PICK e : e = task[t]
  OBVIOUS
<1>1. q.at # "idle" /\ TaskTypeOK
  BY <1>q DEF SaveFails, Kill, At, SettleInv
<1>2. /\ t \in Tasks /\ e \in TaskRows /\ q \in Polls /\ Stage(q, e)
  BY <1>q, <1>t, <1>e, <1>1, AtWork
<1>3. /\ poll' = [poll EXCEPT ![p] = IdlePoller]
      /\ UNCHANGED <<task, shared, uncharged, overlap, missed, unrefunded, crossed, unlogged, misdirected, paid,
                     returned, log>>
      /\ lost \subseteq lost' /\ lost' \subseteq lost \cup {t}
      /\ unsaved \subseteq unsaved' /\ unsaved' \subseteq unsaved \cup {t}
      /\ Fault
  BY <1>q, <1>t DEF SaveFails, Kill
<1>4. ASSUME Held(q, e, Exact(t)), t \notin unsaved'
      PROVE  Free(e, Exact(t)')
  <2>1. q.at = "save" => ~q.moved
    BY <1>q, <1>t, <1>4 DEF SaveFails, Kill, Dirty, At
  <2>2. q.at \in {"key", "rewrite"} => q.ans = "failure" /\ e.kind # "suno" /\ t \in lost'
    <3>1. q.ans \in {"failure", "success"} \/ q.at \notin {"key", "rewrite"}
      BY <1>2 DEF Stage
    <3> QED
      BY <1>q, <1>t, <1>e, <1>4, <3>1 DEF SaveFails, Kill, Dirty, Owed, At, RefundsFirst
  <2>3. q.at = "user" /\ q.ans = "failure" /\ e.kind # "suno" => t \in lost'
    BY <1>q, <1>t, <1>e DEF SaveFails, Kill, Owed, At, RefundsFirst
  <2>4. Exact(t)' => Exact(t) /\ t \notin lost'
    BY <1>3 DEF Exact
  <2>5. Exact(t) \in BOOLEAN /\ Exact(t)' \in BOOLEAN
    BY DEF Exact
  <2>6. Exact(t)' => ~MovedBy(q) /\ e.status = "pending"
    BY <1>4, <2>1, <2>2, <2>3, <2>4 DEF Held, MovedBy
  <2>7. MovedBy(q) /\ q.ans = "failure" => e.status = "FAILURE"
    <3>1. MovedBy(q) => q.at = "key"
      BY <1>2, <2>1, <2>2 DEF MovedBy, Stage
    <3> QED
      BY <1>4, <2>2, <3>1 DEF Held
  <2> QED
    BY <1>2, <1>4, <2>4, <2>5, <2>6, <2>7, Dropped
<1>5. /\ paid' \in [Keys -> Int] /\ returned' \in [Keys -> Nat]
      /\ log' \in Seq([key : Keys, quota : Nat, chan : Channels]) /\ DOMAIN log \subseteq DOMAIN log'
  BY <1>1, <1>3 DEF TaskTypeOK
<1> QED
  BY <1>q, <1>t, <1>e, <1>1, <1>3, <1>4, <1>5, TaskIdleTyped, PollerMoves

\* A poll begins: the task is in one more pair of hands.
LEMMA PollSettle ==
  ASSUME SettleInv, NEW p \in Pollers, NEW t \in Tasks, Poll(p, t), seen' = seen
  PROVE  SettleInv'
<1>e. PICK e : e = task[t]
  OBVIOUS
<1>n. PICK n : n = [IdlePoller EXCEPT !.at = "ask", !.cur = t]
  OBVIOUS
<1>1. TaskTypeOK /\ PollOK(poll[p]) /\ poll[p].at = "idle" /\ e.status = "pending"
      /\ \A r \in Pollers : PollOK(poll[r])
  BY <1>e DEF SettleInv, Poll, At
<1>2. poll[p].cur \notin Tasks
  BY <1>1, TaskIdleTyped DEF PollOK
<1>3. n \in Polls /\ n.at = "ask" /\ n.cur = t /\ n.moved = FALSE
  BY <1>n DEF IdlePoller, Polls, Stages, Finals
<1>4. /\ poll' = [poll EXCEPT ![p] = n] /\ shared \subseteq shared' /\ shared' \subseteq shared \cup {t}
      /\ UNCHANGED <<faults, task, paid, returned, log, unsaved, uncharged, lost,
                     unlogged, missed, unrefunded, crossed, misdirected>>
      /\ Has(t) # {} => t \in shared'
  BY <1>n DEF Poll
<1>5. overlap' \in BOOLEAN
  BY <1>1 DEF Poll, TaskTypeOK
<1>6. poll'[p] = n /\ \A r \in Pollers \ {p} : poll'[r] = poll[r]
  BY <1>1, <1>4 DEF TaskTypeOK
<1>7. TaskTypeOK'
  BY <1>1, <1>3, <1>4, <1>5 DEF TaskTypeOK
<1>8. ASSUME NEW r \in Pollers
      PROVE  PollOK(poll[r])'
  <2>1. CASE r = p
    <3>1. Stage(n, e)
      BY <1>1, <1>3 DEF Stage
    <3> QED
      BY <1>e, <1>3, <1>4, <1>6, <2>1, <3>1 DEF PollOK
  <2>2. CASE r # p
    BY <1>1, <1>4, <1>6, <2>2 DEF PollOK
  <2> QED
    BY <2>1, <2>2
<1>9. ASSUME NEW u \in Tasks
      PROVE  TaskOK(u)'
  <2>1. TaskOK(u) /\ Exact(u)' = Exact(u)
    BY <1>4 DEF SettleInv, Exact
  <2>2. CASE u # t
    <3>1. \A r \in Pollers : /\ poll'[r].cur = u <=> poll[r].cur = u
                             /\ poll'[r].cur = u => poll'[r] = poll[r]
      BY <1>2, <1>3, <1>6, <2>2
    <3> QED
      BY <1>4, <2>1, <2>2, <3>1 DEF TaskOK
  <2>3. CASE u = t
    <3>1. RowOK(task[t])' /\ (task[t].at = "dead" /\ task[t].status # "none" => ~Exact(t))'
      BY <1>4, <2>1, <2>3 DEF TaskOK
    <3>2. ASSUME t \notin shared', t \notin crossed', t \notin unsaved'
          PROVE  /\ \A r \in Pollers \ {p} : poll'[r].cur # t
                 /\ Held(n, e, Exact(t)')
      <4>1. Has(t) = {} /\ t \notin shared /\ t \notin crossed /\ t \notin unsaved
        BY <1>4, <3>2
      <4>2. \A r \in Pollers : poll[r].cur # t
        BY <4>1 DEF Has
      <4>3. Free(e, Exact(t))
        BY <1>e, <2>1, <2>3, <4>1, <4>2 DEF TaskOK
      <4>4. e.est \in Nat /\ e.quota \in Nat /\ e.user \in Int /\ Base(e) \in Int
        BY <1>1, <1>e, TaskFields, BaseTyped
      <4>5. Exact(t) => e.quota = e.est /\ e.user = Base(e) + (e.quota - e.est)
        BY <1>1, <4>3 DEF Free
      <4>6. e.refunds = 0 /\ ~MovedBy(n) /\ (Exact(t) => e.quota = e.est /\ e.user = Base(e) + 0)
        BY <1>1, <1>3, <4>3, <4>4, <4>5 DEF Free, MovedBy
      <4>7. Held(n, e, Exact(t))
        BY <1>1, <1>3, <4>6 DEF Held
      <4> QED
        BY <1>6, <2>1, <2>3, <4>2, <4>7
    <3> QED
      BY <1>e, <1>3, <1>4, <1>6, <2>3, <3>1, <3>2 DEF TaskOK
  <2> QED
    BY <2>2, <2>3
<1>10. \A h \in Handlers : SeenOK(seen[h])'
  BY <1>4 DEF SettleInv, SeenOK
<1> QED
  BY <1>7, <1>8, <1>9, <1>10 DEF SettleInv

\* An endpoint reads a row: nothing but what is known of the upstream changes.
LEMMA LookSettle ==
  ASSUME SettleInv, NEW h \in Handlers, NEW t \in Tasks, Look(h, t)
  PROVE  SettleInv'
<1>e. PICK e : e = task[t]
  OBVIOUS
<1>a. PICK a \in Says(t) :
        /\ task' = [task EXCEPT ![t].up = a]
        /\ seen' = [seen EXCEPT ![h] =
             [at |-> "looking", cur |-> t, ans |-> a, quota |-> task[t].quota]]
  BY DEF Look
<1>k. PICK k : k = [e EXCEPT !.up = a]
  OBVIOUS
<1>1. TaskTypeOK /\ TaskOK(t) /\ e \in TaskRows /\ e.quota \in Nat /\ e.status # "none"
      /\ UNCHANGED <<faults, poll, paid, returned, log, shared, overlap, unsaved, uncharged, lost,
                     unlogged, missed, unrefunded, crossed, misdirected>>
  BY <1>e, TaskFields DEF SettleInv, Look, ghosts
<1>2. a \in Finals
  <2>1. e.up \in Finals
    BY <1>1 DEF TaskRows
  <2> QED
    BY <1>a, <1>e, <2>1 DEF Says, Finals
<1>3. /\ k \in TaskRows /\ k.at = e.at /\ k.kind = e.kind /\ k.key = e.key /\ k.via = e.via
      /\ k.est = e.est /\ k.cost = e.cost /\ k.status = e.status /\ k.refunds = e.refunds
      /\ k.user = e.user /\ k.quota = e.quota
  BY <1>1, <1>2, <1>k DEF TaskRows
<1>4. task' = [task EXCEPT ![t] = k] /\ task'[t] = k
  BY <1>a, <1>e, <1>k, <1>1 DEF TaskTypeOK
<1>5. TaskTypeOK'
  BY <1>a, <1>e, <1>1, <1>2, <1>3, <1>4 DEF TaskTypeOK, Copies
<1>6. RowOK(k) /\ (k.at = "dead" /\ k.status # "none" => ~Exact(t)') /\ Exact(t)' = Exact(t)
  BY <1>e, <1>1, <1>3 DEF TaskOK, RowOK, Exact
<1>7. ASSUME NEW r \in Pollers, Held(poll[r], e, Exact(t))
      PROVE  Held(poll[r], k, Exact(t)')
  <2>1. Base(k) = Base(e) /\ Gap(poll[r], k) = Gap(poll[r], e)
    BY <1>3 DEF Base, Gap
  <2> QED
    BY <1>3, <1>6, <1>7, <2>1 DEF Held
<1>8. Free(e, Exact(t)) => Free(k, Exact(t)')
  <2>1. Base(k) = Base(e)
    BY <1>3 DEF Base
  <2> QED
    BY <1>3, <1>6, <2>1 DEF Free
<1>9. \A i \in Handlers : seen'[i] = seen[i] \/ SeenOK(seen[i])'
  BY <1>a, <1>1, <1>3, <1>4 DEF SeenOK, TaskTypeOK
<1>10. /\ \A r \in Pollers : PollOK(poll[r])'
       /\ \A u \in Tasks : TaskOK(u)'
       /\ \A i \in Handlers : SeenOK(seen[i])'
  BY <1>e, <1>1, <1>3, <1>4, <1>6, <1>7, <1>8, <1>9, SubmitFrame
<1> QED
  BY <1>5, <1>10 DEF SettleInv

\* What an endpoint saves, when the copy it has in hand is still the row's.
LEMMA LookSavesFree ==
  ASSUME NEW h \in Handlers, NEW c, c = seen[h], NEW t, t = c.cur, NEW e \in TaskRows,
         e = task[t], NEW k \in TaskRows, LookSaves(h), Undisturbed(c),
         k = [e EXCEPT !.status = Status(c.ans), !.quota = c.quota], c.ans \in Finals
  PROVE  /\ \A r \in Pollers : poll[r].cur = t /\ Held(poll[r], e, Exact(t)) =>
                                Held(poll[r], k, Exact(t)')
         /\ (\A r \in Pollers : poll[r].cur # t) /\ Free(e, Exact(t)) => Free(k, Exact(t)')
<1>1. /\ k.at = e.at /\ k.kind = e.kind /\ k.est = e.est /\ k.cost = e.cost
      /\ k.status = Status(c.ans) /\ k.refunds = e.refunds /\ k.user = e.user
      /\ k.quota = e.quota
  BY DEF TaskRows, Undisturbed
<1>2. Base(k) = Base(e) /\ \A r \in Pollers : Gap(poll[r], k) = Gap(poll[r], e)
  BY <1>1 DEF Base, Gap
<1>3. Exact(t)' => Exact(t)
  BY DEF LookSaves, Exact
<1>4. CASE Status(c.ans) = e.status
  <2>1. ASSUME NEW r \in Pollers, Held(poll[r], e, Exact(t))
        PROVE  Held(poll[r], k, Exact(t)')
    BY <1>1, <1>2, <1>3, <1>4, <2>1 DEF Held
  <2>2. Free(e, Exact(t)) => Free(k, Exact(t)')
    BY <1>1, <1>2, <1>3, <1>4 DEF Free
  <2> QED
    BY <2>1, <2>2
<1>5. CASE Status(c.ans) # e.status
  <2>1. e.status = "pending" /\ \A r \in Pollers : poll[r].cur # t
    BY <1>5 DEF Undisturbed, Has
  <2>2. c.ans # "failure" => Status(c.ans) = "SUCCESS"
    BY <1>5, <2>1 DEF Status, Finals
  <2>3. c.ans = "failure" => ~Exact(t)' /\ Status(c.ans) = "FAILURE"
    BY <2>1 DEF LookSaves, Exact, Status
  <2>4. Free(e, Exact(t)) => Free(k, Exact(t)')
    BY <1>1, <1>2, <1>3, <2>1, <2>2, <2>3 DEF Free
  <2> QED
    BY <2>1, <2>4
<1> QED
  BY <1>4, <1>5

\* An endpoint saves the row it has in hand.
LEMMA LookSavesSettle ==
  ASSUME SettleInv, NEW h \in Handlers, LookSaves(h)
  PROVE  SettleInv'
<1>c. PICK c : c = seen[h]
  OBVIOUS
<1>t. PICK t : t = c.cur
  OBVIOUS
<1>e. PICK e : e = task[t]
  OBVIOUS
<1>k. PICK k : k = [e EXCEPT !.status = Status(c.ans), !.quota = c.quota]
  OBVIOUS
<1>1. TaskTypeOK /\ SeenOK(c) /\ c \in Copies /\ c.at = "looking"
  BY <1>c DEF SettleInv, TaskTypeOK, LookSaves
<1>2. t \in Tasks /\ e.status # "none" /\ e \in TaskRows /\ TaskOK(t)
      /\ c.ans \in Finals /\ c.quota \in Nat
  BY <1>t, <1>e, <1>1, TaskFields DEF SeenOK, SettleInv, Copies
<1>3. Status(c.ans) \in {"pending", "SUCCESS", "FAILURE"}
  BY <1>2 DEF Status, Finals
<1>4. /\ k \in TaskRows /\ k.at = e.at /\ k.kind = e.kind /\ k.key = e.key /\ k.via = e.via
      /\ k.est = e.est /\ k.cost = e.cost /\ k.status # "none"
  BY <1>2, <1>3, <1>k DEF TaskRows
<1>5. /\ task' = [task EXCEPT ![t] = k] /\ task'[t] = k
      /\ seen' = [seen EXCEPT ![h] = [NoCopy EXCEPT !.at = "answered"]]
      /\ crossed' = IF Undisturbed(c) THEN crossed ELSE crossed \cup {t}
      /\ unrefunded \subseteq unrefunded' /\ unrefunded' \subseteq unrefunded \cup {t}
      /\ UNCHANGED <<faults, poll, paid, returned, log, shared, overlap, unsaved, uncharged, lost,
                     unlogged, missed, misdirected>>
  BY <1>c, <1>t, <1>e, <1>k, <1>1, <1>2 DEF LookSaves, TaskTypeOK
<1>6. TaskTypeOK'
  BY <1>1, <1>2, <1>4, <1>5 DEF TaskTypeOK, NoCopy, Copies, Finals
<1>7. RowOK(k) /\ (k.at = "dead" /\ k.status # "none" => ~Exact(t)')
  BY <1>e, <1>2, <1>4, <1>5 DEF TaskOK, RowOK, Exact
<1>8. t \notin crossed' =>
        /\ \A r \in Pollers : poll[r].cur = t /\ Held(poll[r], e, Exact(t)) =>
                               Held(poll[r], k, Exact(t)')
        /\ (\A r \in Pollers : poll[r].cur # t) /\ Free(e, Exact(t)) => Free(k, Exact(t)')
  <2>1. t \notin crossed' => Undisturbed(c)
    BY <1>5
  <2> QED
    BY <1>c, <1>t, <1>e, <1>k, <1>2, <1>4, <2>1, LookSavesFree
<1>9. \A i \in Handlers : seen'[i] = seen[i] \/ SeenOK(seen[i])'
  BY <1>1, <1>5 DEF SeenOK, TaskTypeOK, NoCopy
<1>10. /\ \A r \in Pollers : PollOK(poll[r])'
       /\ \A u \in Tasks : TaskOK(u)'
       /\ \A i \in Handlers : SeenOK(seen[i])'
  BY <1>e, <1>2, <1>4, <1>5, <1>7, <1>8, <1>9, SubmitFrame
<1> QED
  BY <1>6, <1>10 DEF SettleInv

\* Nothing has been submitted and nobody polls.
LEMMA TaskInitSettle == TaskInit => SettleInv
<1> SUFFICES ASSUME TaskInit
             PROVE  SettleInv
  OBVIOUS
<1>1. \A t \in Tasks : task[t] = None
  BY DEF TaskInit
<1>2. \A p \in Pollers : poll[p] = IdlePoller
  BY DEF TaskInit
<1>3. TaskTypeOK
  <2>1. task \in [Tasks -> TaskRows] /\ poll \in [Pollers -> Polls]
    BY TaskIdleTyped DEF TaskInit
  <2>2. paid \in [Keys -> Int] /\ returned \in [Keys -> Nat] /\ faults \in 0..MaxFaults
    BY TaskAssumption DEF TaskInit
  <2>3. log \in Seq([key : Keys, quota : Nat, chan : Channels])
    BY DEF TaskInit
  <2>4. seen \in [Handlers -> Copies]
    BY TaskIdleTyped DEF TaskInit
  <2> QED
    BY <2>1, <2>2, <2>3, <2>4 DEF TaskInit, TaskTypeOK
<1>4. RowOK(None) /\ Free(None, TRUE) /\ Free(None, FALSE)
  BY TaskIdleTyped DEF RowOK, Free
<1>5. \A p \in Pollers : PollOK(poll[p])
  BY <1>2, TaskIdleTyped DEF PollOK
<1>6. \A t \in Tasks : TaskOK(t)
  <2> TAKE t \in Tasks
  <2>1. Exact(t) = TRUE /\ \A p \in Pollers : poll[p].cur # t
    BY <1>2, TaskIdleTyped DEF Exact, TaskInit
  <2> QED
    BY <1>1, <1>4, <2>1, TaskIdleTyped DEF TaskOK
<1>7. \A h \in Handlers : SeenOK(seen[h])
  BY TaskIdleTyped DEF TaskInit, SeenOK
<1> QED
  BY <1>3, <1>5, <1>6, <1>7 DEF SettleInv

\* Every step keeps SettleInv.
LEMMA TaskNextSettle == SettleInv /\ [TaskNext]_taskVars => SettleInv'
<1> SUFFICES ASSUME SettleInv, [TaskNext]_taskVars
             PROVE  SettleInv'
  OBVIOUS
<1>1. ASSUME NEW t \in Tasks, Submission(t), seen' = seen
      PROVE  SettleInv'
  BY <1>1, SubmitSettle, ChargeSettle DEF Submission
<1>2. ASSUME NEW p \in Pollers, NEW t \in Tasks, Poll(p, t), seen' = seen
      PROVE  SettleInv'
  BY <1>2, PollSettle
<1>3. ASSUME NEW p \in Pollers, Poller(p), seen' = seen
      PROVE  SettleInv'
  BY <1>3, FailUnaskedSettle, FetchSettle, FetchSkipsSettle, UserLegSettle, UserLegFailsSettle,
     KeyLegSettle, KeyLegFailsSettle, RewriteSettle, SaveSettle, GivenUpSettle DEF Poller
<1>4. ASSUME NEW p \in Pollers, Kill(p), seen' = seen
      PROVE  SettleInv'
  BY <1>4, GivenUpSettle
<1>5. ASSUME NEW h \in Handlers, (\E t \in Tasks : Look(h, t)) \/ LookSaves(h)
      PROVE  SettleInv'
  BY <1>5, LookSettle, LookSavesSettle
<1>6. CASE UNCHANGED taskVars
  BY <1>6 DEF taskVars, ghosts, SettleInv, TaskTypeOK, PollOK, TaskOK, SeenOK, Exact
<1> QED
  BY <1>1, <1>2, <1>3, <1>4, <1>5, <1>6 DEF TaskNext

\* The inductive invariant: a task in the hands of one poller stands where that poller's
\* stage says, and a task in nobody's hands where its row says.
THEOREM SettleInvCorrect == TaskSpec => []SettleInv
  BY TaskInitSettle, TaskNextSettle, PTL DEF TaskSpec

\* Every state of the tasks, their pollers and their consume rows is well typed, for any
\* number of each: in particular a handed-back amount is never negative.
THEOREM TaskTypeCorrect == TaskSpec => []TaskTypeOK
<1>1. SettleInv => TaskTypeOK
  BY DEF SettleInv
<1> QED
  BY <1>1, SettleInvCorrect, PTL

\* For any number of pollers and tasks: a failed task is refunded at most once, and at
\* rest the user has paid what the row stands for, though IsLeader is asked at the start
\* of a poll only and a row is saved whole (refundTaskQuota, resettleVideoTask).
THEOREM UserSettledCorrect == TaskSpec => []UserSettled
<1>1. SettleInv => UserSettled
  <2> SUFFICES ASSUME SettleInv, NEW t \in Tasks, t \notin shared /\ t \notin crossed, t \notin unsaved
               PROVE  /\ task[t].refunds <= 1
                      /\ Exact(t) /\ AtRest(t) /\ task[t].status # "none" =>
                           task[t].user = IF task[t].status = "FAILURE" THEN 0 ELSE task[t].quota
    BY DEF UserSettled, RefundedOnce, PaidAsRecorded, Exact
  <2>e. PICK e : e = task[t]
    OBVIOUS
  <2>1. TaskOK(t) /\ TaskTypeOK
    BY DEF SettleInv
  <2>2. e.est \in Nat /\ e.quota \in Nat /\ e.user \in Int /\ e.refunds \in Nat
    BY <2>e, <2>1, TaskFields
  <2>3. e.refunds <= 1
    <3>1. CASE \E p \in Pollers : poll[p].cur = t
      BY <2>e, <2>1, <3>1 DEF TaskOK, Held
    <3>2. CASE \A p \in Pollers : poll[p].cur # t
      BY <2>e, <2>1, <3>2 DEF TaskOK, Free
    <3> QED
      BY <3>1, <3>2
  <2>4. ASSUME Exact(t), AtRest(t), e.status # "none"
        PROVE  e.user = IF e.status = "FAILURE" THEN 0 ELSE e.quota
    <3>1. Exact(t) /\ \A p \in Pollers : poll[p].cur # t
      BY <2>4 DEF AtRest, Has
    <3>2. Free(e, Exact(t)) /\ e.at = "done"
      BY <2>e, <2>1, <2>4, <3>1 DEF TaskOK, AtRest
    <3>3. e.user = e.est + (IF e.status = "FAILURE" THEN -e.est ELSE e.quota - e.est)
      BY <2>4, <3>1, <3>2 DEF Free, Base
    <3> QED
      BY <2>2, <3>3
  <2> QED
    BY <2>e, <2>3, <2>4
<1> QED
  BY <1>1, SettleInvCorrect, PTL

-----------------------------------------------------------------------------
\* The pollers find the key that paid

\* Fewer tasks in search of a row.
LEMMA MatchFewer ==
  ASSUME NEW S, NEW T, T \subseteq S, NEW g, NEW h, NEW l, Matching(S, g, l),
         \A u \in T : Entry(h[u]) = Entry(g[u])
  PROVE  Matching(T, h, l)
<1>1. PICK m \in [S -> DOMAIN l] : /\ \A t \in S : l[m[t]] = Entry(g[t])
                                   /\ \A t, u \in S : m[t] = m[u] => t = u
  BY DEF Matching
<1>m. PICK n : n = [u \in T |-> m[u]]
  OBVIOUS
<1>2. n \in [T -> DOMAIN l] /\ \A u \in T : n[u] = m[u]
  BY <1>1, <1>m
<1>3. /\ \A t \in T : l[n[t]] = Entry(h[t])
      /\ \A t, u \in T : n[t] = n[u] => t = u
  BY <1>1, <1>2
<1> QED
  BY <1>2, <1>3 DEF Matching

\* RecordConsumeLog: one task more and its row.
LEMMA MatchRecord ==
  ASSUME NEW S, NEW T, NEW t, t \notin S, T \subseteq S \cup {t}, NEW g, NEW h,
         NEW w \in Nat, NEW l, NEW k, DOMAIN l = 1..w, DOMAIN k = 1..(w + 1),
         \A i \in 1..w : k[i] = l[i], k[w + 1] = Entry(h[t]), Matching(S, g, l),
         \A u \in S : Entry(h[u]) = Entry(g[u])
  PROVE  Matching(T, h, k)
<1>1. PICK m \in [S -> DOMAIN l] : /\ \A u \in S : l[m[u]] = Entry(g[u])
                                   /\ \A u, v \in S : m[u] = m[v] => u = v
  BY DEF Matching
<1>m. PICK n : n = [u \in T |-> IF u = t THEN w + 1 ELSE m[u]]
  OBVIOUS
<1>3. \A u \in T : u # t => u \in S /\ n[u] = m[u] /\ m[u] \in 1..w
  BY <1>1, <1>m
<1>4. \A u \in T : u = t => n[u] = w + 1
  BY <1>m
<1>5. n \in [T -> DOMAIN k]
  <2>1. \A u \in T : n[u] \in DOMAIN k
    BY <1>3, <1>4
  <2> QED
    BY <1>m, <2>1
<1>6. \A u \in T : k[n[u]] = Entry(h[u])
  <2> TAKE u \in T
  <2>1. CASE u = t
    BY <1>4, <2>1
  <2>2. CASE u # t
    BY <1>1, <1>3, <2>2
  <2> QED
    BY <2>1, <2>2
<1>7. \A u, v \in T : n[u] = n[v] => u = v
  <2> TAKE u, v \in T
  <2>1. CASE u = t /\ v # t
    BY <1>3, <1>4, <2>1
  <2>2. CASE u # t /\ v = t
    BY <1>3, <1>4, <2>2
  <2>3. CASE u # t /\ v # t
    BY <1>1, <1>3, <2>3
  <2> QED
    BY <2>1, <2>2, <2>3
<1> QED
  BY <1>5, <1>6, <1>7 DEF Matching

\* rewriteTaskConsumeRow may have taken the row of another task of the same key and
\* amount: that one keeps the row of the task that was settled.
LEMMA MatchRewrite ==
  ASSUME NEW S, NEW t \in S, NEW T, T \subseteq S \ {t}, NEW g, NEW h, NEW l, NEW k,
         Matching(S, g, l), NEW i \in DOMAIN l, l[i] = Entry(g[t]), DOMAIN k = DOMAIN l,
         \A j \in DOMAIN l : j # i => k[j] = l[j],
         \A u \in T : Entry(h[u]) = Entry(g[u])
  PROVE  Matching(T, h, k)
<1>1. PICK m \in [S -> DOMAIN l] : /\ \A u \in S : l[m[u]] = Entry(g[u])
                                   /\ \A u, v \in S : m[u] = m[v] => u = v
  BY DEF Matching
<1>m. PICK n : n = [u \in T |-> IF m[u] = i THEN m[t] ELSE m[u]]
  OBVIOUS
<1>2. \A u \in T : /\ u \in S /\ u # t /\ m[u] # m[t]
                   /\ m[u] = i => n[u] = m[t]
                   /\ m[u] # i => n[u] = m[u]
  BY <1>1, <1>m
<1>3. n \in [T -> DOMAIN k]
  <2>1. \A u \in T : n[u] \in DOMAIN k
    BY <1>1, <1>2
  <2> QED
    BY <1>m, <2>1
<1>4. \A u \in T : k[n[u]] = Entry(h[u])
  <2> TAKE u \in T
  <2>1. CASE m[u] = i
    <3>1. n[u] = m[t] /\ m[t] # i /\ m[t] \in DOMAIN l
      BY <1>1, <1>2, <2>1
    <3>2. k[m[t]] = l[m[t]] /\ l[m[t]] = Entry(g[t]) /\ Entry(g[t]) = Entry(g[u])
      BY <1>1, <1>2, <2>1, <3>1
    <3> QED
      BY <3>1, <3>2
  <2>2. CASE m[u] # i
    BY <1>1, <1>2, <2>2
  <2> QED
    BY <2>1, <2>2
<1>5. \A u, v \in T : n[u] = n[v] => u = v
  BY <1>1, <1>2
<1> QED
  BY <1>3, <1>4, <1>5 DEF Matching

\* Nobody else has the task of a poller in hand.
LEMMA OneHolder ==
  ASSUME SettleInv, shared = {}, unsaved = {}, crossed = {}, NEW p \in Pollers, NEW t \in Tasks,
         poll[p].cur = t
  PROVE  /\ \A r \in Pollers \ {p} : poll[r].cur # t
         /\ Rewritten(t) <=> Done(poll[p])
         /\ Held(poll[p], task[t], Exact(t)) /\ task[t].status \in {"pending", "FAILURE"}
<1>1. TaskOK(t) /\ t \notin shared /\ t \notin crossed /\ t \notin unsaved
  BY DEF SettleInv
<1>2. \A r \in Pollers \ {p} : poll[r].cur # t
  BY <1>1 DEF TaskOK
<1>3. Held(poll[p], task[t], Exact(t))
  BY <1>1 DEF TaskOK
<1>4. task[t].status \in {"pending", "FAILURE"}
  BY <1>3 DEF Held
<1> QED
  BY <1>2, <1>3, <1>4 DEF Rewritten

\* A step of a poller seeks no new row, and leaves the others with their tasks.
LEMMA PollerSeeks ==
  ASSUME SettleInv, Orderly, Payers, NEW p \in Pollers, NEW t \in Tasks, poll[p].cur = t,
         \A r \in Pollers \ {p} : poll'[r] = poll[r],
         \A u \in Tasks \ {t} : task'[u] = task[u],
         task'[t].at = task[t].at, task'[t].kind = task[t].kind,
         task'[t].key = task[t].key, task'[t].est = task[t].est, task'[t].via = task[t].via,
         poll'[p].cur = t \/ poll'[p] = IdlePoller,
         Done(poll[p]) => task'[t].status \notin {"pending", "FAILURE"}
  PROVE  /\ Sought' \subseteq Sought /\ Alone'
         /\ Done(poll'[p]) /\ poll'[p].cur = t => t \notin Sought'
         /\ task[t].at = "done" /\ ~Done(poll[p]) => t \in Sought
         /\ \A u \in Tasks : Entry(task'[u]) = Entry(task[u])
         /\ \A u \in Tasks : task'[u].at = task[u].at /\ task'[u].kind = task[u].kind
                             /\ task'[u].key = task[u].key /\ task'[u].est = task[u].est
                             /\ task'[u].via = task[u].via
<1>k. PICK k : k = task'[t]
  OBVIOUS
<1>n. PICK n : n = poll'[p]
  OBVIOUS
<1>1. /\ task'[t] = k /\ \A u \in Tasks \ {t} : task'[u] = task[u]
      /\ poll'[p] = n /\ \A r \in Pollers \ {p} : poll'[r] = poll[r]
      /\ n.cur = t \/ n = IdlePoller
      /\ Done(poll[p]) => k.status \notin {"pending", "FAILURE"}
  BY <1>k, <1>n
<1>2. /\ \A r \in Pollers \ {p} : poll[r].cur # t
      /\ Rewritten(t) <=> Done(poll[p])
      /\ task[t].status \in {"pending", "FAILURE"}
  BY OneHolder DEF Orderly, Payers
<1>3. \A u \in Tasks : task'[u].at = task[u].at /\ task'[u].kind = task[u].kind
                       /\ task'[u].key = task[u].key /\ task'[u].est = task[u].est
                       /\ task'[u].via = task[u].via
  BY <1>1
<1>4. \A u \in Tasks \ {t} : Rewritten(u)' <=> Rewritten(u)
  <2> TAKE u \in Tasks \ {t}
  <2>1. n.cur # u
    BY <1>1, TaskIdleTyped
  <2>2. \A r \in Pollers : (poll'[r].cur = u /\ Done(poll'[r])) <=> (poll[r].cur = u /\ Done(poll[r]))
    BY <1>1, <2>1
  <2>3. Rewritten(u)' <=> \E r \in Pollers : poll'[r].cur = u /\ Done(poll'[r])
    BY DEF Rewritten, Done
  <2> QED
    BY <2>2, <2>3 DEF Rewritten
<1>5. Done(n) /\ n.cur = t => Rewritten(t)'
  BY <1>1 DEF Rewritten, Done
<1>6. \A u \in Sought' : u \in Tasks /\ task'[u].at = "done" /\ ~Rewritten(u)'
                         /\ task'[u].status \in {"pending", "FAILURE"}
  BY DEF Sought
<1>7. Sought' \subseteq Sought
  <2> SUFFICES ASSUME NEW u \in Sought'
               PROVE  u \in Sought
    OBVIOUS
  <2>1. CASE u = t
    <3>1. ~Done(poll[p])
      BY <1>1, <1>6, <2>1
    <3> QED
      BY <1>2, <1>3, <1>6, <2>1, <3>1 DEF Sought
  <2>2. CASE u # t
    BY <1>1, <1>4, <1>6, <2>2 DEF Sought
  <2> QED
    BY <2>1, <2>2
<1>8. Alone'
  <2>1. \A r \in Pollers : poll'[r].cur \in Tasks => poll'[r].cur = poll[r].cur
    BY <1>1, TaskIdleTyped
  <2>2. \A u, v \in Tasks : SameLoop(u, v)' = SameLoop(u, v)
    BY <1>3 DEF SameLoop, LoopOf
  <2> QED
    BY <2>1, <2>2 DEF Alone, Payers
<1>9. task[t].at = "done" /\ ~Done(poll[p]) => t \in Sought
  BY <1>2 DEF Sought
<1>10. \A u \in Tasks : Entry(task'[u]) = Entry(task[u])
  BY <1>3 DEF Entry
<1> QED
  BY <1>1, <1>3, <1>5, <1>6, <1>7, <1>8, <1>9, <1>10

\* A step of a poller that leaves the consume rows alone.
LEMMA PollerPayers ==
  ASSUME SettleInv, Orderly, Payers, NEW p \in Pollers, NEW t \in Tasks, poll[p].cur = t,
         NEW n, NEW k, poll' = [poll EXCEPT ![p] = n], task' = [task EXCEPT ![t] = k],
         k.at = task[t].at, k.kind = task[t].kind, k.key = task[t].key /\ k.via = task[t].via, k.est = task[t].est,
         n.cur = t \/ n = IdlePoller,
         Done(poll[p]) => k.status \notin {"pending", "FAILURE"},
         log' = log, shared' = shared, misdirected' = {},
         n.at \in {"key", "rewrite"} =>
           /\ k.at = "done" /\ log[n.row].key = k.key
           /\ n.ans = "success" => log[n.row] = Entry(k)
  PROVE  Payers'
<1>0. /\ task'[t] = k /\ \A u \in Tasks \ {t} : task'[u] = task[u]
      /\ poll'[p] = n /\ \A r \in Pollers \ {p} : poll'[r] = poll[r]
  BY DEF SettleInv, TaskTypeOK
<1>1. /\ Sought' \subseteq Sought /\ Alone'
      /\ \A u \in Tasks : Entry(task'[u]) = Entry(task[u])
      /\ \A u \in Tasks : task'[u].at = task[u].at /\ task'[u].kind = task[u].kind
                          /\ task'[u].key = task[u].key /\ task'[u].est = task[u].est
                          /\ task'[u].via = task[u].via
  BY <1>0, PollerSeeks
<1>2. Matching(Sought', task', log')
  <2>1. Matching(Sought, task, log) /\ \A u \in Sought' : Entry(task'[u]) = Entry(task[u])
    <3>1. \A u \in Sought' : u \in Tasks
      BY DEF Sought
    <3> QED
      BY <1>1, <3>1 DEF Payers
  <2>2. Sought' \subseteq Sought
    BY <1>1
  <2>3. ASSUME NEW S, NEW T, NEW g, NEW h, S = Sought, T = Sought', g = task, h = task'
        PROVE  Matching(T, h, log)
    <3>1. T \subseteq S /\ Matching(S, g, log) /\ \A u \in T : Entry(h[u]) = Entry(g[u])
      BY <2>1, <2>2, <2>3
    <3> QED
      BY <3>1, MatchFewer
  <2> QED
    BY <2>3
<1>3. ASSUME NEW r \in Pollers
      PROVE  Found(poll[r])'
  <2>1. CASE r = p
    <3>1. n.at \in {"key", "rewrite"} => n.cur = t
      BY TaskIdleTyped
    <3>2. task'[t] = k
      BY <1>0
    <3> QED
      BY <1>0, <2>1, <3>1, <3>2 DEF Found, Entry
  <2>2. CASE r # p
    <3>1. poll'[r] = poll[r] /\ Found(poll[r])
      BY <1>0, <2>2 DEF Payers
    <3>2. poll[r].at \in {"key", "rewrite"} => poll[r].cur \in Tasks
      BY DEF SettleInv, PollOK
    <3> QED
      BY <1>1, <3>1, <3>2 DEF Found, Entry
  <2> QED
    BY <2>1, <2>2
<1> QED
  BY <1>1, <1>2, <1>3 DEF Payers, Matching

\* A poll that ends before its consume row was rewritten.
LEMMA IdlePayers ==
  ASSUME SettleInv, Orderly, Payers, NEW p \in Pollers, poll[p].at # "idle",
         poll' = [poll EXCEPT ![p] = IdlePoller], ~Done(poll[p]),
         UNCHANGED <<task, log, shared, misdirected>>
  PROVE  Payers'
<1>t. PICK t : t = poll[p].cur
  OBVIOUS
<1>1. t \in Tasks
  BY <1>t DEF SettleInv, PollOK
<1>2. task' = [task EXCEPT ![t] = task[t]] /\ misdirected' = {}
  BY <1>1 DEF SettleInv, TaskTypeOK, Payers
<1> QED
  BY <1>t, <1>1, <1>2, TaskIdleTyped, PollerPayers

\* The task's row fails; its consume row is still to be found.
LEMMA FailUnaskedPayers ==
  ASSUME SettleInv, Orderly, Payers, NEW p \in Pollers, FailUnasked(p)
  PROVE  Payers'
<1>q. PICK q : q = poll[p]
  OBVIOUS
<1>t. PICK t : t = q.cur
  OBVIOUS
<1>e. PICK e : e = task[t]
  OBVIOUS
<1>k. PICK k : k = [e EXCEPT !.status = "FAILURE"]
  OBVIOUS
<1>1. q.at = "ask" /\ TaskTypeOK
  BY <1>q DEF FailUnasked, At, SettleInv
<1>2. t \in Tasks /\ e \in TaskRows
  BY <1>q, <1>t, <1>e, <1>1, AtWork
<1>3. k.at = e.at /\ k.kind = e.kind /\ k.key = e.key /\ k.via = e.via /\ k.est = e.est
  BY <1>2, <1>k DEF TaskRows
<1>4. /\ poll' = [poll EXCEPT ![p] = IdlePoller] /\ task' = [task EXCEPT ![t] = k]
      /\ UNCHANGED <<shared, misdirected, log>>
  BY <1>q, <1>t, <1>e, <1>k DEF FailUnasked
<1>5. ~Done(q) /\ misdirected' = {} /\ shared' = shared /\ log' = log
  BY <1>1, <1>4 DEF Done, Payers
<1> QED
  BY <1>q, <1>t, <1>e, <1>2, <1>3, <1>4, <1>5, TaskIdleTyped, PollerPayers

\* An answer changes no row of the log.
LEMMA FetchPayers ==
  ASSUME SettleInv, Orderly, Payers, NEW p \in Pollers, Fetch(p)
  PROVE  Payers'
<1>q. PICK q : q = poll[p]
  OBVIOUS
<1>t. PICK t : t = q.cur
  OBVIOUS
<1>e. PICK e : e = task[t]
  OBVIOUS
<1>1. q.at = "ask" /\ TaskTypeOK
  BY <1>q DEF Fetch, At, SettleInv
<1>2. t \in Tasks /\ e \in TaskRows /\ q \in Polls
  BY <1>q, <1>t, <1>e, <1>1, AtWork
<1>a. PICK a \in Says(t) : /\ task' = [task EXCEPT ![t].up = a]
                           /\ poll' = [poll EXCEPT ![p].at = FirstStage(t, a), ![p].ans = a]
  BY <1>q, <1>t DEF Fetch
<1>l. PICK l : l = FirstStage(t, a)
  OBVIOUS
<1>k. PICK k : k = [e EXCEPT !.up = a]
  OBVIOUS
<1>n. PICK n : n = [q EXCEPT !.at = l, !.ans = a]
  OBVIOUS
<1>3. l \in {"user", "save"}
  BY <1>l DEF FirstStage
<1>4. k.at = e.at /\ k.kind = e.kind /\ k.key = e.key /\ k.via = e.via /\ k.est = e.est
  BY <1>2, <1>k DEF TaskRows
<1>5. n.at = l /\ n.cur = t
  BY <1>2, <1>n, <1>t DEF Polls
<1>6. /\ poll' = [poll EXCEPT ![p] = n] /\ task' = [task EXCEPT ![t] = k]
  BY <1>q, <1>t, <1>e, <1>a, <1>k, <1>l, <1>n, <1>1 DEF TaskTypeOK
<1>7. ~Done(q) /\ shared' = shared /\ misdirected' = {} /\ log' = log
  BY <1>1 DEF Fetch, ghosts, Done, Payers
<1> QED
  BY <1>q, <1>t, <1>e, <1>2, <1>3, <1>4, <1>5, <1>6, <1>7, PollerPayers

\* resolveTaskChargeLedger: all rows taken name one key, and one of them is the payer's.
LEMMA UserLegPayers ==
  ASSUME SettleInv, Orderly, Payers, NEW p \in Pollers, UserLeg(p), unlogged' = {}, missed' = {}
  PROVE  Payers'
<1>q. PICK q : q = poll[p]
  OBVIOUS
<1>t. PICK t : t = q.cur
  OBVIOUS
<1>e. PICK e : e = task[t]
  OBVIOUS
<1>1. q.at = "user" /\ TaskTypeOK
  BY <1>q DEF UserLeg, At, SettleInv
<1>2. /\ t \in Tasks /\ e \in TaskRows /\ q \in Polls /\ e.est \in Nat
  BY <1>q, <1>t, <1>e, <1>1, AtWork
<1>u. PICK u : u = e.user + Delta(p)
  OBVIOUS
<1>f. PICK f : f = IF q.ans = "failure" THEN e.refunds + 1 ELSE e.refunds
  OBVIOUS
<1>w. PICK since \in 0 .. Len(log) : \E r \in {0, Resolve(e.chan, e.est, since)} :
        /\ poll' = [poll EXCEPT ![p] = IF r = 0 THEN Settled(q, TRUE)
                                       ELSE [q EXCEPT !.at = "key", !.row = r]]
        /\ missed' = IF r # 0 /\ Misses(e, since) THEN missed \cup {t} ELSE missed
  BY <1>q, <1>t, <1>e DEF UserLeg
<1>s. PICK r \in {0, Resolve(e.chan, e.est, since)} :
        /\ poll' = [poll EXCEPT ![p] = IF r = 0 THEN Settled(q, TRUE)
                                       ELSE [q EXCEPT !.at = "key", !.row = r]]
        /\ missed' = IF r # 0 /\ Misses(e, since) THEN missed \cup {t} ELSE missed
  BY <1>w
<1>k. PICK k : k = [e EXCEPT !.user = u, !.refunds = f]
  OBVIOUS
<1>n. PICK n : n = IF r = 0 THEN Settled(q, TRUE) ELSE [q EXCEPT !.at = "key", !.row = r]
  OBVIOUS
<1>3. k.at = e.at /\ k.kind = e.kind /\ k.key = e.key /\ k.via = e.via /\ k.est = e.est
  BY <1>2, <1>k DEF TaskRows
<1>4. /\ poll' = [poll EXCEPT ![p] = n] /\ task' = [task EXCEPT ![t] = k]
  BY <1>q, <1>t, <1>e, <1>f, <1>s, <1>k, <1>n, <1>u, <1>1, <1>2 DEF UserLeg, TaskTypeOK
<1>5. /\ shared' = shared /\ misdirected' = {} /\ log' = log /\ e.at = "done" /\ ~Done(q)
  <2>1. e.at # "done" => t \in unlogged'
    BY <1>q, <1>t, <1>e DEF UserLeg
  <2> QED
    BY <1>1, <2>1 DEF UserLeg, Done, Payers
<1>6. r # 0 => log[r] = Entry(e)
  <2> SUFFICES ASSUME r # 0
               PROVE  log[r] = Entry(e)
    OBVIOUS
  <2>1. t \in Sought
    BY <1>q, <1>t, <1>e, <1>2, <1>5, OneHolder DEF Sought, Orderly, Payers
  <2>2. PICK m \in [Sought -> DOMAIN log] : \A v \in Sought : log[m[v]] = Entry(task[v])
    BY DEF Payers, Matching
  <2>3. m[t] \in DOMAIN log /\ log[m[t]].key = e.key /\ log[m[t]].quota = e.est
        /\ log[m[t]].chan = e.via
    <3>1. m[t] \in DOMAIN log /\ log[m[t]] = Entry(e)
      BY <1>e, <2>1, <2>2
    <3> QED
      BY <3>1 DEF Entry
  <2>4. PICK w \in Nat : DOMAIN log = 1..w
    BY <1>1 DEF TaskTypeOK
  <2>5. since \in Nat
    BY <1>1 DEF TaskTypeOK
  <2>6. /\ r \in Candidates(e.chan, e.est, since)
        /\ \A i, j \in Candidates(e.chan, e.est, since) : log[i].key = log[j].key
    BY <1>2, <1>s, <2>4, <2>5, ResolveFinds
  <2>7. ~Misses(e, since)
    BY <1>s
  <2>8. e.via = e.chan /\ m[t] \in Rows(e.chan, e.est)
    BY <2>3, <2>7 DEF Misses, Rows
  <2>9. PICK i \in Candidates(e.chan, e.est, since) : log[i].key = e.key
    BY <2>3, <2>7, <2>8 DEF Misses
  <2>10. r \in DOMAIN log /\ log[r].quota = e.est /\ log[r].chan = e.chan /\ log[r].key = e.key
    BY <2>6, <2>9 DEF Candidates, Rows
  <2>11. log[r] \in [key : Keys, quota : Nat, chan : Channels]
    BY <1>1, <2>10, LogTyped
  <2> QED
    BY <2>8, <2>10, <2>11 DEF Entry
<1>7. r = 0 => n = IdlePoller \/ (n.cur = t /\ n.at = "save")
  <2>1. r = 0 => n = IdlePoller \/ n = [q EXCEPT !.at = "save", !.moved = TRUE]
    BY <1>n DEF Settled
  <2>2. n = [q EXCEPT !.at = "save", !.moved = TRUE] => n.cur = t /\ n.at = "save"
    BY <1>2, <1>t DEF Polls
  <2> QED
    BY <2>1, <2>2
<1>8. r # 0 => n.at = "key" /\ n.cur = t /\ n.row = r
  BY <1>2, <1>n, <1>t DEF Polls
<1>9. /\ n.cur = t \/ n = IdlePoller
      /\ n.at \in {"key", "rewrite"} =>
           /\ k.at = "done" /\ log[n.row].key = k.key
           /\ n.ans = "success" => log[n.row] = Entry(k)
  <2>1. Entry(e) = Entry(k) /\ Entry(e).key = e.key
    BY <1>3 DEF Entry
  <2> QED
    BY <1>3, <1>5, <1>6, <1>7, <1>8, <2>1, TaskIdleTyped
<1> QED
  BY <1>q, <1>t, <1>e, <1>2, <1>3, <1>4, <1>5, <1>9, PollerPayers

\* Without the user there is no search.
LEMMA UserLegFailsPayers ==
  ASSUME SettleInv, Orderly, Payers, NEW p \in Pollers, UserLegFails(p)
  PROVE  Payers'
<1>q. PICK q : q = poll[p]
  OBVIOUS
<1>t. PICK t : t = q.cur
  OBVIOUS
<1>n. PICK n : n = Settled(q, FALSE)
  OBVIOUS
<1>1. q.at = "user" /\ TaskTypeOK
  BY <1>q DEF UserLegFails, At, SettleInv
<1>2. t \in Tasks /\ q \in Polls
  BY <1>q, <1>t, <1>1, AtWork
<1>3. /\ poll' = [poll EXCEPT ![p] = n] /\ task' = [task EXCEPT ![t] = task[t]]
      /\ shared' = shared /\ misdirected' = {} /\ log' = log /\ ~Done(q)
  BY <1>q, <1>n, <1>1, <1>2 DEF UserLegFails, TaskTypeOK, Payers, Done
<1>4. n = IdlePoller \/ n = [q EXCEPT !.at = "save", !.moved = FALSE]
  BY <1>n DEF Settled
<1>5. n = [q EXCEPT !.at = "save", !.moved = FALSE] => n.cur = t /\ n.at = "save"
  BY <1>2, <1>t DEF Polls
<1> QED
  BY <1>q, <1>t, <1>2, <1>3, <1>4, <1>5, TaskIdleTyped, PollerPayers

\* creditTaskLedgers: the key of the row that was found is the task's.
LEMMA KeyLegPayers ==
  ASSUME SettleInv, Orderly, Payers, NEW p \in Pollers, KeyLeg(p) \/ KeyLegFails(p)
  PROVE  Payers'
<1>q. PICK q : q = poll[p]
  OBVIOUS
<1>t. PICK t : t = q.cur
  OBVIOUS
<1>e. PICK e : e = task[t]
  OBVIOUS
<1>1. q.at = "key" /\ TaskTypeOK /\ Found(q)
  BY <1>q DEF KeyLeg, KeyLegFails, At, SettleInv, Payers
<1>2. t \in Tasks /\ q \in Polls /\ e \in TaskRows /\ Stage(q, e)
  BY <1>q, <1>t, <1>e, <1>1, AtWork
<1>3. q.ans \in {"failure", "success"}
  BY <1>1, <1>2, Moving
<1>4. /\ e.at = "done" /\ log[q.row].key = e.key
      /\ q.ans = "success" => log[q.row] = Entry(e)
  BY <1>t, <1>e, <1>1 DEF Found
<1>5. shared' = shared /\ misdirected' = {} /\ log' = log /\ ~Done(q)
  BY <1>q, <1>t, <1>e, <1>1, <1>4 DEF KeyLeg, KeyLegFails, Payers, Done
<1>6. ASSUME poll' = [poll EXCEPT ![p] = KeyDone(q)], task' = task
      PROVE  Payers'
  <2>n. PICK n : n = KeyDone(q)
    OBVIOUS
  <2>1. /\ n \in Polls /\ (n = IdlePoller \/ n.row = q.row)
        /\ IF q.ans = "failure" /\ e.kind # "suno" THEN n = IdlePoller
           ELSE /\ n.cur = q.cur /\ n.ans = q.ans
                /\ (n.at = "save" /\ n.moved) \/ (n.at = "rewrite" /\ q.ans = "success")
    BY <1>2, <1>e, <1>t, <1>3, <2>n, KeyDoneIs
  <2>2. /\ poll' = [poll EXCEPT ![p] = n] /\ task' = [task EXCEPT ![t] = e]
    BY <1>e, <1>1, <1>2, <1>6, <2>n DEF TaskTypeOK
  <2>3. /\ n.cur = t \/ n = IdlePoller
        /\ n.at \in {"key", "rewrite"} =>
             /\ e.at = "done" /\ log[n.row].key = e.key
             /\ n.ans = "success" => log[n.row] = Entry(e)
    BY <1>t, <1>4, <2>1, TaskIdleTyped
  <2> QED
    BY <1>q, <1>t, <1>e, <1>2, <1>5, <2>2, <2>3, PollerPayers
<1>7. ASSUME poll' = [poll EXCEPT ![p] = Settled(q, FALSE)],
             task' = [task EXCEPT ![t].user = @ - Delta(p)]
      PROVE  Payers'
  <2>n. PICK n : n = Settled(q, FALSE)
    OBVIOUS
  <2>k. PICK k : k = [e EXCEPT !.user = e.user - Delta(p)]
    OBVIOUS
  <2>1. k.at = e.at /\ k.kind = e.kind /\ k.key = e.key /\ k.via = e.via /\ k.est = e.est
    BY <1>2, <2>k DEF TaskRows
  <2>2. n = IdlePoller \/ n = [q EXCEPT !.at = "save", !.moved = FALSE]
    BY <2>n DEF Settled
  <2>3. n = [q EXCEPT !.at = "save", !.moved = FALSE] => n.cur = t /\ n.at = "save"
    BY <1>2, <1>t DEF Polls
  <2>4. /\ poll' = [poll EXCEPT ![p] = n] /\ task' = [task EXCEPT ![t] = k]
    BY <1>e, <1>1, <1>2, <1>7, <2>n, <2>k DEF TaskTypeOK
  <2> QED
    BY <1>q, <1>t, <1>e, <1>2, <1>5, <2>1, <2>2, <2>3, <2>4, TaskIdleTyped, PollerPayers
<1> QED
  BY <1>q, <1>t, <1>6, <1>7 DEF KeyLeg, KeyLegFails

\* rewriteTaskConsumeRow: a poller of the other loop never rewrites.
LEMMA RewritePayers ==
  ASSUME SettleInv, Orderly, Payers, NEW p \in Pollers, Rewrite(p)
  PROVE  Payers'
<1>q. PICK q : q = poll[p]
  OBVIOUS
<1>t. PICK t : t = q.cur
  OBVIOUS
<1>e. PICK e : e = task[t]
  OBVIOUS
<1>i. PICK i : i = q.row
  OBVIOUS
<1>1. q.at = "rewrite" /\ TaskTypeOK /\ Found(q)
  BY <1>q DEF Rewrite, At, SettleInv, Payers
<1>2. t \in Tasks /\ q \in Polls /\ e \in TaskRows /\ Stage(q, e) /\ i \in DOMAIN log
  BY <1>q, <1>t, <1>e, <1>i, <1>1, AtWork
<1>3. q.ans = "success" /\ e.kind = "video"
  BY <1>1, <1>2 DEF Stage
<1>n. PICK n : n = [q EXCEPT !.at = "save", !.moved = TRUE]
  OBVIOUS
<1>4. n.at = "save" /\ n.cur = t /\ Done(n)
  BY <1>2, <1>3, <1>n, <1>t DEF Polls, Done
<1>5. Settled(q, TRUE) = n
  BY <1>3, <1>n DEF Settled
<1>6. poll' = [poll EXCEPT ![p] = n] /\ UNCHANGED <<task, shared, misdirected>>
  BY <1>q, <1>5 DEF Rewrite, ghosts
<1>7. poll'[p] = n /\ \A r \in Pollers \ {p} : poll'[r] = poll[r]
  BY <1>1, <1>6 DEF TaskTypeOK
<1>8. /\ Sought' \subseteq Sought \ {t} /\ Alone' /\ t \in Sought
  <2>1. ~Done(q) /\ e.at = "done"
    BY <1>t, <1>e, <1>1 DEF Done, Found
  <2>2. /\ Sought' \subseteq Sought /\ Alone'
        /\ Done(poll'[p]) /\ poll'[p].cur = t => t \notin Sought'
        /\ task[t].at = "done" /\ ~Done(poll[p]) => t \in Sought
    BY <1>q, <1>t, <1>2, <1>4, <1>6, <1>7, <2>1, PollerSeeks
  <2> QED
    BY <1>q, <1>e, <1>4, <1>7, <2>1, <2>2
<1>9. /\ DOMAIN log' = DOMAIN log /\ log'[i].key = log[i].key
      /\ \A j \in DOMAIN log : j # i => log'[j] = log[j]
  <2>1. log' = [log EXCEPT ![i].quota = e.cost]
    BY <1>q, <1>t, <1>e, <1>i DEF Rewrite
  <2>2. log[i] \in [key : Keys, quota : Nat, chan : Channels] /\ log \in Seq([key : Keys, quota : Nat, chan : Channels])
    BY <1>1, <1>2, LogTyped DEF TaskTypeOK
  <2>3. log'[i] = [log[i] EXCEPT !.quota = e.cost]
    BY <1>2, <2>1, <2>2
  <2>4. log'[i].key = log[i].key
    BY <2>2, <2>3
  <2> QED
    BY <1>2, <2>1, <2>2, <2>4
<1>10. log[i] = Entry(e)
  BY <1>t, <1>e, <1>i, <1>1, <1>3 DEF Found
<1>11. Matching(Sought', task', log')
  <2>1. ASSUME NEW S, NEW T, NEW g, NEW l, S = Sought, T = Sought', g = task, l = log'
        PROVE  Matching(T, g, l)
    <3>1. /\ t \in S /\ T \subseteq S \ {t} /\ Matching(S, g, log) /\ log[i] = Entry(g[t])
          /\ DOMAIN l = DOMAIN log /\ \A j \in DOMAIN log : j # i => l[j] = log[j]
      BY <1>e, <1>8, <1>9, <1>10, <2>1 DEF Payers
    <3> QED
      BY <1>2, <3>1, MatchRewrite
  <2> QED
    BY <1>6, <2>1
<1>12. ASSUME NEW r \in Pollers
       PROVE  Found(poll[r])'
  <2>1. CASE r = p
    BY <1>4, <1>7, <2>1 DEF Found
  <2>2. CASE r # p
    <3>f. PICK f : f = poll[r]
      OBVIOUS
    <3>1. poll'[r] = f /\ Found(f) /\ PollOK(f)
      BY <1>7, <2>2, <3>f DEF Payers, SettleInv
    <3> SUFFICES ASSUME f.at \in {"key", "rewrite"}
                 PROVE  /\ task[f.cur].at = "done"
                        /\ log'[f.row].key = task[f.cur].key
                        /\ f.ans = "success" => log'[f.row] = Entry(task[f.cur])
      BY <1>6, <3>1 DEF Found, Entry
    <3>2. /\ f.cur \in Tasks /\ Stage(f, task[f.cur]) /\ f.row \in DOMAIN log
      BY <3>1 DEF PollOK
    <3>3. ~SameLoop(f.cur, t)
      BY <1>q, <1>t, <1>2, <2>2, <3>f, <3>2 DEF Payers, Alone
    <3>4. f.ans # "success"
      BY <1>e, <1>3, <3>2, <3>3 DEF Stage, SameLoop, LoopOf
    <3>5. log'[f.row].key = log[f.row].key
      BY <1>9, <3>2
    <3> QED
      BY <3>1, <3>4, <3>5 DEF Found
  <2> QED
    BY <2>1, <2>2
<1> QED
  BY <1>6, <1>8, <1>11, <1>12 DEF Payers, Matching

\* A row that could not be rewritten stays where it was.
LEMMA RewriteFailsPayers ==
  ASSUME SettleInv, Orderly, Payers, NEW p \in Pollers, RewriteFails(p)
  PROVE  Payers'
<1>q. PICK q : q = poll[p]
  OBVIOUS
<1>t. PICK t : t = q.cur
  OBVIOUS
<1>n. PICK n : n = Settled(q, TRUE)
  OBVIOUS
<1>1. q.at = "rewrite" /\ TaskTypeOK
  BY <1>q DEF RewriteFails, At, SettleInv
<1>2. t \in Tasks /\ q \in Polls
  BY <1>q, <1>t, <1>1, AtWork
<1>3. /\ poll' = [poll EXCEPT ![p] = n] /\ task' = [task EXCEPT ![t] = task[t]]
      /\ shared' = shared /\ misdirected' = {} /\ log' = log /\ ~Done(q)
  BY <1>q, <1>n, <1>1, <1>2 DEF RewriteFails, TaskTypeOK, Payers, Done
<1>4. n = IdlePoller \/ n = [q EXCEPT !.at = "save", !.moved = TRUE]
  BY <1>n DEF Settled
<1>5. n = [q EXCEPT !.at = "save", !.moved = TRUE] => n.cur = t /\ n.at = "save"
  BY <1>2, <1>t DEF Polls
<1> QED
  BY <1>q, <1>t, <1>2, <1>3, <1>4, <1>5, TaskIdleTyped, PollerPayers

\* A task saved as SUCCESS seeks its row no more.
LEMMA SavePayers ==
  ASSUME SettleInv, Orderly, Payers, NEW p \in Pollers, Save(p)
  PROVE  Payers'
<1>q. PICK q : q = poll[p]
  OBVIOUS
<1>t. PICK t : t = q.cur
  OBVIOUS
<1>e. PICK e : e = task[t]
  OBVIOUS
<1>s. PICK s : s = Status(q.ans)
  OBVIOUS
<1>c. PICK c : c = IF q.ans = "success" /\ q.moved THEN e.cost ELSE e.est
  OBVIOUS
<1>k. PICK k : k = [e EXCEPT !.status = s, !.quota = c]
  OBVIOUS
<1>n. PICK n : n = IF q.ans = "failure" /\ e.kind # "suno" THEN [q EXCEPT !.at = "user"]
                   ELSE IdlePoller
  OBVIOUS
<1>1. q.at = "save" /\ TaskTypeOK
  BY <1>q DEF Save, At, SettleInv
<1>2. t \in Tasks /\ e \in TaskRows /\ q \in Polls
  BY <1>q, <1>t, <1>e, <1>1, AtWork
<1>3. k.at = e.at /\ k.kind = e.kind /\ k.key = e.key /\ k.via = e.via /\ k.est = e.est /\ k.status = s
  BY <1>2, <1>k DEF TaskRows
<1>4. Done(q) => s = "SUCCESS"
  BY <1>s DEF Done, Status
<1>5. n = IdlePoller \/ (n.at = "user" /\ n.cur = t)
  BY <1>2, <1>n, <1>t DEF Polls
<1>6. poll' = [poll EXCEPT ![p] = n] /\ task' = [task EXCEPT ![t] = k]
  <2>1. RefundsFirst(t) = (e.kind = "suno")
    BY <1>e DEF RefundsFirst
  <2> QED
    BY <1>q, <1>t, <1>e, <1>s, <1>c, <1>k, <1>n, <1>1, <1>2, <2>1 DEF Save, TaskTypeOK
<1>7. shared' = shared /\ misdirected' = {} /\ log' = log
  BY DEF Save, ghosts, Payers
<1> QED
  BY <1>q, <1>t, <1>e, <1>2, <1>3, <1>4, <1>5, <1>6, <1>7, TaskIdleTyped, PollerPayers

\* A poll given up after its row was rewritten leaves the task unsaved.
LEMMA GivenUpPayers ==
  ASSUME SettleInv, Orderly, Payers, NEW p \in Pollers,
         FetchSkips(p) \/ SaveFails(p) \/ Kill(p), unsaved' = {}
  PROVE  Payers'
<1>q. PICK q : q = poll[p]
  OBVIOUS
<1>1. /\ poll' = [poll EXCEPT ![p] = IdlePoller] /\ poll[p].at # "idle"
      /\ UNCHANGED <<task, log, shared, misdirected>>
  BY DEF FetchSkips, SaveFails, Kill, At, ghosts
<1>2. Done(q) => q.cur \in unsaved'
  BY <1>q DEF FetchSkips, SaveFails, Kill, Dirty, Done, At
<1> QED
  BY <1>q, <1>1, <1>2, IdlePayers

\* A poll that no other overlaps.
LEMMA PollPayers ==
  ASSUME SettleInv, Orderly, Payers, NEW p \in Pollers, NEW t \in Tasks, Poll(p, t), ~overlap'
  PROVE  Payers'
<1>n. PICK n : n = [IdlePoller EXCEPT !.at = "ask", !.cur = t]
  OBVIOUS
<1>1. TaskTypeOK /\ PollOK(poll[p]) /\ poll[p].at = "idle"
  BY DEF SettleInv, Poll, At
<1>2. poll[p] = IdlePoller
  BY <1>1 DEF PollOK
<1>3. n.at = "ask" /\ n.cur = t /\ poll' = [poll EXCEPT ![p] = n]
  BY <1>n DEF IdlePoller, Poll
<1>4. /\ \A u \in Tasks : SameLoop(t, u) => Has(u) = {}
      /\ UNCHANGED <<task, log, misdirected>>
  BY DEF Poll
<1>5. Has(t) = {}
  BY <1>4 DEF SameLoop, LoopOf
<1>6. shared' = {}
  BY <1>5 DEF Poll, Payers
<1>7. poll'[p] = n /\ \A r \in Pollers \ {p} : poll'[r] = poll[r]
  BY <1>1, <1>3 DEF TaskTypeOK
<1>8. Alone'
  <2>1. \A u, v \in Tasks : SameLoop(u, v)' = SameLoop(u, v) /\ SameLoop(u, v) = SameLoop(v, u)
    BY <1>4 DEF SameLoop, LoopOf
  <2>2. \A r \in Pollers \ {p} : poll[r].cur \in Tasks => ~SameLoop(t, poll[r].cur)
    BY <1>4 DEF Has
  <2>3. ASSUME NEW a \in Pollers, NEW b \in Pollers, a # b, poll'[a].cur \in Tasks,
               poll'[b].cur \in Tasks
        PROVE  ~SameLoop(poll'[a].cur, poll'[b].cur)
    <3>1. CASE a = p
      BY <1>3, <1>7, <2>1, <2>2, <2>3, <3>1
    <3>2. CASE b = p
      BY <1>3, <1>7, <2>1, <2>2, <2>3, <3>2
    <3>3. CASE a # p /\ b # p
      BY <1>7, <2>3, <3>3 DEF Payers, Alone
    <3> QED
      BY <3>1, <3>2, <3>3
  <2> QED
    BY <2>1, <2>3 DEF Alone
<1>9. Sought' = Sought
  <2>1. \A u \in Tasks : Rewritten(u)' <=> Rewritten(u)
    <3> TAKE u \in Tasks
    <3>1. ~Done(n) /\ ~Done(poll[p])
      BY <1>1, <1>3 DEF Done
    <3>2. \A r \in Pollers : Done(poll'[r]) /\ poll'[r].cur = u <=> Done(poll[r]) /\ poll[r].cur = u
      BY <1>7, <3>1
    <3>3. Rewritten(u)' <=> \E r \in Pollers : poll'[r].cur = u /\ Done(poll'[r])
      BY DEF Rewritten, Done
    <3> QED
      BY <3>2, <3>3 DEF Rewritten
  <2> QED
    BY <1>4, <2>1 DEF Sought
<1>10. Matching(Sought', task', log')
  BY <1>4, <1>9 DEF Payers
<1>11. ASSUME NEW r \in Pollers
       PROVE  Found(poll[r])'
  <2>1. CASE r = p
    BY <1>3, <1>7, <2>1 DEF Found
  <2>2. CASE r # p
    BY <1>4, <1>7, <2>2 DEF Found, Payers
  <2> QED
    BY <2>1, <2>2
<1> QED
  BY <1>4, <1>6, <1>8, <1>10, <1>11 DEF Payers, Matching

\* A step of a submission: the consume row comes with the task that seeks it.
LEMMA SubmitPayers ==
  ASSUME SettleInv, Payers, NEW t \in Tasks, task[t].at # "done",
         \A u \in Tasks \ {t} : task'[u] = task[u],
         UNCHANGED <<poll, shared, misdirected>>,
         task'[t].kind = task[t].kind \/ task[t].at = "none",
         \/ task'[t].at # "done" /\ log' = log
         \/ log' = Append(log, Entry(task'[t])) /\ Entry(task'[t]) \in [key : Keys, quota : Nat, chan : Channels]
  PROVE  Payers'
<1>1. TaskTypeOK /\ \A r \in Pollers : PollOK(poll[r])
  BY DEF SettleInv
<1>2. \A r \in Pollers : poll[r].cur = t => task[t].at # "none"
  <2> TAKE r \in Pollers
  <2>1. poll[r].cur = t => poll[r].at # "idle"
    BY <1>1, TaskIdleTyped DEF PollOK
  <2>2. poll[r].cur = t => task[t].status # "none"
    BY <1>1, <2>1 DEF PollOK, Stage
  <2> QED
    BY <2>2 DEF SettleInv, TaskOK, RowOK
<1>3. Alone'
  <2>1. \A r \in Pollers : poll[r].cur \in Tasks => task'[poll[r].cur].kind = task[poll[r].cur].kind
    BY <1>2
  <2>2. ASSUME NEW a \in Pollers, NEW b \in Pollers, poll[a].cur \in Tasks, poll[b].cur \in Tasks
        PROVE  SameLoop(poll[a].cur, poll[b].cur)' = SameLoop(poll[a].cur, poll[b].cur)
    BY <2>1, <2>2 DEF SameLoop, LoopOf
  <2> QED
    BY <2>2 DEF Alone, Payers
<1>4. Sought' \subseteq Sought \cup {t} /\ t \notin Sought
      /\ (task'[t].at # "done" => t \notin Sought') /\ Sought \subseteq Tasks
  <2>1. \A u \in Tasks : Rewritten(u)' <=> Rewritten(u)
    BY DEF Rewritten, Done
  <2> QED
    BY <2>1 DEF Sought
<1>5. \A u \in Sought : Entry(task'[u]) = Entry(task[u])
  BY <1>4
<1>6. Matching(Sought', task', log')
  <2>1. CASE task'[t].at # "done" /\ log' = log
    <3>1. ASSUME NEW S, NEW T, NEW g, NEW h, S = Sought, T = Sought', g = task, h = task'
          PROVE  Matching(T, h, log)
      <4>1. T \subseteq S /\ Matching(S, g, log) /\ \A u \in T : Entry(h[u]) = Entry(g[u])
        BY <1>4, <1>5, <2>1, <3>1 DEF Payers
      <4> QED
        BY <4>1, MatchFewer
    <3> QED
      BY <2>1, <3>1
  <2>2. CASE log' = Append(log, Entry(task'[t])) /\ Entry(task'[t]) \in [key : Keys, quota : Nat, chan : Channels]
    <3>0. log \in Seq([key : Keys, quota : Nat, chan : Channels])
      BY <1>1 DEF TaskTypeOK
    <3>1. PICK w \in Nat : DOMAIN log = 1..w
      BY <3>0
    <3>2. /\ DOMAIN log' = 1..(w + 1) /\ log'[w + 1] = Entry(task'[t])
          /\ \A i \in 1..w : log'[i] = log[i]
      <4>1. log \in Seq([key : Keys, quota : Nat, chan : Channels]) /\ Len(log) = w
        BY <3>0, <3>1
      <4>r. PICK r : r = Entry(task'[t])
        OBVIOUS
      <4>2. log' = Append(log, r) /\ r \in [key : Keys, quota : Nat, chan : Channels]
        BY <2>2, <4>r
      <4> QED
        BY <3>1, <4>1, <4>2, <4>r
    <3>3. ASSUME NEW S, NEW T, NEW g, NEW h, NEW l, NEW k, S = Sought, T = Sought',
                 g = task, h = task', l = log, k = log'
          PROVE  Matching(T, h, k)
      <4>1. /\ t \notin S /\ T \subseteq S \cup {t} /\ DOMAIN l = 1..w /\ DOMAIN k = 1..(w + 1)
            /\ \A i \in 1..w : k[i] = l[i]
            /\ k[w + 1] = Entry(h[t]) /\ Matching(S, g, l)
            /\ \A u \in S : Entry(h[u]) = Entry(g[u])
        BY <1>4, <1>5, <3>1, <3>2, <3>3 DEF Payers
      <4> QED
        BY <4>1, MatchRecord
    <3> QED
      BY <3>3
  <2> QED
    BY <2>1, <2>2
<1>7. ASSUME NEW r \in Pollers
      PROVE  Found(poll[r])'
  <2>f. PICK f : f = poll[r]
    OBVIOUS
  <2> SUFFICES ASSUME f.at \in {"key", "rewrite"}
               PROVE  /\ task'[f.cur].at = "done"
                      /\ log'[f.row].key = task'[f.cur].key
                      /\ f.ans = "success" => log'[f.row] = Entry(task'[f.cur])
    BY <2>f DEF Found, Entry
  <2>1. /\ f.cur \in Tasks /\ f.row \in DOMAIN log /\ Found(f)
    BY <1>1, <2>f DEF PollOK, Payers
  <2>2. f.cur # t /\ task'[f.cur] = task[f.cur]
    BY <2>1 DEF Found
  <2>3. log'[f.row] = log[f.row]
    <3>1. log \in Seq([key : Keys, quota : Nat, chan : Channels])
      BY <1>1 DEF TaskTypeOK
    <3> QED
      BY <2>1, <3>1
  <2> QED
    BY <2>1, <2>2, <2>3 DEF Found
<1> QED
  BY <1>3, <1>6, <1>7 DEF Payers, Matching

\* Every step of a submission is one of these.
LEMMA SubmissionPayers ==
  ASSUME SettleInv, Payers, NEW t \in Tasks, Submission(t)
  PROVE  Payers'
<1>1. TaskTypeOK
  BY DEF SettleInv
<1>e. PICK e : e = task[t]
  OBVIOUS
<1>2. e \in TaskRows
  BY <1>1, <1>e, TaskFields
<1>3. ASSUME NEW o \in Offers[t], Submit(t, o) \/ SubmitUncharged(t, o) \/ SubmitFails(t, o)
      PROVE  Payers'
  <2>1. /\ \A u \in Tasks \ {t} : task'[u] = task[u]
        /\ UNCHANGED <<poll, shared, misdirected, log>> /\ task[t].at = "none"
    BY <1>1, <1>3 DEF Submit, SubmitUncharged, SubmitFails, ghosts, TaskTypeOK
  <2>2. task'[t].at # "done"
    <3>1. PICK a \in {"charge", "dead"} : task'[t].at = Inserted(o, a).at
      <4>1. CASE Submit(t, o)
        BY <1>1, <4>1 DEF Submit, TaskTypeOK
      <4>2. CASE SubmitUncharged(t, o)
        BY <1>1, <4>2 DEF SubmitUncharged, TaskTypeOK, Inserted
      <4>3. CASE SubmitFails(t, o)
        BY <1>1, <4>3 DEF SubmitFails, TaskTypeOK, Inserted
      <4> QED
        BY <1>3, <4>1, <4>2, <4>3
    <3> QED
      BY <3>1 DEF Inserted
  <2> QED
    BY <2>1, <2>2, SubmitPayers
<1>4. CASE ChargeTask(t) \/ ChargeFails(t) \/ SubmitDies(t)
  <2>1. task'[t].at # "done" /\ task'[t].kind = e.kind
    <3>1. CASE ChargeTask(t)
      <4>1. task'[t] = [e EXCEPT !.at = "log", !.user = e.user + e.est]
        BY <1>1, <1>e, <3>1 DEF ChargeTask, TaskTypeOK
      <4> QED
        BY <1>2, <4>1 DEF TaskRows
    <3>2. CASE ChargeFails(t)
      <4>1. task'[t] = [e EXCEPT !.at = "log"]
        BY <1>1, <1>e, <3>2 DEF ChargeFails, TaskTypeOK
      <4> QED
        BY <1>2, <4>1 DEF TaskRows
    <3>3. CASE SubmitDies(t)
      <4>1. task'[t] = [e EXCEPT !.at = "dead"]
        BY <1>1, <1>e, <3>3 DEF SubmitDies, TaskTypeOK
      <4> QED
        BY <1>2, <4>1 DEF TaskRows
    <3> QED
      BY <1>4, <3>1, <3>2, <3>3
  <2>2. /\ \A u \in Tasks \ {t} : task'[u] = task[u]
        /\ UNCHANGED <<poll, shared, misdirected, log>> /\ task[t].at \in {"charge", "log"}
    BY <1>1, <1>4 DEF ChargeTask, ChargeFails, SubmitDies, ghosts, TaskTypeOK
  <2> QED
    BY <1>e, <2>1, <2>2, SubmitPayers
<1>5. CASE Record(t)
  <2>1. task'[t] = [e EXCEPT !.at = "done"]
    BY <1>1, <1>e, <1>5 DEF Record, TaskTypeOK
  <2>2. task'[t].kind = e.kind /\ task'[t].key = e.key /\ task'[t].est = e.est
        /\ task'[t].via = e.via
    BY <1>2, <2>1 DEF TaskRows
  <2>3. e.key \in Keys /\ e.est \in Nat /\ e.via \in Channels
    <3>1. e.at = "log" /\ TaskOK(t)
      BY <1>e, <1>5 DEF Record, SettleInv
    <3> QED
      BY <1>1, <1>e, <3>1, TaskFields DEF TaskOK, RowOK
  <2>4. log' = Append(log, Entry(task'[t])) /\ Entry(task'[t]) \in [key : Keys, quota : Nat, chan : Channels]
    BY <1>e, <1>5, <2>2, <2>3 DEF Record, Entry
  <2>5. /\ \A u \in Tasks \ {t} : task'[u] = task[u]
        /\ UNCHANGED <<poll, shared, misdirected>> /\ task[t].at = "log"
    BY <1>1, <1>5 DEF Record, ghosts, TaskTypeOK
  <2> QED
    BY <1>e, <2>2, <2>4, <2>5, SubmitPayers
<1> QED
  BY <1>3, <1>4, <1>5 DEF Submission

\* An endpoint's step leaves the submissions alone, and finishes tasks at most.
LEMMA LookKeeps ==
  ASSUME SettleInv, NEW h \in Handlers, (\E t \in Tasks : Look(h, t)) \/ LookSaves(h),
         crossed' = {}
  PROVE  \A u \in Tasks :
           /\ task'[u].at = task[u].at /\ task'[u].kind = task[u].kind
           /\ task'[u].key = task[u].key /\ task'[u].est = task[u].est
           /\ task'[u].via = task[u].via /\ task'[u].cost = task[u].cost
           /\ task'[u].status \in {"pending", "FAILURE"} =>
                task[u].status \in {"pending", "FAILURE"}
<1>1. TaskTypeOK
  BY DEF SettleInv
<1>2. ASSUME NEW e \in TaskRows, NEW k,
             \/ \E a : k = [e EXCEPT !.up = a]
             \/ \E s, c : /\ k = [e EXCEPT !.status = s, !.quota = c]
                          /\ s = e.status \/ e.status = "pending"
      PROVE  /\ k.at = e.at /\ k.kind = e.kind /\ k.key = e.key /\ k.est = e.est /\ k.via = e.via
             /\ k.cost = e.cost
             /\ k.status \in {"pending", "FAILURE"} => e.status \in {"pending", "FAILURE"}
  <2>1. CASE \E a : k = [e EXCEPT !.up = a]
    BY <2>1 DEF TaskRows
  <2>2. CASE \E s, c : /\ k = [e EXCEPT !.status = s, !.quota = c]
                       /\ s = e.status \/ e.status = "pending"
    BY <2>2 DEF TaskRows
  <2> QED
    BY <1>2, <2>1, <2>2
<1>3. ASSUME NEW t \in Tasks, Look(h, t)
      PROVE  /\ \A u \in Tasks \ {t} : task'[u] = task[u]
             /\ \E a : task'[t] = [task[t] EXCEPT !.up = a]
  BY <1>1, <1>3 DEF Look, TaskTypeOK
<1>4. ASSUME LookSaves(h), NEW t, t = seen[h].cur
      PROVE  /\ t \in Tasks /\ \A u \in Tasks \ {t} : task'[u] = task[u]
             /\ \E s, c : /\ task'[t] = [task[t] EXCEPT !.status = s, !.quota = c]
                          /\ s = task[t].status \/ task[t].status = "pending"
  <2>1. t \in Tasks
    BY <1>4 DEF LookSaves, SettleInv, SeenOK
  <2>2. Undisturbed(seen[h])
    BY <1>4 DEF LookSaves
  <2>3. Status(seen[h].ans) = task[t].status \/ task[t].status = "pending"
    BY <1>4, <2>2 DEF Undisturbed
  <2>4. /\ \A u \in Tasks \ {t} : task'[u] = task[u]
        /\ task'[t] = [task[t] EXCEPT !.status = Status(seen[h].ans), !.quota = seen[h].quota]
    BY <1>1, <1>4, <2>1 DEF LookSaves, TaskTypeOK
  <2> QED
    BY <2>1, <2>3, <2>4
<1>5. PICK t \in Tasks :
        /\ \A u \in Tasks \ {t} : task'[u] = task[u]
        /\ \/ \E a : task'[t] = [task[t] EXCEPT !.up = a]
           \/ \E s, c : /\ task'[t] = [task[t] EXCEPT !.status = s, !.quota = c]
                        /\ s = task[t].status \/ task[t].status = "pending"
  BY <1>3, <1>4
<1>6. task[t] \in TaskRows
  BY <1>1 DEF TaskTypeOK
<1>k. PICK k : k = task'[t]
  OBVIOUS
<1>7. /\ k.at = task[t].at /\ k.kind = task[t].kind
      /\ k.key = task[t].key /\ k.est = task[t].est
      /\ k.via = task[t].via /\ k.cost = task[t].cost
      /\ k.status \in {"pending", "FAILURE"} =>
           task[t].status \in {"pending", "FAILURE"}
  BY <1>2, <1>5, <1>6, <1>k
<1> QED
  BY <1>5, <1>7, <1>k

\* So it takes tasks off the search at most.
LEMMA LookPayers ==
  ASSUME SettleInv, Payers, NEW h \in Handlers, (\E t \in Tasks : Look(h, t)) \/ LookSaves(h),
         crossed' = {}
  PROVE  Payers'
<1>1. \A r \in Pollers : PollOK(poll[r])
  BY DEF SettleInv
<1>2. UNCHANGED <<poll, log, shared, misdirected>>
  BY DEF Look, LookSaves, ghosts
<1>4. \A u \in Tasks :
        /\ task'[u].at = task[u].at /\ task'[u].kind = task[u].kind
        /\ task'[u].key = task[u].key /\ task'[u].est = task[u].est
        /\ task'[u].via = task[u].via
        /\ task'[u].status \in {"pending", "FAILURE"} => task[u].status \in {"pending", "FAILURE"}
  BY LookKeeps
<1>5. Alone'
  <2>1. \A u, v \in Tasks : SameLoop(u, v)' = SameLoop(u, v)
    BY <1>4 DEF SameLoop, LoopOf
  <2> QED
    BY <1>2, <2>1 DEF Alone, Payers
<1>6. Sought' \subseteq Sought /\ Sought' \subseteq Tasks
  <2>1. \A u \in Tasks : Rewritten(u)' <=> Rewritten(u)
    BY <1>2 DEF Rewritten, Done
  <2> QED
    BY <1>4, <2>1 DEF Sought
<1>7. \A u \in Tasks : Entry(task'[u]) = Entry(task[u])
  BY <1>4 DEF Entry
<1>8. Matching(Sought', task', log')
  <2>1. ASSUME NEW S, NEW T, NEW g, NEW f, S = Sought, T = Sought', g = task, f = task'
        PROVE  Matching(T, f, log)
    <3>1. T \subseteq S /\ Matching(S, g, log) /\ \A u \in T : Entry(f[u]) = Entry(g[u])
      BY <1>6, <1>7, <2>1 DEF Payers
    <3> QED
      BY <3>1, MatchFewer
  <2> QED
    BY <1>2, <2>1
<1>9. ASSUME NEW r \in Pollers
      PROVE  Found(poll[r])'
  <2>1. poll[r].at \in {"key", "rewrite"} => poll[r].cur \in Tasks
    BY <1>1 DEF PollOK
  <2> QED
    BY <1>2, <1>4, <1>7, <2>1 DEF Found, Entry, Payers
<1> QED
  BY <1>2, <1>5, <1>8, <1>9 DEF Payers, Matching

\* What goes wrong is not undone.
LEMMA OrderlyBack == TaskNext /\ Orderly' => Orderly
<1> SUFFICES ASSUME TaskNext, Orderly'
             PROVE  Orderly
  OBVIOUS
<1>1. ASSUME NEW t \in Tasks, Submission(t)
      PROVE  Orderly
  <2>1. UNCHANGED <<unlogged, unsaved, missed, crossed, overlap>>
    BY <1>1 DEF Submission, Submit, SubmitUncharged, SubmitFails, ChargeTask, ChargeFails, Record,
                SubmitDies, ghosts
  <2> QED
    BY <2>1 DEF Orderly
<1>2. ASSUME NEW p \in Pollers, NEW t \in Tasks, Poll(p, t)
      PROVE  Orderly
  BY <1>2 DEF Poll, Orderly
<1>3. ASSUME NEW p \in Pollers, Poller(p)
      PROVE  Orderly
  <2>1. /\ unlogged \subseteq unlogged' /\ unsaved \subseteq unsaved' /\ missed \subseteq missed'
        /\ crossed' = crossed /\ overlap' = overlap
    BY <1>3 DEF Poller, FailUnasked, Fetch, FetchSkips, UserLeg, UserLegFails, KeyLeg,
                KeyLegFails, Rewrite, RewriteFails, Save, SaveFails, ghosts
  <2> QED
    BY <2>1 DEF Orderly
<1>4. ASSUME NEW p \in Pollers, Kill(p)
      PROVE  Orderly
  BY <1>4 DEF Kill, Orderly
<1>5. ASSUME NEW h \in Handlers, (\E t \in Tasks : Look(h, t)) \/ LookSaves(h)
      PROVE  Orderly
  <2>1. crossed \subseteq crossed' /\ UNCHANGED <<unlogged, unsaved, missed, overlap>>
    BY <1>5 DEF Look, LookSaves, ghosts
  <2> QED
    BY <2>1 DEF Orderly
<1> QED
  BY <1>1, <1>2, <1>3, <1>4, <1>5 DEF TaskNext

\* There is no row to be found.
LEMMA TaskInitPayer == TaskInit => PayerInv
<1> SUFFICES ASSUME TaskInit
             PROVE  SettleInv /\ Payers
  BY DEF PayerInv
<1>1. /\ \A p \in Pollers : poll[p] = IdlePoller
      /\ \A t \in Tasks : task[t] = None
  BY DEF TaskInit
<1>2. Sought = {}
  BY <1>1, TaskIdleTyped DEF Sought
<1>3. Matching(Sought, task, log)
  <2>m. PICK m : m = [t \in {} |-> 0]
    OBVIOUS
  <2>1. m \in [{} -> DOMAIN log]
    BY <2>m
  <2> QED
    BY <1>2, <2>1 DEF Matching
<1>4. Alone /\ \A p \in Pollers : Found(poll[p])
  BY <1>1, TaskIdleTyped DEF Alone, Found
<1>5. shared = {} /\ misdirected = {}
  BY DEF TaskInit
<1> QED
  BY <1>3, <1>4, <1>5, TaskInitSettle DEF Payers

\* Every step keeps PayerInv.
LEMMA TaskNextPayer == PayerInv /\ [TaskNext]_taskVars => PayerInv'
<1> SUFFICES ASSUME PayerInv, [TaskNext]_taskVars
             PROVE  PayerInv'
  OBVIOUS
<1>1. SettleInv /\ SettleInv'
  BY TaskNextSettle DEF PayerInv
<1>2. CASE UNCHANGED taskVars
  <2>1. Orderly' = Orderly
    BY <1>2 DEF taskVars, ghosts, Orderly
  <2>2. Payers' = Payers
    BY <1>2 DEF taskVars, ghosts, Payers, Alone, Sought, Rewritten, Done, Matching, Found,
                SameLoop, LoopOf, Entry
  <2> QED
    BY <1>1, <2>1, <2>2 DEF PayerInv
<1>3. CASE TaskNext
  <2> SUFFICES ASSUME Orderly'
               PROVE  Payers'
    BY <1>1 DEF PayerInv
  <2>1. Orderly /\ Payers
    BY <1>3, OrderlyBack DEF PayerInv
  <2>2. unlogged' = {} /\ unsaved' = {} /\ missed' = {} /\ crossed' = {} /\ ~overlap'
    BY DEF Orderly
  <2>3. ASSUME NEW t \in Tasks, Submission(t)
        PROVE  Payers'
    BY <1>1, <2>1, <2>3, SubmissionPayers
  <2>4. ASSUME NEW p \in Pollers, NEW t \in Tasks, Poll(p, t)
        PROVE  Payers'
    BY <1>1, <2>1, <2>2, <2>4, PollPayers
  <2>5. ASSUME NEW p \in Pollers, Poller(p)
        PROVE  Payers'
    BY <1>1, <2>1, <2>2, <2>5, FailUnaskedPayers, FetchPayers, GivenUpPayers, UserLegPayers,
       UserLegFailsPayers, KeyLegPayers, RewritePayers, RewriteFailsPayers, SavePayers DEF Poller
  <2>6. ASSUME NEW p \in Pollers, Kill(p)
        PROVE  Payers'
    BY <1>1, <2>1, <2>2, <2>6, GivenUpPayers
  <2>7. ASSUME NEW h \in Handlers, (\E t \in Tasks : Look(h, t)) \/ LookSaves(h)
        PROVE  Payers'
    BY <1>1, <2>1, <2>2, <2>7, LookPayers
  <2> QED
    BY <1>3, <2>3, <2>4, <2>5, <2>6, <2>7 DEF TaskNext
<1> QED
  BY <1>2, <1>3

\* For any number of tasks, keys and amounts: a refund or a difference goes to the key
\* that paid for the task (resolveTaskChargeLedger), though rows of one amount cannot be
\* told apart and rewriteTaskConsumeRow may take another task's, as long as every
\* settlement has its consume row, has its loop to itself, saves its result, and takes
\* one of its payer's rows within the limit and the window if the log has any.
THEOREM RightPayerCorrect == TaskSpec => []RightPayer
<1>1. PayerInv => RightPayer
  BY DEF PayerInv, RightPayer, Orderly, Payers
<1> QED
  BY <1>1, TaskInitPayer, TaskNextPayer, PTL DEF TaskSpec

-----------------------------------------------------------------------------
\* Sums, by least counterexample

\* A set of numbers has a least one: what the inductions below rest on.
LEMMA Least ==
  ASSUME NEW S \in SUBSET Nat, S # {}
  PROVE  \E n \in S : \A m \in S : n <= m
<1> DEFINE R == OpToRel(<, Nat)
<1>1. IsWellFoundedOn(R, Nat)
  BY NatLessThanWellFounded
<1>2. \A x \in Nat, y \in Nat : x < y => <<x, y>> \in R
  BY DEF OpToRel
<1> HIDE DEF R
<1>3. PICK n \in S : \A m \in S : ~(<<m, n>> \in R)
  BY <1>1, WFMin
<1>4. \A m \in S : ~(m < n)
  BY <1>2, <1>3
<1> QED BY <1>4

\* The first n numbers of a, and their running totals.
Numbers(a, n) == \A i \in 1 .. n : a[i] \in Int
Shifted(a, b, n, j, d) == \A i \in 1 .. n : b[i] = IF i = j THEN a[i] + d ELSE a[i]
Agree(a, b, S) == \A i \in S : b[i] = a[i]
SumsTo(a, n) ==
  {f \in [0 .. n -> Int] : f[0] = 0 /\ \A i \in 1 .. n : f[i] = f[i - 1] + a[i]}

\* There are running totals.
LEMMA SumsToExist ==
  ASSUME NEW n \in Nat, NEW a, Numbers(a, n)
  PROVE  SumsTo(a, n) # {}
<1> DEFINE S == {m \in 0 .. n : SumsTo(a, m) = {}}
<1> SUFFICES ASSUME S # {} PROVE FALSE
  OBVIOUS
<1>1. PICK m \in S : \A k \in S : m <= k
  <2>1. S \in SUBSET Nat
    OBVIOUS
  <2> HIDE DEF S
  <2> QED BY <2>1, Least
<1>2. m \in Nat /\ m <= n /\ SumsTo(a, m) = {}
  BY <1>1
<1>3. CASE m = 0
  <2>1. [i \in 0 .. 0 |-> 0] \in SumsTo(a, 0)
    BY DEF SumsTo
  <2> QED BY <1>2, <1>3, <2>1
<1>4. CASE m # 0
  <2>1. m - 1 \in Nat /\ m - 1 \notin S /\ m - 1 \in 0 .. n
    BY <1>1, <1>2, <1>4
  <2>2. PICK f \in SumsTo(a, m - 1) : TRUE
    BY <2>1
  <2> DEFINE g == [i \in 0 .. m |-> IF i = m THEN f[m - 1] + a[m] ELSE f[i]]
  <2>3. /\ f \in [0 .. m - 1 -> Int] /\ f[0] = 0
        /\ \A i \in 1 .. m - 1 : f[i] = f[i - 1] + a[i]
    BY <2>2 DEF SumsTo
  <2>4. a[m] \in Int
    BY <1>2, <1>4 DEF Numbers
  <2>5. g \in [0 .. m -> Int] /\ g[0] = 0
    BY <1>2, <1>4, <2>1, <2>3, <2>4
  <2>6. \A i \in 1 .. m : g[i] = g[i - 1] + a[i]
    BY <1>2, <1>4, <2>1, <2>3
  <2> HIDE DEF g
  <2>7. g \in SumsTo(a, m)
    BY <2>5, <2>6 DEF SumsTo
  <2> QED BY <1>2, <2>7
<1> QED BY <1>3, <1>4

\* Two running totals differ from the first differing number on by what it differs.
LEMMA SumsToDiffer ==
  ASSUME NEW n \in Nat, NEW a, NEW b, Numbers(a, n), Numbers(b, n), NEW j \in Nat, NEW d \in Int,
         Shifted(a, b, n, j, d),
         NEW f \in SumsTo(a, n), NEW g \in SumsTo(b, n)
  PROVE  g[n] = IF j \in 1 .. n THEN f[n] + d ELSE f[n]
<1> DEFINE G(i) == IF j # 0 /\ j <= i THEN f[i] + d ELSE f[i]
           S == {i \in 0 .. n : g[i] # G(i)}
<1>1. /\ f[0] = 0 /\ g[0] = 0 /\ \A i \in 0 .. n : f[i] \in Int /\ g[i] \in Int
      /\ \A i \in 1 .. n : f[i] = f[i - 1] + a[i] /\ g[i] = g[i - 1] + b[i]
  BY DEF SumsTo
<1>2. S # {} => FALSE
  <2> SUFFICES ASSUME S # {} PROVE FALSE
    OBVIOUS
  <2>1. PICK i \in S : \A k \in S : i <= k
    <3>1. S \in SUBSET Nat
      OBVIOUS
    <3> HIDE DEF S
    <3> QED BY <3>1, Least
  <2>2. i \in Nat /\ i <= n /\ g[i] # G(i)
    BY <2>1
  <2>3. i # 0
    BY <1>1, <2>2
  <2>4. i \in 1 .. n /\ i - 1 \in 0 .. n /\ i - 1 \notin S
    BY <2>1, <2>2, <2>3
  <2>5. g[i - 1] = G(i - 1)
    BY <2>4
  <2>6. /\ f[i] = f[i - 1] + a[i] /\ g[i] = g[i - 1] + b[i] /\ a[i] \in Int
        /\ b[i] = (IF i = j THEN a[i] + d ELSE a[i]) /\ f[i - 1] \in Int
    BY <1>1, <2>4 DEF Numbers, Shifted
  <2> QED BY <2>2, <2>4, <2>5, <2>6
<1>3. g[n] = G(n)
  BY <1>2
<1> QED BY <1>3

\* Total is the last of the running totals.
LEMMA TotalIs ==
  ASSUME NEW n \in Nat, NEW a, Numbers(a, n)
  PROVE  Total(a, n) \in Int /\ \A f \in SumsTo(a, n) : Total(a, n) = f[n]
<1> DEFINE E(f) == f = [i \in 0 .. n |-> IF i = 0 THEN 0 ELSE f[i - 1] + a[i]]
           g == CHOOSE f : E(f)
<1>1. PICK h \in SumsTo(a, n) : TRUE
  BY SumsToExist
<1>2. h = [i \in 0 .. n |-> IF i = 0 THEN 0 ELSE h[i - 1] + a[i]]
  BY <1>1 DEF SumsTo
<1>3. E(g)
  BY <1>2
<1>4. Total(a, n) = g[n]
  BY DEF Total
<1> HIDE DEF g
<1>5. /\ \A i \in 1 .. n : g[i] = g[i - 1] + a[i]
      /\ g[0] = 0 /\ g = [i \in 0 .. n |-> g[i]]
  BY <1>3
<1> HIDE DEF E
<1> DEFINE S == {i \in 0 .. n : g[i] \notin Int}
<1>6. S = {}
  <2> SUFFICES ASSUME S # {} PROVE FALSE
    OBVIOUS
  <2>1. PICK i \in S : \A k \in S : i <= k
    <3>1. S \in SUBSET Nat
      OBVIOUS
    <3> HIDE DEF S
    <3> QED BY <3>1, Least
  <2>2. i \in Nat /\ i <= n /\ g[i] \notin Int /\ i # 0
    BY <1>5, <2>1
  <2>3. i \in 1 .. n /\ i - 1 \in 0 .. n /\ i - 1 \notin S
    BY <2>1, <2>2
  <2>4. g[i - 1] \in Int /\ a[i] \in Int /\ g[i] = g[i - 1] + a[i]
    BY <1>5, <2>3 DEF Numbers
  <2> QED BY <2>2, <2>4
<1>7. g \in SumsTo(a, n)
  BY <1>5, <1>6 DEF SumsTo
<1>8. \A f \in SumsTo(a, n) : g[n] = f[n]
  <2> TAKE f \in SumsTo(a, n)
  <2>1. Shifted(a, a, n, 0, 0)
    BY DEF Shifted
  <2>2. g[n] = IF 0 \in 1 .. n THEN f[n] + 0 ELSE f[n]
    BY <1>7, <2>1, SumsToDiffer
  <2> QED BY <2>2
<1>9. g[n] \in Int
  BY <1>6
<1> QED BY <1>4, <1>8, <1>9

\* One number more.
LEMMA TotalStep ==
  ASSUME NEW n \in Nat, NEW a, NEW b, Numbers(a, n), Agree(a, b, 1 .. n),
         b[n + 1] \in Int
  PROVE  Total(b, n + 1) = Total(a, n) + b[n + 1]
<1>1. Numbers(b, n + 1)
  BY DEF Numbers, Agree
<1>2. PICK g \in SumsTo(b, n + 1) : TRUE
  BY <1>1, SumsToExist
<1>3. /\ g \in [0 .. n + 1 -> Int] /\ g[0] = 0
      /\ \A i \in 1 .. n + 1 : g[i] = g[i - 1] + b[i]
  BY <1>2 DEF SumsTo, Agree
<1>f. PICK f : f = [i \in 0 .. n |-> g[i]]
  OBVIOUS
<1>4. f \in SumsTo(a, n) /\ f[n] = g[n]
  BY <1>f, <1>3 DEF SumsTo, Agree
<1>5. g[n + 1] = g[n] + b[n + 1]
  BY <1>3
<1> QED BY <1>1, <1>2, <1>4, <1>5, TotalIs

\* One number changed.
LEMMA TotalUpdate ==
  ASSUME NEW n \in Nat, NEW a, NEW b, Numbers(a, n), NEW j \in 1 .. n, b[j] \in Int,
         Agree(a, b, (1 .. n) \ {j})
  PROVE  Total(b, n) = Total(a, n) + b[j] - a[j]
<1>1. Numbers(b, n) /\ a[j] \in Int
  BY DEF Numbers, Agree
<1>2. PICK f \in SumsTo(a, n), g \in SumsTo(b, n) : TRUE
  BY <1>1, SumsToExist
<1>d. PICK d \in Int : d = b[j] - a[j]
  BY <1>1
<1>3. Shifted(a, b, n, j, d)
  <2>1. b[j] = a[j] + d
    BY <1>1, <1>d
  <2> QED BY <2>1 DEF Agree, Shifted
<1>4. g[n] = f[n] + d
  <2>1. j \in Nat
    OBVIOUS
  <2>2. g[n] = IF j \in 1 .. n THEN f[n] + d ELSE f[n]
    BY <1>1, <1>2, <1>3, <2>1, SumsToDiffer
  <2> QED BY <2>2
<1>5. Total(a, n) = f[n] /\ Total(b, n) = g[n] /\ Total(a, n) \in Int
  BY <1>1, <1>2, TotalIs
<1> QED BY <1>1, <1>4, <1>5, <1>d

\* Nothing adds up to nothing.
LEMMA TotalZero ==
  ASSUME NEW n \in Nat, NEW a, \A i \in 1 .. n : a[i] = 0
  PROVE  Total(a, n) = 0
<1>1. Numbers(a, n)
  BY DEF Numbers, Agree
<1>f. PICK f : f = [i \in 0 .. n |-> 0]
  OBVIOUS
<1>2. f \in SumsTo(a, n) /\ f[n] = 0
  BY <1>f DEF SumsTo, Agree
<1> QED BY <1>1, <1>2, TotalIs

-----------------------------------------------------------------------------
\* The invoices explain what the keys have paid

\* What the key of a task has paid beyond what the consume rows say for it: the
\* estimate until its row is written, the difference until the row is rewritten.
Rewriting(t) == \E p \in Pollers : poll[p].cur = t /\ poll[p].at = "rewrite"
Share(e, rewriting, k) ==
  IF e.key # k THEN 0
  ELSE IF e.at = "log" THEN e.est
  ELSE IF rewriting THEN e.cost - e.est ELSE 0
Owing(t, k) == Share(task[t], Rewriting(t), k)

Over(k) == paid[k] + returned[k] - Invoiced(k)

\* x is the sum of g over all tasks: over some list that has every task for which
\* it is not 0, once.
Explained(x, g) ==
  \E n \in Nat : \E e \in [1 .. n -> Tasks] :
    /\ \A i, j \in 1 .. n : e[i] = e[j] => i = j
    /\ \A t \in Tasks : g[t] # 0 => \E i \in 1 .. n : e[i] = t
    /\ x = Total([i \in 1 .. n |-> g[e[i]]], n)

Clean == Orderly /\ uncharged = {} /\ lost = {}

AllExplained == \A k \in Keys : Explained(Over(k), [t \in Tasks |-> Owing(t, k)])

InvoiceInv == PayerInv /\ (Clean => AllExplained)

\* One task owes more or less, and the sum follows.
LEMMA ExplainedStep ==
  ASSUME NEW g \in [Tasks -> Int], NEW h \in [Tasks -> Int], NEW x \in Int, NEW t \in Tasks,
         \A u \in Tasks \ {t} : h[u] = g[u], Explained(x, g)
  PROVE  Explained(x + h[t] - g[t], h)
<1>n. PICK n \in Nat : \E e \in [1 .. n -> Tasks] :
        /\ \A i, j \in 1 .. n : e[i] = e[j] => i = j
        /\ \A u \in Tasks : g[u] # 0 => \E i \in 1 .. n : e[i] = u
        /\ x = Total([i \in 1 .. n |-> g[e[i]]], n)
  BY DEF Explained
<1>1. PICK e \in [1 .. n -> Tasks] :
        /\ \A i, j \in 1 .. n : e[i] = e[j] => i = j
        /\ \A u \in Tasks : g[u] # 0 => \E i \in 1 .. n : e[i] = u
        /\ x = Total([i \in 1 .. n |-> g[e[i]]], n)
  BY <1>n
<1>a. PICK a : a = [i \in 1 .. n |-> g[e[i]]]
  OBVIOUS
<1>t. g[t] \in Int /\ h[t] \in Int
  OBVIOUS
<1>2. Numbers(a, n) /\ x = Total(a, n) /\ \A i \in 1 .. n : a[i] = g[e[i]]
  BY <1>1, <1>a DEF Numbers
<1>3. CASE \E j \in 1 .. n : e[j] = t
  <2>1. PICK j \in 1 .. n : e[j] = t
    BY <1>3
  <2>b. PICK b : b = [i \in 1 .. n |-> h[e[i]]]
    OBVIOUS
  <2>2. b[j] = h[t] /\ b[j] \in Int /\ a[j] = g[t]
        /\ Agree(a, b, (1 .. n) \ {j})
    BY <1>1, <1>2, <2>1, <2>b DEF Agree
  <2>3. Total(b, n) = x + h[t] - g[t]
    <3>1. Total(b, n) = Total(a, n) + b[j] - a[j]
      BY <1>2, <2>2, TotalUpdate
    <3> QED BY <1>2, <2>2, <3>1
  <2>4. \A u \in Tasks : h[u] # 0 => \E i \in 1 .. n : e[i] = u
    BY <1>1, <1>3
  <2> QED BY <1>1, <2>b, <2>3, <2>4 DEF Explained
<1>4. CASE ~ \E j \in 1 .. n : e[j] = t
  <2>1. g[t] = 0
    BY <1>1, <1>4
  <2>f. PICK f : f = [i \in 1 .. n + 1 |-> IF i = n + 1 THEN t ELSE e[i]]
    OBVIOUS
  <2>2. /\ f \in [1 .. n + 1 -> Tasks] /\ f[n + 1] = t
        /\ \A i \in 1 .. n : f[i] = e[i] /\ i \in 1 .. n + 1
    BY <2>f
  <2>3. \A i \in 1 .. n + 1 : i = n + 1 \/ i \in 1 .. n
    OBVIOUS
  <2>b. PICK b : b = [i \in 1 .. n + 1 |-> h[f[i]]]
    OBVIOUS
  <2>4. b[n + 1] = h[t] /\ b[n + 1] \in Int /\ Agree(a, b, 1 .. n)
    <3>1. b[n + 1] = h[t] /\ h[t] \in Int
      BY <2>2, <2>b
    <3>2. ASSUME NEW i \in 1 .. n PROVE b[i] = a[i]
      <4>1. b[i] = h[e[i]] /\ e[i] \in Tasks /\ e[i] # t
        BY <1>4, <2>2, <2>b
      <4> QED BY <1>2, <4>1
    <3> QED BY <3>1, <3>2 DEF Agree
  <2>5. Total(b, n + 1) = x + h[t]
    <3>1. Total(b, n + 1) = Total(a, n) + b[n + 1]
      BY <1>2, <2>4, TotalStep
    <3> QED BY <1>2, <2>4, <3>1
  <2>6. x + h[t] = x + h[t] - g[t]
    BY <1>t, <2>1
  <2>7. \A i, j \in 1 .. n + 1 : f[i] = f[j] => i = j
    BY <1>1, <1>4, <2>2, <2>3
  <2>8. \A u \in Tasks : h[u] # 0 => \E i \in 1 .. n + 1 : f[i] = u
    <3> SUFFICES ASSUME NEW u \in Tasks, h[u] # 0 PROVE \E i \in 1 .. n + 1 : f[i] = u
      OBVIOUS
    <3>1. CASE u = t
      BY <2>2, <3>1
    <3>2. CASE u # t
      <4>1. PICK i \in 1 .. n : e[i] = u
        BY <1>1, <3>2
      <4> QED BY <2>2, <4>1
    <3> QED BY <3>1, <3>2
  <2>9. n + 1 \in Nat
    OBVIOUS
  <2>10. x + h[t] - g[t] = Total([i \in 1 .. n + 1 |-> h[f[i]]], n + 1)
    BY <2>b, <2>5, <2>6
  <2> QED BY <2>2, <2>7, <2>8, <2>9, <2>10 DEF Explained
<1> QED BY <1>3, <1>4

\* Nobody owes anything.
LEMMA ExplainedZero ==
  ASSUME NEW g \in [Tasks -> Int], \A t \in Tasks : g[t] = 0, NEW x
  PROVE  Explained(x, g) <=> x = 0
<1>1. ASSUME Explained(x, g) PROVE x = 0
  <2>n. PICK n \in Nat :
          \E e \in [1 .. n -> Tasks] : x = Total([i \in 1 .. n |-> g[e[i]]], n)
    BY <1>1 DEF Explained
  <2>1. PICK e \in [1 .. n -> Tasks] : x = Total([i \in 1 .. n |-> g[e[i]]], n)
    BY <2>n
  <2>a. PICK a : a = [i \in 1 .. n |-> g[e[i]]]
    OBVIOUS
  <2>2. \A i \in 1 .. n : a[i] = 0
    BY <2>a
  <2> QED BY <2>1, <2>a, <2>2, TotalZero
<1>2. ASSUME x = 0 PROVE Explained(x, g)
  <2>e. PICK e : e = [i \in 1 .. 0 |-> i]
    OBVIOUS
  <2>1. e \in [1 .. 0 -> Tasks] /\ \A i, j \in 1 .. 0 : e[i] = e[j] => i = j
    BY <2>e
  <2>a. PICK a : a = [i \in 1 .. 0 |-> g[e[i]]]
    OBVIOUS
  <2>2. Total(a, 0) = 0
    BY TotalZero
  <2> QED BY <1>2, <2>1, <2>a, <2>2 DEF Explained
<1> QED BY <1>1, <1>2

\* The amounts are numbers.
LEMMA InvoiceTyped ==
  ASSUME TaskTypeOK, NEW k \in Keys
  PROVE  /\ Over(k) \in Int /\ Invoiced(k) \in Int /\ paid[k] \in Int /\ returned[k] \in Int
         /\ \A t \in Tasks : Owing(t, k) \in Int
<1>n. PICK n \in Nat : n = Len(log) /\ DOMAIN log = 1 .. n
  BY DEF TaskTypeOK
<1>a. PICK a : a = [i \in DOMAIN log |-> IF log[i].key = k THEN log[i].quota ELSE 0]
  OBVIOUS
<1>1. Numbers(a, n)
  <2>1. \A i \in DOMAIN log : log[i].quota \in Nat
    BY LogTyped
  <2> QED BY <1>n, <1>a, <2>1 DEF Numbers
<1>2. Invoiced(k) \in Int
  BY <1>n, <1>a, <1>1, TotalIs DEF Invoiced
<1>3. paid[k] \in Int /\ returned[k] \in Nat
  BY DEF TaskTypeOK
<1>4. Over(k) \in Int
  BY <1>2, <1>3 DEF Over
<1>5. \A t \in Tasks : task[t].est \in Nat /\ task[t].cost \in Nat
  BY TaskFields
<1>6. \A t \in Tasks : Owing(t, k) \in Int
  BY <1>5 DEF Owing, Share
<1> QED BY <1>2, <1>3, <1>4, <1>6

\* And stay so.
LEMMA InvoiceTypedNext ==
  TaskTypeOK' => (\A k \in Keys : Over(k) \in Int /\ \A u \in Tasks : Owing(u, k) \in Int)'
<1>1. TaskTypeOK => \A k \in Keys : Over(k) \in Int /\ \A u \in Tasks : Owing(u, k) \in Int
  BY InvoiceTyped
<1> QED BY <1>1, PTL

\* One task owes more or less, and its key has paid as much more or less.
LEMMA OwingStep ==
  ASSUME TaskTypeOK, TaskTypeOK', NEW k \in Keys, NEW t \in Tasks,
         Explained(Over(k), [u \in Tasks |-> Owing(u, k)]),
         \A u \in Tasks \ {t} : Owing(u, k)' = Owing(u, k),
         Over(k)' - Over(k) = Owing(t, k)' - Owing(t, k)
  PROVE  Explained(Over(k)', [u \in Tasks |-> Owing(u, k)'])
<1>g. PICK g : g = [u \in Tasks |-> Owing(u, k)]
  OBVIOUS
<1>h. PICK h : h = [u \in Tasks |-> Owing(u, k)']
  OBVIOUS
<1>x. PICK x : x = Over(k)
  OBVIOUS
<1>y. PICK y : y = Over(k)'
  OBVIOUS
<1>1. x \in Int /\ \A u \in Tasks : Owing(u, k) \in Int
  BY <1>x, InvoiceTyped
<1>2. (\A j \in Keys : Over(j) \in Int /\ \A u \in Tasks : Owing(u, j) \in Int)'
  BY InvoiceTypedNext
<1>3. y \in Int /\ \A u \in Tasks : Owing(u, k)' \in Int
  BY <1>2, <1>y
<1>4. g \in [Tasks -> Int] /\ h \in [Tasks -> Int] /\ g[t] = Owing(t, k) /\ h[t] = Owing(t, k)'
  BY <1>1, <1>3, <1>g, <1>h
<1>5. \A u \in Tasks \ {t} : h[u] = g[u]
  BY <1>g, <1>h
<1>6. Explained(x + h[t] - g[t], h)
  BY <1>1, <1>4, <1>5, <1>g, <1>x, ExplainedStep
<1>7. y = x + h[t] - g[t]
  BY <1>1, <1>3, <1>4, <1>x, <1>y
<1>8. Explained(y, h)
  BY <1>6, <1>7
<1> QED BY <1>8, <1>h, <1>y

\* What is to be shown of a step.
LEMMA ExplainedNext ==
  ASSUME \A k \in Keys : Explained(Over(k)', [u \in Tasks |-> Owing(u, k)'])
  PROVE  AllExplained'
  BY DEF AllExplained, Explained

\* Steps that move nobody's debts.
LEMMA NothingOwed ==
  ASSUME AllExplained, \A k \in Keys : Over(k)' = Over(k),
         \A k \in Keys, u \in Tasks : Owing(u, k)' = Owing(u, k)
  PROVE  AllExplained'
<1> SUFFICES ASSUME NEW k \in Keys
             PROVE  Explained(Over(k)', [u \in Tasks |-> Owing(u, k)'])
  BY ExplainedNext
<1>1. [u \in Tasks |-> Owing(u, k)'] = [u \in Tasks |-> Owing(u, k)]
  OBVIOUS
<1> QED BY <1>1 DEF AllExplained

\* Steps of a poller that rewrites no row and is not about to.
LEMMA QuietPoller ==
  ASSUME SettleInv, AllExplained, NEW p \in Pollers, NEW n, poll' = [poll EXCEPT ![p] = n],
         poll[p].at # "rewrite", n.at # "rewrite", \A k \in Keys : Over(k)' = Over(k),
         \A u \in Tasks : /\ task'[u].at = task[u].at /\ task'[u].key = task[u].key
                          /\ task'[u].est = task[u].est /\ task'[u].cost = task[u].cost
  PROVE  AllExplained'
<1>1. poll'[p] = n /\ \A r \in Pollers \ {p} : poll'[r] = poll[r]
  BY DEF SettleInv, TaskTypeOK
<1>2. \A u \in Tasks : Rewriting(u)' <=> Rewriting(u)
  BY <1>1 DEF Rewriting
<1>3. \A k \in Keys, u \in Tasks : Owing(u, k)' = Owing(u, k)
  BY <1>2 DEF Owing, Share
<1> QED BY <1>3, NothingOwed

\* What is owed does not depend on anything else than the ledgers.
LEMMA OverKept ==
  ASSUME UNCHANGED <<paid, returned, log>>, NEW k
  PROVE  Over(k)' = Over(k)
  BY DEF Over, Invoiced, Total

\* A poller takes a task, gives it up, asks for it, or saves it.
LEMMA QuietSteps ==
  ASSUME SettleInv, AllExplained, NEW p \in Pollers, lost' = {},
         \/ \E t \in Tasks : Poll(p, t)
         \/ FailUnasked(p) \/ Fetch(p) \/ FetchSkips(p) \/ UserLegFails(p) \/ Save(p) \/ SaveFails(p) \/ Kill(p)
  PROVE  AllExplained'
<1>q. PICK q : q = poll[p]
  OBVIOUS
<1>t. PICK t : t = q.cur
  OBVIOUS
<1>1. TaskTypeOK /\ q \in Polls
  BY <1>q DEF SettleInv, TaskTypeOK
<1>2. \A k \in Keys : Over(k)' = Over(k)
  BY OverKept DEF Poll, FailUnasked, Fetch, FetchSkips, UserLegFails, Save, SaveFails, Kill, ghosts
<1>3. ASSUME task' = task, NEW n, poll' = [poll EXCEPT ![p] = n],
             q.at # "rewrite", n.at # "rewrite"
      PROVE  AllExplained'
  BY <1>2, <1>3, <1>q, QuietPoller
<1>4. CASE \E u \in Tasks : Poll(p, u)
  <2>1. PICK u \in Tasks : Poll(p, u)
    BY <1>4
  <2>n. PICK n : n = [IdlePoller EXCEPT !.at = "ask", !.cur = u]
    OBVIOUS
  <2>2. n.at = "ask"
    BY <2>n DEF IdlePoller
  <2>3. q.at = "idle" /\ poll' = [poll EXCEPT ![p] = n] /\ task' = task
    BY <1>q, <2>1, <2>n DEF Poll, At
  <2> QED BY <1>3, <2>2, <2>3
<1>5. CASE FetchSkips(p)
  <2>1. q.at = "ask" /\ poll' = [poll EXCEPT ![p] = IdlePoller] /\ task' = task
    BY <1>q, <1>5 DEF FetchSkips, At
  <2> QED BY <1>3, <2>1, TaskIdleTyped
<1>6. CASE SaveFails(p)
  <2>1. q.at = "save" /\ poll' = [poll EXCEPT ![p] = IdlePoller] /\ task' = task
    BY <1>q, <1>6 DEF SaveFails, At
  <2> QED BY <1>3, <2>1, TaskIdleTyped
<1>7. CASE Kill(p)
  <2>1. q.at # "rewrite"
    BY <1>q, <1>7 DEF Kill, Owed
  <2>2. poll' = [poll EXCEPT ![p] = IdlePoller] /\ task' = task
    BY <1>7 DEF Kill
  <2> QED BY <1>3, <2>1, <2>2, TaskIdleTyped
<1>8. CASE UserLegFails(p)
  <2>n. PICK n : n = Settled(q, FALSE)
    OBVIOUS
  <2>1. q.at = "user" /\ poll' = [poll EXCEPT ![p] = n] /\ task' = task
    BY <1>q, <1>8, <2>n DEF UserLegFails, At
  <2>2. n.at # "rewrite"
    BY <1>1, <2>n, TaskIdleTyped DEF Settled, Polls
  <2> QED BY <1>3, <2>1, <2>2
<1>9. ASSUME q.at \in {"ask", "save"},
             NEW n, poll' = [poll EXCEPT ![p] = n], n.at # "rewrite",
             NEW k, task' = [task EXCEPT ![t] = k],
             k.at = task[t].at, k.key = task[t].key /\ k.via = task[t].via, k.est = task[t].est, k.cost = task[t].cost
      PROVE  AllExplained'
  <2>1. \A u \in Tasks : task'[u] = IF u = t THEN k ELSE task[u]
    BY <1>1, <1>9 DEF TaskTypeOK
  <2>2. \A u \in Tasks : /\ task'[u].at = task[u].at /\ task'[u].key = task[u].key
                         /\ task'[u].est = task[u].est /\ task'[u].cost = task[u].cost
    BY <1>9, <2>1
  <2> QED BY <1>2, <1>9, <1>q, <2>2, QuietPoller
<1>10. CASE Fetch(p)
  <2>1. q.at = "ask"
    BY <1>q, <1>10 DEF Fetch, At
  <2>2. PICK ans \in Says(t) :
        /\ task' = [task EXCEPT ![t].up = ans]
        /\ poll' = [poll EXCEPT ![p].at = FirstStage(t, ans), ![p].ans = ans]
    BY <1>q, <1>t, <1>10 DEF Fetch
  <2>e. PICK e : e = task[t]
    OBVIOUS
  <2>3. t \in Tasks /\ e \in TaskRows
    BY <1>q, <1>t, <2>e, <2>1, AtWork
  <2>k. PICK k : k = [e EXCEPT !.up = ans]
    OBVIOUS
  <2>4. task' = [task EXCEPT ![t] = k]
    BY <2>2, <2>e, <2>k
  <2>5. k.at = e.at /\ k.key = e.key /\ k.via = e.via /\ k.est = e.est /\ k.cost = e.cost
    BY <2>3, <2>k DEF TaskRows
  <2>n. PICK n : n = [q EXCEPT !.at = FirstStage(t, ans), !.ans = ans]
    OBVIOUS
  <2>6. poll' = [poll EXCEPT ![p] = n]
    BY <1>q, <1>1, <2>2, <2>n DEF TaskTypeOK
  <2>7. n.at = FirstStage(t, ans)
    BY <1>1, <2>n DEF Polls
  <2>8. n.at # "rewrite"
    BY <2>7 DEF FirstStage
  <2> QED BY <1>9, <2>1, <2>4, <2>5, <2>6, <2>8, <2>e
<1>11. CASE Save(p)
  <2>1. q.at = "save"
    BY <1>q, <1>11 DEF Save, At
  <2>e. PICK e : e = task[t]
    OBVIOUS
  <2>2. t \in Tasks /\ e \in TaskRows
    BY <1>q, <1>t, <2>e, <2>1, AtWork
  <2>s. PICK s : s = Status(q.ans)
    OBVIOUS
  <2>c. PICK c : c = IF q.ans = "success" /\ q.moved THEN e.cost ELSE e.est
    OBVIOUS
  <2>k. PICK k : k = [e EXCEPT !.status = s, !.quota = c]
    OBVIOUS
  <2>3. task' = [task EXCEPT ![t].status = s, ![t].quota = c]
    BY <1>q, <1>t, <1>11, <2>e, <2>s, <2>c DEF Save
  <2>4. task' = [task EXCEPT ![t] = k]
    BY <1>1, <2>2, <2>3, <2>e, <2>k DEF TaskTypeOK
  <2>5. k.at = e.at /\ k.key = e.key /\ k.via = e.via /\ k.est = e.est /\ k.cost = e.cost
    BY <2>2, <2>k DEF TaskRows
  <2>n. PICK n : n = IF q.ans = "failure" /\ ~RefundsFirst(t) THEN [q EXCEPT !.at = "user"]
                     ELSE IdlePoller
    OBVIOUS
  <2>6. poll' = [poll EXCEPT ![p] = n]
    BY <1>q, <1>t, <1>11, <2>n DEF Save
  <2>7. n.at # "rewrite"
    BY <1>1, <2>n, TaskIdleTyped DEF Polls
  <2> QED BY <1>9, <2>1, <2>4, <2>5, <2>6, <2>7, <2>e
<1>12. CASE FailUnasked(p)
  <2>1. q.at = "ask"
    BY <1>q, <1>12 DEF FailUnasked, At
  <2>e. PICK e : e = task[t]
    OBVIOUS
  <2>2. t \in Tasks /\ e \in TaskRows
    BY <1>q, <1>t, <2>e, <2>1, AtWork
  <2>k. PICK k : k = [e EXCEPT !.status = "FAILURE"]
    OBVIOUS
  <2>3. task' = [task EXCEPT ![t] = k] /\ poll' = [poll EXCEPT ![p] = IdlePoller]
    BY <1>q, <1>t, <1>12, <2>e, <2>k DEF FailUnasked
  <2>4. k.at = e.at /\ k.key = e.key /\ k.via = e.via /\ k.est = e.est /\ k.cost = e.cost
    BY <2>2, <2>k DEF TaskRows
  <2> QED BY <1>9, <2>1, <2>3, <2>4, <2>e, TaskIdleTyped
<1> QED BY <1>4, <1>5, <1>6, <1>7, <1>8, <1>10, <1>11, <1>12

\* The user's leg moves no key and no consume row.
LEMMA UserLegInvoice ==
  ASSUME SettleInv, AllExplained, NEW p \in Pollers, UserLeg(p)
  PROVE  AllExplained'
<1>q. PICK q : q = poll[p]
  OBVIOUS
<1>t. PICK t : t = q.cur
  OBVIOUS
<1>e. PICK e : e = task[t]
  OBVIOUS
<1>1. TaskTypeOK /\ q \in Polls /\ q.at = "user"
  BY <1>q DEF SettleInv, TaskTypeOK, UserLeg, At
<1>2. t \in Tasks /\ e \in TaskRows
  BY <1>q, <1>t, <1>e, <1>1, AtWork
<1>3. \A k \in Keys : Over(k)' = Over(k)
  BY OverKept DEF UserLeg
<1>a. PICK a, b : a = e.user + Delta(p) /\ b = IF q.ans = "failure" THEN e.refunds + 1 ELSE e.refunds
  OBVIOUS
<1>k. PICK k : k = [e EXCEPT !.user = a, !.refunds = b]
  OBVIOUS
<1>4. task' = [task EXCEPT ![t].user = a, ![t].refunds = b]
  BY <1>q, <1>t, <1>e, <1>a DEF UserLeg
<1>5. task' = [task EXCEPT ![t] = k]
  BY <1>1, <1>2, <1>4, <1>e, <1>k DEF TaskTypeOK
<1>6. k.at = e.at /\ k.key = e.key /\ k.via = e.via /\ k.est = e.est /\ k.cost = e.cost
  BY <1>2, <1>k DEF TaskRows
<1>7. PICK r, n : /\ poll' = [poll EXCEPT ![p] = n]
                  /\ n = IF r = 0 THEN Settled(q, TRUE) ELSE [q EXCEPT !.at = "key", !.row = r]
  BY <1>q, <1>t, <1>e DEF UserLeg
<1>8. n.at # "rewrite"
  BY <1>1, <1>7, TaskIdleTyped DEF Settled, Polls
<1>9. \A u \in Tasks : /\ task'[u].at = task[u].at /\ task'[u].key = task[u].key
                       /\ task'[u].est = task[u].est /\ task'[u].cost = task[u].cost
  <2>1. \A u \in Tasks : task'[u] = IF u = t THEN k ELSE task[u]
    BY <1>1, <1>5 DEF TaskTypeOK
  <2> QED BY <1>6, <1>e, <2>1
<1> QED BY <1>q, <1>1, <1>3, <1>7, <1>8, <1>9, QuietPoller

\* creditTaskLedgers moves what the key has been handed back with what it has paid;
\* the rest of PostConsumeQuota makes its task owe the difference to the consume row.
LEMMA KeyLegInvoice ==
  ASSUME SettleInv, SettleInv', Orderly, Payers, AllExplained, NEW p \in Pollers, KeyLeg(p)
  PROVE  AllExplained'
<1>q. PICK q : q = poll[p]
  OBVIOUS
<1>t. PICK t : t = q.cur
  OBVIOUS
<1>e. PICK e : e = task[t]
  OBVIOUS
<1>d. PICK d : d = Delta(p)
  OBVIOUS
<1>1. TaskTypeOK /\ TaskTypeOK' /\ q \in Polls /\ q.at = "key" /\ Found(q)
  BY <1>q DEF SettleInv, TaskTypeOK, KeyLeg, At, Payers
<1>2. t \in Tasks /\ e \in TaskRows /\ Stage(q, e) /\ e.est \in Nat /\ e.cost \in Nat
  BY <1>q, <1>t, <1>e, <1>1, AtWork
<1>3. e.at = "done" /\ log[q.row].key = e.key /\ e.key \in Keys
  BY <1>q, <1>t, <1>e, <1>1, <1>2 DEF Found, SettleInv, TaskOK, RowOK
<1>4. d = (IF q.ans = "failure" THEN -e.est ELSE e.cost - e.est) /\ d \in Int
  BY <1>q, <1>t, <1>e, <1>d, <1>2 DEF Delta
<1>5. /\ paid' = [paid EXCEPT ![e.key] = @ + d] /\ log' = log /\ task' = task
      /\ returned' = IF q.ans = "failure" THEN [returned EXCEPT ![e.key] = @ - d] ELSE returned
      /\ poll' = [poll EXCEPT ![p] = KeyDone(q)]
  BY <1>q, <1>d, <1>3 DEF KeyLeg
<1>6. ASSUME NEW k \in Keys
      PROVE  Over(k)' = IF k = e.key /\ q.ans # "failure" THEN Over(k) + d ELSE Over(k)
  <2>1. Invoiced(k)' = Invoiced(k)
    BY <1>5 DEF Invoiced, Total
  <2>2. paid[k] \in Int /\ returned[k] \in Int /\ Invoiced(k) \in Int
    BY <1>1, InvoiceTyped
  <2>3. /\ paid'[k] = IF k = e.key THEN paid[k] + d ELSE paid[k]
        /\ returned'[k] = IF k = e.key /\ q.ans = "failure" THEN returned[k] - d ELSE returned[k]
    BY <1>1, <1>5 DEF TaskTypeOK
  <2> QED BY <1>4, <2>1, <2>2, <2>3 DEF Over
<1>n. PICK n : n = KeyDone(q)
  OBVIOUS
<1>7. CASE q.ans = "failure"
  <2>1. n.at # "rewrite"
    BY <1>1, <1>7, <1>n, TaskIdleTyped DEF KeyDone, Settled, Polls
  <2>2. \A k \in Keys : Over(k)' = Over(k)
    BY <1>6, <1>7
  <2> QED BY <1>q, <1>n, <1>1, <1>5, <2>1, <2>2, QuietPoller
<1>8. CASE q.ans # "failure"
  <2>1. q.ans = "success"
    BY <1>1, <1>2, <1>8 DEF Stage
  <2>2. n.at = "rewrite" /\ n.cur = t
    BY <1>1, <1>t, <1>n, <2>1 DEF KeyDone, Polls
  <2> SUFFICES ASSUME NEW k \in Keys
               PROVE  Explained(Over(k)', [u \in Tasks |-> Owing(u, k)'])
    BY ExplainedNext
  <2>3. /\ \A u \in Tasks \ {t} : Rewriting(u)' <=> Rewriting(u)
        /\ ~Rewriting(t) /\ Rewriting(t)'
    <3>1. poll'[p] = n /\ \A r \in Pollers \ {p} : poll'[r] = poll[r]
      BY <1>1, <1>5, <1>n DEF TaskTypeOK
    <3>2. \A r \in Pollers \ {p} : poll[r].cur # t
      BY <1>q, <1>t, <1>2, OneHolder DEF Orderly, Payers
    <3> QED BY <1>q, <1>t, <1>1, <2>2, <3>1, <3>2 DEF Rewriting
  <2>9. \A u \in Tasks \ {t} : Owing(u, k)' = Owing(u, k)
    BY <1>5, <2>3 DEF Owing, Share
  <2>4. Owing(t, k) = 0 /\ Owing(t, k)' = IF k = e.key THEN d ELSE 0
    BY <1>3, <1>4, <1>5, <1>8, <1>e, <2>3 DEF Owing, Share
  <2>5. Over(k)' = IF k = e.key THEN Over(k) + d ELSE Over(k)
    BY <1>6, <1>8
  <2>6. Over(k) \in Int
    BY <1>1, InvoiceTyped
  <2>7. Over(k)' - Over(k) = Owing(t, k)' - Owing(t, k)
    BY <1>4, <2>4, <2>5, <2>6
  <2>8. Explained(Over(k), [u \in Tasks |-> Owing(u, k)])
    BY DEF AllExplained
  <2> QED BY <1>1, <1>2, <2>7, <2>8, <2>9, OwingStep
<1> QED BY <1>7, <1>8

\* A charge that is taken back whole.
LEMMA KeyLegFailsInvoice ==
  ASSUME SettleInv, AllExplained, NEW p \in Pollers, KeyLegFails(p), lost' = {}
  PROVE  AllExplained'
<1>q. PICK q : q = poll[p]
  OBVIOUS
<1>t. PICK t : t = q.cur
  OBVIOUS
<1>e. PICK e : e = task[t]
  OBVIOUS
<1>1. TaskTypeOK /\ q \in Polls /\ q.at = "key"
  BY <1>q DEF SettleInv, TaskTypeOK, KeyLegFails, At
<1>2. t \in Tasks /\ e \in TaskRows
  BY <1>q, <1>t, <1>e, <1>1, AtWork
<1>3. \A k \in Keys : Over(k)' = Over(k)
  BY OverKept DEF KeyLegFails
<1>k. PICK k : k = [e EXCEPT !.user = e.user - Delta(p)]
  OBVIOUS
<1>n. PICK n : n = Settled(q, FALSE)
  OBVIOUS
<1>4. task' = [task EXCEPT ![t] = k] /\ poll' = [poll EXCEPT ![p] = n]
  <2>1. /\ task' = [task EXCEPT ![t].user = @ - Delta(p)]
        /\ poll' = [poll EXCEPT ![p] = n]
    BY <1>q, <1>t, <1>n DEF KeyLegFails
  <2> QED BY <1>1, <1>2, <1>e, <1>k, <2>1 DEF TaskTypeOK
<1>5. k.at = e.at /\ k.key = e.key /\ k.via = e.via /\ k.est = e.est /\ k.cost = e.cost
  BY <1>2, <1>k DEF TaskRows
<1>6. n.at # "rewrite"
  BY <1>1, <1>n, TaskIdleTyped DEF Settled, Polls
<1>7. \A u \in Tasks : /\ task'[u].at = task[u].at /\ task'[u].key = task[u].key
                       /\ task'[u].est = task[u].est /\ task'[u].cost = task[u].cost
  <2>1. \A u \in Tasks : task'[u] = IF u = t THEN k ELSE task[u]
    BY <1>1, <1>4 DEF TaskTypeOK
  <2> QED BY <1>5, <1>e, <2>1
<1> QED BY <1>q, <1>1, <1>3, <1>4, <1>6, <1>7, QuietPoller

\* rewriteTaskConsumeRow: the row had the estimate, whichever task's it was, and now
\* has what the key of the task has paid.
LEMMA RewriteInvoice ==
  ASSUME SettleInv, SettleInv', Orderly, Payers, AllExplained, NEW p \in Pollers, Rewrite(p)
  PROVE  AllExplained'
<1>q. PICK q : q = poll[p]
  OBVIOUS
<1>t. PICK t : t = q.cur
  OBVIOUS
<1>e. PICK e : e = task[t]
  OBVIOUS
<1>i. PICK i : i = q.row
  OBVIOUS
<1>1. q.at = "rewrite" /\ TaskTypeOK /\ TaskTypeOK' /\ Found(q)
  BY <1>q DEF Rewrite, At, SettleInv, Payers
<1>2. /\ t \in Tasks /\ q \in Polls /\ e \in TaskRows /\ Stage(q, e) /\ i \in DOMAIN log
      /\ e.est \in Nat /\ e.cost \in Nat
  BY <1>q, <1>t, <1>e, <1>i, <1>1, AtWork
<1>3. q.ans = "success" /\ e.kind = "video"
  BY <1>1, <1>2 DEF Stage
<1>4. log[i].key = e.key /\ log[i].quota = e.est /\ e.at = "done"
  BY <1>t, <1>e, <1>i, <1>1, <1>3 DEF Found, Entry
<1>n. PICK n : n = [q EXCEPT !.at = "save", !.moved = TRUE]
  OBVIOUS
<1>5. n.at = "save" /\ n.cur = t /\ Settled(q, TRUE) = n
  BY <1>2, <1>3, <1>n, <1>t DEF Polls, Settled
<1>6. /\ poll' = [poll EXCEPT ![p] = n] /\ task' = task /\ paid' = paid /\ returned' = returned
      /\ log' = [log EXCEPT ![i].quota = e.cost]
  BY <1>q, <1>t, <1>e, <1>i, <1>5 DEF Rewrite
<1>7. /\ DOMAIN log' = DOMAIN log /\ Len(log') = Len(log)
      /\ log'[i].key = e.key /\ log'[i].quota = e.cost
      /\ \A j \in DOMAIN log : j # i => log'[j] = log[j]
  <2>2. log[i] \in [key : Keys, quota : Nat, chan : Channels] /\ log \in Seq([key : Keys, quota : Nat, chan : Channels])
    BY <1>1, <1>2, LogTyped DEF TaskTypeOK
  <2>3. log'[i] = [log[i] EXCEPT !.quota = e.cost]
    BY <1>2, <1>6, <2>2
  <2>4. log'[i].key = log[i].key /\ log'[i].quota = e.cost
    BY <2>2, <2>3
  <2>5. DOMAIN log' = DOMAIN log /\ \A j \in DOMAIN log : j # i => log'[j] = log[j]
    BY <1>6, <2>2
  <2>6. log' \in Seq([key : Keys, quota : Nat, chan : Channels])
    BY <1>1 DEF TaskTypeOK
  <2>7. Len(log') = Len(log)
    BY <2>2, <2>5, <2>6
  <2> QED BY <1>4, <2>4, <2>5, <2>7
<1>8. ASSUME NEW k \in Keys
      PROVE  Invoiced(k)' = IF k = e.key THEN Invoiced(k) + e.cost - e.est ELSE Invoiced(k)
  <2>m. PICK m \in Nat : m = Len(log) /\ DOMAIN log = 1 .. m
    BY <1>1 DEF TaskTypeOK
  <2>a. PICK a : a = [j \in DOMAIN log |-> IF log[j].key = k THEN log[j].quota ELSE 0]
    OBVIOUS
  <2>b. PICK b : b = [j \in DOMAIN log |-> IF log'[j].key = k THEN log'[j].quota ELSE 0]
    OBVIOUS
  <2>1. Invoiced(k) = Total(a, m) /\ Invoiced(k)' = Total(b, m)
    BY <1>7, <2>m, <2>a, <2>b DEF Invoiced, Total
  <2>2. Numbers(a, m)
    <3>1. \A j \in DOMAIN log : log[j].quota \in Nat
      BY <1>1, LogTyped
    <3> QED BY <2>m, <2>a, <3>1 DEF Numbers
  <2>3. /\ a[i] = (IF k = e.key THEN e.est ELSE 0) /\ b[i] = (IF k = e.key THEN e.cost ELSE 0)
        /\ b[i] \in Int /\ i \in 1 .. m
    BY <1>2, <1>4, <1>7, <2>m, <2>a, <2>b
  <2>4. Agree(a, b, (1 .. m) \ {i})
    BY <1>7, <2>m, <2>a, <2>b DEF Agree
  <2>5. Total(b, m) = Total(a, m) + b[i] - a[i] /\ Total(a, m) \in Int
    BY <2>2, <2>3, <2>4, TotalUpdate, TotalIs
  <2> QED BY <1>2, <2>1, <2>3, <2>5
<1>9. /\ \A u \in Tasks \ {t} : Rewriting(u)' <=> Rewriting(u)
      /\ Rewriting(t) /\ ~Rewriting(t)'
  <2>1. poll'[p] = n /\ \A r \in Pollers \ {p} : poll'[r] = poll[r]
    BY <1>1, <1>6 DEF TaskTypeOK
  <2>2. \A r \in Pollers \ {p} : poll[r].cur # t
    BY <1>q, <1>t, <1>2, OneHolder DEF Orderly, Payers
  <2> QED BY <1>q, <1>t, <1>1, <1>5, <2>1, <2>2 DEF Rewriting
<1> SUFFICES ASSUME NEW k \in Keys
             PROVE  Explained(Over(k)', [u \in Tasks |-> Owing(u, k)'])
  BY ExplainedNext
<1>10. \A u \in Tasks \ {t} : Owing(u, k)' = Owing(u, k)
  BY <1>6, <1>9 DEF Owing, Share
<1>11. Owing(t, k)' = 0 /\ Owing(t, k) = IF k = e.key THEN e.cost - e.est ELSE 0
  BY <1>4, <1>6, <1>9, <1>e DEF Owing, Share
<1>12. Over(k)' - Over(k) = Owing(t, k)' - Owing(t, k)
  <2>1. paid[k] \in Int /\ returned[k] \in Int /\ Invoiced(k) \in Int
    BY <1>1, InvoiceTyped
  <2> QED BY <1>2, <1>6, <1>8, <1>11, <2>1 DEF Over
<1>13. Explained(Over(k), [u \in Tasks |-> Owing(u, k)])
  BY DEF AllExplained
<1> QED BY <1>1, <1>2, <1>10, <1>12, <1>13, OwingStep

\* A task that is not recorded yet is in no settlement.
LEMMA NotRewriting ==
  ASSUME SettleInv, Payers, NEW t \in Tasks, task[t].at # "done"
  PROVE  ~Rewriting(t)
  BY DEF Payers, Found, Rewriting

\* The steps of a submission before its charge.
LEMMA SubmitInvoice ==
  ASSUME SettleInv, Orderly, Payers, AllExplained, NEW t \in Tasks, NEW o \in Offers[t],
         Submit(t, o) \/ SubmitFails(t, o)
  PROVE  AllExplained'
<1>1. task[t].at = "none" /\ poll' = poll /\ TaskTypeOK
  BY DEF Submit, SubmitFails, SettleInv
<1>2. PICK k : task' = [task EXCEPT ![t] = k] /\ k.at \in {"charge", "dead"}
  <2>i. PICK c, d : c = Inserted(o, "charge") /\ d = Inserted(o, "dead")
    OBVIOUS
  <2>1. /\ c \in TaskRows /\ c.at = "charge"
        /\ d \in TaskRows /\ d.at = "dead"
    BY <2>i, InsertedTyped
  <2>2. CASE Submit(t, o)
    BY <2>i, <2>1, <2>2 DEF Submit
  <2>3. CASE SubmitFails(t, o)
    <3>1. task' = [task EXCEPT ![t] = [Inserted(o, IF o.kind = "mj" THEN "charge" ELSE "dead")
                                         EXCEPT !.status = "none", !.quota = 0]]
      BY <2>3 DEF SubmitFails
    <3>k. PICK k : k = [Inserted(o, IF o.kind = "mj" THEN "charge" ELSE "dead")
                          EXCEPT !.status = "none", !.quota = 0]
      OBVIOUS
    <3>2. CASE o.kind = "mj"
      <4>1. k = [c EXCEPT !.status = "none", !.quota = 0]
        BY <2>i, <3>k, <3>2
      <4>2. k.at = "charge"
        BY <2>1, <4>1 DEF TaskRows
      <4> QED BY <3>1, <3>k, <4>2
    <3>3. CASE o.kind # "mj"
      <4>1. k = [d EXCEPT !.status = "none", !.quota = 0]
        BY <2>i, <3>k, <3>3
      <4>2. k.at = "dead"
        BY <2>1, <4>1 DEF TaskRows
      <4> QED BY <3>1, <3>k, <4>2
    <3> QED BY <3>2, <3>3
  <2> QED BY <2>2, <2>3
<1>3. task'[t] = k /\ \A u \in Tasks \ {t} : task'[u] = task[u]
  BY <1>1, <1>2 DEF TaskTypeOK
<1>4. ~Rewriting(t) /\ \A u \in Tasks : Rewriting(u)' <=> Rewriting(u)
  <2>1. ~Rewriting(t)
    BY <1>1, NotRewriting
  <2> QED BY <1>1, <2>1 DEF Rewriting
<1>5. \A j \in Keys, u \in Tasks : Owing(u, j)' = Owing(u, j)
  <2> TAKE j \in Keys, u \in Tasks
  <2>1. CASE u = t
    BY <1>1, <1>2, <1>3, <1>4, <2>1 DEF Owing, Share
  <2>2. CASE u # t
    BY <1>3, <1>4, <2>2 DEF Owing, Share
  <2> QED BY <2>1, <2>2
<1>6. \A j \in Keys : Over(j)' = Over(j)
  BY OverKept DEF Submit, SubmitFails
<1> QED BY <1>5, <1>6, NothingOwed

\* PostConsumeQuota makes its task owe a consume row, and RecordConsumeLog writes it.
LEMMA ChargeInvoice ==
  ASSUME SettleInv, SettleInv', Orderly, Payers, AllExplained, NEW t \in Tasks,
         ChargeTask(t) \/ Record(t)
  PROVE  AllExplained'
<1>e. PICK e : e = task[t]
  OBVIOUS
<1>1. TaskTypeOK /\ TaskTypeOK' /\ poll' = poll /\ e.at \in {"charge", "log"}
  BY <1>e DEF SettleInv, ChargeTask, Record
<1>2. e \in TaskRows /\ e.est \in Nat /\ e.user \in Int /\ e.key \in Keys /\ e.via \in Channels
  BY <1>e, <1>1, TaskFields DEF SettleInv, TaskOK, RowOK
<1>3. ~Rewriting(t) /\ \A u \in Tasks : Rewriting(u)' <=> Rewriting(u)
  <2>1. ~Rewriting(t)
    BY <1>e, <1>1, NotRewriting
  <2> QED BY <1>1, <2>1 DEF Rewriting
<1>4. ASSUME NEW f, task' = [task EXCEPT ![t] = f], f.key = e.key, f.est = e.est,
             NEW d \in Int, NEW c \in Int,
             c = (IF e.at = "log" THEN e.est ELSE 0), d = (IF f.at = "log" THEN e.est ELSE 0),
             \A k \in Keys : Over(k)' = IF k = e.key THEN Over(k) + d - c ELSE Over(k)
      PROVE  AllExplained'
  <2> SUFFICES ASSUME NEW k \in Keys
               PROVE  Explained(Over(k)', [u \in Tasks |-> Owing(u, k)'])
    BY ExplainedNext
  <2>1. task'[t] = f /\ \A u \in Tasks \ {t} : task'[u] = task[u]
    BY <1>1, <1>4 DEF TaskTypeOK
  <2>2. \A u \in Tasks \ {t} : Owing(u, k)' = Owing(u, k)
    BY <1>3, <2>1 DEF Owing, Share
  <2>3. /\ Owing(t, k) = (IF k = e.key THEN c ELSE 0)
        /\ Owing(t, k)' = (IF k = e.key THEN d ELSE 0)
    BY <1>e, <1>3, <1>4, <2>1 DEF Owing, Share
  <2>4. Over(k)' - Over(k) = Owing(t, k)' - Owing(t, k)
    <3>1. Over(k) \in Int
      BY <1>1, InvoiceTyped
    <3> QED BY <1>4, <2>3, <3>1
  <2>5. Explained(Over(k), [u \in Tasks |-> Owing(u, k)])
    BY DEF AllExplained
  <2> QED BY <1>1, <2>2, <2>4, <2>5, OwingStep
<1>5. CASE ChargeTask(t)
  <2>f. PICK f : f = [e EXCEPT !.at = "log", !.user = e.user + e.est]
    OBVIOUS
  <2>1. /\ task' = [task EXCEPT ![t] = f] /\ e.at = "charge"
        /\ paid' = [paid EXCEPT ![e.key] = @ + e.est] /\ UNCHANGED <<returned, log>>
    BY <1>e, <1>1, <1>5, <2>f DEF ChargeTask, TaskTypeOK
  <2>2. f.at = "log" /\ f.key = e.key /\ f.est = e.est
    BY <1>2, <2>f DEF TaskRows
  <2>3. ASSUME NEW k \in Keys
        PROVE  Over(k)' = IF k = e.key THEN Over(k) + e.est - 0 ELSE Over(k)
    <3>1. paid[k] \in Int /\ returned[k] \in Int /\ Invoiced(k) \in Int
      BY <1>1, InvoiceTyped
    <3>2. Invoiced(k)' = Invoiced(k)
      BY <2>1 DEF Invoiced, Total
    <3>3. paid'[k] = (IF k = e.key THEN paid[k] + e.est ELSE paid[k]) /\ returned'[k] = returned[k]
      BY <1>1, <2>1 DEF TaskTypeOK
    <3> QED BY <1>2, <3>1, <3>2, <3>3 DEF Over
  <2>4. e.est \in Int /\ 0 \in Int /\ 0 = (IF e.at = "log" THEN e.est ELSE 0)
        /\ e.est = (IF f.at = "log" THEN e.est ELSE 0)
    BY <1>2, <2>1, <2>2
  <2> QED BY <1>4, <2>1, <2>2, <2>3, <2>4
<1>6. CASE Record(t)
  <2>f. PICK f : f = [e EXCEPT !.at = "done"]
    OBVIOUS
  <2>r. PICK r : r = [key |-> e.key, quota |-> e.est, chan |-> e.via]
    OBVIOUS
  <2>1. /\ task' = [task EXCEPT ![t] = f] /\ e.at = "log"
        /\ log' = Append(log, r) /\ UNCHANGED <<paid, returned>>
    BY <1>e, <1>1, <1>6, <2>f, <2>r DEF Record, TaskTypeOK
  <2>2. f.at = "done" /\ f.key = e.key /\ f.est = e.est
    BY <1>2, <2>f DEF TaskRows
  <2>m. PICK m \in Nat : m = Len(log) /\ DOMAIN log = 1 .. m
    BY <1>1 DEF TaskTypeOK
  <2>3. /\ DOMAIN log' = 1 .. (m + 1) /\ Len(log') = m + 1 /\ log'[m + 1] = r
        /\ \A j \in 1 .. m : log'[j] = log[j]
    BY <1>1, <2>1, <2>m DEF TaskTypeOK
  <2>4. ASSUME NEW k \in Keys
        PROVE  Over(k)' = IF k = e.key THEN Over(k) + 0 - e.est ELSE Over(k)
    <3>1. paid[k] \in Int /\ returned[k] \in Int /\ Invoiced(k) \in Int
      BY <1>1, InvoiceTyped
    <3>a. PICK a : a = [j \in DOMAIN log |-> IF log[j].key = k THEN log[j].quota ELSE 0]
      OBVIOUS
    <3>b. PICK b : b = [j \in 1 .. (m + 1) |-> IF log'[j].key = k THEN log'[j].quota ELSE 0]
      OBVIOUS
    <3>2. Invoiced(k) = Total(a, m) /\ Invoiced(k)' = Total(b, m + 1)
      BY <2>3, <2>m, <3>a, <3>b DEF Invoiced, Total
    <3>3. Numbers(a, m)
      <4>1. \A j \in DOMAIN log : log[j].quota \in Nat
        BY <1>1, LogTyped
      <4> QED BY <2>m, <3>a, <4>1 DEF Numbers
    <3>4. b[m + 1] = (IF k = e.key THEN e.est ELSE 0) /\ b[m + 1] \in Int
      <4>1. log'[m + 1].key = e.key /\ log'[m + 1].quota = e.est
        BY <2>3, <2>r
      <4> QED BY <1>2, <3>b, <4>1
    <3>5. Agree(a, b, 1 .. m)
      BY <2>3, <2>m, <3>a, <3>b DEF Agree
    <3>6. Total(b, m + 1) = Total(a, m) + b[m + 1]
      BY <3>3, <3>4, <3>5, TotalStep
    <3>7. Invoiced(k)' = IF k = e.key THEN Invoiced(k) + e.est ELSE Invoiced(k)
      BY <3>1, <3>2, <3>4, <3>6
    <3>8. paid'[k] = paid[k] /\ returned'[k] = returned[k]
      BY <2>1
    <3> QED BY <1>2, <3>1, <3>7, <3>8 DEF Over
  <2>5. e.est \in Int /\ 0 \in Int /\ e.est = (IF e.at = "log" THEN e.est ELSE 0)
        /\ 0 = (IF f.at = "log" THEN e.est ELSE 0)
    BY <1>2, <2>1, <2>2
  <2> QED BY <1>4, <2>1, <2>2, <2>4, <2>5
<1> QED BY <1>5, <1>6

\* The endpoints move nothing.
LEMMA LookInvoice ==
  ASSUME SettleInv, AllExplained, NEW h \in Handlers,
         (\E t \in Tasks : Look(h, t)) \/ LookSaves(h), crossed' = {}
  PROVE  AllExplained'
<1>1. \A k \in Keys : Over(k)' = Over(k)
  BY OverKept DEF Look, LookSaves
<1>2. poll' = poll
  BY DEF Look, LookSaves
<1>3. \A u \in Tasks : /\ task'[u].at = task[u].at /\ task'[u].key = task[u].key
                       /\ task'[u].est = task[u].est /\ task'[u].cost = task[u].cost
  BY LookKeeps
<1>4. \A k \in Keys, u \in Tasks : Owing(u, k)' = Owing(u, k)
  BY <1>2, <1>3 DEF Owing, Share, Rewriting
<1> QED BY <1>1, <1>4, NothingOwed

\* What goes wrong is not undone.
LEMMA CleanBack == TaskNext /\ Clean' => Clean
<1> SUFFICES ASSUME TaskNext, Clean'
             PROVE  Clean
  OBVIOUS
<1>1. Orderly
  BY OrderlyBack DEF Clean
<1>2. uncharged \subseteq uncharged' /\ lost \subseteq lost'
  <2>1. ASSUME NEW t \in Tasks, Submission(t)
        PROVE  uncharged \subseteq uncharged' /\ lost \subseteq lost'
    BY <2>1 DEF Submission, Submit, SubmitUncharged, SubmitFails, ChargeTask, ChargeFails, Record,
                SubmitDies, ghosts
  <2>2. ASSUME NEW p \in Pollers, NEW t \in Tasks, Poll(p, t)
        PROVE  uncharged \subseteq uncharged' /\ lost \subseteq lost'
    BY <2>2 DEF Poll
  <2>3. ASSUME NEW p \in Pollers, Poller(p)
        PROVE  uncharged \subseteq uncharged' /\ lost \subseteq lost'
    BY <2>3 DEF Poller, FailUnasked, Fetch, FetchSkips, UserLeg, UserLegFails, KeyLeg,
                KeyLegFails, Rewrite, RewriteFails, Save, SaveFails, ghosts
  <2>4. ASSUME NEW p \in Pollers, Kill(p)
        PROVE  uncharged \subseteq uncharged' /\ lost \subseteq lost'
    BY <2>4 DEF Kill
  <2>5. ASSUME NEW h \in Handlers, (\E t \in Tasks : Look(h, t)) \/ LookSaves(h)
        PROVE  uncharged \subseteq uncharged' /\ lost \subseteq lost'
    BY <2>5 DEF Look, LookSaves, ghosts
  <2> QED BY <2>1, <2>2, <2>3, <2>4, <2>5 DEF TaskNext
<1> QED BY <1>1, <1>2 DEF Clean

\* Nothing has been paid and nothing invoiced.
LEMMA TaskInitInvoice == TaskInit => InvoiceInv
<1> SUFFICES ASSUME TaskInit
             PROVE  InvoiceInv
  OBVIOUS
<1>1. PayerInv /\ TaskTypeOK
  BY TaskInitPayer DEF PayerInv, SettleInv
<1>2. ASSUME NEW k \in Keys
      PROVE  Explained(Over(k), [t \in Tasks |-> Owing(t, k)])
  <2>g. PICK g : g = [t \in Tasks |-> Owing(t, k)]
    OBVIOUS
  <2>1. \A t \in Tasks : Owing(t, k) = 0
    <3>1. \A t \in Tasks : task[t] = None
      BY DEF TaskInit
    <3>2. \A t \in Tasks : ~Rewriting(t)
      BY TaskIdleTyped DEF TaskInit, Rewriting
    <3> QED BY <3>1, <3>2, TaskIdleTyped DEF Owing, Share
  <2>2. g \in [Tasks -> Int] /\ \A t \in Tasks : g[t] = 0
    BY <2>g, <2>1
  <2>a. PICK a : a = [i \in DOMAIN log |-> IF log[i].key = k THEN log[i].quota ELSE 0]
    OBVIOUS
  <2>3. Invoiced(k) = 0
    <3>1. Len(log) = 0
      BY DEF TaskInit
    <3>2. Total(a, 0) = 0
      BY TotalZero
    <3> QED BY <2>a, <3>1, <3>2 DEF Invoiced
  <2>4. Over(k) = 0
    BY <2>3 DEF Over, TaskInit
  <2> QED BY <2>g, <2>2, <2>4, ExplainedZero
<1> QED BY <1>1, <1>2 DEF InvoiceInv, AllExplained

\* Every step keeps the accounts explained, or spoils a poll on record.
LEMMA TaskNextInvoice == InvoiceInv /\ [TaskNext]_taskVars => InvoiceInv'
<1> SUFFICES ASSUME InvoiceInv, [TaskNext]_taskVars
             PROVE  InvoiceInv'
  OBVIOUS
<1>1. PayerInv /\ PayerInv' /\ SettleInv /\ SettleInv'
  BY TaskNextPayer DEF InvoiceInv, PayerInv
<1>2. CASE UNCHANGED taskVars
  <2>1. Clean' = Clean
    BY <1>2 DEF taskVars, ghosts, Clean, Orderly
  <2>2. ASSUME AllExplained PROVE AllExplained'
    <3>1. \A k \in Keys : Over(k)' = Over(k)
      BY <1>2, OverKept DEF taskVars
    <3>2. \A k \in Keys, u \in Tasks : Owing(u, k)' = Owing(u, k)
      BY <1>2 DEF taskVars, Owing, Share, Rewriting
    <3> QED BY <2>2, <3>1, <3>2, NothingOwed
  <2> QED BY <1>1, <2>1, <2>2 DEF InvoiceInv
<1>3. CASE TaskNext
  <2> SUFFICES ASSUME Clean'
               PROVE  AllExplained'
    BY <1>1 DEF InvoiceInv
  <2>1. Clean /\ AllExplained /\ Orderly /\ Payers
    BY <1>1, <1>3, CleanBack DEF InvoiceInv, Clean, PayerInv
  <2>2. uncharged' = {} /\ lost' = {} /\ crossed' = {}
    BY DEF Clean, Orderly
  <2>3. ASSUME NEW t \in Tasks, Submission(t)
        PROVE  AllExplained'
    <3>1. CASE \E o \in Offers[t] : Submit(t, o) \/ SubmitFails(t, o)
      BY <1>1, <2>1, <3>1, SubmitInvoice
    <3>2. CASE ChargeTask(t) \/ Record(t)
      BY <1>1, <2>1, <3>2, ChargeInvoice
    <3>3. ~ChargeFails(t) /\ ~SubmitDies(t) /\ \A o \in Offers[t] : ~SubmitUncharged(t, o)
      BY <2>2 DEF ChargeFails, SubmitDies, SubmitUncharged
    <3> QED BY <2>3, <3>1, <3>2, <3>3 DEF Submission
  <2>4. ASSUME NEW p \in Pollers, NEW t \in Tasks, Poll(p, t)
        PROVE  AllExplained'
    BY <1>1, <2>1, <2>2, <2>4, QuietSteps
  <2>5. ASSUME NEW p \in Pollers, Poller(p)
        PROVE  AllExplained'
    <3>1. CASE FailUnasked(p) \/ Fetch(p) \/ FetchSkips(p) \/ UserLegFails(p) \/ Save(p) \/ SaveFails(p)
      BY <1>1, <2>1, <2>2, <3>1, QuietSteps
    <3>2. CASE UserLeg(p)
      BY <1>1, <2>1, <3>2, UserLegInvoice
    <3>3. CASE KeyLeg(p)
      BY <1>1, <2>1, <3>3, KeyLegInvoice
    <3>4. CASE KeyLegFails(p)
      BY <1>1, <2>1, <2>2, <3>4, KeyLegFailsInvoice
    <3>5. CASE Rewrite(p)
      BY <1>1, <2>1, <3>5, RewriteInvoice
    <3>6. ~RewriteFails(p)
      BY <2>2 DEF RewriteFails
    <3> QED BY <2>5, <3>1, <3>2, <3>3, <3>4, <3>5, <3>6 DEF Poller
  <2>6. ASSUME NEW p \in Pollers, Kill(p)
        PROVE  AllExplained'
    BY <1>1, <2>1, <2>2, <2>6, QuietSteps
  <2>7. ASSUME NEW h \in Handlers, (\E t \in Tasks : Look(h, t)) \/ LookSaves(h)
        PROVE  AllExplained'
    BY <1>1, <2>1, <2>2, <2>7, LookInvoice
  <2> QED BY <1>3, <2>3, <2>4, <2>5, <2>6, <2>7 DEF TaskNext
<1> QED BY <1>2, <1>3

\* For any number of tasks, keys, amounts and replicas: when everything is at rest, no
\* two replicas polled together and nothing is on record as lost, the consume rows of
\* every key add up to what it has paid, refunds of failed tasks apart, though a
\* settlement may have rewritten the row of another task (rewriteTaskConsumeRow).
THEOREM InvoiceCorrect == TaskSpec => []InvoiceExplains
<1>1. InvoiceInv => InvoiceExplains
  <2> SUFFICES ASSUME InvoiceInv, \A t \in Tasks : AtRest(t), ~overlap,
                      unsaved \cup uncharged \cup lost \cup unlogged \cup missed
                        \cup crossed = {}, NEW k \in Keys
               PROVE  paid[k] + returned[k] = Invoiced(k)
    BY DEF InvoiceExplains
  <2>1. Clean /\ TaskTypeOK
    BY DEF Clean, Orderly, InvoiceInv, PayerInv, SettleInv
  <2>g. PICK g : g = [t \in Tasks |-> Owing(t, k)]
    OBVIOUS
  <2>2. \A t \in Tasks : Owing(t, k) = 0
    BY DEF AtRest, Has, Owing, Share, Rewriting
  <2>3. g \in [Tasks -> Int] /\ \A t \in Tasks : g[t] = 0
    BY <2>g, <2>2
  <2>4. Explained(Over(k), g)
    BY <2>1, <2>g DEF InvoiceInv, AllExplained
  <2>5. Over(k) = 0
    BY <2>3, <2>4, ExplainedZero
  <2>6. paid[k] \in Int /\ returned[k] \in Int /\ Invoiced(k) \in Int
    BY <2>1, InvoiceTyped
  <2> QED BY <2>5, <2>6 DEF Over
<1> QED BY <1>1, TaskInitInvoice, TaskNextInvoice, PTL DEF TaskSpec
=============================================================================
