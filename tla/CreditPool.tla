------------------------------ MODULE CreditPool ------------------------------
(***************************************************************************)
(* A tenant's credit pool: the row of tenant_credit_pools, the ledger of   *)
(* its draws, the gate in front of the relay, the requests it admits, the  *)
(* scheduled reset and the drain.  Every action is one transaction or one  *)
(* read; what a handler has read it keeps in a record of its own, so that  *)
(* stale reads are part of the model.                                      *)
(***************************************************************************)
EXTENDS Integers, FiniteSets

CONSTANTS
  Spenders,    \* relay requests in flight against the pool
  MaxQuota,    \* the largest cost of one request
  Resetters,   \* runs of ResetDuePools: leader ticks and operator calls
  Ceiling,     \* max_balance of the pool, PoolMaxBalanceUnlimited or more
  MaxPeriods,  \* bound: reset periods that pass
  MaxFaults    \* bound: reads, calls and writes that fail, and crashes

PoolMaxBalanceUnlimited == -1

ASSUME PoolAssumption ==
  /\ MaxQuota \in Nat \ {0}
  /\ Ceiling \in Nat \cup {PoolMaxBalanceUnlimited}
  /\ MaxPeriods \in Nat /\ MaxFaults \in Nat
  /\ IsFiniteSet(Spenders) /\ Spenders # {}

VARIABLES
  balance,     \* current_balance
  ceiling,     \* max_balance
  nextReset,   \* next_reset_at, as the number of a period
  period,      \* the clock, in reset periods
  draws,       \* sum of the draw rows: credits minus debits
  spender,     \* [at, quota] of each relay request
  reset,       \* what each run of ResetDuePools has read of the pool
  refills,     \* how many times a due date has been claimed, per period
  staleResets, \* some reset refilled a balance it had not read
  drained,     \* DeleteCreditPool has run
  faults       \* faults so far

row == <<balance, ceiling, nextReset, draws>>
poolRest == <<period, spender, reset, refills, staleResets, drained>>
pool == <<row, poolRest>>

NoRead == [due |-> -1, balance |-> 0, ceiling |-> 0, next |-> 0]

PoolTypeOK ==
  /\ balance \in Int /\ draws \in Int
  /\ ceiling \in Nat \cup {PoolMaxBalanceUnlimited}
  /\ nextReset \in Nat /\ period \in Nat
  /\ spender \in [Spenders -> [at : {"idle", "admitted", "debited"},
                               quota : 0..MaxQuota]]
  /\ reset \in [Resetters -> [due : Nat \cup {-1}, balance : Int,
                              ceiling : Nat \cup {-1}, next : Nat]]
  /\ refills \in [0..MaxPeriods -> Nat]
  /\ staleResets \in BOOLEAN /\ drained \in BOOLEAN
  /\ faults \in Nat

\* CreateTenantCreditPool: an empty pool whose first reset is a period away.
PoolInit ==
  /\ balance = 0 /\ draws = 0
  /\ ceiling = Ceiling
  /\ nextReset = 1 /\ period = 0
  /\ spender = [s \in Spenders |-> [at |-> "idle", quota |-> 0]]
  /\ reset = [x \in Resetters |-> NoRead]
  /\ refills = [n \in 0..MaxPeriods |-> 0]
  /\ staleResets = FALSE /\ drained = FALSE
  /\ faults = 0

-----------------------------------------------------------------------------
\* The transactions on the row

Fault == faults < MaxFaults /\ faults' = faults + 1

IsUnlimited == ceiling = PoolMaxBalanceUnlimited
IsExhaustedBelowZero == ~IsUnlimited /\ balance < 0
IsExhausted == ~IsUnlimited /\ balance <= 0

\* The guard of every credit: max_balance = -1 OR balance + amount <= max.
FitsCeiling(n) == IsUnlimited \/ balance + n <= ceiling

DebitRowSilentOverdraft(n) ==
  /\ balance' = balance - n
  /\ draws' = IF balance >= n THEN draws - n ELSE draws
  /\ UNCHANGED <<ceiling, nextReset>>

\* DebitPool, or OverdraftDebitPool when the pool cannot cover the amount: both
\* move the balance and append the draw in one transaction.
DebitRow(n) ==
  /\ balance' = balance - n
  /\ draws' = draws - n
  /\ UNCHANGED <<ceiling, nextReset>>

\* topupPoolInTx
CreditRow(n) ==
  /\ balance' = balance + n
  /\ draws' = draws + n
  /\ UNCHANGED <<ceiling, nextReset>>

-----------------------------------------------------------------------------
\* Relay requests

\* PoolBalanceCheck reads the row before the upstream call.
Admit(s, n) ==
  /\ spender[s].at = "idle"
  /\ ~IsExhausted
  /\ spender' = [spender EXCEPT ![s] = [at |-> "admitted", quota |-> n]]
  /\ UNCHANGED <<row, period, reset, refills, staleResets, drained, faults>>

\* A read error fails open.
AdmitBlind(s, n) ==
  /\ spender[s].at = "idle"
  /\ Fault
  /\ spender' = [spender EXCEPT ![s] = [at |-> "admitted", quota |-> n]]
  /\ UNCHANGED <<row, period, reset, refills, staleResets, drained>>

\* debitTenantPool after the relay: an unlimited pool is skipped.
Debit(s) ==
  /\ spender[s].at = "admitted"
  /\ IF IsUnlimited
       THEN /\ spender' = [spender EXCEPT ![s] = [at |-> "idle", quota |-> 0]]
            /\ UNCHANGED row
       ELSE /\ spender' = [spender EXCEPT ![s].at = "debited"]
            /\ DebitRow(spender[s].quota)
  /\ UNCHANGED <<period, reset, refills, staleResets, drained, faults>>

\* CreditPoolAdjustment for a compensated request or a refunded task; a
\* hand-back that no longer fits is a lost credit, logged by the caller.
HandBack(s) ==
  /\ spender[s].at = "debited"
  /\ spender' = [spender EXCEPT ![s] = [at |-> "idle", quota |-> 0]]
  /\ IF ~IsUnlimited /\ FitsCeiling(spender[s].quota)
       THEN CreditRow(spender[s].quota)
       ELSE UNCHANGED row
  /\ UNCHANGED <<period, reset, refills, staleResets, drained, faults>>

\* The charge stands.
Keep(s) ==
  /\ spender[s].at = "debited"
  /\ spender' = [spender EXCEPT ![s] = [at |-> "idle", quota |-> 0]]
  /\ UNCHANGED <<row, period, reset, refills, staleResets, drained, faults>>

-----------------------------------------------------------------------------
\* The scheduled reset

PeriodEnds ==
  /\ period < MaxPeriods
  /\ period' = period + 1
  /\ UNCHANGED <<row, spender, reset, refills, staleResets, drained, faults>>

\* nextResetAt, for a pool with a reset period
NextResetAt(now) == now + 1

\* ResetDuePools lists the due pools ...
ResetList(x) ==
  /\ reset[x] = NoRead
  /\ nextReset <= period /\ ceiling > 0
  /\ reset' = [reset EXCEPT ![x] = [due |-> nextReset, balance |-> balance,
                                    ceiling |-> ceiling,
                                    next |-> NextResetAt(period)]]
  /\ UNCHANGED <<row, period, spender, refills, staleResets, drained, faults>>

Refill(x) ==
  /\ balance' = reset[x].ceiling
  /\ draws' = draws + (reset[x].ceiling - reset[x].balance)
  /\ nextReset' = reset[x].next
  /\ refills' = [refills EXCEPT ![reset[x].due] = @ + 1]
  /\ staleResets' = (staleResets \/ reset[x].balance # balance)
  /\ UNCHANGED ceiling

ResetApplyBlind(x) ==
  /\ reset[x] # NoRead
  /\ reset' = [reset EXCEPT ![x] = NoRead]
  /\ Refill(x)
  /\ UNCHANGED <<period, spender, drained, faults>>

\* ... and claims each one by the due date it has read: the new balance is the
\* ceiling of the listed row, the draw the difference to the listed balance.
ResetApply(x) ==
  /\ reset[x] # NoRead
  /\ reset' = [reset EXCEPT ![x] = NoRead]
  /\ IF reset[x].due = nextReset
       THEN Refill(x)
       ELSE UNCHANGED <<row, refills, staleResets>>
  /\ UNCHANGED <<period, spender, drained, faults>>

-----------------------------------------------------------------------------
\* DeleteCreditPool: the ceiling drops to zero and an adjustment draw of the
\* balance is appended; current_balance is left as it is.  Bound: once.
Drain ==
  /\ ~drained
  /\ drained' = TRUE
  /\ ceiling' = 0
  /\ draws' = draws - balance
  /\ UNCHANGED <<balance, nextReset, period, spender, reset, refills,
                 staleResets, faults>>

PoolNext ==
  \/ \E s \in Spenders, n \in 1..MaxQuota : Admit(s, n) \/ AdmitBlind(s, n)
  \/ \E s \in Spenders : Debit(s) \/ HandBack(s) \/ Keep(s)
  \/ PeriodEnds
  \/ \E x \in Resetters : ResetList(x) \/ ResetApply(x)
  \/ Drain
=============================================================================
