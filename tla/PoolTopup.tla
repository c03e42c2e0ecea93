------------------------------ MODULE PoolTopup ------------------------------
(***************************************************************************)
(* Paying into a credit pool.  TopupCreditPool takes the money from the    *)
(* operator's platform wallet, then credits the pool; the two are tied     *)
(* together by the idempotency key, which the platform uses to dedupe the  *)
(* debit and the hub as the unique slot of a row in                        *)
(* credit_pool_fund_events.  A debit whose credit fails is given back; one *)
(* that cannot be given back is recorded as stranded and credited later by *)
(* the sweep, by a retry of the client, or closed by an operator.  The     *)
(* platform's own funding shares the slots.                                *)
(***************************************************************************)
EXTENDS CreditPool

CONSTANTS
  Keys,      \* Idempotency-Key values
  Topups,    \* requests to the top-up endpoint: first attempts and retries
  Amounts    \* what they ask for

ASSUME TopupAssumption ==
  Amounts \subseteq Nat \ {0} /\ Amounts # {}

VARIABLES
  events,    \* credit_pool_fund_events: what holds each slot
  top,       \* [at, key, amount] of each top-up request
  listed,    \* slots the running sweep has listed
  wallet,    \* [paid, back] per key: what the platform has taken and returned
  funded,    \* what has been credited to the pool against each key's payment
  untracked, \* keys whose refund the hub did not record or gave while another
             \* attempt was under way, or whose debit was deduped into one of
             \* another amount
  adrift,    \* keys with a payment of which the hub has kept no record
  shadowed   \* keys whose stranded record met a taken slot and was dropped

topVars == <<events, top, listed, wallet, funded, untracked, adrift,
             shadowed>>
vars == <<pool, faults, topVars>>

\* poolTopupCollisionEventID: the slot derived from a key
Slots == Keys \X {"own", "collision"}
Own(k) == <<k, "own">>

Sources == {"admin_topup", "topup_reverted", "topup_stranded",
            "topup_reconciled", "topup_manually_closed", "platform"}
Free == [source |-> "none", amount |-> 0]
Steps == {"start", "lookup", "debit", "tryFinalize", "finalize", "fundCheck",
          "fundTx", "revert", "revertCollision", "terminal", "strand",
          "strandCollision", "done"}

TypeOK ==
  /\ PoolTypeOK
  /\ events \in [Slots -> [source : Sources \cup {"none"},
                           amount : Amounts \cup {0}]]
  /\ top \in [Topups -> [at : Steps, key : Keys, amount : Amounts]]
  /\ listed \in SUBSET Slots
  /\ wallet \in [Keys -> [paid : Nat, back : Nat]]
  /\ funded \in [Keys -> Nat]
  /\ untracked \in SUBSET Keys /\ adrift \in SUBSET Keys
  /\ shadowed \in SUBSET Keys

Init ==
  /\ PoolInit
  /\ events = [e \in Slots |-> Free]
  /\ top \in [Topups -> [at : {"start"}, key : Keys, amount : Amounts]]
  /\ listed = {}
  /\ wallet = [k \in Keys |-> [paid |-> 0, back |-> 0]]
  /\ funded = [k \in Keys |-> 0]
  /\ untracked = {} /\ adrift = {} /\ shadowed = {}

-----------------------------------------------------------------------------
\* Shorthands

key(t) == top[t].key
amount(t) == top[t].amount
At(t, l) == top[t].at = l
Go(t, l) == top' = [top EXCEPT ![t].at = l]

InFlight(k) == {t \in Topups : key(t) = k /\ ~At(t, "start") /\ ~At(t, "done")}

StrandedStates ==
  {"topup_stranded", "topup_reconciled", "topup_manually_closed"}

\* classifyPoolTopupKey
Verdict(evt, n) ==
  CASE evt.source = "none" -> "fresh"
    [] evt.source = "admin_topup" ->
         IF evt.amount = n THEN "settled" ELSE "mismatch"
    [] evt.source = "topup_reverted" -> "reverted"
    [] evt.source \in StrandedStates -> "stranded"
    [] OTHER -> "foreign"

\* A row in a slot: the unique index keeps the first.
Insert(e, source, n) ==
  events' = IF events[e] = Free
              THEN [events EXCEPT ![e] = [source |-> source, amount |-> n]]
              ELSE events

-----------------------------------------------------------------------------
\* TopupCreditPool

\* The client sends the request, whether or not an attempt with the same key is
\* in flight.  A refund whose row is still to be written leaves the key fresh.
Begin(t) ==
  /\ At(t, "start")
  /\ Go(t, "lookup")
  /\ untracked' = IF \E u \in InFlight(key(t)) : At(u, "terminal")
                    THEN untracked \cup {key(t)} ELSE untracked
  /\ UNCHANGED <<pool, events, listed, wallet, funded, adrift, shadowed, faults>>

\* LookupFundEvent before any money moves: everything but a fresh key and a
\* stranded one is answered from the row.
Lookup(t) ==
  /\ At(t, "lookup")
  /\ Go(t, IF Verdict(events[Own(key(t))], amount(t)) \in {"fresh", "stranded"}
             THEN "debit" ELSE "done")
  /\ UNCHANGED <<pool, events, listed, wallet, funded, untracked, adrift,
                 shadowed, faults>>

\* debitWallet.  The platform takes the money once per key.
Debit_(t) ==
  LET k == key(t) IN
  /\ wallet' = IF wallet[k].paid = 0
                 THEN [wallet EXCEPT ![k].paid = amount(t)] ELSE wallet
  /\ untracked' = IF wallet[k].paid \in {0, amount(t)}
                    THEN untracked ELSE untracked \cup {k}

DebitWallet(t) ==
  /\ At(t, "debit")
  /\ Debit_(t)
  /\ Go(t, "tryFinalize")
  /\ UNCHANGED <<pool, events, listed, funded, adrift,
                 shadowed, faults>>

\* The debit is refused, or its answer is lost: the client is told 402.
DebitFails(t) ==
  /\ At(t, "debit")
  /\ Fault
  /\ Go(t, "done")
  /\ \/ UNCHANGED <<wallet, untracked, adrift>>
     \/ Debit_(t) /\ adrift' = adrift \cup {key(t)}
  /\ UNCHANGED <<pool, events, listed, funded, shadowed>>

\* TryFinalizeStrandedTopup reads the slot ...
TryFinalize(t) ==
  /\ At(t, "tryFinalize")
  /\ LET s == events[Own(key(t))].source IN
       Go(t, CASE s = "topup_stranded" -> "finalize"
               [] s \in {"topup_reconciled", "topup_manually_closed"} -> "done"
               [] OTHER -> "fundCheck")
  /\ UNCHANGED <<pool, events, listed, wallet, funded, untracked, adrift,
                 shadowed, faults>>

\* ... or fails to, which reads like a slot that is not stranded.
TryFinalizeFails(t) ==
  /\ At(t, "tryFinalize")
  /\ Fault
  /\ Go(t, "fundCheck")
  /\ UNCHANGED <<pool, events, listed, wallet, funded, untracked, adrift,
                 shadowed>>

FinalizeTxUnclaimed(e) ==
  IF events[e].source \in StrandedStates /\ FitsCeiling(events[e].amount)
    THEN /\ events' = [events EXCEPT ![e].source = "topup_reconciled"]
         /\ funded' = [funded EXCEPT ![e[1]] = @ + events[e].amount]
         /\ CreditRow(events[e].amount)
         /\ UNCHANGED poolRest
    ELSE UNCHANGED <<events, funded, pool>>

\* finalizeStrandedTopup: one transaction claims the row, credits the pool and
\* appends the draw, or leaves everything as it was.
FinalizeTx(e) ==
  IF events[e].source = "topup_stranded" /\ FitsCeiling(events[e].amount)
    THEN /\ events' = [events EXCEPT ![e].source = "topup_reconciled"]
         /\ funded' = [funded EXCEPT ![e[1]] = @ + events[e].amount]
         /\ CreditRow(events[e].amount)
         /\ UNCHANGED poolRest
    ELSE UNCHANGED <<events, funded, pool>>

\* A retry settles its own stranded intent; whatever it finds, it answers.
Finalize(t) ==
  /\ At(t, "finalize")
  /\ FinalizeTx(Own(key(t)))
  /\ Go(t, "done")
  /\ UNCHANGED <<listed, wallet, untracked, adrift,
                 shadowed, faults>>

FinalizeFails(t) ==
  /\ At(t, "finalize")
  /\ Fault
  /\ Go(t, "done")
  /\ UNCHANGED <<pool, events, listed, wallet, funded, untracked, adrift,
                 shadowed>>

ReplayedAlways(evt, t) == "done"

\* The handler with ErrFundEventExists and the row that holds its key: only a
\* foreign row means that the debit is this request's own money.
Replayed(evt, t) ==
  IF Verdict(evt, amount(t)) = "foreign" THEN "revertCollision" ELSE "done"

\* FundPoolIdempotentWithReason, the read before its transaction
FundCheck(t) ==
  /\ At(t, "fundCheck")
  /\ LET evt == events[Own(key(t))] IN
       Go(t, IF evt = Free THEN "fundTx" ELSE Replayed(evt, t))
  /\ UNCHANGED <<pool, events, listed, wallet, funded, untracked, adrift,
                 shadowed, faults>>

\* A failed read is taken for a free slot.
FundCheckFails(t) ==
  /\ At(t, "fundCheck")
  /\ Fault
  /\ Go(t, "fundTx")
  /\ untracked' = IF events[Own(key(t))] = Free THEN untracked
                  ELSE untracked \cup {key(t)}
  /\ UNCHANGED <<pool, events, listed, wallet, funded, adrift,
                 shadowed>>

\* The transaction: the ceiling is tested before the slot.
FundTx(t) ==
  LET k == key(t)  evt == events[Own(k)] IN
  /\ At(t, "fundTx")
  /\ IF FitsCeiling(amount(t)) /\ evt = Free
       THEN /\ CreditRow(amount(t))
            /\ Insert(Own(k), "admin_topup", amount(t))
            /\ funded' = [funded EXCEPT ![k] = @ + amount(t)]
            /\ adrift' = adrift \ {k}
            /\ Go(t, "done")
            /\ UNCHANGED poolRest
       ELSE /\ Go(t, IF FitsCeiling(amount(t)) THEN Replayed(evt, t)
                     ELSE "revert")
            /\ UNCHANGED <<pool, events, funded, adrift>>
  /\ UNCHANGED <<listed, wallet, untracked, faults, shadowed>>

FundTxFails(t) ==
  /\ At(t, "fundTx")
  /\ Fault
  /\ Go(t, "revert")
  /\ UNCHANGED <<pool, events, listed, wallet, funded, untracked, adrift,
                 shadowed>>

\* revertPoolTopupDebit: creditWallet under the key's revert key, which the
\* platform applies once.
GiveBack(k) == wallet' = [wallet EXCEPT ![k].back = wallet[k].paid]

\* Another attempt with the key is under way or has left its row: the debit that
\* is given back was the other's too.
Crossed(t) ==
  \/ InFlight(key(t)) # {t}
  \/ \E e \in Slots :
       e[1] = key(t) /\ events[e].source \notin {"none", "platform"}

Revert(t) ==
  /\ top[t].at \in {"revert", "revertCollision"}
  /\ GiveBack(key(t))
  /\ adrift' = adrift \ {key(t)}
  /\ untracked' = IF Crossed(t) THEN untracked \cup {key(t)} ELSE untracked
  /\ Go(t, IF At(t, "revert") THEN "terminal" ELSE "done")
  /\ UNCHANGED <<pool, events, listed, funded, faults, shadowed>>

\* The revert fails, or succeeds without the hub knowing.
RevertFails(t) ==
  /\ top[t].at \in {"revert", "revertCollision"}
  /\ Fault
  /\ \/ UNCHANGED <<wallet, untracked>>
     \/ /\ GiveBack(key(t))
        /\ untracked' = untracked \cup {key(t)}
  /\ Go(t, IF At(t, "revert") THEN "strand" ELSE "strandCollision")
  /\ UNCHANGED <<pool, events, listed, funded, adrift,
                 shadowed>>

\* RecordTerminalFundEvent
Terminal(t) ==
  /\ At(t, "terminal")
  /\ Insert(Own(key(t)), "topup_reverted", amount(t))
  /\ Go(t, "done")
  /\ UNCHANGED <<pool, listed, wallet, funded, untracked, adrift,
                 shadowed, faults>>

\* The write fails: the log says that the key can credit the pool for free.
TerminalFails(t) ==
  /\ At(t, "terminal")
  /\ Fault
  /\ untracked' = untracked \cup {key(t)}
  /\ Go(t, "done")
  /\ UNCHANGED <<pool, events, listed, wallet, funded, adrift,
                 shadowed>>

\* RecordStrandedTopup
StrandSlot(t) ==
  <<key(t), IF At(t, "strand") THEN "own" ELSE "collision">>

Strand(t) ==
  /\ top[t].at \in {"strand", "strandCollision"}
  /\ Insert(StrandSlot(t), "topup_stranded", amount(t))
  /\ adrift' = adrift \ {key(t)}
  /\ shadowed' = IF events[StrandSlot(t)] = Free THEN shadowed
                 ELSE shadowed \cup {key(t)}
  /\ Go(t, "done")
  /\ UNCHANGED <<pool, listed, wallet, funded, untracked, faults>>

\* The write fails: the log is the only trace.
StrandFails(t) ==
  /\ top[t].at \in {"strand", "strandCollision"}
  /\ Fault
  /\ adrift' = adrift \cup {key(t)}
  /\ Go(t, "done")
  /\ UNCHANGED <<pool, events, listed, wallet, funded, untracked, shadowed>>

\* The replica dies.  After the debit nothing has been recorded; after the
\* refund the key looks fresh.
Crash(t) ==
  /\ top[t].at \notin {"start", "done"}
  /\ Fault
  /\ Go(t, "done")
  /\ adrift' = IF top[t].at \in {"lookup", "debit"} THEN adrift
               ELSE adrift \cup {key(t)}
  /\ untracked' = IF At(t, "terminal") THEN untracked \cup {key(t)}
                  ELSE untracked
  /\ UNCHANGED <<pool, events, listed, wallet, funded, shadowed>>

-----------------------------------------------------------------------------
\* The sweep, the operator, the platform

\* ReconcileStrandedTopups lists the open events ...
SweepList ==
  /\ listed = {}
  /\ listed' = {e \in Slots : events[e].source = "topup_stranded"}
  /\ listed' # {}
  /\ UNCHANGED <<pool, events, top, wallet, funded, untracked, adrift,
                 shadowed, faults>>

\* ... and finalizes them one by one.
SweepNext(e) ==
  /\ e \in listed
  /\ FinalizeTx(e)
  /\ listed' = listed \ {e}
  /\ UNCHANGED <<top, wallet, untracked, adrift,
                 shadowed, faults>>

\* The operator refunds by hand and closes the event.
CloseManually(e) ==
  /\ events[e].source = "topup_stranded"
  /\ events' = [events EXCEPT ![e].source = "topup_manually_closed"]
  /\ GiveBack(e[1])
  /\ UNCHANGED <<pool, top, listed, funded, untracked, adrift,
                 shadowed, faults>>

\* InternalFundCreditPool: FundPoolIdempotent for an event of the platform.
PlatformFund(k, n) ==
  /\ events[Own(k)] = Free
  /\ FitsCeiling(n)
  /\ CreditRow(n)
  /\ Insert(Own(k), "platform", n)
  /\ UNCHANGED poolRest
  /\ UNCHANGED <<top, listed, wallet, funded, untracked, adrift,
                 shadowed, faults>>

Topup(t) ==
  \/ Begin(t) \/ Lookup(t) \/ DebitWallet(t) \/ DebitFails(t)
  \/ TryFinalize(t) \/ TryFinalizeFails(t)
  \/ Finalize(t) \/ FinalizeFails(t)
  \/ FundCheck(t) \/ FundCheckFails(t) \/ FundTx(t) \/ FundTxFails(t)
  \/ Revert(t) \/ RevertFails(t) \/ Terminal(t) \/ TerminalFails(t)
  \/ Strand(t) \/ StrandFails(t) \/ Crash(t)

Next ==
  \/ PoolNext /\ UNCHANGED topVars
  \/ \E t \in Topups : Topup(t)
  \/ SweepList
  \/ \E e \in Slots : SweepNext(e) \/ CloseManually(e)
  \/ \E k \in Keys, n \in Amounts : PlatformFund(k, n)

Spec == Init /\ [][Next]_vars

-----------------------------------------------------------------------------
\* Properties

\* The money behind each key, as TopupIntent sees it.
intent == [k \in Keys |->
  CASE k \in untracked -> "void"
    [] k \notin untracked /\ funded[k] > 0 -> "funded"
    [] k \notin untracked /\ funded[k] = 0 /\ wallet[k].back > 0 -> "returned"
    [] k \notin untracked /\ funded[k] = 0 /\ wallet[k].back = 0
         /\ wallet[k].paid > 0 -> "paid"
    [] OTHER -> "new"]

Intent == INSTANCE TopupIntent WITH Keys <- Keys, intent <- intent

\* A payment ends in the pool or back in the wallet, at most once and never in
\* both: retries, the sweep, an operator and the platform's own funding of the
\* slot included (TopupCreditPool, ReconcileStrandedTopups).
IntentKept == Intent!Spec

\* The amounts agree too: what the pool received and the wallet got back never
\* exceeds what the wallet paid (TopupCreditPool: no "free pool credit").
NoFreeCredit ==
  \A k \in Keys \ untracked : funded[k] + wallet[k].back <= wallet[k].paid

Accounted(k) ==
  InFlight(k) = {} =>
    \/ funded[k] + wallet[k].back = wallet[k].paid
    \/ \E e \in Slots : e[1] = k /\ events[e].source = "topup_stranded"

\* Once its requests are answered, a payment that reached neither the pool nor
\* the wallet is on record as stranded, where the sweep finds it
\* (revertPoolTopupDebit, RecordStrandedTopup).
NoLostDebit ==
  \A k \in Keys \ (untracked \cup adrift \cup shadowed) : Accounted(k)

\* Every payment is accounted for, and none twice, however attempts with one key
\* overlap, unless a refund met another attempt.
PaymentsAccounted == NoFreeCredit /\ NoLostDebit

\* What TopupCreditPool says of a refund: its row keeps the key from being "reused
\* for a free credit", so that no key has credited more than it cost.
NoFreeCreditEver ==
  \A k \in Keys : funded[k] + wallet[k].back <= wallet[k].paid

\* The same for payments whose record met a slot that was taken: what
\* revertPoolTopupDebit says of the derived id.
NoDroppedRecord == \A k \in Keys \ (untracked \cup adrift) : Accounted(k)

\* The balance is explained by the draws alone (the conservation law of
\* OverdraftDebitPool), until a drain, or a reset that refilled a balance which
\* had moved since it was listed.
LedgerExplains == staleResets \/ drained \/ balance = draws

\* The same without the exception for resets: what ResetDuePools says of itself.
LedgerExplainsResets == drained \/ balance = draws

\* The pool owes less than the requests in flight at its exhaustion may cost
\* (PoolBalanceCheck, OverdraftDebitPool), and one request per failed read; a
\* pool that was unlimited lets them in on an empty balance, and owes all of it
\* when it is drained before they are charged.
OverdraftBounded ==
  LET most == (Cardinality(Spenders) + faults) * MaxQuota IN
  \/ IsUnlimited
  \/ balance > -most
  \/ Ceiling = PoolMaxBalanceUnlimited /\ balance = -most

\* A due date refills the pool once, whoever runs the pass (resetOnePoolInTx).
OneRefillPerPeriod == \A p \in DOMAIN refills : refills[p] <= 1

\* A drained pool admits nothing, as DeleteCreditPool says of itself.
DrainedIsClosed == drained => IsExhausted
=============================================================================
