-------------------------- MODULE PoolTopupProofs --------------------------
(***************************************************************************)
(* What holds of the pool and of the payments into it for any number of    *)
(* keys, requests, spenders and resets.                                    *)
(*                                                                         *)
(* The pool: its draws explain its balance, a due date refills it once,    *)
(* and its debt is bounded.                                                *)
(*                                                                         *)
(* The payments: the rows in the two slots of a key and the steps of its   *)
(* requests, however many are in flight together, determine where its      *)
(* money is.  PayInv says how; the accounting and the refinement of        *)
(* TopupIntent follow from it.  A step concerns one key (KeyFrame), so     *)
(* that the proof of each action is about the scalars of that key alone,   *)
(* and about what the other requests with that key may rely on (Stage).    *)
(***************************************************************************)
EXTENDS PoolTopup, FiniteSetTheorems, TLAPS

\* The slot that poolTopupCollisionEventID derives from a key.
Coll(k) == <<k, "collision">>

\* A run of the reset has read a due date in the past and a ceiling to refill to.

ResetSound(x) ==
  \/ reset[x] = NoRead
  \/ /\ reset[x].due \in Nat /\ reset[x].due < reset[x].next
     /\ reset[x].ceiling > 0

\* The dates that have been claimed lie before the next one.
RefillInv ==
  /\ \A x \in Resetters : ResetSound(x)
  /\ \A p \in DOMAIN refills :
       refills[p] = 0 \/ (refills[p] = 1 /\ p < nextReset)

\* The requests the gate let in and the pool has not yet been charged for.
Admitted == {s \in Spenders : spender[s].at = "admitted"}
Exposure == (Cardinality(Spenders) + faults) * MaxQuota

\* The balance less all that is still to be charged.
DebtInv ==
  /\ IsUnlimited => Ceiling = PoolMaxBalanceUnlimited /\ balance >= 0
  /\ \/ IsUnlimited
     \/ balance - Cardinality(Admitted) * MaxQuota > -Exposure
     \/ /\ Ceiling = PoolMaxBalanceUnlimited
        /\ balance - Cardinality(Admitted) * MaxQuota = -Exposure

Waiting == {"start", "done"}

\* No other request with its key is in flight.
Alone(t) ==
  \A u \in Topups \ {t} : key(u) = key(t) => top[u].at \in Waiting

\* No other request with its key has refunded and is yet to say so.
Clear(t) ==
  \A u \in Topups \ {t} : key(u) = key(t) => top[u].at # "terminal"

\* Steps at which a request holds money that no row speaks of.
Owing == {"tryFinalize", "fundCheck", "fundTx", "revert", "revertCollision",
          "strand", "strandCollision"}

own(k) == events[Own(k)]
derived(k) == events[Coll(k)]
paid(k) == wallet[k].paid
back(k) == wallet[k].back

\* Rows that do not speak of the payment leave it where it was.
Unrefunded(k) ==
  own(k).source \in {"none", "platform"} /\ derived(k).source = "none"
    => back(k) = 0

\* What a request at a step may rely on for its key k and its amount n, whatever
\* other requests with the key do meanwhile.
Stage(k, at, n) ==
  /\ at \in Owing \cup {"terminal"} => paid(k) = n /\ n > 0
  /\ at \in Owing \cup {"debit"} => Unrefunded(k)
  /\ at = "finalize" => own(k).source \in StrandedStates
  /\ at \in {"revertCollision", "strandCollision"} => own(k).source = "platform"
  /\ at = "terminal" =>
       /\ own(k).source \in {"none", "platform"}
       /\ derived(k).source = "none" /\ funded[k] = 0 /\ back(k) = paid(k)

\* A stranded row stands for a payment that went nowhere, any other row of the
\* endpoint for a payment that went somewhere.
RowTrue(k, r) ==
  /\ r.source \notin {"none", "platform"} => paid(k) > 0
  /\ r.source = "topup_stranded" =>
       r.amount = paid(k) /\ funded[k] = 0 /\ back(k) = 0
  /\ r.source \notin {"none", "platform", "topup_stranded"} =>
       funded[k] + back(k) = paid(k)

\* The rows and the money of a key agree.
Books(k) ==
  /\ derived(k).source # "none" => own(k).source = "platform"
  /\ derived(k).source # "platform"
  /\ \/ funded[k] = 0 /\ back(k) = 0
     \/ funded[k] = paid(k) /\ back(k) = 0
     \/ funded[k] = 0 /\ back(k) = paid(k)
  /\ RowTrue(k, own(k)) /\ RowTrue(k, derived(k))
  /\ own(k).source = "none" => funded[k] = 0
  /\ own(k).source = "platform" /\ derived(k).source = "none" => funded[k] = 0

Settled(k) ==
  \/ funded[k] + back(k) = paid(k)
  \/ own(k).source = "topup_stranded"
  \/ derived(k).source = "topup_stranded"

KeyInv(k) ==
  k \notin untracked =>
    /\ Books(k)
    /\ own(k).source = "none" /\ back(k) # 0 =>
         \E t \in Topups : key(t) = k /\ At(t, "terminal")
    /\ k \notin adrift \cup shadowed =>
         Settled(k) \/ \E t \in Topups : key(t) = k /\ top[t].at \in Owing

FreeIsNone == \A e \in Slots : events[e].source = "none" => events[e] = Free

PayInv ==
  /\ FreeIsNone
  /\ \A t \in Topups :
       key(t) \notin untracked =>
         /\ Stage(key(t), top[t].at, amount(t))
         /\ At(t, "terminal") => Alone(t)
  /\ \A k \in Keys : KeyInv(k)

\* What KeyInv and Stage come to for a request whose key no other is refunding.
View(k, at, n) ==
  /\ Stage(k, at, n) /\ Books(k)
  /\ own(k).source = "none" /\ back(k) # 0 => at = "terminal"

\* A request that goes from one step to another leaves a payment on record, or
\* goes on holding it, or never held it.
Kept(k, at, l) ==
  k \notin adrift' \cup shadowed' =>
    \/ Settled(k)' \/ l \in Owing
    \/ /\ at \notin Owing /\ k \notin adrift \cup shadowed
       /\ Settled(k) => Settled(k)'

-----------------------------------------------------------------------------
\* Type correctness

TopType == [at : Steps, key : Keys, amount : Amounts]
EventType == [source : Sources \cup {"none"}, amount : Amounts \cup {0}]
WalletType == [paid : Nat, back : Nat]
SpenderType == [at : {"idle", "admitted", "debited"}, quota : 0..MaxQuota]
ReadType == [due : Nat \cup {-1}, balance : Int, ceiling : Nat \cup {-1},
             next : Nat]

LEMMA PoolTypeStep ==
  ASSUME PoolTypeOK, PoolNext
  PROVE  PoolTypeOK'
  <1> USE PoolAssumption DEF PoolMaxBalanceUnlimited
  <1>0. /\ balance \in Int /\ draws \in Int /\ faults \in Nat
        /\ ceiling \in Nat \cup {-1} /\ nextReset \in Nat /\ period \in Nat
        /\ spender \in [Spenders -> SpenderType]
        /\ reset \in [Resetters -> ReadType]
        /\ refills \in [0..MaxPeriods -> Nat]
        /\ staleResets \in BOOLEAN /\ drained \in BOOLEAN
    BY DEF PoolTypeOK, SpenderType, ReadType
  <1>1. ASSUME NEW s \in Spenders, NEW n \in 1..MaxQuota,
               Admit(s, n) \/ AdmitBlind(s, n)
        PROVE  PoolTypeOK'
    <2>1. [at |-> "admitted", quota |-> n] \in SpenderType
      BY DEF SpenderType
    <2>2. spender' \in [Spenders -> SpenderType]
      BY <1>0, <1>1, <2>1 DEF Admit, AdmitBlind
    <2>3. faults' \in Nat
      BY <1>0, <1>1 DEF Admit, AdmitBlind, Fault
    <2>4. UNCHANGED <<balance, ceiling, nextReset, draws, period, reset, refills,
                      staleResets, drained>>
      BY <1>1 DEF Admit, AdmitBlind, row
    <2> QED BY <2>2, <2>3, <2>4 DEF PoolTypeOK, SpenderType
  <1>2. ASSUME NEW s \in Spenders, Debit(s) \/ HandBack(s) \/ Keep(s)
        PROVE  PoolTypeOK'
    <2>1. spender[s] \in SpenderType /\ spender[s].quota \in Int
      BY <1>0 DEF SpenderType
    <2>2. [at |-> "idle", quota |-> 0] \in SpenderType
      BY DEF SpenderType
    <2>3. [spender[s] EXCEPT !.at = "debited"] \in SpenderType
      BY <2>1 DEF SpenderType
    <2>4. spender' \in [Spenders -> SpenderType]
      BY <1>0, <1>2, <2>1, <2>2, <2>3 DEF Debit, HandBack, Keep
    <2>5. balance' \in Int /\ draws' \in Int /\ UNCHANGED <<ceiling, nextReset>>
      BY <1>0, <1>2, <2>1 DEF Debit, HandBack, Keep, DebitRow, CreditRow, row
    <2> QED BY <1>2, <2>4, <2>5 DEF Debit, HandBack, Keep, PoolTypeOK, SpenderType
  <1>3. CASE PeriodEnds
    BY <1>3 DEF PeriodEnds, PoolTypeOK, row
  <1>4. ASSUME NEW x \in Resetters, ResetList(x)
        PROVE  PoolTypeOK'
    <2>1. [due |-> nextReset, balance |-> balance, ceiling |-> ceiling,
           next |-> NextResetAt(period)] \in ReadType
      BY <1>0 DEF ReadType, NextResetAt
    <2>2. reset' \in [Resetters -> ReadType]
      BY <1>0, <1>4, <2>1 DEF ResetList
    <2> QED BY <1>4, <2>2 DEF ResetList, PoolTypeOK, ReadType, row
  <1>5. ASSUME NEW x \in Resetters, ResetApply(x)
        PROVE  PoolTypeOK'
    <2>1. reset[x] \in ReadType /\ NoRead \in ReadType
      BY <1>0 DEF ReadType, NoRead
    <2>2. reset' \in [Resetters -> ReadType]
      BY <1>0, <1>5, <2>1 DEF ResetApply
    <2>3. CASE reset[x].due = nextReset
      <3>1. /\ reset[x].ceiling \in Int /\ reset[x].balance \in Int
            /\ reset[x].next \in Nat
        BY <2>1 DEF ReadType
      <3>2. Refill(x) /\ UNCHANGED <<period, spender, drained, faults>>
        BY <1>5, <2>3 DEF ResetApply
      <3>3. refills' \in [0..MaxPeriods -> Nat]
        <4>1. ASSUME NEW d \in Nat
              PROVE  [refills EXCEPT ![d] = refills[d] + 1]
                       \in [0..MaxPeriods -> Nat]
          <5>1. CASE d \in 0..MaxPeriods
            BY <1>0, <5>1
          <5>2. CASE d \notin 0..MaxPeriods
            BY <1>0, <5>2
          <5> QED BY <5>1, <5>2
        <4>2. refills' = [refills EXCEPT ![reset[x].due] =
                                           refills[reset[x].due] + 1]
          BY <3>2 DEF Refill
        <4>3. reset[x].due \in Nat
          BY <1>0, <2>3
        <4> QED BY <4>1, <4>2, <4>3, Zenon
      <3>4. staleResets' \in BOOLEAN
        BY <3>2, Zenon DEF Refill
      <3>5. /\ balance' \in Int /\ draws' \in Int /\ nextReset' \in Nat
            /\ ceiling' = ceiling
        BY <1>0, <3>1, <3>2 DEF Refill
      <3> QED BY <1>0, <3>2, <3>3, <3>4, <3>5, <2>2
              DEF PoolTypeOK, ReadType
    <2>4. CASE reset[x].due # nextReset
      BY <1>5, <2>2, <2>4 DEF ResetApply, PoolTypeOK, ReadType, row
    <2> QED BY <2>3, <2>4
  <1>6. CASE Drain
    BY <1>6 DEF Drain, PoolTypeOK
  <1> QED BY <1>1, <1>2, <1>3, <1>4, <1>5, <1>6 DEF PoolNext

LEMMA TypeFacts ==
  ASSUME TypeOK
  PROVE  /\ PoolTypeOK
         /\ events \in [Slots -> EventType]
         /\ top \in [Topups -> TopType]
         /\ listed \in SUBSET Slots
         /\ wallet \in [Keys -> WalletType]
         /\ funded \in [Keys -> Nat]
         /\ untracked \in SUBSET Keys /\ adrift \in SUBSET Keys
         /\ shadowed \in SUBSET Keys
         /\ Amounts \subseteq Nat \ {0}
  BY TopupAssumption DEF TypeOK, EventType, TopType, WalletType

\* A request and its key.
LEMMA RequestFacts ==
  ASSUME TypeOK, NEW t \in Topups
  PROVE  /\ key(t) \in Keys /\ amount(t) \in Amounts /\ amount(t) \in Nat
         /\ amount(t) > 0 /\ top[t].at \in Steps
         /\ Own(key(t)) \in Slots /\ Coll(key(t)) \in Slots
         /\ wallet[key(t)] \in WalletType
         /\ funded[key(t)] \in Nat
  BY TypeFacts DEF TopType, key, amount, Slots, Own, Coll

\* A request moves and keeps its key and amount; the others stay.
LEMMA GoFacts ==
  ASSUME TypeOK, NEW t \in Topups, NEW l \in Steps, Go(t, l)
  PROVE  /\ top' \in [Topups -> TopType]
         /\ top'[t].at = l /\ top'[t].key = key(t)
         /\ top'[t].amount = amount(t)
         /\ \A u \in Topups \ {t} : top'[u] = top[u]
         /\ \A u \in Topups : top'[u].key = top[u].key
  <1>1. top \in [Topups -> TopType] /\ top[t] \in TopType
    BY TypeFacts
  <1>2. [top[t] EXCEPT !.at = l] \in TopType
    BY <1>1 DEF TopType
  <1>3. top' = [top EXCEPT ![t] = [top[t] EXCEPT !.at = l]]
    BY <1>1 DEF Go
  <1> QED BY <1>1, <1>2, <1>3 DEF key, amount, TopType

\* An insert keeps the row a slot holds.
LEMMA InsertFacts ==
  ASSUME TypeOK, NEW e \in Slots, NEW source \in Sources, NEW n \in Amounts,
         Insert(e, source, n)
  PROVE  /\ events' \in [Slots -> EventType]
         /\ \A d \in Slots \ {e} : events'[d] = events[d]
         /\ events'[e] = IF events[e] = Free
                            THEN [source |-> source, amount |-> n]
                            ELSE events[e]
  <1>1. events \in [Slots -> EventType]
    BY TypeFacts
  <1>2. [source |-> source, amount |-> n] \in EventType
    BY DEF EventType
  <1> QED BY <1>1, <1>2 DEF Insert

LEMMA CreditTyped ==
  ASSUME PoolTypeOK, NEW n \in Nat, CreditRow(n), UNCHANGED poolRest,
         faults' = faults
  PROVE  PoolTypeOK'
  BY DEF PoolTypeOK, CreditRow, poolRest

LEMMA PoolKept ==
  ASSUME PoolTypeOK, UNCHANGED pool, faults' \in Nat
  PROVE  PoolTypeOK'
  BY DEF PoolTypeOK, pool, poolRest, row

\* A claim takes a stranded row to the pool, or changes nothing.
LEMMA FinalizeFacts ==
  ASSUME TypeOK, NEW e \in Slots, FinalizeTx(e), faults' = faults
  PROVE  /\ PoolTypeOK'
         /\ events' \in [Slots -> EventType] /\ funded' \in [Keys -> Nat]
         /\ \/ /\ events[e].source = "topup_stranded"
               /\ events'[e].source = "topup_reconciled"
               /\ events'[e].amount = events[e].amount
               /\ funded'[e[1]] = funded[e[1]] + events[e].amount
               /\ \A d \in Slots \ {e} : events'[d] = events[d]
               /\ \A k \in Keys \ {e[1]} : funded'[k] = funded[k]
            \/ UNCHANGED <<events, funded, pool>>
  <1>1. /\ PoolTypeOK /\ events \in [Slots -> EventType]
        /\ events[e] \in EventType /\ e[1] \in Keys
        /\ funded \in [Keys -> Nat]
        /\ events[e].amount \in Nat
    BY TypeFacts DEF Slots, EventType
  <1>2. CASE UNCHANGED <<events, funded, pool>>
    <2>1. faults \in Nat
      BY <1>1 DEF PoolTypeOK
    <2> QED BY <1>1, <1>2, <2>1, PoolKept
  <1>3. CASE ~UNCHANGED <<events, funded, pool>>
    <2>1. /\ events[e].source = "topup_stranded"
          /\ events' = [events EXCEPT ![e].source = "topup_reconciled"]
          /\ funded' = [funded EXCEPT ![e[1]] = @ + events[e].amount]
          /\ CreditRow(events[e].amount)
          /\ UNCHANGED poolRest
      BY <1>3 DEF FinalizeTx
    <2>2. [events[e] EXCEPT !.source = "topup_reconciled"] \in EventType
      BY <1>1 DEF EventType, Sources
    <2>3. events' = [events EXCEPT ![e] =
                       [events[e] EXCEPT !.source = "topup_reconciled"]]
      BY <1>1, <2>1
    <2>4. /\ events' \in [Slots -> EventType]
          /\ events'[e].source = "topup_reconciled"
          /\ events'[e].amount = events[e].amount
          /\ \A d \in Slots \ {e} : events'[d] = events[d]
      BY <1>1, <2>2, <2>3 DEF EventType
    <2>5. /\ funded' \in [Keys -> Nat]
          /\ funded'[e[1]] = funded[e[1]] + events[e].amount
          /\ \A k \in Keys \ {e[1]} : funded'[k] = funded[k]
      BY <1>1, <2>1
    <2>6. PoolTypeOK'
      BY <1>1, <2>1, CreditTyped
    <2> QED BY <2>1, <2>4, <2>5, <2>6
  <1> QED BY <1>2, <1>3

\* A payment or a refund of one key.
LEMMA WalletFacts ==
  ASSUME TypeOK, NEW k \in Keys
  PROVE  /\ \A n \in Nat : [wallet EXCEPT ![k].paid = n] \in [Keys -> WalletType]
         /\ \A n \in Nat :
              /\ [wallet EXCEPT ![k].paid = n][k].paid = n
              /\ [wallet EXCEPT ![k].paid = n][k].back = wallet[k].back
              /\ \A j \in Keys \ {k} : [wallet EXCEPT ![k].paid = n][j] = wallet[j]
         /\ GiveBack(k) =>
              /\ wallet' \in [Keys -> WalletType]
              /\ wallet'[k].paid = wallet[k].paid
              /\ wallet'[k].back = wallet[k].paid
              /\ \A j \in Keys \ {k} : wallet'[j] = wallet[j]
  <1>1. wallet \in [Keys -> WalletType] /\ wallet[k] \in WalletType
    BY TypeFacts
  <1>2. ASSUME NEW n \in Nat
        PROVE  /\ [wallet EXCEPT ![k].paid = n] \in [Keys -> WalletType]
               /\ [wallet EXCEPT ![k].paid = n][k].paid = n
               /\ [wallet EXCEPT ![k].paid = n][k].back = wallet[k].back
               /\ \A j \in Keys \ {k} :
                    [wallet EXCEPT ![k].paid = n][j] = wallet[j]
    <2>1. [wallet EXCEPT ![k].paid = n] =
            [wallet EXCEPT ![k] = [wallet[k] EXCEPT !.paid = n]]
      BY <1>1
    <2>2. [wallet[k] EXCEPT !.paid = n] \in WalletType
      BY <1>1 DEF WalletType
    <2> QED BY <1>1, <2>1, <2>2 DEF WalletType
  <1>3. ASSUME GiveBack(k)
        PROVE  /\ wallet' \in [Keys -> WalletType]
               /\ wallet'[k].paid = wallet[k].paid
               /\ wallet'[k].back = wallet[k].paid
               /\ \A j \in Keys \ {k} : wallet'[j] = wallet[j]
    <2>1. wallet' = [wallet EXCEPT ![k] =
                       [wallet[k] EXCEPT !.back = wallet[k].paid]]
      BY <1>1, <1>3 DEF GiveBack
    <2>2. [wallet[k] EXCEPT !.back = wallet[k].paid] \in WalletType
      BY <1>1 DEF WalletType
    <2> QED BY <1>1, <2>1, <2>2 DEF WalletType
  <1> QED BY <1>2, <1>3

\* What a step does to the pool outside of CreditPool's own actions.
Credited ==
  \/ UNCHANGED <<pool, faults>>
  \/ UNCHANGED pool /\ Fault
  \/ UNCHANGED <<poolRest, faults>> /\ \E n \in Nat : CreditRow(n)

LEMMA CreditedTyped ==
  ASSUME PoolTypeOK, Credited
  PROVE  PoolTypeOK'
  <1>1. faults \in Nat
    BY DEF PoolTypeOK
  <1>2. CASE UNCHANGED <<pool, faults>>
    BY <1>1, <1>2, PoolKept
  <1>3. CASE UNCHANGED pool /\ Fault
    BY <1>1, <1>3, PoolKept DEF Fault
  <1>4. CASE UNCHANGED <<poolRest, faults>> /\ \E n \in Nat : CreditRow(n)
    BY <1>4, CreditTyped
  <1> QED BY <1>2, <1>3, <1>4 DEF Credited

LEMMA TopupTyped ==
  ASSUME TypeOK, NEW t \in Topups, Topup(t)
  PROVE  TypeOK' /\ Credited
  <1> USE DEF Topup, Begin, Lookup, DebitWallet, DebitFails, TryFinalize,
              TryFinalizeFails, Finalize, FinalizeFails, FundCheck,
              FundCheckFails, FundTx, FundTxFails, Revert, RevertFails, Terminal,
              TerminalFails, Strand, StrandFails, Crash
  <1>1. PICK k, n : k = key(t) /\ n = amount(t)
    OBVIOUS
  <1>2. /\ k \in Keys /\ n \in Amounts /\ n \in Nat
        /\ Own(k) \in Slots /\ Coll(k) \in Slots
    BY <1>1, RequestFacts
  <1>3. top' \in [Topups -> TopType]
    <2>1. PICK l \in Steps : Go(t, l)
      BY DEF Steps, Replayed
    <2> QED BY <2>1, GoFacts
  <1>4. /\ events' \in [Slots -> EventType] /\ funded' \in [Keys -> Nat]
        /\ Credited
    <2>1. CASE Finalize(t)
      <3>1. FinalizeTx(Own(k)) /\ faults' = faults
        BY <1>1, <2>1
      <3>2. events' \in [Slots -> EventType] /\ funded' \in [Keys -> Nat]
        BY <1>2, <3>1, FinalizeFacts
      <3>3. events[Own(k)].amount \in Nat
        BY <1>2, TypeFacts DEF EventType
      <3> QED BY <3>1, <3>2, <3>3 DEF FinalizeTx, Credited
    <2>2. CASE FundTx(t)
      <3>1. CASE UNCHANGED <<pool, events, funded, adrift>>
        BY <2>2, <3>1, TypeFacts DEF Credited
      <3>2. CASE ~UNCHANGED <<pool, events, funded, adrift>>
        <4>1. /\ CreditRow(n) /\ UNCHANGED poolRest /\ faults' = faults
              /\ Insert(Own(k), "admin_topup", n)
              /\ funded' = [funded EXCEPT ![k] = @ + n]
          BY <1>1, <2>2, <3>2
        <4>2. "admin_topup" \in Sources
          BY DEF Sources
        <4>3. funded' \in [Keys -> Nat]
          BY <1>2, <4>1, TypeFacts
        <4> QED BY <1>2, <4>1, <4>2, <4>3, InsertFacts DEF Credited
      <3> QED BY <3>1, <3>2
    <2>3. CASE Terminal(t) \/ Strand(t)
      <3>1. PICK e \in {Own(k), Coll(k)},
                 source \in {"topup_reverted", "topup_stranded"} :
              Insert(e, source, n)
        BY <1>1, <2>3 DEF StrandSlot, Own, Coll
      <3>2. source \in Sources /\ e \in Slots
        BY <1>2 DEF Sources
      <3> QED BY <1>2, <2>3, <3>1, <3>2, InsertFacts, TypeFacts DEF Credited
    <2>4. CASE /\ ~Finalize(t) /\ ~FundTx(t) /\ ~Terminal(t) /\ ~Strand(t)
      <3>1. UNCHANGED <<pool, events, funded>> /\ (Fault \/ faults' = faults)
        BY <2>4
      <3> QED BY <3>1, TypeFacts DEF Credited
    <2> QED BY <2>1, <2>2, <2>3, <2>4
  <1>5. wallet' \in [Keys -> WalletType]
    <2>1. UNCHANGED wallet \/ GiveBack(k) \/ wallet' = [wallet EXCEPT ![k].paid = n]
      BY <1>1 DEF Debit_
    <2> QED BY <1>2, <2>1, WalletFacts, TypeFacts
  <1>6. /\ untracked' \in SUBSET Keys /\ adrift' \in SUBSET Keys
        /\ shadowed' \in SUBSET Keys /\ listed' \in SUBSET Slots
    <2>1. /\ untracked' = untracked \/ untracked' = untracked \cup {k}
          /\ adrift' = adrift \/ adrift' = adrift \cup {k} \/ adrift' = adrift \ {k}
          /\ shadowed' = shadowed \/ shadowed' = shadowed \cup {k}
          /\ listed' = listed
      BY <1>1 DEF Debit_
    <2> QED BY <1>2, <2>1, TypeFacts
  <1>7. PoolTypeOK'
    BY <1>4, CreditedTyped, TypeFacts
  <1> QED BY <1>3, <1>4, <1>5, <1>6, <1>7 DEF TypeOK, EventType, TopType, WalletType

LEMMA StepTyped ==
  ASSUME TypeOK, [Next]_vars
  PROVE  TypeOK' /\ (PoolNext \/ Credited)
  <1>1. CASE PoolNext /\ UNCHANGED topVars
    <2>1. PoolTypeOK'
      BY <1>1, PoolTypeStep, TypeFacts
    <2> QED BY <1>1, <2>1 DEF TypeOK, topVars
  <1>2. ASSUME NEW t \in Topups, Topup(t)
        PROVE  TypeOK' /\ Credited
    BY <1>2, TopupTyped
  <1>3. CASE SweepList
    <2>1. Credited /\ UNCHANGED <<events, top, wallet, funded, untracked, adrift, shadowed>>
          /\ listed' \in SUBSET Slots
      BY <1>3 DEF SweepList, Credited
    <2> QED BY <2>1, CreditedTyped DEF TypeOK
  <1>4. ASSUME NEW e \in Slots, SweepNext(e)
        PROVE  TypeOK' /\ Credited
    <2>1. FinalizeTx(e) /\ UNCHANGED <<top, wallet, untracked, adrift, shadowed, faults>>
          /\ listed' = listed \ {e}
      BY <1>4 DEF SweepNext
    <2>2. PoolTypeOK' /\ events' \in [Slots -> EventType] /\ funded' \in [Keys -> Nat]
      BY <2>1, FinalizeFacts
    <2>3. events[e].amount \in Nat
      BY TypeFacts DEF EventType
    <2>4. Credited
      BY <2>1, <2>3 DEF FinalizeTx, Credited
    <2> QED BY <2>1, <2>2, <2>4 DEF TypeOK, EventType
  <1>5. ASSUME NEW e \in Slots, CloseManually(e)
        PROVE  TypeOK' /\ Credited
    <2>1. Credited /\ UNCHANGED <<top, listed, funded, untracked, adrift, shadowed>>
          /\ GiveBack(e[1])
      BY <1>5 DEF CloseManually, Credited
    <2>2. events' \in [Slots -> EventType]
      <3>1. events \in [Slots -> EventType] /\ events[e] \in EventType
        BY TypeFacts
      <3>2. [events[e] EXCEPT !.source = "topup_manually_closed"] \in EventType
        BY <3>1 DEF EventType, Sources
      <3>3. events' = [events EXCEPT ![e] =
                         [events[e] EXCEPT !.source = "topup_manually_closed"]]
        BY <1>5, <3>1 DEF CloseManually
      <3> QED BY <3>1, <3>2, <3>3
    <2>3. wallet' \in [Keys -> WalletType]
      BY <2>1, WalletFacts DEF Slots
    <2> QED BY <2>1, <2>2, <2>3, CreditedTyped DEF TypeOK, EventType, WalletType
  <1>6. ASSUME NEW k \in Keys, NEW n \in Amounts, PlatformFund(k, n)
        PROVE  TypeOK' /\ Credited
    <2>1. /\ Credited
          /\ UNCHANGED <<top, listed, wallet, funded, untracked, adrift, shadowed>>
          /\ Insert(Own(k), "platform", n)
      BY <1>6, TypeFacts DEF PlatformFund, Credited
    <2>2. Own(k) \in Slots /\ "platform" \in Sources
      BY DEF Slots, Own, Sources
    <2> QED BY <2>1, <2>2, InsertFacts, CreditedTyped DEF TypeOK, EventType
  <1>7. CASE UNCHANGED vars
    <2>1. Credited /\ UNCHANGED topVars
      BY <1>7 DEF vars, Credited
    <2> QED BY <2>1, CreditedTyped DEF TypeOK, topVars
  <1> QED BY <1>1, <1>2, <1>3, <1>4, <1>5, <1>6, <1>7 DEF Next

LEMMA InitTyped == Init => TypeOK
  <1> SUFFICES ASSUME Init PROVE TypeOK
    OBVIOUS
  <1>1. PoolTypeOK
    <2> USE PoolAssumption DEF PoolMaxBalanceUnlimited
    <2>1. spender \in [Spenders -> SpenderType]
      BY DEF Init, PoolInit, SpenderType
    <2>2. NoRead \in ReadType
      BY DEF NoRead, ReadType
    <2>3. reset \in [Resetters -> ReadType]
      BY <2>2 DEF Init, PoolInit
    <2>4. refills \in [0..MaxPeriods -> Nat]
      BY DEF Init, PoolInit
    <2>5. staleResets \in BOOLEAN /\ drained \in BOOLEAN
      BY DEF Init, PoolInit
    <2>6. /\ balance \in Int /\ draws \in Int /\ nextReset \in Nat
          /\ period \in Nat /\ faults \in Nat
          /\ ceiling \in Nat \cup {PoolMaxBalanceUnlimited}
      BY DEF Init, PoolInit
    <2> QED BY <2>1, <2>3, <2>4, <2>5, <2>6
            DEF PoolTypeOK, SpenderType, ReadType
  <1>2. events \in [Slots -> EventType]
    BY DEF Init, Free, EventType
  <1>3. "start" \in Steps /\ top \in [Topups -> TopType]
    BY DEF Init, Steps, TopType
  <1> QED BY <1>1, <1>2, <1>3 DEF Init, TypeOK, EventType, TopType

\* Every variable keeps to its range, whatever the keys, the requests and the
\* bounds (TopupCreditPool, ReconcileStrandedTopups, ResetDuePools).
THEOREM TypeCorrect == Spec => []TypeOK
  <1>1. TypeOK /\ [Next]_vars => TypeOK'
    BY StepTyped
  <1> QED BY <1>1, InitTyped, PTL DEF Spec

-----------------------------------------------------------------------------
\* One key moves

\* A step that concerns key k alone.
KeyFrame(k) ==
  /\ \A j \in Keys \ {k} :
       /\ own(j)' = own(j) /\ derived(j)' = derived(j)
       /\ wallet'[j] = wallet[j] /\ funded'[j] = funded[j]
       /\ j \in untracked' <=> j \in untracked
       /\ j \in adrift' <=> j \in adrift
       /\ j \in shadowed' <=> j \in shadowed
  /\ untracked \subseteq untracked'
  /\ \A e \in {Own(k), Coll(k)} :
       events'[e].source = "none" => events'[e] = Free

\* A request in flight is not overtaken by a refund.
LEMMA ClearInFlight ==
  ASSUME PayInv, NEW t \in Topups, top[t].at \notin Waiting,
         key(t) \notin untracked
  PROVE  /\ Clear(t)
         /\ top[t].at = "terminal" => Alone(t)
  BY DEF PayInv, Clear, Alone, At, key

LEMMA ViewOf ==
  ASSUME TypeOK, PayInv, NEW t \in Topups, Clear(t), key(t) \notin untracked
  PROVE  View(key(t), top[t].at, amount(t))
  <1>1. KeyInv(key(t)) /\ Stage(key(t), top[t].at, amount(t))
    BY RequestFacts DEF PayInv
  <1>2. ASSUME NEW u \in Topups, key(u) = key(t), At(u, "terminal")
        PROVE  u = t
    BY <1>2 DEF Clear, At
  <1> QED BY <1>1, <1>2 DEF KeyInv, View, At

\* The slots of two keys differ.
LEMMA SlotsApart ==
  /\ \A e \in Slots : \E k \in Keys : e = Own(k) \/ e = Coll(k)
  /\ \A k \in Keys : Own(k) \in Slots /\ Coll(k) \in Slots /\ Own(k) # Coll(k)
  /\ \A j, k \in Keys : j # k =>
       /\ Own(j) # Own(k) /\ Coll(j) # Coll(k)
       /\ Own(j) # Coll(k) /\ Coll(j) # Own(k)
  BY DEF Slots, Own, Coll

LEMMA FreeKept ==
  ASSUME FreeIsNone, NEW k \in Keys, KeyFrame(k)
  PROVE  FreeIsNone'
  <1>1. ASSUME NEW e \in Slots, events'[e].source = "none"
        PROVE  events'[e] = Free
    <2>1. PICK j \in Keys : e = Own(j) \/ e = Coll(j)
      BY SlotsApart
    <2>2. CASE j = k
      BY <1>1, <2>1, <2>2 DEF KeyFrame
    <2>3. CASE j # k
      BY <1>1, <2>1, <2>3 DEF KeyFrame, FreeIsNone, own, derived
    <2> QED BY <2>2, <2>3
  <1> QED BY <1>1 DEF FreeIsNone, Free

\* The invariant of a key that a step leaves alone.
LEMMA OtherKey ==
  ASSUME NEW k \in Keys, KeyFrame(k), NEW j \in Keys \ {k},
         KeyInv(j),
         \A u \in Topups : top'[u].key = top[u].key
                           /\ (key(u) = j => top'[u] = top[u])
  PROVE  KeyInv(j)'
  <1>1. /\ own(j)' = own(j) /\ derived(j)' = derived(j)
        /\ wallet'[j] = wallet[j] /\ funded'[j] = funded[j]
        /\ j \in untracked' <=> j \in untracked
        /\ j \in adrift' <=> j \in adrift
        /\ j \in shadowed' <=> j \in shadowed
    BY DEF KeyFrame
  <1>2. Books(j) => Books(j)'
    BY <1>1 DEF Books, RowTrue, paid, back
  <1>3. Settled(j) => Settled(j)'
    BY <1>1 DEF Settled, paid, back
  <1>4. ASSUME NEW u \in Topups, key(u) = j
        PROVE  key(u)' = j /\ top'[u].at = top[u].at
    BY <1>4 DEF key
  <1> QED BY <1>1, <1>2, <1>3, <1>4 DEF KeyInv, At, paid, back

LEMMA OtherStage ==
  ASSUME NEW k \in Keys, KeyFrame(k), NEW j \in Keys \ {k}, NEW at, NEW n,
         Stage(j, at, n)
  PROVE  Stage(j, at, n)'
  BY DEF KeyFrame, Stage, Unrefunded, paid, back

\* What a request's step from one place to another must leave behind: what it
\* relies on itself, the books, and what the others with its key rely on.
Leaves(t, k, n, at, l) ==
  /\ Clear(t)
  /\ View(k, l, n)'
  /\ l = "terminal" => Alone(t)
  /\ Kept(k, at, l)
  /\ \/ Alone(t)
     \/ \A s \in Steps \ {"terminal"}, m \in Nat : Stage(k, s, m) => Stage(k, s, m)'

\* A request's step keeps the invariant when it does for the request's key.
LEMMA TopupStep ==
  ASSUME TypeOK, PayInv, NEW t \in Topups, NEW l \in Steps, Go(t, l),
         NEW k, k = key(t), NEW n, n = amount(t), NEW at, at = top[t].at,
         KeyFrame(k), k \notin untracked' => Leaves(t, k, n, at, l)
  PROVE  PayInv'
  <1>0. k \in Keys
    BY RequestFacts
  <1>1. /\ top'[t].at = l /\ key(t)' = k /\ amount(t)' = n
        /\ \A u \in Topups \ {t} : top'[u] = top[u]
        /\ \A u \in Topups : key(u)' = key(u)
    BY GoFacts DEF key, amount
  <1>2. FreeIsNone'
    BY <1>0, FreeKept DEF PayInv
  <1>3. ASSUME NEW u \in Topups, key(u)' \notin untracked', At(u, "terminal")'
        PROVE  Alone(u)'
    <2>1. CASE u = t
      <3>1. Alone(t)
        BY <1>1, <1>3, <2>1 DEF At, Leaves
      <3> QED BY <1>1, <2>1, <3>1 DEF Alone
    <2>2. CASE u # t /\ key(u) = k
      <3>1. Clear(t)
        BY <1>1, <1>3, <2>2 DEF Leaves
      <3>2. top[u].at # "terminal" /\ top'[u] = top[u]
        BY <1>1, <2>2, <3>1 DEF Clear
      <3> QED BY <1>3, <3>2 DEF At
    <2>3. CASE u # t /\ key(u) # k
      <3>1. key(u) \in Keys /\ key(u) \notin untracked
        BY <1>1, <1>3, <2>3, RequestFacts DEF KeyFrame
      <3>2. top'[u] = top[u]
        BY <1>1, <2>3
      <3>3. Alone(u)
        BY <1>3, <3>1, <3>2 DEF PayInv, At
      <3> QED BY <1>1, <2>3, <3>3 DEF Alone
    <2> QED BY <2>1, <2>2, <2>3
  <1>4. ASSUME NEW u \in Topups, key(u)' \notin untracked'
        PROVE  Stage(key(u), top[u].at, amount(u))'
    <2>1. CASE u = t
      BY <1>1, <1>4, <2>1 DEF View, Leaves
    <2>0. PICK j, s, m : j = key(u) /\ s = top[u].at /\ m = amount(u)
      OBVIOUS
    <2>a. u # t => key(u)' = j /\ top'[u].at = s /\ amount(u)' = m
      BY <1>1, <2>0 DEF amount
    <2>b. /\ j \in Keys /\ m \in Nat /\ s \in Steps
          /\ j \notin untracked => Stage(j, s, m)
      BY <2>0, RequestFacts DEF PayInv
    <2>2. CASE u # t /\ key(u) = k
      <3>1. Leaves(t, k, n, at, l) /\ k \notin untracked
        BY <1>1, <1>4, <2>2 DEF KeyFrame
      <3>2. s # "terminal"
        BY <2>0, <2>2, <3>1 DEF Leaves, Clear
      <3>3. CASE Alone(t)
        <4>1. s \in Waiting
          BY <2>0, <2>2, <3>3 DEF Alone
        <4>2. Stage(j, s, m)'
          BY <4>1 DEF Stage, Waiting, Owing
        <4> QED BY <2>a, <2>2, <4>2
      <3>4. CASE \A q \in Steps \ {"terminal"}, i \in Nat : Stage(k, q, i) => Stage(k, q, i)'
        <4>1. Stage(j, s, m)'
          BY <2>0, <2>b, <2>2, <3>1, <3>2, <3>4
        <4> QED BY <2>a, <2>2, <4>1
      <3> QED BY <3>1, <3>3, <3>4 DEF Leaves
    <2>3. CASE u # t /\ key(u) # k
      <3>1. j \in Keys \ {k} /\ j \notin untracked
        BY <1>4, <2>0, <2>a, <2>b, <2>3 DEF KeyFrame
      <3>2. Stage(j, s, m)'
        BY <1>0, <2>b, <3>1, OtherStage
      <3> QED BY <2>a, <2>3, <3>2
    <2> QED BY <2>1, <2>2, <2>3
  <1>5. ASSUME NEW j \in Keys
        PROVE  KeyInv(j)'
    <2>1. CASE j = k
      <3> SUFFICES ASSUME k \notin untracked' PROVE KeyInv(k)'
        BY <2>1 DEF KeyInv
      <3>1. Leaves(t, k, n, at, l) /\ k \notin untracked
        BY <2>1 DEF KeyFrame
      <3>2. Books(k)' /\ (own(k)'.source = "none" /\ back(k)' # 0 =>
                           \E u \in Topups : key(u)' = k /\ At(u, "terminal")')
        BY <1>1, <3>1 DEF Leaves, View, At
      <3>3. ASSUME k \notin adrift' \cup shadowed'
            PROVE  Settled(k)' \/ \E u \in Topups : key(u)' = k /\ top'[u].at \in Owing
        <4>1. CASE Settled(k)' \/ l \in Owing
          BY <1>1, <4>1
        <4>2. CASE /\ at \notin Owing /\ k \notin adrift \cup shadowed
                   /\ Settled(k) => Settled(k)'
          <5>1. Settled(k) \/ \E u \in Topups : key(u) = k /\ top[u].at \in Owing
            BY <1>0, <3>1, <4>2 DEF PayInv, KeyInv
          <5>2. ASSUME NEW u \in Topups, key(u) = k, top[u].at \in Owing
                PROVE  key(u)' = k /\ top'[u].at \in Owing
            BY <1>1, <4>2, <5>2
          <5> QED BY <4>2, <5>1, <5>2
        <4> QED BY <3>1, <3>3, <4>1, <4>2 DEF Leaves, Kept
      <3> QED BY <3>2, <3>3 DEF KeyInv
    <2>2. CASE j # k
      <3>1. \A u \in Topups : top'[u].key = top[u].key
                              /\ (key(u) = j => top'[u] = top[u])
        BY <1>1, <2>2 DEF key
      <3> QED BY <1>0, <2>2, <3>1, OtherKey DEF PayInv
    <2> QED BY <2>1, <2>2
  <1> QED BY <1>2, <1>3, <1>4, <1>5 DEF PayInv

\* What may become of the money behind a key in one step: it is paid, or, once
\* paid, credited or given back; a key of which the hub has lost track may do
\* anything.
Moved(k) ==
  \/ k \in untracked'
  \/ paid(k)' = paid(k) /\ back(k)' = back(k) /\ funded'[k] = funded[k]
  \/ /\ paid(k) = 0 /\ back(k) = 0 /\ funded[k] = 0
     /\ paid(k)' > 0 /\ back(k)' = 0 /\ funded'[k] = 0
  \/ /\ paid(k) > 0 /\ back(k) = 0 /\ funded[k] = 0
     /\ \/ funded'[k] > 0
        \/ funded'[k] = 0 /\ back(k)' > 0

PayStep == PayInv' /\ \E k \in Keys : KeyFrame(k) /\ Moved(k)

\* A step that moves no money and writes no row.
LEMMA QuietStep ==
  ASSUME TypeOK, PayInv, NEW t \in Topups, NEW l \in Steps, Go(t, l),
         UNCHANGED <<pool, events, listed, wallet, funded, shadowed>>,
         NEW k, k = key(t), NEW n, n = amount(t), NEW at, at = top[t].at,
         untracked' = untracked \/ untracked' = untracked \cup {k},
         adrift' = adrift \/ adrift' = adrift \cup {k},
         k \notin untracked' =>
           /\ Clear(t) /\ Stage(k, l, n)
           /\ at # "terminal" /\ l # "terminal"
           /\ k \notin adrift' \cup shadowed =>
                Settled(k) \/ l \in Owing \/ at \notin Owing
  PROVE  PayStep
  <1>1. k \in Keys
    BY RequestFacts
  <1>4. KeyFrame(k)
    <2>1. \A e \in {Own(k), Coll(k)} : events[e].source = "none" => events[e] = Free
      BY <1>1, SlotsApart DEF PayInv, FreeIsNone
    <2>2. \A j \in Keys \ {k} :
            /\ (j \in untracked' <=> j \in untracked)
            /\ (j \in adrift' <=> j \in adrift)
      OBVIOUS
    <2> QED BY <2>1, <2>2 DEF KeyFrame, own, derived
  <1>5. Moved(k)
    BY DEF Moved, paid, back
  <1>6. ASSUME k \notin untracked'
        PROVE  Leaves(t, k, n, at, l)
    <2>1. k \notin untracked
      BY <1>6
    <2>2. Books(k) /\ (own(k).source = "none" => back(k) = 0)
      BY <1>6, <2>1, ViewOf DEF View
    <2>3. /\ own(k)' = own(k) /\ derived(k)' = derived(k)
          /\ paid(k)' = paid(k) /\ back(k)' = back(k)
          /\ funded'[k] = funded[k] /\ shadowed' = shadowed
      BY DEF own, derived, paid, back
    <2>4. Books(k)' /\ (Settled(k) => Settled(k)')
      BY <2>2, <2>3 DEF Books, RowTrue, Settled
    <2>5. \A s, m : Stage(k, s, m) => Stage(k, s, m)'
      BY <2>3 DEF Stage, Unrefunded
    <2>6. View(k, l, n)'
      BY <1>6, <2>2, <2>3, <2>4, <2>5 DEF View
    <2>7. Kept(k, at, l)
      BY <1>6, <2>3, <2>4 DEF Kept
    <2> QED BY <1>6, <2>5, <2>6, <2>7 DEF Leaves
  <1>7. PayInv'
    BY <1>4, <1>6, TopupStep
  <1> QED BY <1>1, <1>4, <1>5, <1>7 DEF PayStep

LEMMA BeginStep ==
  ASSUME TypeOK, PayInv, NEW t \in Topups, Begin(t)
  PROVE  PayStep
  <1>1. PICK k, n, at : k = key(t) /\ n = amount(t) /\ at = top[t].at
    OBVIOUS
  <1>2. k \notin untracked' => Clear(t)
    BY <1>1 DEF Begin, InFlight, Clear, At
  <1>3. "lookup" \in Steps /\ Go(t, "lookup") /\ at = "start"
    BY <1>1 DEF Begin, Steps, At
  <1>4. Stage(k, "lookup", n)
    BY DEF Stage, Owing
  <1>5. untracked' = untracked \/ untracked' = untracked \cup {k}
    BY <1>1 DEF Begin
  <1>6. UNCHANGED <<pool, events, listed, wallet, funded, adrift, shadowed>>
    BY DEF Begin
  <1>7. "start" \notin Owing
    BY DEF Owing
  <1> QED BY <1>1, <1>2, <1>3, <1>4, <1>5, <1>6, <1>7, QuietStep

LEMMA LookupStep ==
  ASSUME TypeOK, PayInv, NEW t \in Topups, Lookup(t)
  PROVE  PayStep
  <1>1. PICK k, n, at : k = key(t) /\ n = amount(t) /\ at = top[t].at
    OBVIOUS
  <1>2. at = "lookup" /\ at \notin Waiting /\ at \notin Owing
    BY <1>1 DEF Lookup, At, Waiting, Owing
  <1>3. PICK l \in {"debit", "done"} :
          /\ Go(t, l)
          /\ l = "debit" => Verdict(own(k), n) \in {"fresh", "stranded"}
    BY <1>1 DEF Lookup, own
  <1>4. l \in Steps /\ l # "terminal"
    BY DEF Steps
  <1>5. k \notin untracked => View(k, "lookup", n) /\ Clear(t)
    BY <1>1, <1>2, ClearInFlight, ViewOf
  <1>6. l = "debit" =>
          own(k).source = "none" \/ own(k).source \in StrandedStates
    BY <1>3 DEF Verdict, StrandedStates
  <1>7. k \notin untracked => Stage(k, l, n)
    BY <1>5, <1>6 DEF View, Stage, Owing, Unrefunded, StrandedStates
  <1> QED BY <1>1, <1>2, <1>3, <1>4, <1>5, <1>7, QuietStep DEF Lookup

\* The read that decides between the stranded row and a credit of one's own.
LEMMA TryFinalizeStep ==
  ASSUME TypeOK, PayInv, NEW t \in Topups, TryFinalize(t) \/ TryFinalizeFails(t)
  PROVE  PayStep
  <1>1. PICK k, n, at : k = key(t) /\ n = amount(t) /\ at = top[t].at
    OBVIOUS
  <1>2. at = "tryFinalize" /\ at \notin Waiting
    BY <1>1 DEF TryFinalize, TryFinalizeFails, At, Waiting
  <1>3. PICK l \in {"finalize", "done", "fundCheck"} :
          /\ Go(t, l)
          /\ l = "finalize" => own(k).source = "topup_stranded"
          /\ l = "done" =>
               own(k).source \in {"topup_reconciled", "topup_manually_closed"}
    BY <1>1 DEF TryFinalize, TryFinalizeFails, own
  <1>4. l \in Steps /\ l # "terminal"
    BY DEF Steps
  <1>5. k \notin untracked => View(k, "tryFinalize", n) /\ Clear(t)
    BY <1>1, <1>2, ClearInFlight, ViewOf
  <1>6. k \notin untracked => Stage(k, l, n) /\ (Settled(k) \/ l \in Owing)
    BY <1>3, <1>5
       DEF View, Stage, Owing, Books, RowTrue, Settled, StrandedStates
  <1>7. UNCHANGED <<pool, events, listed, wallet, funded, untracked, adrift,
                    shadowed>>
    BY DEF TryFinalize, TryFinalizeFails
  <1> QED BY <1>1, <1>2, <1>3, <1>4, <1>5, <1>6, <1>7, QuietStep

LEMMA ReplayedFacts ==
  ASSUME NEW k, NEW t, Replayed(own(k), t) = "revertCollision",
         own(k).source \in Sources
  PROVE  own(k).source = "platform"
  BY DEF Replayed, Verdict, StrandedStates, Sources

LEMMA OwnSource ==
  ASSUME TypeOK, NEW k \in Keys
  PROVE  own(k).source \in Sources \cup {"none"} /\ own(k).amount \in Nat
  BY TypeFacts, SlotsApart DEF own, EventType

\* The read before the transaction that credits the pool.
LEMMA FundCheckStep ==
  ASSUME TypeOK, PayInv, NEW t \in Topups, FundCheck(t) \/ FundCheckFails(t)
  PROVE  PayStep
  <1>1. PICK k, n, at : k = key(t) /\ n = amount(t) /\ at = top[t].at
    OBVIOUS
  <1>2. at = "fundCheck" /\ at \notin Waiting
    BY <1>1 DEF FundCheck, FundCheckFails, At, Waiting
  <1>3. k \in Keys /\ own(k).source \in Sources \cup {"none"}
    BY <1>1, RequestFacts, OwnSource
  <1>4. own(k).source = "none" => own(k) = Free
    BY <1>3, SlotsApart DEF PayInv, FreeIsNone, own
  <1>5. Free.source = "none"
    BY DEF Free
  <1>6. PICK l \in {"fundTx", "revertCollision", "done"} :
          /\ Go(t, l)
          /\ l = "fundTx" => own(k).source = "none" \/ k \in untracked'
          /\ l = "revertCollision" => own(k).source = "platform"
          /\ l = "done" => own(k).source \notin {"none", "platform"}
    <2>1. CASE FundCheckFails(t)
      BY <1>1, <1>5, <2>1 DEF FundCheckFails, own
    <2>2. CASE FundCheck(t) /\ own(k) = Free
      BY <1>1, <1>5, <2>2 DEF FundCheck, own
    <2>3. CASE FundCheck(t) /\ own(k) # Free
      <3>1. Go(t, Replayed(own(k), t)) /\ own(k).source \in Sources
        BY <1>1, <1>3, <1>4, <2>3 DEF FundCheck, own
      <3>2. Replayed(own(k), t) \in {"revertCollision", "done"}
        BY DEF Replayed
      <3>3. Replayed(own(k), t) = "done" => own(k).source # "platform"
        BY <3>1 DEF Replayed, Verdict, StrandedStates
      <3>4. Replayed(own(k), t) = "revertCollision" => own(k).source = "platform"
        BY <3>1, ReplayedFacts
      <3>5. "none" \notin Sources
        BY DEF Sources
      <3> QED BY <3>1, <3>2, <3>3, <3>4, <3>5
    <2> QED BY <2>1, <2>2, <2>3
  <1>7. l \in Steps /\ l # "terminal"
    BY DEF Steps
  <1>8. k \notin untracked => View(k, "fundCheck", n) /\ Clear(t)
    BY <1>1, <1>2, ClearInFlight, ViewOf
  <1>9. k \notin untracked' =>
          /\ Clear(t) /\ Stage(k, l, n)
          /\ Settled(k) \/ l \in Owing
    <2>1. k \notin untracked' => k \notin untracked
      BY DEF FundCheck, FundCheckFails
    <2> QED BY <1>6, <1>8, <2>1
            DEF View, Stage, Owing, Books, RowTrue, Settled, Unrefunded
  <1>10. /\ UNCHANGED <<pool, events, listed, wallet, funded, adrift, shadowed>>
         /\ untracked' = untracked \/ untracked' = untracked \cup {k}
    BY <1>1 DEF FundCheck, FundCheckFails
  <1> QED BY <1>1, <1>2, <1>6, <1>7, <1>9, <1>10, QuietStep

\* A request that fails or dies: the key is adrift, untracked, or as before.
LEMMA FailStep ==
  ASSUME TypeOK, PayInv, NEW t \in Topups,
         \/ FinalizeFails(t) \/ FundTxFails(t) \/ TerminalFails(t)
         \/ StrandFails(t) \/ Crash(t)
  PROVE  PayStep
  <1>1. PICK k, n, at : k = key(t) /\ n = amount(t) /\ at = top[t].at
    OBVIOUS
  <1>2. at \notin Waiting
    BY <1>1 DEF FinalizeFails, FundTxFails, TerminalFails, StrandFails, Crash,
                At, Waiting
  <1>4. k \notin untracked => View(k, at, n) /\ Clear(t)
    BY <1>1, <1>2, ClearInFlight, ViewOf
  <1>5. PICK l \in {"done", "revert"} :
          /\ Go(t, l)
          /\ l = "revert" => at = "fundTx"
          /\ l = "done" =>
               \/ at = "finalize" \/ k \in untracked' \/ k \in adrift'
               \/ at \in {"lookup", "debit"}
          /\ at = "terminal" => k \in untracked'
    BY <1>1 DEF FinalizeFails, FundTxFails, TerminalFails, StrandFails, Crash, At
  <1>6. l \in Steps /\ l # "terminal"
    BY DEF Steps
  <1>7. /\ UNCHANGED <<pool, events, listed, wallet, funded, shadowed>>
        /\ Fault
        /\ untracked' = untracked \/ untracked' = untracked \cup {k}
        /\ adrift' = adrift \/ adrift' = adrift \cup {k}
    BY <1>1 DEF FinalizeFails, FundTxFails, TerminalFails, StrandFails, Crash
  <1>8. k \notin untracked' =>
          /\ Clear(t) /\ Stage(k, l, n) /\ at # "terminal"
          /\ k \notin adrift' \cup shadowed =>
               Settled(k) \/ l \in Owing \/ at \notin Owing
    <2>1. k \notin untracked' => k \notin untracked /\ View(k, at, n) /\ Clear(t)
      BY <1>4, <1>7
    <2> QED BY <1>5, <2>1 DEF View, Stage, Owing, Unrefunded
  <1> QED BY <1>1, <1>5, <1>6, <1>7, <1>8, QuietStep

\* A step that moves the money of one key, or writes one of its rows.
LEMMA MovingStep ==
  ASSUME TypeOK, PayInv, NEW t \in Topups, NEW l \in Steps, Go(t, l),
         NEW k, k = key(t), NEW n, n = amount(t), NEW at, at = top[t].at,
         untracked' = untracked \/ untracked' = untracked \cup {k},
         adrift' = adrift \/ adrift' = adrift \cup {k} \/ adrift' = adrift \ {k},
         shadowed' = shadowed \/ shadowed' = shadowed \cup {k},
         \A e \in Slots : e # Own(k) /\ e # Coll(k) => events'[e] = events[e],
         \A j \in Keys \ {k} : wallet'[j] = wallet[j] /\ funded'[j] = funded[j],
         \A e \in {Own(k), Coll(k)} :
           events'[e].source = "none" => events'[e] = Free,
         Moved(k),
         k \notin untracked' => Leaves(t, k, n, at, l)
  PROVE  PayStep
  <1>1. k \in Keys
    BY RequestFacts
  <1>4. KeyFrame(k)
    <2>1. \A j \in Keys \ {k} : own(j)' = own(j) /\ derived(j)' = derived(j)
      BY <1>1, SlotsApart DEF own, derived
    <2>2. \A j \in Keys \ {k} :
            /\ (j \in untracked' <=> j \in untracked)
            /\ (j \in adrift' <=> j \in adrift)
            /\ (j \in shadowed' <=> j \in shadowed)
      OBVIOUS
    <2> QED BY <2>1, <2>2 DEF KeyFrame
  <1>5. PayInv'
    BY <1>4, TopupStep
  <1> QED BY <1>1, <1>4, <1>5 DEF PayStep

LEMMA KeyTyped ==
  ASSUME TypeOK, NEW k \in Keys
  PROVE  /\ paid(k) \in Nat /\ back(k) \in Nat /\ funded[k] \in Nat
         /\ own(k).amount \in Nat /\ derived(k).amount \in Nat
         /\ own(k).source \in Sources \cup {"none"}
         /\ derived(k).source \in Sources \cup {"none"}
  BY TypeFacts, SlotsApart DEF own, derived, paid, back, WalletType, EventType

\* The free rows of a key in a step that writes no row.
LEMMA FreeRows ==
  ASSUME PayInv, NEW k \in Keys, events' = events
  PROVE  \A e \in {Own(k), Coll(k)} : events'[e].source = "none" => events'[e] = Free
  BY SlotsApart DEF PayInv, FreeIsNone

\* The wallet pays, or has paid before.
LEMMA DebitStep ==
  ASSUME TypeOK, PayInv, NEW t \in Topups, DebitWallet(t) \/ DebitFails(t)
  PROVE  PayStep
  <1>1. PICK k, n, at : k = key(t) /\ n = amount(t) /\ at = top[t].at
    OBVIOUS
  <1>2. k \in Keys /\ n \in Nat /\ n > 0
    BY <1>1, RequestFacts
  <1>3. at = "debit" /\ at \notin Waiting /\ at \notin Owing
    BY <1>1 DEF DebitWallet, DebitFails, At, Waiting, Owing
  <1>4. k \notin untracked => View(k, "debit", n) /\ Clear(t)
    BY <1>1, <1>3, ClearInFlight, ViewOf
  <1>5. PICK l \in {"tryFinalize", "done"} :
          /\ Go(t, l)
          /\ \/ UNCHANGED <<wallet, untracked, adrift>> /\ l = "done"
             \/ /\ Debit_(t)
                /\ l = "done" => adrift' = adrift \cup {k}
                /\ l # "done" => adrift' = adrift
    BY <1>1 DEF DebitWallet, DebitFails
  <1>6. l \in Steps /\ l # "terminal"
    BY DEF Steps
  <1>7. UNCHANGED <<pool, events, listed, funded, shadowed>>
    BY DEF DebitWallet, DebitFails
  <1>8. CASE UNCHANGED <<wallet, untracked, adrift>> /\ l = "done"
    <2>1. Stage(k, "done", n)
      BY DEF Stage, Owing
    <2> QED BY <1>1, <1>3, <1>4, <1>5, <1>6, <1>7, <1>8, <2>1, QuietStep
  <1>9. CASE Debit_(t) /\ (l = "done" => adrift' = adrift \cup {k})
               /\ (l # "done" => adrift' = adrift)
    <2>1. paid(k) \in Nat /\ back(k) \in Nat /\ funded[k] \in Nat
      BY <1>2, KeyTyped
    <2>2. /\ wallet' \in [Keys -> WalletType]
          /\ \A j \in Keys \ {k} : wallet'[j] = wallet[j]
          /\ paid(k)' = IF paid(k) = 0 THEN n ELSE paid(k)
          /\ back(k)' = back(k)
      BY <1>1, <1>2, <1>9, WalletFacts, TypeFacts DEF Debit_, paid, back
    <2>3. untracked' = IF paid(k) \in {0, n} THEN untracked ELSE untracked \cup {k}
      BY <1>1, <1>9 DEF Debit_, paid
    <2>4. /\ own(k)' = own(k) /\ derived(k)' = derived(k)
          /\ funded'[k] = funded[k] /\ shadowed' = shadowed
      BY <1>7 DEF own, derived
    <2>5. ASSUME k \notin untracked'
          PROVE  Leaves(t, k, n, at, l) /\ Moved(k)
      <3>1. k \notin untracked /\ paid(k) \in {0, n} /\ paid(k)' = n
        BY <2>2, <2>3, <2>5
      <3>2. View(k, "debit", n) /\ Clear(t)
        BY <1>4, <3>1
      <3>3. paid(k) = 0 => back(k) = 0 /\ funded[k] = 0
        BY <2>1, <3>2 DEF View, Books
      <3>4. Moved(k)
        BY <1>2, <2>2, <2>4, <3>1, <3>3 DEF Moved
      <3>5. Books(k)'
        BY <1>2, <2>1, <2>2, <2>4, <3>1, <3>2, <3>3 DEF View, Books, RowTrue
      <3>6. Stage(k, l, n)'
        BY <1>2, <2>2, <2>4, <3>1, <3>2 DEF View, Stage, Unrefunded, Owing
      <3>7. own(k).source = "none" => back(k) = 0
        BY <3>2 DEF View
      <3>8. View(k, l, n)'
        BY <2>2, <2>4, <3>5, <3>6, <3>7 DEF View
      <3>9. Kept(k, at, l)
        BY <1>9 DEF Kept, Owing
      <3>10. ASSUME NEW s \in Steps \ {"terminal"}, NEW m \in Nat, Stage(k, s, m)
             PROVE  Stage(k, s, m)'
        <4>1. s \in Owing => paid(k) = m /\ m > 0
          BY <3>10 DEF Stage
        <4>2. s \in Owing => paid(k)' = m
          BY <2>2, <4>1
        <4> QED BY <2>2, <2>4, <3>10, <4>1, <4>2 DEF Stage, Unrefunded
      <3> QED BY <1>6, <3>2, <3>4, <3>8, <3>9, <3>10 DEF Leaves
    <2>6. Moved(k)
      BY <2>5 DEF Moved
    <2> QED BY <1>1, <1>2, <1>5, <1>6, <1>7, <1>9, <2>2, <2>3, <2>5, <2>6,
               FreeRows, MovingStep
  <1> QED BY <1>5, <1>8, <1>9

\* A retry settles its own stranded row.
LEMMA FinalizeStep ==
  ASSUME TypeOK, PayInv, NEW t \in Topups, Finalize(t)
  PROVE  PayStep
  <1>1. PICK k, n, at : k = key(t) /\ n = amount(t) /\ at = top[t].at
    OBVIOUS
  <1>2. k \in Keys /\ Own(k) \in Slots /\ Coll(k) \in Slots /\ Own(k)[1] = k
        /\ Own(k) # Coll(k)
    BY <1>1, RequestFacts, SlotsApart DEF Own
  <1>3. at = "finalize" /\ at \notin Waiting /\ at \notin Owing
    BY <1>1 DEF Finalize, At, Waiting, Owing
  <1>4. k \notin untracked => View(k, "finalize", n) /\ Clear(t)
    BY <1>1, <1>3, ClearInFlight, ViewOf
  <1>5. "done" \in Steps /\ Go(t, "done") /\ FinalizeTx(Own(k))
    BY <1>1 DEF Finalize, Steps
  <1>6. UNCHANGED <<listed, wallet, untracked, adrift, shadowed, faults>>
    BY DEF Finalize
  <1>7. Stage(k, "done", n) /\ Stage(k, "done", n)'
    BY DEF Stage, Owing
  <1>8. CASE UNCHANGED <<events, funded, pool>>
    BY <1>1, <1>3, <1>4, <1>5, <1>6, <1>7, <1>8, QuietStep
  <1>9. CASE ~UNCHANGED <<events, funded, pool>>
    <2>1. /\ own(k).source = "topup_stranded"
          /\ own(k)'.source = "topup_reconciled"
          /\ funded'[k] = funded[k] + own(k).amount
          /\ \A d \in Slots \ {Own(k)} : events'[d] = events[d]
          /\ \A j \in Keys \ {k} : funded'[j] = funded[j]
      BY <1>2, <1>5, <1>6, <1>9, FinalizeFacts DEF own
    <2>2. derived(k)' = derived(k) /\ paid(k)' = paid(k) /\ back(k)' = back(k)
      BY <1>2, <1>6, <2>1 DEF derived, paid, back
    <2>3. /\ paid(k) \in Nat /\ back(k) \in Nat /\ funded[k] \in Nat
          /\ own(k).amount \in Nat
      BY <1>2, KeyTyped
    <2>4. ASSUME k \notin untracked'
          PROVE  Leaves(t, k, n, at, "done") /\ Moved(k)
      <3>1. View(k, "finalize", n) /\ Clear(t)
        BY <1>4, <1>6, <2>4
      <3>2. /\ own(k).amount = paid(k) /\ funded[k] = 0 /\ back(k) = 0
            /\ paid(k) > 0 /\ derived(k).source = "none"
        BY <2>1, <3>1 DEF View, Books, RowTrue
      <3>3. Moved(k)
        BY <2>1, <2>2, <2>3, <3>2 DEF Moved
      <3>4. Books(k)' /\ Settled(k)'
        BY <2>1, <2>2, <2>3, <3>2 DEF Books, RowTrue, Settled
      <3>5. View(k, "done", n)' /\ Kept(k, at, "done")
        BY <1>7, <2>1, <3>4 DEF View, Kept
      <3>6. ASSUME NEW s \in Steps \ {"terminal"}, NEW m \in Nat, Stage(k, s, m)
            PROVE  Stage(k, s, m)'
        BY <2>1, <2>2, <3>6 DEF Stage, Unrefunded, StrandedStates
      <3> QED BY <3>1, <3>3, <3>5, <3>6 DEF Leaves
    <2>5. Moved(k)
      BY <2>4 DEF Moved
    <2>6. \A e \in {Own(k), Coll(k)} :
            events'[e].source = "none" => events'[e] = Free
      BY <1>2, <2>1 DEF PayInv, FreeIsNone, own
    <2> QED BY <1>1, <1>5, <1>6, <2>1, <2>4, <2>5, <2>6, MovingStep
  <1> QED BY <1>8, <1>9

\* Where a request goes whose slot is taken.
LEMMA TakenFacts ==
  ASSUME TypeOK, PayInv, NEW k \in Keys, NEW t, own(k) # Free
  PROVE  /\ Replayed(own(k), t) \in {"revertCollision", "done"}
         /\ Replayed(own(k), t) = "done" => own(k).source # "platform"
         /\ Replayed(own(k), t) = "revertCollision" => own(k).source = "platform"
         /\ own(k).source # "none"
  <1>1. own(k).source # "none"
    BY SlotsApart DEF PayInv, FreeIsNone, own
  <1>2. own(k).source \in Sources
    BY <1>1, OwnSource
  <1> QED BY <1>1, <1>2, ReplayedFacts DEF Replayed, Verdict, StrandedStates

\* The transaction that credits the pool and takes the slot.
LEMMA FundTxStep ==
  ASSUME TypeOK, PayInv, NEW t \in Topups, FundTx(t)
  PROVE  PayStep
  <1>1. PICK k, n, at : k = key(t) /\ n = amount(t) /\ at = top[t].at
    OBVIOUS
  <1>2. /\ k \in Keys /\ n \in Amounts /\ n \in Nat /\ n > 0
        /\ Own(k) \in Slots /\ Coll(k) \in Slots /\ Own(k) # Coll(k)
    BY <1>1, RequestFacts, SlotsApart
  <1>3. at = "fundTx" /\ at \notin Waiting
    BY <1>1 DEF FundTx, At, Waiting
  <1>4. k \notin untracked => View(k, "fundTx", n) /\ Clear(t)
    BY <1>1, <1>3, ClearInFlight, ViewOf
  <1>5. UNCHANGED <<listed, wallet, untracked, faults, shadowed>>
    BY DEF FundTx
  <1>6. CASE ~(FitsCeiling(n) /\ own(k) = Free)
    <2>1. UNCHANGED <<pool, events, funded, adrift>>
      BY <1>1, <1>6 DEF FundTx, own
    <2>2. PICK l \in {"revert", "revertCollision", "done"} :
            /\ Go(t, l)
            /\ l = "revertCollision" => own(k).source = "platform"
            /\ l = "done" => own(k).source \notin {"none", "platform"}
      <3>1. CASE ~FitsCeiling(n)
        BY <1>1, <3>1 DEF FundTx
      <3>2. CASE FitsCeiling(n)
        BY <1>1, <1>2, <1>6, <3>2, TakenFacts DEF FundTx, own
      <3> QED BY <3>1, <3>2
    <2>3. l \in Steps /\ l # "terminal"
      BY DEF Steps
    <2>4. k \notin untracked => Stage(k, l, n) /\ (Settled(k) \/ l \in Owing)
      BY <1>4, <2>2 DEF View, Stage, Owing, Books, RowTrue, Settled
    <2> QED BY <1>1, <1>3, <1>4, <1>5, <2>1, <2>2, <2>3, <2>4, QuietStep
  <1>7. CASE FitsCeiling(n) /\ own(k) = Free
    <2>1. /\ CreditRow(n) /\ UNCHANGED poolRest
          /\ Insert(Own(k), "admin_topup", n)
          /\ funded' = [funded EXCEPT ![k] = @ + n]
          /\ adrift' = adrift \ {k}
          /\ Go(t, "done")
      BY <1>1, <1>7 DEF FundTx, own
    <2>2. /\ \A e \in Slots \ {Own(k)} : events'[e] = events[e]
          /\ own(k)' = [source |-> "admin_topup", amount |-> n]
      <3>1. "admin_topup" \in Sources
        BY DEF Sources
      <3> QED BY <1>2, <1>7, <2>1, <3>1, InsertFacts DEF own
    <2>3. /\ funded'[k] = funded[k] + n
          /\ \A j \in Keys \ {k} : funded'[j] = funded[j]
      BY <1>2, <2>1, TypeFacts
    <2>5. derived(k)' = derived(k) /\ paid(k)' = paid(k) /\ back(k)' = back(k)
      BY <1>2, <1>5, <2>2 DEF derived, paid, back
    <2>6. paid(k) \in Nat /\ back(k) \in Nat /\ funded[k] \in Nat
      BY <1>2, KeyTyped
    <2>7. own(k)'.source = "admin_topup" /\ own(k).source = "none"
      BY <1>7, <2>2 DEF Free
    <2>8. ASSUME k \notin untracked'
          PROVE  Leaves(t, k, n, at, "done") /\ Moved(k)
      <3>1. View(k, "fundTx", n) /\ Clear(t)
        BY <1>4, <1>5, <2>8
      <3>2. /\ paid(k) = n /\ funded[k] = 0 /\ back(k) = 0
            /\ derived(k).source = "none"
        BY <2>7, <3>1 DEF View, Books, Stage, Owing
      <3>3. Moved(k)
        BY <1>2, <2>3, <2>5, <2>6, <3>2 DEF Moved
      <3>4. Books(k)' /\ Settled(k)'
        BY <1>2, <2>3, <2>5, <2>6, <2>7, <3>2 DEF Books, RowTrue, Settled
      <3>5. Stage(k, "done", n)'
        BY DEF Stage, Owing
      <3>6. View(k, "done", n)' /\ Kept(k, at, "done")
        BY <2>7, <3>4, <3>5 DEF View, Kept
      <3>7. ASSUME NEW s \in Steps \ {"terminal"}, NEW m \in Nat, Stage(k, s, m)
            PROVE  Stage(k, s, m)'
        BY <2>5, <2>7, <3>7 DEF Stage, Unrefunded, StrandedStates
      <3> QED BY <3>1, <3>3, <3>6, <3>7 DEF Leaves
    <2>9. Moved(k)
      BY <2>8 DEF Moved
    <2>10. \A e \in {Own(k), Coll(k)} :
             events'[e].source = "none" => events'[e] = Free
      BY <1>2, <2>2, <2>7 DEF PayInv, FreeIsNone, own
    <2>11. "done" \in Steps
      BY DEF Steps
    <2> QED BY <1>1, <1>5, <2>1, <2>2, <2>3, <2>8, <2>9, <2>10, <2>11,
               MovingStep
  <1> QED BY <1>6, <1>7

\* The refund, and the refund of which the hub hears nothing.
LEMMA RevertStep ==
  ASSUME TypeOK, PayInv, NEW t \in Topups, Revert(t) \/ RevertFails(t)
  PROVE  PayStep
  <1>1. PICK k, n, at : k = key(t) /\ n = amount(t) /\ at = top[t].at
    OBVIOUS
  <1>2. k \in Keys /\ n \in Nat /\ n > 0
    BY <1>1, RequestFacts
  <1>3. /\ at \in {"revert", "revertCollision"}
        /\ at \notin Waiting /\ at # "terminal"
    BY <1>1 DEF Revert, RevertFails, Waiting
  <1>5. k \notin untracked => View(k, at, n) /\ Clear(t)
    BY <1>1, <1>3, ClearInFlight, ViewOf
  <1>6. UNCHANGED <<pool, events, listed, funded, shadowed>>
    BY DEF Revert, RevertFails
  <1>7. PICK l \in {"terminal", "done", "strand", "strandCollision"} :
          /\ Go(t, l)
          /\ \/ /\ UNCHANGED <<wallet, untracked, adrift>>
                /\ l = IF at = "revert" THEN "strand" ELSE "strandCollision"
             \/ GiveBack(k) /\ untracked' = untracked \cup {k} /\ adrift' = adrift
             \/ /\ GiveBack(k) /\ adrift' = adrift \ {k}
                /\ untracked' = IF Crossed(t) THEN untracked \cup {k} ELSE untracked
                /\ l = IF at = "revert" THEN "terminal" ELSE "done"
    BY <1>1 DEF Revert, RevertFails, At
  <1>8. l \in Steps
    BY DEF Steps
  <1>9. CASE /\ UNCHANGED <<wallet, untracked, adrift>>
             /\ l = IF at = "revert" THEN "strand" ELSE "strandCollision"
    <2>1. k \notin untracked => Stage(k, l, n) /\ l \in Owing /\ l # "terminal"
      BY <1>3, <1>5, <1>9 DEF View, Stage, Owing
    <2> QED BY <1>1, <1>3, <1>5, <1>6, <1>7, <1>8, <1>9, <2>1, QuietStep
  <1>10. CASE /\ GiveBack(k)
              /\ \/ untracked' = untracked \cup {k} /\ adrift' = adrift
                 \/ /\ adrift' = adrift \ {k}
                    /\ untracked' = IF Crossed(t) THEN untracked \cup {k}
                                    ELSE untracked
                    /\ l = IF at = "revert" THEN "terminal" ELSE "done"
    <2>1. /\ wallet' \in [Keys -> WalletType]
          /\ paid(k)' = paid(k) /\ back(k)' = paid(k)
          /\ \A j \in Keys \ {k} : wallet'[j] = wallet[j]
      BY <1>2, <1>10, WalletFacts DEF paid, back
    <2>2. paid(k) \in Nat /\ back(k) \in Nat /\ funded[k] \in Nat
      BY <1>2, KeyTyped
    <2>3. /\ own(k)' = own(k) /\ derived(k)' = derived(k)
          /\ funded'[k] = funded[k]
      BY <1>6 DEF own, derived
    <2>4. ASSUME k \notin untracked'
          PROVE  Leaves(t, k, n, at, l) /\ Moved(k)
      <3>0. /\ ~Crossed(t) /\ k \notin untracked
            /\ l = IF at = "revert" THEN "terminal" ELSE "done"
        BY <1>10, <2>4
      <3>1. View(k, at, n) /\ Clear(t)
        BY <1>5, <3>0
      <3>a. Alone(t)
        BY <1>1, <3>0 DEF Crossed, InFlight, Alone, Waiting, At
      <3>b. /\ own(k).source \in {"none", "platform"}
            /\ derived(k).source \in {"none", "platform"}
        <4>1. /\ Own(k) \in Slots /\ Coll(k) \in Slots
              /\ Own(k)[1] = k /\ Coll(k)[1] = k
          BY <1>2, SlotsApart DEF Own, Coll
        <4> QED BY <1>1, <3>0, <4>1 DEF Crossed, own, derived
      <3>2. /\ paid(k) = n /\ funded[k] = 0 /\ back(k) = 0
            /\ derived(k).source = "none"
            /\ at = "revertCollision" => own(k).source = "platform"
        BY <1>3, <3>1, <3>b DEF View, Books, Stage, Unrefunded, Owing
      <3>3. Moved(k)
        BY <1>2, <2>1, <2>2, <2>3, <3>2 DEF Moved
      <3>4. Books(k)' /\ Settled(k)'
        BY <2>1, <2>2, <2>3, <3>2, <3>b DEF Books, RowTrue, Settled
      <3>5. Stage(k, l, n)'
        BY <1>2, <2>1, <2>3, <3>0, <3>2, <3>b DEF Stage, Owing
      <3>6. own(k)'.source = "none" => l = "terminal"
        BY <1>3, <2>3, <3>0, <3>2
      <3>7. View(k, l, n)' /\ Kept(k, at, l)
        BY <3>4, <3>5, <3>6 DEF View, Kept
      <3> QED BY <3>1, <3>3, <3>7, <3>a DEF Leaves
    <2>5. Moved(k)
      BY <2>4 DEF Moved
    <2>6. untracked' = untracked \/ untracked' = untracked \cup {k}
      BY <1>10
    <2>7. adrift' = adrift \/ adrift' = adrift \ {k}
      BY <1>10
    <2> QED BY <1>1, <1>2, <1>6, <1>7, <1>8, <2>1, <2>4, <2>5, <2>6, <2>7,
               FreeRows, MovingStep
  <1> QED BY <1>7, <1>9, <1>10

\* The records of a refund and of a stranded payment.
LEMMA RecordStep ==
  ASSUME TypeOK, PayInv, NEW t \in Topups, Terminal(t) \/ Strand(t)
  PROVE  PayStep
  <1>1. PICK k, n, at : k = key(t) /\ n = amount(t) /\ at = top[t].at
    OBVIOUS
  <1>2. /\ k \in Keys /\ n \in Amounts /\ n \in Nat /\ n > 0
        /\ Own(k) \in Slots /\ Coll(k) \in Slots /\ Own(k) # Coll(k)
    BY <1>1, RequestFacts, SlotsApart
  <1>3. at \in {"terminal", "strand", "strandCollision"} /\ at \notin Waiting
    BY <1>1 DEF Terminal, Strand, At, Waiting
  <1>5. k \notin untracked =>
          View(k, at, n) /\ Clear(t) /\ (at = "terminal" => Alone(t))
    BY <1>1, <1>3, ClearInFlight, ViewOf
  <1>6. UNCHANGED <<pool, listed, wallet, funded, untracked, faults>>
    BY DEF Terminal, Strand
  <1>7. PICK e \in {Own(k), Coll(k)}, source \in {"topup_reverted", "topup_stranded"} :
          /\ Insert(e, source, n)
          /\ at = "terminal" =>
               /\ e = Own(k) /\ source = "topup_reverted"
               /\ UNCHANGED <<adrift, shadowed>>
          /\ at # "terminal" =>
               /\ e = IF at = "strand" THEN Own(k) ELSE Coll(k)
               /\ source = "topup_stranded"
               /\ adrift' = adrift \ {k}
               /\ shadowed' = IF events[e] = Free THEN shadowed
                              ELSE shadowed \cup {k}
    <2>1. CASE Terminal(t)
      BY <1>1, <2>1 DEF Terminal, At
    <2>2. CASE Strand(t)
      BY <1>1, <2>2 DEF Strand, StrandSlot, At, Own, Coll
    <2> QED BY <2>1, <2>2
  <1>8. Go(t, "done") /\ "done" \in Steps
    BY DEF Terminal, Strand, Steps
  <1>9. /\ \A d \in Slots \ {e} : events'[d] = events[d]
        /\ events'[e] = IF events[e] = Free
                          THEN [source |-> source, amount |-> n] ELSE events[e]
    <2>1. source \in Sources /\ e \in Slots
      BY <1>2 DEF Sources
    <2> QED BY <1>2, <1>7, <2>1, InsertFacts
  <1>10. /\ paid(k) \in Nat /\ back(k) \in Nat /\ funded[k] \in Nat
         /\ paid(k)' = paid(k) /\ back(k)' = back(k) /\ funded'[k] = funded[k]
    BY <1>2, <1>6, KeyTyped DEF paid, back
  <1>11. \A d \in Slots : events[d].source = "none" <=> events[d] = Free
    BY DEF PayInv, FreeIsNone, Free
  <1>12. ASSUME k \notin untracked'
         PROVE  Leaves(t, k, n, at, "done")
    <2>0. Stage(k, "done", n)'
      BY DEF Stage, Owing
    <2>1. View(k, at, n) /\ Clear(t) /\ (at = "terminal" => Alone(t))
      BY <1>5, <1>6, <1>12
    <2>2. CASE at = "terminal"
      <3>1. derived(k)' = derived(k)
        BY <1>2, <1>7, <1>9, <2>2 DEF derived
      <3>2. /\ paid(k) = n /\ funded[k] = 0 /\ back(k) = paid(k)
            /\ derived(k).source = "none"
            /\ own(k).source \in {"none", "platform"}
        BY <2>1, <2>2 DEF View, Stage, Owing
      <3>3. own(k)'.source \in {"topup_reverted", "platform"}
        BY <1>2, <1>7, <1>9, <1>11, <2>2, <3>2 DEF own
      <3>4. Books(k)' /\ Settled(k)'
        BY <1>2, <1>10, <3>1, <3>2, <3>3 DEF Books, RowTrue, Settled
      <3>5. View(k, "done", n)' /\ Kept(k, at, "done")
        BY <2>0, <3>3, <3>4 DEF View, Kept
      <3> QED BY <2>1, <2>2, <3>5 DEF Leaves
    <2>3. CASE at = "strand"
      <3>1. derived(k)' = derived(k)
        BY <1>2, <1>7, <1>9, <2>3 DEF derived
      <3>2. paid(k) = n /\ Unrefunded(k)
        BY <2>1, <2>3 DEF View, Stage, Owing
      <3>3. \/ /\ own(k).source = "none"
               /\ own(k)'.source = "topup_stranded" /\ own(k)'.amount = n
            \/ own(k)' = own(k) /\ own(k).source # "none" /\ k \in shadowed'
        BY <1>2, <1>7, <1>9, <1>11, <2>3 DEF own
      <3>4. Books(k)' /\ (k \in shadowed' \/ Settled(k)')
        <4>1. CASE own(k)' = own(k) /\ k \in shadowed'
          BY <1>10, <2>1, <3>1, <4>1 DEF View, Books, RowTrue
        <4>2. CASE /\ own(k).source = "none"
                   /\ own(k)'.source = "topup_stranded" /\ own(k)'.amount = n
          <5>1. derived(k).source = "none" /\ funded[k] = 0 /\ back(k) = 0
            BY <2>1, <3>2, <4>2 DEF View, Books, Unrefunded
          <5> QED BY <1>2, <1>10, <3>1, <3>2, <4>2, <5>1
                  DEF Books, RowTrue, Settled
        <4> QED BY <3>3, <4>1, <4>2
      <3>5. View(k, "done", n)' /\ Kept(k, at, "done")
        BY <2>0, <3>3, <3>4 DEF View, Kept
      <3>6. ASSUME NEW s \in Steps \ {"terminal"}, NEW m \in Nat, Stage(k, s, m)
            PROVE  Stage(k, s, m)'
        BY <1>10, <3>1, <3>3, <3>6 DEF Stage, Unrefunded, StrandedStates
      <3> QED BY <2>1, <3>5, <3>6 DEF Leaves
    <2>4. CASE at = "strandCollision"
      <3>1. own(k)' = own(k)
        BY <1>2, <1>7, <1>9, <2>4 DEF own
      <3>2. paid(k) = n /\ Unrefunded(k) /\ own(k).source = "platform"
        BY <2>1, <2>4 DEF View, Stage, Owing
      <3>3. \/ /\ derived(k).source = "none"
               /\ derived(k)'.source = "topup_stranded" /\ derived(k)'.amount = n
            \/ /\ derived(k)' = derived(k) /\ derived(k).source # "none"
               /\ k \in shadowed'
        BY <1>2, <1>7, <1>9, <1>11, <2>4 DEF derived
      <3>4. Books(k)' /\ (k \in shadowed' \/ Settled(k)')
        <4>1. CASE derived(k)' = derived(k) /\ k \in shadowed'
          BY <1>10, <2>1, <3>1, <4>1 DEF View, Books, RowTrue
        <4>2. CASE /\ derived(k).source = "none"
                   /\ derived(k)'.source = "topup_stranded"
                   /\ derived(k)'.amount = n
          <5>1. funded[k] = 0 /\ back(k) = 0
            BY <2>1, <3>2, <4>2 DEF View, Books, Unrefunded
          <5> QED BY <1>2, <1>10, <3>1, <3>2, <4>2, <5>1
                  DEF Books, RowTrue, Settled
        <4> QED BY <3>3, <4>1, <4>2
      <3>5. View(k, "done", n)' /\ Kept(k, at, "done")
        BY <2>0, <3>1, <3>2, <3>4 DEF View, Kept
      <3>6. ASSUME NEW s \in Steps \ {"terminal"}, NEW m \in Nat, Stage(k, s, m)
            PROVE  Stage(k, s, m)'
        BY <1>10, <3>1, <3>3, <3>6 DEF Stage, Unrefunded
      <3> QED BY <2>1, <3>5, <3>6 DEF Leaves
    <2> QED BY <1>3, <2>2, <2>3, <2>4
  <1>13. Moved(k)
    BY <1>10 DEF Moved
  <1>14. \A d \in {Own(k), Coll(k)} :
           events'[d].source = "none" => events'[d] = Free
    BY <1>2, <1>9, <1>11
  <1>16. /\ adrift' = adrift \/ adrift' = adrift \ {k}
         /\ shadowed' = shadowed \/ shadowed' = shadowed \cup {k}
    BY <1>7
  <1>17. \A d \in Slots : d # Own(k) /\ d # Coll(k) => events'[d] = events[d]
    BY <1>9
  <1> QED BY <1>1, <1>6, <1>8, <1>9, <1>12, <1>13, <1>14, <1>16, <1>17,
             MovingStep

-----------------------------------------------------------------------------
\* The sweep, the operator, the platform

\* A step on the rows of one key that no request takes.
LEMMA RowStep ==
  ASSUME TypeOK, PayInv, NEW k \in Keys, KeyFrame(k), Moved(k), top' = top,
         UNCHANGED <<untracked, adrift, shadowed>>,
         k \notin untracked =>
           /\ \A at, n : Stage(k, at, n) => Stage(k, at, n)'
           /\ Books(k)'
           /\ own(k)'.source = "none" => own(k).source = "none" /\ back(k)' = back(k)
           /\ Settled(k) => Settled(k)'
  PROVE  PayStep
  <1>1. FreeIsNone'
    BY FreeKept DEF PayInv
  <1>2. ASSUME NEW u \in Topups, key(u)' \notin untracked', At(u, "terminal")'
        PROVE  Alone(u)'
    <2>1. Alone(u)
      BY <1>2 DEF PayInv, At, key
    <2> QED BY <2>1 DEF Alone, key
  <1>3. ASSUME NEW u \in Topups, key(u)' \notin untracked'
        PROVE  Stage(key(u), top[u].at, amount(u))'
    <2>1. PICK j, at, m : j = key(u) /\ at = top[u].at /\ m = amount(u)
      OBVIOUS
    <2>2. /\ key(u)' = j /\ top'[u].at = at /\ amount(u)' = m
          /\ j \in Keys /\ j \notin untracked
      BY <1>3, <2>1, RequestFacts DEF key, amount
    <2>3. Stage(j, at, m)
      BY <2>1, <2>2 DEF PayInv
    <2>4. CASE j = k
      <3>1. Stage(j, at, m)'
        BY <2>2, <2>3, <2>4
      <3> QED BY <2>2, <3>1
    <2>5. CASE j # k
      <3>1. Stage(j, at, m)'
        BY <2>2, <2>3, <2>5, OtherStage
      <3> QED BY <2>2, <3>1
    <2> QED BY <2>4, <2>5
  <1>4. ASSUME NEW j \in Keys
        PROVE  KeyInv(j)'
    <2>1. KeyInv(j)
      BY DEF PayInv
    <2>2. CASE j = k
      BY <2>1, <2>2 DEF KeyInv, key, At
    <2>3. CASE j # k
      BY <2>1, <2>3, OtherKey
    <2> QED BY <2>2, <2>3
  <1> QED BY <1>1, <1>2, <1>3, <1>4 DEF PayInv, PayStep

LEMMA SameMoney ==
  ASSUME TypeOK, PayInv, NEW k \in Keys, top' = top,
         UNCHANGED <<events, wallet, funded, untracked, adrift, shadowed>>
  PROVE  PayStep
  <1>1. KeyFrame(k)
    BY SlotsApart DEF KeyFrame, PayInv, FreeIsNone, own, derived
  <1>2. Moved(k)
    BY DEF Moved, paid, back
  <1>3. /\ own(k)' = own(k) /\ derived(k)' = derived(k) /\ paid(k)' = paid(k)
        /\ back(k)' = back(k) /\ funded'[k] = funded[k]
    BY DEF own, derived, paid, back
  <1>4. /\ \A at, n : Stage(k, at, n) => Stage(k, at, n)'
        /\ Settled(k) => Settled(k)'
        /\ Books(k) => Books(k)'
    BY <1>3 DEF Stage, Settled, Books, RowTrue, Unrefunded
  <1>5. k \notin untracked => Books(k)
    BY DEF PayInv, KeyInv
  <1> QED BY <1>1, <1>2, <1>3, <1>4, <1>5, RowStep

\* A stranded row is claimed for the pool or closed by hand: the key's payment
\* goes to one of the two, and no request can do the same again.
LEMMA ClaimStep ==
  ASSUME TypeOK, PayInv, NEW k \in Keys, NEW e \in {Own(k), Coll(k)},
         top' = top, UNCHANGED <<untracked, adrift, shadowed>>,
         events[e].source = "topup_stranded",
         \A d \in Slots \ {e} : events'[d] = events[d],
         \A j \in Keys \ {k} : wallet'[j] = wallet[j] /\ funded'[j] = funded[j],
         paid(k)' = paid(k),
         \/ /\ events'[e].source = "topup_reconciled"
            /\ funded'[k] = funded[k] + events[e].amount /\ back(k)' = back(k)
         \/ /\ events'[e].source = "topup_manually_closed"
            /\ funded'[k] = funded[k] /\ back(k)' = paid(k)
  PROVE  PayStep
  <1>1. Own(k) \in Slots /\ Coll(k) \in Slots /\ Own(k) # Coll(k)
    BY SlotsApart
  <1>2. KeyFrame(k)
    <2>1. \A j \in Keys \ {k} : own(j)' = own(j) /\ derived(j)' = derived(j)
      BY <1>1, SlotsApart DEF own, derived
    <2>2. \A d \in {Own(k), Coll(k)} :
            events'[d].source = "none" => events'[d] = Free
      BY <1>1 DEF PayInv, FreeIsNone
    <2> QED BY <2>1, <2>2 DEF KeyFrame
  <1>3. /\ paid(k) \in Nat /\ back(k) \in Nat /\ funded[k] \in Nat
        /\ events[e].amount \in Nat
    BY KeyTyped DEF own, derived
  <1>4. ASSUME k \notin untracked
        PROVE  /\ Moved(k) /\ Books(k)' /\ Settled(k)'
               /\ own(k)'.source # "none"
               /\ \A at, n : Stage(k, at, n) => Stage(k, at, n)'
    <2>1. Books(k)
      BY <1>4 DEF PayInv, KeyInv
    <2>2. /\ events[e].amount = paid(k) /\ paid(k) > 0
          /\ funded[k] = 0 /\ back(k) = 0
      BY <2>1 DEF Books, RowTrue, own, derived
    <2>3. /\ funded'[k] + back(k)' = paid(k)
          /\ funded'[k] = 0 \/ back(k)' = 0
      BY <1>3, <2>2
    <2>4. Moved(k)
      BY <1>3, <2>2 DEF Moved
    <2>5. CASE e = Own(k)
      <3>1. derived(k)' = derived(k) /\ own(k).source = "topup_stranded"
            /\ own(k)'.source \in {"topup_reconciled", "topup_manually_closed"}
        BY <1>1, <2>5 DEF own, derived
      <3>2. derived(k).source = "none"
        BY <2>1, <3>1 DEF Books
      <3>3. Books(k)' /\ Settled(k)'
        BY <1>3, <2>2, <2>3, <3>1, <3>2 DEF Books, RowTrue, Settled, StrandedStates
      <3>4. ASSUME NEW at, NEW n, Stage(k, at, n)
            PROVE  Stage(k, at, n)'
        BY <3>1, <3>4 DEF Stage, Unrefunded, StrandedStates
      <3> QED BY <2>4, <3>1, <3>3, <3>4
    <2>6. CASE e = Coll(k)
      <3>1. own(k)' = own(k) /\ derived(k).source = "topup_stranded"
            /\ derived(k)'.source \in {"topup_reconciled", "topup_manually_closed"}
        BY <1>1, <2>6 DEF own, derived
      <3>2. own(k).source = "platform"
        BY <2>1, <3>1 DEF Books
      <3>3. Books(k)' /\ Settled(k)'
        BY <1>3, <2>2, <2>3, <3>1, <3>2 DEF Books, RowTrue, Settled, StrandedStates
      <3>4. ASSUME NEW at, NEW n, Stage(k, at, n)
            PROVE  Stage(k, at, n)'
        BY <3>1, <3>2, <3>4 DEF Stage, Unrefunded
      <3> QED BY <2>4, <3>1, <3>2, <3>3, <3>4
    <2> QED BY <2>5, <2>6
  <1>5. Moved(k)
    BY <1>4 DEF Moved
  <1> QED BY <1>2, <1>4, <1>5, RowStep

LEMMA SweepStep ==
  ASSUME TypeOK, PayInv, NEW e \in Slots, SweepNext(e)
  PROVE  PayStep
  <1>1. PICK k \in Keys : e \in {Own(k), Coll(k)} /\ e[1] = k
    BY SlotsApart DEF Own, Coll
  <1>2. FinalizeTx(e) /\ UNCHANGED <<top, wallet, untracked, adrift, shadowed, faults>>
    BY DEF SweepNext
  <1>3. \/ /\ events[e].source = "topup_stranded"
           /\ events'[e].source = "topup_reconciled"
           /\ funded'[k] = funded[k] + events[e].amount
           /\ \A d \in Slots \ {e} : events'[d] = events[d]
           /\ \A j \in Keys \ {k} : funded'[j] = funded[j]
        \/ UNCHANGED <<events, funded>>
    BY <1>1, <1>2, FinalizeFacts
  <1>5. CASE UNCHANGED <<events, funded>>
    BY <1>2, <1>5, SameMoney
  <1>6. CASE ~UNCHANGED <<events, funded>>
    <2>1. paid(k)' = paid(k) /\ back(k)' = back(k)
      BY <1>2 DEF paid, back
    <2> QED BY <1>1, <1>2, <1>3, <1>6, <2>1, ClaimStep
  <1> QED BY <1>5, <1>6

LEMMA CloseStep ==
  ASSUME TypeOK, PayInv, NEW e \in Slots, CloseManually(e)
  PROVE  PayStep
  <1>1. PICK k \in Keys : e \in {Own(k), Coll(k)} /\ e[1] = k
    BY SlotsApart DEF Own, Coll
  <1>2. /\ GiveBack(k)
        /\ UNCHANGED <<pool, top, listed, funded, untracked, adrift, shadowed, faults>>
        /\ events[e].source = "topup_stranded"
        /\ events' = [events EXCEPT ![e].source = "topup_manually_closed"]
    BY <1>1 DEF CloseManually
  <1>3. /\ events' \in [Slots -> EventType]
        /\ events'[e].source = "topup_manually_closed"
        /\ \A d \in Slots \ {e} : events'[d] = events[d]
    <2>1. events \in [Slots -> EventType] /\ events[e] \in EventType
      BY TypeFacts
    <2>2. [events[e] EXCEPT !.source = "topup_manually_closed"] \in EventType
      BY <2>1 DEF EventType, Sources
    <2>3. events' = [events EXCEPT ![e] =
                       [events[e] EXCEPT !.source = "topup_manually_closed"]]
      BY <1>2, <2>1
    <2> QED BY <2>1, <2>2, <2>3 DEF EventType
  <1>4. /\ wallet' \in [Keys -> WalletType]
        /\ paid(k)' = paid(k) /\ back(k)' = paid(k)
        /\ \A j \in Keys \ {k} : wallet'[j] = wallet[j]
    BY <1>2, WalletFacts DEF paid, back
  <1>6. funded'[k] = funded[k] /\ \A j \in Keys \ {k} : funded'[j] = funded[j]
    BY <1>2
  <1> QED BY <1>1, <1>2, <1>3, <1>4, <1>6, ClaimStep

LEMMA PlatformStep ==
  ASSUME TypeOK, PayInv, NEW k \in Keys, NEW n \in Amounts, PlatformFund(k, n)
  PROVE  PayStep
  <1>1. /\ Own(k) \in Slots /\ Coll(k) \in Slots /\ Own(k) # Coll(k)
        /\ n \in Nat /\ "platform" \in Sources
    BY SlotsApart, TypeFacts DEF Sources
  <1>2. /\ own(k) = Free /\ Insert(Own(k), "platform", n) /\ CreditRow(n)
        /\ UNCHANGED poolRest
        /\ UNCHANGED <<top, listed, wallet, funded, untracked, adrift, shadowed,
                       faults>>
    BY DEF PlatformFund, own
  <1>3. /\ events' \in [Slots -> EventType]
        /\ \A d \in Slots \ {Own(k)} : events'[d] = events[d]
        /\ own(k)' = [source |-> "platform", amount |-> n]
    BY <1>1, <1>2, InsertFacts DEF own
  <1>5. /\ own(k)'.source = "platform" /\ own(k).source = "none"
        /\ derived(k)' = derived(k) /\ paid(k)' = paid(k)
        /\ back(k)' = back(k) /\ funded'[k] = funded[k]
    BY <1>1, <1>2, <1>3 DEF derived, paid, back, Free
  <1>6. KeyFrame(k)
    <2>1. \A j \in Keys \ {k} : own(j)' = own(j) /\ derived(j)' = derived(j)
      BY <1>1, <1>3, SlotsApart DEF own, derived
    <2>2. \A d \in {Own(k), Coll(k)} :
            events'[d].source = "none" => events'[d] = Free
      BY <1>1, <1>3, <1>5 DEF PayInv, FreeIsNone, own
    <2> QED BY <1>2, <2>1, <2>2 DEF KeyFrame
  <1>7. Moved(k)
    BY <1>5 DEF Moved
  <1>8. ASSUME k \notin untracked
        PROVE  /\ Books(k)'
               /\ Settled(k) => Settled(k)'
               /\ \A at, m : Stage(k, at, m) => Stage(k, at, m)'
    <2>1. Books(k)
      BY <1>8 DEF PayInv, KeyInv
    <2>2. Books(k)' /\ (Settled(k) => Settled(k)')
      BY <1>5, <2>1 DEF Books, RowTrue, Settled, StrandedStates
    <2>3. ASSUME NEW at, NEW m, Stage(k, at, m)
          PROVE  Stage(k, at, m)'
      BY <1>5, <2>3 DEF Stage, Unrefunded, StrandedStates
    <2> QED BY <2>2, <2>3
  <1> QED BY <1>2, <1>5, <1>6, <1>7, <1>8, RowStep

-----------------------------------------------------------------------------
\* The theorems about payments

LEMMA PayInit == Init => PayInv
  <1> SUFFICES ASSUME Init PROVE PayInv
    OBVIOUS
  <1>1. \A e \in Slots : events[e] = Free
    BY DEF Init
  <1>2. /\ FreeIsNone
        /\ \A k \in Keys : own(k).source = "none" /\ derived(k).source = "none"
    BY <1>1, SlotsApart DEF FreeIsNone, own, derived, Free
  <1>3. \A k \in Keys : paid(k) = 0 /\ back(k) = 0 /\ funded[k] = 0
    BY DEF Init, paid, back
  <1>4. \A t \in Topups : top[t].at = "start"
    BY DEF Init
  <1>6. \A k, n : Stage(k, "start", n)
    BY DEF Stage, Owing
  <1>7. ASSUME NEW k \in Keys
        PROVE  KeyInv(k)
    <2>1. Books(k) /\ Settled(k)
      BY <1>2, <1>3 DEF Books, RowTrue, Settled, StrandedStates
    <2> QED BY <1>3, <2>1 DEF KeyInv
  <1> QED BY <1>2, <1>4, <1>6, <1>7 DEF PayInv, At

LEMMA PaySame ==
  ASSUME PayInv,
         UNCHANGED <<events, top, wallet, funded, untracked, adrift, shadowed>>
  PROVE  PayInv'
  BY DEF PayInv, FreeIsNone, Alone, KeyInv, Stage, Books, RowTrue, Settled,
         Unrefunded, own, derived, paid, back, key, amount, At

LEMMA PayNext ==
  ASSUME TypeOK, PayInv, [Next]_vars
  PROVE  PayStep \/ (PayInv' /\ UNCHANGED <<wallet, funded, untracked>>)
  <1>1. CASE (PoolNext /\ UNCHANGED topVars) \/ SweepList \/ UNCHANGED vars
    <2>1. UNCHANGED <<events, top, wallet, funded, untracked, adrift, shadowed>>
      BY <1>1 DEF topVars, SweepList, vars
    <2> QED BY <2>1, PaySame
  <1>2. ASSUME NEW t \in Topups, Topup(t)
        PROVE  PayStep
    BY <1>2, BeginStep, LookupStep, TryFinalizeStep, FundCheckStep, FailStep,
       DebitStep, FinalizeStep, FundTxStep, RevertStep, RecordStep DEF Topup
  <1>3. ASSUME NEW e \in Slots, SweepNext(e) \/ CloseManually(e)
        PROVE  PayStep
    BY <1>3, SweepStep, CloseStep
  <1>4. ASSUME NEW k \in Keys, NEW n \in Amounts, PlatformFund(k, n)
        PROVE  PayStep
    BY <1>4, PlatformStep
  <1> QED BY <1>1, <1>2, <1>3, <1>4 DEF Next

\* The inductive invariant: rows, money and the steps of the requests in flight
\* agree for every key the hub has kept track of (TopupCreditPool).
THEOREM PayInvCorrect == Spec => [](TypeOK /\ PayInv)
  <1>1. Init => TypeOK /\ PayInv
    BY InitTyped, PayInit
  <1>2. TypeOK /\ PayInv /\ [Next]_vars => (TypeOK /\ PayInv)'
    <2> SUFFICES ASSUME TypeOK, PayInv, [Next]_vars
                 PROVE  TypeOK' /\ PayInv'
      OBVIOUS
    <2> QED BY StepTyped, PayNext DEF PayStep
  <1> QED BY <1>1, <1>2, PTL DEF Spec

LEMMA PayInvImplies ==
  ASSUME TypeOK, PayInv
  PROVE  PaymentsAccounted
  <1>1. ASSUME NEW k \in Keys, k \notin untracked
        PROVE  funded[k] + wallet[k].back <= wallet[k].paid
    <2>1. paid(k) \in Nat /\ back(k) \in Nat /\ funded[k] \in Nat
      BY KeyTyped
    <2>2. Books(k)
      BY <1>1 DEF PayInv, KeyInv
    <2> QED BY <2>1, <2>2 DEF Books, paid, back
  <1>2. ASSUME NEW k \in Keys, k \notin untracked \cup adrift \cup shadowed,
               InFlight(k) = {}
        PROVE  \/ funded[k] + wallet[k].back = wallet[k].paid
               \/ \E e \in Slots : e[1] = k /\ events[e].source = "topup_stranded"
    <2>1. ASSUME NEW t \in Topups, key(t) = k, top[t].at \in Owing
          PROVE  FALSE
      <3>1. t \in InFlight(k)
        BY <2>1 DEF InFlight, At, Owing
      <3> QED BY <1>2, <3>1
    <2>2. Settled(k)
      BY <1>2, <2>1 DEF PayInv, KeyInv
    <2>3. /\ Own(k) \in Slots /\ Coll(k) \in Slots
          /\ Own(k)[1] = k /\ Coll(k)[1] = k
      BY SlotsApart DEF Own, Coll
    <2> QED BY <2>2, <2>3 DEF Settled, own, derived, paid, back
  <1> QED BY <1>1, <1>2 DEF PaymentsAccounted, NoFreeCredit, NoLostDebit, Accounted

\* Every payment is accounted for, and none twice: a payment reaches the pool
\* or the wallet at most once, and once its requests are answered it has reached
\* one of them or is on record as stranded, however attempts with one key overlap
\* and unless a refund met another attempt (TopupCreditPool,
\* revertPoolTopupDebit, RecordStrandedTopup, finalizeStrandedTopup).
THEOREM PaymentsCorrect == Spec => []PaymentsAccounted
  <1>1. TypeOK /\ PayInv => PaymentsAccounted
    BY PayInvImplies
  <1> QED BY <1>1, PayInvCorrect, PTL

LEMMA Simulates ==
  ASSUME TypeOK, TypeOK', NEW k \in Keys, KeyFrame(k), Moved(k)
  PROVE  Intent!Next \/ intent' = intent
  <1>1. /\ paid(k) \in Nat /\ back(k) \in Nat /\ funded[k] \in Nat
        /\ paid(k)' \in Nat /\ back(k)' \in Nat /\ funded'[k] \in Nat
    <2>1. wallet \in [Keys -> WalletType] /\ funded \in [Keys -> Nat]
      BY TypeFacts
    <2>2. wallet' \in [Keys -> WalletType] /\ funded' \in [Keys -> Nat]
      BY DEF TypeOK, WalletType
    <2> QED BY <2>1, <2>2 DEF paid, back, WalletType
  <1>2. \A j \in Keys \ {k} : intent'[j] = intent[j]
    BY DEF intent, KeyFrame
  <1>3. intent' = [intent EXCEPT ![k] = intent'[k]]
    <2>1. intent = [j \in Keys |-> intent[j]]
      BY DEF intent
    <2>2. intent' = [j \in Keys |-> intent'[j]]
      BY DEF intent
    <2> QED BY <1>2, <2>1, <2>2
  <1>4. CASE k \in untracked'
    <2>1. intent'[k] = "void"
      BY <1>4 DEF intent
    <2>2. CASE intent[k] = "void"
      BY <1>3, <2>1, <2>2 DEF intent
    <2>3. CASE intent[k] # "void"
      BY <1>3, <2>1, <2>3 DEF Intent!Next, Intent!Void
    <2> QED BY <2>2, <2>3
  <1>5. CASE k \notin untracked'
    <2>1. k \notin untracked
      BY <1>5 DEF KeyFrame
    <2>2. CASE paid(k)' = paid(k) /\ back(k)' = back(k) /\ funded'[k] = funded[k]
      <3>1. intent'[k] = intent[k]
        BY <1>5, <2>1, <2>2 DEF intent, paid, back
      <3> QED BY <1>3, <3>1 DEF intent
    <2>3. CASE /\ paid(k) = 0 /\ back(k) = 0 /\ funded[k] = 0
               /\ paid(k)' > 0 /\ back(k)' = 0 /\ funded'[k] = 0
      <3>1. intent[k] = "new" /\ intent'[k] = "paid"
        BY <1>1, <1>5, <2>1, <2>3 DEF intent, paid, back
      <3> QED BY <1>3, <3>1 DEF Intent!Next, Intent!Pay
    <2>4. CASE /\ paid(k) > 0 /\ back(k) = 0 /\ funded[k] = 0
               /\ funded'[k] > 0
      <3>1. intent[k] = "paid" /\ intent'[k] = "funded"
        BY <1>1, <1>5, <2>1, <2>4 DEF intent, paid, back
      <3> QED BY <1>3, <3>1 DEF Intent!Next, Intent!Fund
    <2>5. CASE /\ paid(k) > 0 /\ back(k) = 0 /\ funded[k] = 0
               /\ funded'[k] = 0 /\ back(k)' > 0
      <3>1. intent[k] = "paid" /\ intent'[k] = "returned"
        BY <1>1, <1>5, <2>1, <2>5 DEF intent, paid, back
      <3> QED BY <1>3, <3>1 DEF Intent!Next, Intent!Return
    <2> QED BY <1>5, <2>2, <2>3, <2>4, <2>5 DEF Moved
  <1> QED BY <1>4, <1>5

\* The top-up implements TopupIntent: whatever requests, crashes, the sweep, the
\* operator and the platform do, a payment is made once and then ends in the pool
\* or back in the wallet, never in both (TopupCreditPool,
\* ReconcileStrandedTopups).
THEOREM IntentRefined == Spec => IntentKept
  <1>1. Init => Intent!Init
    BY DEF Init, Intent!Init, intent
  <1>2. TypeOK /\ PayInv /\ TypeOK' /\ [Next]_vars => [Intent!Next]_intent
    <2> SUFFICES ASSUME TypeOK, PayInv, TypeOK', [Next]_vars
                 PROVE  Intent!Next \/ intent' = intent
      OBVIOUS
    <2>1. CASE PayStep
      BY <2>1, Simulates DEF PayStep
    <2>2. CASE UNCHANGED <<wallet, funded, untracked>>
      BY <2>2 DEF intent
    <2> QED BY <2>1, <2>2, PayNext
  <1> QED BY <1>1, <1>2, PayInvCorrect, PTL DEF Spec, IntentKept, Intent!Spec

-----------------------------------------------------------------------------
\* The theorems about the pool

\* The balance is the sum of the draws until a drain or a reset that refilled a
\* balance which had moved: top-ups, claims of the sweep, debits, hand-backs and
\* resets all move the two together (topupPoolInTx, OverdraftDebitPool,
\* CreditPoolAdjustment, resetOnePoolInTx).
THEOREM LedgerCorrect == Spec => []LedgerExplains
  <1>1. Init => LedgerExplains
    BY DEF Init, PoolInit, LedgerExplains
  <1>2. TypeOK /\ LedgerExplains /\ [Next]_vars => LedgerExplains'
    <2> SUFFICES ASSUME TypeOK, LedgerExplains, [Next]_vars
                 PROVE  LedgerExplains'
      OBVIOUS
    <2>0. /\ balance \in Int /\ draws \in Int
          /\ spender \in [Spenders -> SpenderType]
          /\ reset \in [Resetters -> ReadType]
      BY DEF TypeOK, PoolTypeOK, SpenderType, ReadType
    <2>1. CASE Credited
      BY <2>0, <2>1 DEF Credited, CreditRow, pool, poolRest, row, LedgerExplains
    <2>2. ASSUME NEW s \in Spenders, Debit(s) \/ HandBack(s) \/ Keep(s)
          PROVE  LedgerExplains'
      <3>1. spender[s].quota \in Int
        BY <2>0 DEF SpenderType
      <3> QED BY <2>0, <2>2, <3>1 DEF Debit, HandBack, Keep, DebitRow, CreditRow,
                                      row, LedgerExplains
    <2>3. ASSUME NEW x \in Resetters, ResetApply(x)
          PROVE  LedgerExplains'
      <3>1. reset[x].balance \in Int /\ reset[x].ceiling \in Int
        BY <2>0 DEF ReadType
      <3>2. CASE UNCHANGED <<row, refills, staleResets>>
        BY <2>3, <3>2 DEF ResetApply, row, LedgerExplains
      <3>3. CASE Refill(x)
        <4>1. /\ balance' = reset[x].ceiling
              /\ draws' = draws + (reset[x].ceiling - reset[x].balance)
              /\ drained' = drained
          BY <2>3, <3>3 DEF Refill, ResetApply
        <4>2. staleResets \/ reset[x].balance # balance => staleResets'
          BY <3>3, Zenon DEF Refill
        <4>3. staleResets' \/ reset[x].balance = balance
          BY <4>2
        <4>4. staleResets' \/ drained' \/ balance' = draws'
          BY <2>0, <3>1, <4>1, <4>2, <4>3 DEF LedgerExplains
        <4> QED BY <4>4, Zenon DEF LedgerExplains
      <3> QED BY <2>3, <3>2, <3>3 DEF ResetApply
    <2>4. ASSUME NEW s \in Spenders, NEW n \in 1..MaxQuota,
                 Admit(s, n) \/ AdmitBlind(s, n)
          PROVE  LedgerExplains'
      BY <2>4 DEF Admit, AdmitBlind, row, LedgerExplains
    <2>5. CASE PeriodEnds \/ Drain \/ \E x \in Resetters : ResetList(x)
      BY <2>5 DEF PeriodEnds, Drain, ResetList, row, LedgerExplains
    <2> QED BY <2>1, <2>2, <2>3, <2>4, <2>5, StepTyped DEF PoolNext
  <1> QED BY <1>1, <1>2, TypeCorrect, PTL DEF Spec

LEMMA RefillStep ==
  ASSUME TypeOK, RefillInv, [Next]_vars
  PROVE  RefillInv'
  <1>0. /\ nextReset \in Nat /\ period \in Nat /\ balance \in Int
        /\ ceiling \in Int
        /\ reset \in [Resetters -> ReadType]
        /\ refills \in [0..MaxPeriods -> Nat]
    BY DEF TypeOK, PoolTypeOK, ReadType, PoolMaxBalanceUnlimited
  <1>1. CASE UNCHANGED <<reset, refills, nextReset>>
    BY <1>1 DEF RefillInv, ResetSound
  <1>2. ASSUME NEW x \in Resetters, ResetList(x)
        PROVE  RefillInv'
    <2>1. reset'[x] = [due |-> nextReset, balance |-> balance,
                       ceiling |-> ceiling, next |-> NextResetAt(period)]
      BY <1>0, <1>2 DEF ResetList
    <2>2. /\ reset'[x].due = nextReset /\ reset'[x].ceiling = ceiling
          /\ reset'[x].next = period + 1
      BY <2>1 DEF NextResetAt
    <2>3. /\ nextReset <= period /\ ceiling > 0
          /\ UNCHANGED <<refills, nextReset>>
          /\ \A y \in Resetters \ {x} : reset'[y] = reset[y]
      BY <1>0, <1>2 DEF ResetList, row
    <2>4. ResetSound(x)'
      BY <1>0, <2>2, <2>3 DEF ResetSound
    <2>5. \A y \in Resetters \ {x} : ResetSound(y)'
      BY <2>3 DEF ResetSound, RefillInv
    <2> QED BY <2>3, <2>4, <2>5 DEF RefillInv
  <1>3. ASSUME NEW x \in Resetters, ResetApply(x)
        PROVE  RefillInv'
    <2>1. reset' = [reset EXCEPT ![x] = NoRead] /\ reset[x] # NoRead
      BY <1>3 DEF ResetApply
    <2>2. \A y \in Resetters : ResetSound(y)'
      BY <1>0, <2>1 DEF RefillInv, ResetSound
    <2>3. CASE UNCHANGED <<refills, nextReset>>
      BY <2>2, <2>3 DEF RefillInv
    <2>4. CASE ~UNCHANGED <<refills, nextReset>>
      <3>1. /\ reset[x].due = nextReset /\ nextReset' = reset[x].next
            /\ refills' = [refills EXCEPT ![reset[x].due] = @ + 1]
        BY <1>3, <2>4 DEF ResetApply, Refill, row
      <3>2. nextReset < nextReset' /\ nextReset' \in Nat
        BY <1>0, <2>1, <3>1 DEF RefillInv, ResetSound, ReadType
      <3>3. DOMAIN refills' = 0..MaxPeriods /\ DOMAIN refills = 0..MaxPeriods
        BY <1>0, <3>1
      <3>4. ASSUME NEW p \in 0..MaxPeriods
            PROVE  refills'[p] = 0 \/ (refills'[p] = 1 /\ p < nextReset')
        <4>1. refills[p] = 0 \/ (refills[p] = 1 /\ p < nextReset)
          BY <3>3 DEF RefillInv
        <4>2. refills'[p] = IF p = nextReset THEN refills[p] + 1 ELSE refills[p]
          BY <1>0, <3>1
        <4> QED BY <1>0, <3>2, <4>1, <4>2
      <3> QED BY <2>2, <3>3, <3>4 DEF RefillInv
    <2> QED BY <2>3, <2>4
  <1>4. ASSUME NEW s \in Spenders, NEW n \in 1..MaxQuota,
               Admit(s, n) \/ AdmitBlind(s, n)
        PROVE  UNCHANGED <<reset, refills, nextReset>>
    BY <1>4 DEF Admit, AdmitBlind, row
  <1>5. ASSUME NEW s \in Spenders, Debit(s) \/ HandBack(s) \/ Keep(s)
        PROVE  UNCHANGED <<reset, refills, nextReset>>
    BY <1>5 DEF Debit, HandBack, Keep, DebitRow, CreditRow, row
  <1>6. CASE PeriodEnds \/ Drain
    BY <1>1, <1>6 DEF PeriodEnds, Drain, row
  <1>7. CASE Credited
    BY <1>1, <1>7 DEF Credited, CreditRow, pool, poolRest, row
  <1> QED BY <1>1, <1>2, <1>3, <1>4, <1>5, <1>6, <1>7, StepTyped DEF PoolNext

LEMMA RefillInit == Init => RefillInv
  BY DEF Init, PoolInit, RefillInv, ResetSound

\* A due date refills the pool once, however many runs of the reset have listed
\* it (ResetDuePools, resetOnePoolInTx): the claim compares the due date, and the
\* next one is later than every date claimed.
THEOREM OneRefillCorrect == Spec => []OneRefillPerPeriod
  <1>1. TypeOK /\ RefillInv /\ [Next]_vars => RefillInv'
    BY RefillStep
  <1>2. RefillInv => OneRefillPerPeriod
    BY DEF RefillInv, OneRefillPerPeriod
  <1> QED BY <1>1, <1>2, RefillInit, TypeCorrect, PTL DEF Spec

LEMMA AdmittedFacts ==
  /\ IsFiniteSet(Admitted) /\ Cardinality(Admitted) \in Nat
  /\ Cardinality(Spenders) \in Nat
  /\ Cardinality(Admitted) <= Cardinality(Spenders)
  <1>1. Admitted \in SUBSET Spenders /\ IsFiniteSet(Spenders)
    BY PoolAssumption DEF Admitted
  <1> QED BY <1>1, FS_Subset, FS_CardinalityType

LEMMA AdmittedFactsPrime ==
  /\ IsFiniteSet(Admitted') /\ Cardinality(Admitted') \in Nat
  /\ Cardinality(Admitted') <= Cardinality(Spenders)
  <1>1. Admitted' \in SUBSET Spenders /\ IsFiniteSet(Spenders)
    BY PoolAssumption DEF Admitted
  <1> QED BY <1>1, FS_Subset, FS_CardinalityType

\* A request more or less costs at most MaxQuota more or less.
LEMMA ExposureArithmetic ==
  ASSUME NEW a \in Nat, NEW c \in Nat, NEW m \in Nat
  PROVE  /\ a * m \in Nat /\ (a + 1) * m = a * m + m
         /\ a <= c => a * m <= c * m
  <1>1. a * m \in Nat /\ (a + 1) * m = a * m + m
    OBVIOUS
  <1>2. ASSUME a <= c PROVE a * m <= c * m
    <2>1. PICK d \in Nat : c = a + d
      BY <1>2
    <2>2. c * m = a * m + d * m /\ d * m \in Nat
      BY <2>1
    <2> QED BY <1>1, <2>2
  <1> QED BY <1>1, <1>2

LEMMA ExposureFacts ==
  ASSUME PoolTypeOK
  PROVE  /\ Exposure \in Nat
         /\ Cardinality(Admitted) * MaxQuota <= Exposure
         /\ Cardinality(Admitted') * MaxQuota <= Exposure
         /\ Cardinality(Admitted) * MaxQuota \in Nat
         /\ Cardinality(Admitted') * MaxQuota \in Nat
         /\ faults' = faults => Exposure' = Exposure
         /\ faults' = faults + 1 => Exposure' = Exposure + MaxQuota
  <1>1. faults \in Nat /\ MaxQuota \in Nat
    BY PoolAssumption DEF PoolTypeOK
  <1>2. /\ Cardinality(Admitted) \in Nat /\ Cardinality(Admitted') \in Nat
        /\ Cardinality(Spenders) + faults \in Nat
        /\ Cardinality(Admitted) <= Cardinality(Spenders) + faults
        /\ Cardinality(Admitted') <= Cardinality(Spenders) + faults
    BY <1>1, AdmittedFacts, AdmittedFactsPrime
  <1>3. faults' = faults + 1 =>
          Cardinality(Spenders) + faults' = (Cardinality(Spenders) + faults) + 1
    BY <1>1, AdmittedFacts
  <1> QED BY <1>1, <1>2, <1>3, ExposureArithmetic DEF Exposure

Pending == Cardinality(Admitted) * MaxQuota

LEMMA PendingFacts ==
  ASSUME PoolTypeOK
  PROVE  /\ Exposure \in Nat /\ Pending \in Nat /\ Pending' \in Nat
         /\ Pending <= Exposure /\ Pending' <= Exposure
         /\ MaxQuota \in Nat /\ MaxQuota > 0
         /\ faults' = faults => Exposure' = Exposure
         /\ faults' = faults + 1 => Exposure' = Exposure + MaxQuota
         /\ Admitted' = Admitted => Pending' = Pending
  BY ExposureFacts, PoolAssumption DEF Pending

LEMMA OneMorePending ==
  ASSUME PoolTypeOK, NEW s \in Spenders, spender[s].at = "idle",
         spender'[s].at = "admitted",
         \A r \in Spenders \ {s} : spender'[r] = spender[r]
  PROVE  Pending' = Pending + MaxQuota
  <1>1. Admitted' = Admitted \cup {s} /\ s \notin Admitted
    BY DEF Admitted
  <1>2. Cardinality(Admitted') = Cardinality(Admitted) + 1
    BY <1>1, AdmittedFacts, FS_AddElement
  <1> QED BY <1>2, AdmittedFacts, ExposureArithmetic, PoolAssumption DEF Pending

LEMMA OneLessPending ==
  ASSUME PoolTypeOK, NEW s \in Spenders, spender[s].at = "admitted",
         spender'[s].at # "admitted",
         \A r \in Spenders \ {s} : spender'[r] = spender[r]
  PROVE  Pending = Pending' + MaxQuota
  <1>1. Admitted' = Admitted \ {s} /\ s \in Admitted
    BY DEF Admitted
  <1>2. Cardinality(Admitted') = Cardinality(Admitted) - 1
    BY <1>1, AdmittedFacts, FS_RemoveElement
  <1>3. /\ Cardinality(Admitted') \in Nat
        /\ Cardinality(Admitted) = Cardinality(Admitted') + 1
    BY <1>2, AdmittedFacts, AdmittedFactsPrime
  <1> QED BY <1>3, ExposureArithmetic, PoolAssumption DEF Pending

LEMMA DebtUnfolded ==
  DebtInv <=>
    /\ IsUnlimited => Ceiling = PoolMaxBalanceUnlimited /\ balance >= 0
    /\ \/ IsUnlimited
       \/ balance - Pending > -Exposure
       \/ Ceiling = PoolMaxBalanceUnlimited /\ balance - Pending = -Exposure
  BY DEF DebtInv, Pending

LEMMA DebtUnfoldedPrime ==
  DebtInv' <=>
    /\ IsUnlimited' => Ceiling = PoolMaxBalanceUnlimited /\ balance' >= 0
    /\ \/ IsUnlimited'
       \/ balance' - Pending' > -Exposure'
       \/ Ceiling = PoolMaxBalanceUnlimited /\ balance' - Pending' = -Exposure'
  BY DEF DebtInv, Pending

LEMMA DebtStep ==
  ASSUME TypeOK, RefillInv, DebtInv, [Next]_vars
  PROVE  DebtInv'
  <1>0. /\ PoolTypeOK /\ balance \in Int /\ faults \in Nat
        /\ spender \in [Spenders -> SpenderType]
        /\ reset \in [Resetters -> ReadType]
    BY DEF TypeOK, PoolTypeOK, SpenderType, ReadType
  <1> USE <1>0, PendingFacts, DebtUnfolded, DebtUnfoldedPrime
  <1>1. ASSUME NEW s \in Spenders, NEW n \in 1..MaxQuota,
               Admit(s, n) \/ AdmitBlind(s, n)
        PROVE  DebtInv'
    <2>1. /\ spender[s].at = "idle" /\ spender'[s].at = "admitted"
          /\ \A r \in Spenders \ {s} : spender'[r] = spender[r]
          /\ UNCHANGED <<balance, ceiling>>
      BY <1>1 DEF Admit, AdmitBlind, row
    <2>2. Pending' = Pending + MaxQuota /\ (IsUnlimited' <=> IsUnlimited)
      BY <2>1, OneMorePending DEF IsUnlimited
    <2>3. CASE Admit(s, n)
      <3>1. faults' = faults /\ (IsUnlimited \/ balance > 0)
        BY <2>3 DEF Admit, IsExhausted
      <3> QED BY <2>1, <2>2, <3>1
    <2>4. CASE AdmitBlind(s, n)
      <3>1. faults' = faults + 1
        BY <2>4 DEF AdmitBlind, Fault
      <3> QED BY <2>1, <2>2, <3>1
    <2> QED BY <1>1, <2>3, <2>4
  <1>2. ASSUME NEW s \in Spenders, Debit(s)
        PROVE  DebtInv'
    <2>1. /\ spender[s].at = "admitted" /\ spender'[s].at # "admitted"
          /\ \A r \in Spenders \ {s} : spender'[r] = spender[r]
          /\ faults' = faults
      BY <1>2 DEF Debit, SpenderType
    <2>2. Pending = Pending' + MaxQuota
      BY <2>1, OneLessPending
    <2>3. /\ spender[s].quota \in 0..MaxQuota
          /\ ceiling' = ceiling
          /\ balance' = IF IsUnlimited THEN balance ELSE balance - spender[s].quota
      BY <1>2 DEF Debit, DebitRow, row, SpenderType
    <2> QED BY <2>1, <2>2, <2>3 DEF IsUnlimited
  <1>3. ASSUME NEW s \in Spenders, HandBack(s) \/ Keep(s)
        PROVE  DebtInv'
    <2>1. /\ Admitted' = Admitted /\ faults' = faults /\ ceiling' = ceiling
      BY <1>3 DEF HandBack, Keep, CreditRow, row, Admitted
    <2>2. spender[s].quota \in Nat /\ balance' \in {balance, balance + spender[s].quota}
      BY <1>3 DEF HandBack, Keep, CreditRow, row, SpenderType
    <2> QED BY <2>1, <2>2 DEF IsUnlimited
  <1>4. CASE PeriodEnds \/ \E x \in Resetters : ResetList(x)
    <2>1. UNCHANGED <<balance, ceiling, faults, spender>>
      BY <1>4 DEF PeriodEnds, ResetList, row
    <2> QED BY <2>1 DEF IsUnlimited, Admitted
  <1>5. ASSUME NEW x \in Resetters, ResetApply(x)
        PROVE  DebtInv'
    <2>1. /\ UNCHANGED <<faults, ceiling>> /\ Admitted' = Admitted
          /\ balance' = balance \/ balance' = reset[x].ceiling
      BY <1>5 DEF ResetApply, Refill, row, Admitted
    <2>2. reset[x].ceiling > 0 /\ reset[x].ceiling \in Int
      BY <1>5 DEF ResetApply, RefillInv, ResetSound, ReadType
    <2> QED BY <2>1, <2>2 DEF IsUnlimited
  <1>6. CASE Drain
    <2>1. UNCHANGED <<balance, faults>> /\ Admitted' = Admitted /\ ~IsUnlimited'
      BY <1>6 DEF Drain, Admitted, IsUnlimited, PoolMaxBalanceUnlimited
    <2> QED BY <2>1
  <1>7. CASE Credited
    <2>1. /\ ceiling' = ceiling /\ Admitted' = Admitted
          /\ faults' = faults \/ faults' = faults + 1
          /\ balance' = balance \/ \E n \in Nat : balance' = balance + n
      BY <1>7 DEF Credited, CreditRow, Fault, pool, poolRest, row, Admitted
    <2>2. balance' \in Int /\ balance' >= balance
      BY <2>1
    <2> QED BY <2>1, <2>2 DEF IsUnlimited
  <1> QED BY <1>1, <1>2, <1>3, <1>4, <1>5, <1>6, <1>7, StepTyped DEF PoolNext

LEMMA DebtInit == Init => DebtInv
  <1> SUFFICES ASSUME Init PROVE DebtInv
    OBVIOUS
  <1>1. balance = 0 /\ faults = 0 /\ ceiling = Ceiling /\ PoolTypeOK
    BY InitTyped DEF Init, PoolInit, TypeOK
  <1>2. Admitted = {}
    BY DEF Init, PoolInit, Admitted
  <1>3. Pending = 0
    BY <1>2, FS_EmptySet, PoolAssumption DEF Pending
  <1>4. Exposure > 0
    <2>1. Cardinality(Spenders) > 0 /\ Cardinality(Spenders) \in Nat
      BY PoolAssumption, AdmittedFacts, FS_EmptySet
    <2> QED BY <1>1, <2>1, PoolAssumption DEF Exposure
  <1> QED BY <1>1, <1>3, <1>4, PendingFacts, DebtUnfolded DEF IsUnlimited

\* A pool owes less than the requests that may be in flight at its exhaustion can
\* cost, plus one request per failed read of the gate, however many top-ups,
\* resets and hand-backs come in between; a pool that was unlimited may owe all of
\* it after a drain (PoolBalanceCheck, OverdraftDebitPool, ResetDuePools,
\* DeleteCreditPool).
THEOREM OverdraftCorrect == Spec => []OverdraftBounded
  <1>1. TypeOK /\ RefillInv /\ DebtInv /\ [Next]_vars => RefillInv' /\ DebtInv'
    BY RefillStep, DebtStep
  <1>2. TypeOK /\ DebtInv => OverdraftBounded
    <2> SUFFICES ASSUME TypeOK, DebtInv
                 PROVE  OverdraftBounded
      OBVIOUS
    <2>1. PoolTypeOK /\ balance \in Int
      BY DEF TypeOK, PoolTypeOK
    <2> QED BY <2>1, PendingFacts, DebtUnfolded DEF OverdraftBounded, Exposure
  <1> QED BY <1>1, <1>2, RefillInit, DebtInit, TypeCorrect, PTL DEF Spec
=============================================================================
