------------------------ MODULE RealtimeSessionProofs ------------------------
(***************************************************************************)
(* Proofs about RealtimeSession, for any number and size of messages, any  *)
(* ratio, freeze and balance and any number of failures.                   *)
(***************************************************************************)
EXTENDS RealtimeSession, TLAPS

\* A charge is a natural number.
LEMMA QuotaTyped ==
  ASSUME NEW n \in Nat
  PROVE  Quota(n) \in Nat
<1> DEFINE a == 2 * n * RatioNum + RatioDen
           b == 2 * RatioDen
<1>1. 2 * n * RatioNum \in Nat
  <2>1. 2 * n \in Nat /\ RatioNum \in Nat
    BY RealtimeAssumption
  <2> QED
    BY <2>1
<1>2. a \in Nat /\ b \in Nat /\ b > 0
  BY <1>1, RealtimeAssumption
<1> HIDE DEF a, b
<1>3. a \div b \in Int
  BY <1>2
<1>4. Quota(n) = IF RatioNum = 0 THEN 0 ELSE IF a \div b > 1 THEN a \div b ELSE 1
  BY DEF Quota, a, b
<1> QED
  BY <1>3, <1>4

Actors == Readers \cup {"main"}

\* A step of an actor moves that actor and no other, and keeps the race flag.
LEMMA GoTyped ==
  ASSUME TypeOK, NEW a \in Actors, NEW l \in Places, Go(a, l)
  PROVE  /\ at' = [at EXCEPT ![a] = l]
         /\ at' \in [Readers \cup {"main"} -> Places]
         /\ raced' \in BOOLEAN
<1>1. at' = [at EXCEPT ![a] = l]
  BY DEF Go
<1>2. raced' \in BOOLEAN
  BY DEF Go
<1> QED
  BY <1>1, <1>2 DEF TypeOK, Actors

\* The readers' steps are type-correct.
LEMMA ReaderTyped ==
  ASSUME TypeOK, NEW r \in Readers, Reader(r) \/ Leave(r)
  PROVE  TypeOK'
<1> USE GoTyped DEF TypeOK, Readers, Chargers, Actors, Places, Charging, Fault,
            SendErr, session, ledger, money, platform, log
<1>1. CASE ReadBad(r)
  BY <1>1, RealtimeAssumption DEF ReadBad
<1>2. CASE ReadClosed(r)
  BY <1>2 DEF ReadClosed
<1>3. CASE Write(r)
  BY <1>3 DEF Write
<1>4. CASE Leave(r)
  BY <1>4 DEF Leave
<1>5. ASSUME NEW n \in 0..MaxTokens, ClientRead(n)
      PROVE  TypeOK'
  BY <1>5, RealtimeAssumption DEF ClientRead
<1>6. ASSUME NEW n \in 0..MaxTokens, OutputEvent(n)
      PROVE  TypeOK'
  BY <1>6, RealtimeAssumption DEF OutputEvent, TargetReads
<1>7. ASSUME NEW n \in 0..MaxTokens, SettleUpstream(n)
      PROVE  TypeOK'
  <2>1. n \in Nat
    BY RealtimeAssumption
  <2> DEFINE up == [counted EXCEPT !.upstream = counted.upstream + n]
  <2>2. counted' = [up EXCEPT !.superseded = counted.superseded + local]
    BY <1>7 DEF SettleUpstream
  <2>7. up \in [local : Nat, upstream : Nat, superseded : Nat,
                charged : Nat, refused : Nat]
    BY <2>1
  <2>8. counted.superseded + local \in Nat
    OBVIOUS
  <2> HIDE DEF up
  <2>3. counted' \in [local : Nat, upstream : Nat, superseded : Nat,
                      charged : Nat, refused : Nat]
    BY <2>2, <2>7, <2>8
  <2>4. sum' \in Nat /\ billed' \in [Chargers -> Nat] /\ local' \in Nat
    BY <1>7, <2>1 DEF SettleUpstream
  <2>5. at' \in [Readers \cup {"main"} -> Places] /\ raced' \in BOOLEAN
    BY <1>7 DEF SettleUpstream
  <2>6. messages' \in [Readers -> Nat]
    BY <1>7 DEF SettleUpstream, TargetReads
  <2> QED
    BY <1>7, <2>3, <2>4, <2>5, <2>6 DEF SettleUpstream, TargetReads
<1>8. ASSUME NEW n \in 0..MaxTokens, SettleLocalInput(n)
      PROVE  TypeOK'
  BY <1>8, RealtimeAssumption DEF SettleLocalInput, TargetReads
<1> QED
  BY <1>1, <1>2, <1>3, <1>4, <1>5, <1>6, <1>7, <1>8 DEF Reader

\* The charges are type-correct.
LEMMA ChargerTyped ==
  ASSUME TypeOK, NEW a \in Chargers, Charger(a)
  PROVE  TypeOK'
<1> USE GoTyped DEF TypeOK, Readers, Chargers, Actors, Places, Charging, Fault,
            SendErr, session, ledger, money, platform, log
<1>0. billed[a] \in Nat /\ Quota(billed[a]) \in Nat
  BY QuotaTyped
<1>1. CASE Check(a)
  BY <1>1 DEF Check, Refuse
<1>2. CASE CheckFails(a)
  BY <1>2, RealtimeAssumption DEF CheckFails, Refuse
<1>3. CASE Charge(a)
  BY <1>0, <1>3 DEF Charge
<1>4. CASE ChargeFails(a)
  <2>1. /\ counted' \in [local : Nat, upstream : Nat, superseded : Nat,
                         charged : Nat, refused : Nat]
        /\ billed' \in [Chargers -> Nat] /\ errs' \in 0..2
        /\ at' \in [Readers \cup {"main"} -> Places] /\ raced' \in BOOLEAN
    BY <1>4 DEF ChargeFails, Refuse
  <2>2. /\ preAuth' \in BOOLEAN /\ paid' = paid
        /\ hold' \in {"none", "active", "settled", "released", "parked", "lost"}
    BY <1>4 DEF ChargeFails
  <2>3. faults' \in 0..MaxFaults
    BY <1>4, RealtimeAssumption DEF ChargeFails
  <2> QED
    BY <1>4, <2>1, <2>2, <2>3 DEF ChargeFails
<1>5. CASE Wallet(a)
  BY <1>0, <1>5 DEF Wallet, Charged, Pay, Exits
<1>6. CASE Settle(a)
  BY <1>0, <1>6 DEF Settle, Pay, Exits
<1>7. CASE SettleFails(a)
  BY <1>0, <1>7, RealtimeAssumption DEF SettleFails, Pay, Exits
<1>8. CASE Clear(a)
  BY <1>8 DEF Clear, Charged
<1> QED
  BY <1>1, <1>2, <1>3, <1>4, <1>5, <1>6, <1>7, <1>8 DEF Charger

\* The handler's steps are type-correct.
LEMMA HandlerTyped ==
  ASSUME TypeOK, Handler
  PROVE  TypeOK'
<1> USE GoTyped DEF TypeOK, Readers, Chargers, Actors, Places, Charging, Fault,
            SendErr, session, ledger, money, platform, log
<1>1. CASE Dial \/ DialFails
  BY <1>1 DEF Dial, DialFails
<1>2. CASE GiveUp \/ Refund
  <2>1. userQuota' \in Int
    BY <1>2, RealtimeAssumption DEF GiveUp, Refund
  <2> QED
    BY <1>2, <2>1 DEF GiveUp, Refund
<1>3. CASE Wake
  BY <1>3 DEF Wake
<1>4. CASE Drain
  BY <1>4 DEF Drain
<1>5. CASE Snapshot
  BY <1>5 DEF Snapshot
<1>6. CASE RefundFails
  BY <1>6, RealtimeAssumption DEF RefundFails
<1>7. CASE Release \/ ReleaseFails
  <2>1. hold' \in {"none", "active", "settled", "released", "parked", "lost"}
    BY <1>7 DEF Release, ReleaseFails
  <2>2. faults' \in 0..MaxFaults
    BY <1>7, RealtimeAssumption DEF Release, ReleaseFails
  <2>3. at' \in [Readers \cup {"main"} -> Places] /\ raced' \in BOOLEAN
    BY <1>7 DEF Release, ReleaseFails
  <2> QED
    BY <1>7, <2>1, <2>2, <2>3 DEF Release, ReleaseFails
<1>8. CASE Unset \/ Return
  BY <1>8 DEF Unset, Return
<1> QED
  BY <1>1, <1>2, <1>3, <1>4, <1>5, <1>6, <1>7, <1>8 DEF Handler

LEMMA TypeStep ==
  ASSUME TypeOK, [Next]_vars
  PROVE  TypeOK'
<1>1. CASE UNCHANGED vars
  BY <1>1 DEF vars, session, ledger, money, platform, log, TypeOK
<1> QED
  BY <1>1, ReaderTyped, ChargerTyped, HandlerTyped DEF Next

\* Every state of a session is well typed: errChan never overflows its capacity of 2,
\* and no counter goes below zero.
THEOREM TypeCorrect == Spec => []TypeOK
<1>1. ASSUME Init
      PROVE  TypeOK
  <2>1. at \in [Readers \cup {"main"} -> Places]
    BY <1>1 DEF Init, Readers, Places
  <2>2. preAuth \in BOOLEAN /\ hold \in {"none", "active"}
    BY <1>1 DEF Init
  <2>3. /\ open \in SUBSET Readers /\ closed \in SUBSET Readers /\ errs \in 0..2
        /\ messages \in [Readers -> Nat] /\ local \in Nat /\ sum \in Nat
        /\ billed \in [Chargers -> Nat] /\ paid \in [Exits -> Nat]
        /\ logged \in Nat \cup {-1}
    BY <1>1 DEF Init, Readers
  <2>4. /\ userQuota \in Int /\ charged \in Nat /\ final \in {0, Freeze}
        /\ faults \in 0..MaxFaults
    BY <1>1, RealtimeAssumption DEF Init
  <2>6. flagged \in BOOLEAN /\ raced \in BOOLEAN
    BY <1>1, Zenon DEF Init
  <2>5. counted \in [local : Nat, upstream : Nat, superseded : Nat,
                     charged : Nat, refused : Nat]
    BY <1>1 DEF Init
  <2> QED
    BY <2>1, <2>2, <2>3, <2>4, <2>5, <2>6 DEF TypeOK
<1> QED
  BY <1>1, TypeStep, PTL DEF Spec

-----------------------------------------------------------------------------
\* Until the upstream is dialled no reader is running.
BeforeDial == at["main"] = "dial" => at["client"] = "ended" /\ at["target"] = "ended"

LEMMA BeforeDialHolds == Spec => [](TypeOK /\ BeforeDial)
<1>1. Init => BeforeDial
  BY DEF Init, BeforeDial, Readers
<1>2. ASSUME TypeOK, BeforeDial, [Next]_vars
      PROVE  BeforeDial'
  <2> USE GoTyped DEF Readers, Chargers, Actors, Places, Charging, BeforeDial
  <2> SUFFICES ASSUME at'["main"] = "dial"
               PROVE  at'["client"] = "ended" /\ at'["target"] = "ended"
    OBVIOUS
  <2>1. CASE UNCHANGED at
    BY <1>2, <2>1
  <2>2. ASSUME NEW r \in Readers, Reader(r)
        PROVE  BeforeDial'
    <3>1. at[r] \in {"read", "write"}
      BY <2>2 DEF Reader, ReadBad, ReadClosed, Write, ClientRead, OutputEvent,
           SettleUpstream, SettleLocalInput, TargetReads
    <3>2. at["main"] # "dial"
      BY <1>2, <3>1
    <3>3. at'["main"] = at["main"]
      BY <1>2, <2>2 DEF Reader, ReadBad, ReadClosed, Write, ClientRead, OutputEvent,
           SettleUpstream, SettleLocalInput, Go, TypeOK
    <3> QED
      BY <3>2, <3>3
  <2>3. ASSUME NEW a \in Chargers, Charger(a)
        PROVE  BeforeDial'
    <3>1. at[a] \in Charging
      BY <2>3 DEF Charger, Check, CheckFails, Charge, ChargeFails, Wallet, Settle,
           SettleFails, Clear
    <3>2. PICK l \in Places \ {"dial"} : at' = [at EXCEPT ![a] = l]
      BY <1>2, <2>3 DEF Charger, Check, CheckFails, Charge, ChargeFails, Wallet, Settle,
           SettleFails, Clear, Charged, Refuse
    <3> QED
      BY <1>2, <3>1, <3>2 DEF TypeOK
  <2>4. CASE Handler
    <3>1. CASE Dial
      BY <3>1 DEF Dial
    <3>2. CASE ~Dial
      <4>1. PICK l \in Places \ {"dial"} : at' = [at EXCEPT !["main"] = l]
        BY <1>2, <2>4, <3>2 DEF Handler, DialFails, GiveUp, Wake, Drain, Snapshot,
           Refund, RefundFails, Release, ReleaseFails, Unset, Return
      <4> QED
        BY <1>2, <4>1 DEF TypeOK
    <3> QED
      BY <3>1, <3>2
  <2>5. ASSUME NEW r \in Readers, Leave(r)
        PROVE  UNCHANGED at
    BY <2>5 DEF Leave
  <2> QED
    BY <1>2, <2>1, <2>2, <2>3, <2>4, <2>5 DEF Next, vars
<1> QED
  BY <1>1, <1>2, TypeCorrect, PTL DEF Spec

-----------------------------------------------------------------------------
\* TokensAccounted

\* A step that leaves the ledger and what the two actors hold alone.
LEMMA TokensFrame ==
  ASSUME TokensAccounted, UNCHANGED <<sum, local, counted>>,
         InHand("target")' = InHand("target"), InHand("main")' = InHand("main")
  PROVE  TokensAccounted'
  BY DEF TokensAccounted, NoTokenBilledTwice, SumIsCharged

\* A message counted on either side is in the ledger at once; a response that ends
\* moves the ledger into the sum and into the hands of its reader.
LEMMA ReaderTokens ==
  ASSUME TypeOK, TokensAccounted, NEW r \in Readers, Reader(r) \/ Leave(r)
  PROVE  TokensAccounted'
<1> USE GoTyped DEF TypeOK, Readers, Chargers, Actors, Places, Charging
<1>1. CASE ReadBad(r) \/ ReadClosed(r) \/ Write(r) \/ Leave(r)
  <2>1. UNCHANGED <<sum, local, counted, billed>>
    BY <1>1 DEF ReadBad, ReadClosed, Write, Leave, ledger
  <2>2. InHand("target")' = InHand("target") /\ InHand("main")' = InHand("main")
    BY <1>1, <2>1 DEF ReadBad, ReadClosed, Write, Leave, InHand
  <2> QED
    BY <2>1, <2>2, TokensFrame
<1>2. ASSUME NEW n \in 0..MaxTokens, ClientRead(n) \/ OutputEvent(n)
      PROVE  TokensAccounted'
  <2>1. n \in Nat
    BY RealtimeAssumption
  <2>2. InHand("target")' = InHand("target") /\ InHand("main")' = InHand("main")
    BY <1>2 DEF ClientRead, OutputEvent, TargetReads, InHand
  <2>3. /\ local' = local + n /\ sum' = sum
        /\ counted' = [counted EXCEPT !.local = counted.local + n]
    BY <1>2 DEF ClientRead, OutputEvent
  <2> QED
    BY <2>1, <2>2, <2>3 DEF TokensAccounted, NoTokenBilledTwice, SumIsCharged
<1>3. ASSUME NEW n \in 0..MaxTokens, SettleUpstream(n)
      PROVE  TokensAccounted'
  <2>1. n \in Nat
    BY RealtimeAssumption
  <2>2. /\ InHand("target") = 0 /\ InHand("target")' = n
        /\ InHand("main")' = InHand("main") /\ InHand("main") \in Nat
    BY <1>3, <2>1 DEF SettleUpstream, TargetReads, InHand
  <2>3. /\ local' = 0 /\ sum' = sum + n
        /\ counted'.upstream = counted.upstream + n
        /\ counted'.superseded = counted.superseded + local
        /\ counted'.local = counted.local /\ counted'.charged = counted.charged
        /\ counted'.refused = counted.refused
    BY <1>3 DEF SettleUpstream
  <2> QED
    BY <2>1, <2>2, <2>3 DEF TokensAccounted, NoTokenBilledTwice, SumIsCharged
<1>4. ASSUME NEW n \in 0..MaxTokens, SettleLocalInput(n)
      PROVE  TokensAccounted'
  <2>1. n \in Nat
    BY RealtimeAssumption
  <2>2. /\ InHand("target") = 0 /\ InHand("target")' = local + n
        /\ InHand("main")' = InHand("main") /\ InHand("main") \in Nat
    BY <1>4, <2>1 DEF SettleLocalInput, TargetReads, InHand
  <2>3. /\ local' = 0 /\ sum' = sum + local + n
        /\ counted' = [counted EXCEPT !.local = counted.local + n]
    BY <1>4 DEF SettleLocalInput
  <2> QED
    BY <2>1, <2>2, <2>3 DEF TokensAccounted, NoTokenBilledTwice, SumIsCharged
<1> QED
  BY <1>1, <1>2, <1>3, <1>4 DEF Reader

\* A charge or a refusal takes an actor's tokens out of its hands, once.
LEMMA ChargerTokens ==
  ASSUME TypeOK, TokensAccounted, NEW a \in Chargers, Charger(a)
  PROVE  TokensAccounted'
<1> USE GoTyped DEF TypeOK, Readers, Chargers, Actors, Places, Charging
<1> DEFINE b == IF a = "main" THEN "target" ELSE "main"
<1>0. InHand(a) \in Nat /\ InHand(b) \in Nat /\ {a, b} = Chargers /\ a # b
  BY DEF InHand
<1>1. ASSUME at[a] \in {"check", "charge"}, Refuse(a), UNCHANGED <<sum, local>>
      PROVE  TokensAccounted'
  <2>1. InHand(a) = billed[a] /\ InHand(a)' = 0 /\ InHand(b)' = InHand(b)
    BY <1>1 DEF Refuse, InHand
  <2>2. counted' = [counted EXCEPT !.refused = counted.refused + billed[a]]
    BY <1>1 DEF Refuse
  <2> QED
    BY <1>0, <1>1, <2>1, <2>2 DEF TokensAccounted, NoTokenBilledTwice, SumIsCharged
<1>2. CASE Check(a)
  <2>1. CASE Refuse(a)
    BY <1>1, <1>2, <2>1 DEF Check
  <2>2. CASE Go(a, "charge") /\ UNCHANGED <<billed, counted, errs>>
    <3>1. InHand(a)' = InHand(a) /\ InHand(b)' = InHand(b)
      BY <1>2, <2>2 DEF Check, InHand
    <3> QED
      BY <1>0, <1>2, <2>2, <3>1, TokensFrame DEF Check
  <2> QED
    BY <1>2, <2>1, <2>2 DEF Check
<1>3. CASE CheckFails(a) \/ ChargeFails(a)
  BY <1>1, <1>3 DEF CheckFails, ChargeFails
<1>4. CASE Charge(a)
  <2>1. InHand(a) = billed[a] /\ InHand(a)' = 0 /\ InHand(b)' = InHand(b)
    BY <1>4 DEF Charge, InHand
  <2>2. /\ counted' = [counted EXCEPT !.charged = counted.charged + billed[a]]
        /\ UNCHANGED <<sum, local>>
    BY <1>4 DEF Charge
  <2> QED
    BY <1>0, <2>1, <2>2 DEF TokensAccounted, NoTokenBilledTwice, SumIsCharged
<1>5. CASE Wallet(a) \/ Settle(a) \/ SettleFails(a) \/ Clear(a)
  <2>1. InHand(a) = 0 /\ InHand(a)' = 0
    BY <1>5 DEF Wallet, Settle, SettleFails, Clear, Charged, InHand
  <2>2. InHand(b)' = InHand(b)
    BY <1>5 DEF Wallet, Settle, SettleFails, Clear, Charged, InHand, ledger
  <2>3. UNCHANGED <<sum, local, counted>>
    BY <1>5 DEF Wallet, Settle, SettleFails, Clear, ledger
  <2> QED
    BY <1>0, <2>1, <2>2, <2>3, TokensFrame
<1> QED
  BY <1>2, <1>3, <1>4, <1>5 DEF Charger

\* The handler drains the ledger into its own hands.
LEMMA HandlerTokens ==
  ASSUME TypeOK, BeforeDial, TokensAccounted, Handler
  PROVE  TokensAccounted'
<1> USE GoTyped DEF TypeOK, Readers, Chargers, Actors, Places, Charging
<1>1. CASE Drain
  <2>1. /\ InHand("main") = 0 /\ InHand("main")' = local
        /\ InHand("target")' = InHand("target") /\ InHand("target") \in Nat
    BY <1>1 DEF Drain, InHand
  <2>2. local' = 0 /\ sum' = sum + local /\ UNCHANGED counted
    BY <1>1 DEF Drain
  <2> QED
    BY <2>1, <2>2 DEF TokensAccounted, NoTokenBilledTwice, SumIsCharged
<1>2. CASE Dial
  <2>1. UNCHANGED <<sum, local, counted, billed>>
    BY <1>2 DEF Dial, ledger
  <2>2. /\ InHand("target")' = 0 /\ InHand("main")' = 0
        /\ InHand("target") = 0 /\ InHand("main") = 0
    BY <1>2 DEF Dial, BeforeDial, InHand
  <2> QED
    BY <2>1, <2>2, TokensFrame
<1>3. CASE DialFails \/ GiveUp \/ Wake \/ Snapshot \/ Refund \/ RefundFails
           \/ Release \/ ReleaseFails \/ Unset \/ Return
  <2>1. UNCHANGED <<sum, local, counted, billed>>
    BY <1>3 DEF DialFails, GiveUp, Wake, Snapshot, Refund, RefundFails, Release,
         ReleaseFails, Unset, Return, ledger
  <2>2. PICK l \in Places \ Charging : at' = [at EXCEPT !["main"] = l]
    BY <1>3 DEF DialFails, GiveUp, Wake, Snapshot, Refund, RefundFails, Release,
         ReleaseFails, Unset, Return
  <2>3. at["main"] \notin Charging
    BY <1>3 DEF DialFails, GiveUp, Wake, Snapshot, Refund, RefundFails, Release,
         ReleaseFails, Unset, Return
  <2>4. InHand("target")' = InHand("target") /\ InHand("main")' = InHand("main")
    BY <2>1, <2>2, <2>3 DEF InHand
  <2> QED
    BY <2>1, <2>4, TokensFrame
<1> QED
  BY <1>1, <1>2, <1>3 DEF Handler

LEMMA TokensStep ==
  ASSUME TypeOK, BeforeDial, TokensAccounted, [Next]_vars
  PROVE  TokensAccounted'
<1>1. CASE UNCHANGED vars
  BY <1>1 DEF vars, ledger, TokensAccounted, NoTokenBilledTwice, SumIsCharged, InHand
<1> QED
  BY <1>1, ReaderTokens, ChargerTokens, HandlerTokens DEF Next

\* No token counted on either side is lost on its way to a charge, or billed twice,
\* however the two readers and the handler interleave on the ledger.
THEOREM TokensCorrect == Spec => []TokensAccounted
<1>1. Init => TokensAccounted
  BY DEF Init, TokensAccounted, NoTokenBilledTwice, SumIsCharged, InHand, Readers
<1> QED
  BY <1>1, BeforeDialHolds, TokensStep, PTL DEF Spec

-----------------------------------------------------------------------------
\* WalletMirrorsLedger

\* A step that moves no money and leaves alone what the two actors have to ask for.
LEMMA MirrorFrame ==
  ASSUME WalletMirrorsLedger, UNCHANGED <<charged, paid>>,
         Asking("target")' = Asking("target"), Asking("main")' = Asking("main")
  PROVE  WalletMirrorsLedger'
  BY DEF WalletMirrorsLedger

LEMMA ReaderMirror ==
  ASSUME TypeOK, WalletMirrorsLedger, NEW r \in Readers, Reader(r) \/ Leave(r)
  PROVE  WalletMirrorsLedger'
<1> USE GoTyped DEF TypeOK, Readers, Chargers, Actors, Places, Charging
<1>1. CASE ReadBad(r) \/ ReadClosed(r) \/ Write(r) \/ Leave(r)
  <2>1. UNCHANGED <<charged, paid, billed>>
    BY <1>1 DEF ReadBad, ReadClosed, Write, Leave, ledger, money, platform
  <2>2. Asking("target")' = Asking("target") /\ Asking("main")' = Asking("main")
    BY <1>1, <2>1 DEF ReadBad, ReadClosed, Write, Leave, Asking, Quota
  <2> QED
    BY <2>1, <2>2, MirrorFrame
<1>2. ASSUME NEW n \in 0..MaxTokens,
             ClientRead(n) \/ OutputEvent(n) \/ SettleUpstream(n) \/ SettleLocalInput(n)
      PROVE  WalletMirrorsLedger'
  <2>1. UNCHANGED <<charged, paid>>
    BY <1>2 DEF ClientRead, OutputEvent, SettleUpstream, SettleLocalInput, TargetReads,
         money, platform
  <2>2. Asking("target")' = Asking("target")
    BY <1>2 DEF ClientRead, OutputEvent, SettleUpstream, SettleLocalInput, TargetReads,
         Asking, Quota
  <2>3. Asking("main")' = Asking("main")
    BY <1>2 DEF ClientRead, OutputEvent, SettleUpstream, SettleLocalInput, TargetReads,
         Asking, Quota
  <2> QED
    BY <2>1, <2>2, <2>3, MirrorFrame
<1> QED
  BY <1>1, <1>2 DEF Reader

\* A charge to the row is asked of the wallet once, whichever way it goes.
LEMMA ChargerMirror ==
  ASSUME TypeOK, WalletMirrorsLedger, NEW a \in Chargers, Charger(a)
  PROVE  WalletMirrorsLedger'
<1> USE GoTyped DEF TypeOK, Readers, Chargers, Actors, Places, Charging
<1> DEFINE b == IF a = "main" THEN "target" ELSE "main"
           q == Quota(billed[a])
<1>0. /\ Asking(a) \in Nat /\ Asking(b) \in Nat /\ q \in Nat
      /\ {a, b} = Chargers /\ a # b
  BY QuotaTyped DEF Asking
<1>1. b \in Chargers /\ at'[b] = at[b] /\ billed'[b] = billed[b]
  BY DEF Charger, Check, CheckFails, Charge, ChargeFails, Wallet, Settle, SettleFails,
       Clear, Charged, Refuse, ledger
<1>2. Asking(b)' = Asking(b)
  BY <1>1 DEF Asking, Quota
<1>3. CASE Check(a) \/ CheckFails(a) \/ ChargeFails(a) \/ Clear(a)
  <2>1. UNCHANGED <<charged, paid>>
    BY <1>3 DEF Check, CheckFails, ChargeFails, Clear, money, platform
  <2>2. Asking(a) = 0 /\ Asking(a)' = 0
    BY <1>3 DEF Check, CheckFails, ChargeFails, Clear, Charged, Refuse, Asking
  <2> QED
    BY <1>0, <1>2, <2>1, <2>2, MirrorFrame
<1>4. CASE Charge(a)
  <2>1. Asking(a) = 0 /\ Asking(a)' = q /\ charged' = charged + q /\ paid' = paid
    BY <1>4 DEF Charge, Asking, Quota, platform
  <2> QED
    BY <1>0, <1>2, <2>1 DEF WalletMirrorsLedger, Exits
<1>5. ASSUME NEW e \in Exits, Pay(e, a), UNCHANGED charged, Asking(a) = q, Asking(a)' = 0
      PROVE  WalletMirrorsLedger'
  <2>1. paid' = [paid EXCEPT ![e] = paid[e] + q]
    BY <1>5 DEF Pay
  <2> QED
    BY <1>0, <1>2, <1>5, <2>1 DEF WalletMirrorsLedger, Exits
<1>6. CASE Wallet(a)
  <2>1. CASE preAuth /\ Quota(billed[a]) > 0
    <3>1. Asking(a)' = Asking(a)
      BY <1>6, <2>1 DEF Wallet, Asking, Quota
    <3> QED
      BY <1>0, <1>2, <1>6, <2>1, <3>1, MirrorFrame DEF Wallet, money
  <2>2. CASE ~(preAuth /\ Quota(billed[a]) > 0)
    <3>1. Asking(a) = q /\ Asking(a)' = 0
      BY <1>6, <2>2 DEF Wallet, Charged, Asking
    <3> QED
      BY <1>5, <1>6, <2>2, <3>1 DEF Wallet, money, Exits
  <2> QED
    BY <2>1, <2>2
<1>7. CASE Settle(a) \/ SettleFails(a)
  <2>1. Asking(a) = q /\ Asking(a)' = 0 /\ charged' = charged
    BY <1>7 DEF Settle, SettleFails, Asking, money
  <2>2. PICK e \in Exits : Pay(e, a)
    BY <1>7 DEF Settle, SettleFails, Exits
  <2> QED
    BY <1>5, <2>1, <2>2
<1> QED
  BY <1>3, <1>4, <1>6, <1>7 DEF Charger

LEMMA HandlerMirror ==
  ASSUME TypeOK, BeforeDial, WalletMirrorsLedger, Handler
  PROVE  WalletMirrorsLedger'
<1> USE GoTyped DEF TypeOK, Readers, Chargers, Actors, Places, Charging
<1>1. UNCHANGED <<charged, paid>> /\ billed'["target"] = billed["target"]
  BY DEF Handler, Dial, DialFails, GiveUp, Wake, Drain, Snapshot, Refund, RefundFails,
       Release, ReleaseFails, Unset, Return, ledger, money, platform
<1>2. Asking("main") = 0
  BY DEF Handler, Dial, DialFails, GiveUp, Wake, Drain, Snapshot, Refund, RefundFails,
       Release, ReleaseFails, Unset, Return, Asking
<1>3. CASE Dial
  <2>1. Asking("target") = 0 /\ Asking("target")' = 0 /\ Asking("main")' = 0
    BY <1>3 DEF Dial, BeforeDial, Asking
  <2> QED
    BY <1>1, <1>2, <2>1, MirrorFrame
<1>4. CASE ~Dial
  <2>1. PICK l \in Places \ {"wallet", "settle"} : at' = [at EXCEPT !["main"] = l]
    BY <1>4 DEF Handler, DialFails, GiveUp, Wake, Drain, Snapshot,
         Refund, RefundFails, Release, ReleaseFails, Unset, Return
  <2>2. Asking("main")' = 0 /\ Asking("target")' = Asking("target")
    BY <1>1, <2>1 DEF Asking, Quota
  <2> QED
    BY <1>1, <1>2, <2>2, MirrorFrame
<1> QED
  BY <1>3, <1>4

LEMMA MirrorStep ==
  ASSUME TypeOK, BeforeDial, WalletMirrorsLedger, [Next]_vars
  PROVE  WalletMirrorsLedger'
<1>1. CASE UNCHANGED vars
  BY <1>1 DEF vars, ledger, money, platform, WalletMirrorsLedger, Asking, Quota
<1> QED
  BY <1>1, ReaderMirror, ChargerMirror, HandlerMirror DEF Next

-----------------------------------------------------------------------------
\* SettledOnce: what holds of the hold as long as the two have not charged together

\* The id is kept at least as long as the hold is active, and whoever has used the
\* hold up is on its way to clear the id; an actor about to settle has an active hold.
HoldInv ==
  /\ Together(at) => raced
  /\ hold = "active" => preAuth
  /\ \A a \in Chargers : at[a] = "clear" => hold # "active"
  /\ at["main"] = "unset" => hold # "active"
  /\ raced \/ ( preAuth /\ hold # "active" =>
                  at["target"] = "clear" \/ at["main"] \in {"clear", "unset"} )
  /\ raced \/ \A a \in Chargers : at[a] = "settle" => preAuth /\ hold = "active"
  /\ raced \/ paid["stray"] = 0

\* The race flag after a step of an actor.
LEMMA GoRaced ==
  ASSUME NEW a, NEW l, Go(a, l)
  PROVE  raced' <=> raced \/ Together(at')
  BY DEF Go

\* A step that leaves the platform alone, and takes no actor to or from the places
\* where the hold is used.
LEMMA HoldFrame ==
  ASSUME TypeOK, HoldInv, UNCHANGED platform,
         raced' <=> raced \/ Together(at'),
         \A a \in Chargers : at'[a] # at[a] =>
           /\ at[a] \notin {"clear", "unset"}
           /\ at'[a] \notin {"clear", "unset", "settle"}
  PROVE  HoldInv'
  BY Zenon DEF HoldInv, TypeOK, platform, Chargers

LEMMA ReaderHold ==
  ASSUME TypeOK, HoldInv, NEW r \in Readers, Reader(r) \/ Leave(r)
  PROVE  HoldInv'
<1> USE GoTyped, GoRaced DEF TypeOK, Readers, Chargers, Actors, Places, Charging
<1>1. CASE ReadBad(r) \/ ReadClosed(r) \/ Write(r)
  <2>1. PICK l \in {"ended", "read"} : Go(r, l)
    BY <1>1 DEF ReadBad, ReadClosed, Write
  <2>2. at' = [at EXCEPT ![r] = l] /\ (raced' <=> raced \/ Together(at'))
    BY <2>1
  <2>3. at[r] \in {"read", "write"} /\ UNCHANGED platform
    BY <1>1 DEF ReadBad, ReadClosed, Write
  <2> QED
    BY <2>2, <2>3, HoldFrame
<1>2. CASE Leave(r)
  BY <1>2 DEF Leave, HoldInv, Together, platform
<1>3. ASSUME NEW n \in 0..MaxTokens,
             ClientRead(n) \/ OutputEvent(n) \/ SettleUpstream(n) \/ SettleLocalInput(n)
      PROVE  HoldInv'
  <2>1. PICK b \in Readers, l \in {"write", "check"} : Go(b, l) /\ at[b] = "read"
    BY <1>3 DEF ClientRead, OutputEvent, SettleUpstream, SettleLocalInput, TargetReads
  <2>2. at' = [at EXCEPT ![b] = l] /\ (raced' <=> raced \/ Together(at'))
    BY <2>1
  <2>3. UNCHANGED platform
    BY <1>3 DEF ClientRead, OutputEvent, SettleUpstream, SettleLocalInput, TargetReads
  <2> QED
    BY <2>1, <2>2, <2>3, HoldFrame
<1> QED
  BY <1>1, <1>2, <1>3 DEF Reader

\* Two actors at their charges are charging together.
LEMMA ApartOrRaced ==
  ASSUME TypeOK, HoldInv, ~raced, NEW a \in Chargers,
         at[a] \in {"charge", "wallet", "settle", "clear"},
         NEW b \in Chargers, b # a
  PROVE  /\ at[b] \notin {"charge", "wallet", "settle", "clear"}
         /\ b = "main" => at[b] \notin {"release", "unset"}
  BY DEF HoldInv, Together, Chargers, Charging, TypeOK, Places, Readers

LEMMA ChargerHold ==
  ASSUME TypeOK, HoldInv, NEW a \in Chargers, Charger(a)
  PROVE  HoldInv'
<1> USE DEF TypeOK, Readers, Chargers, Actors, Places, Charging
<1> DEFINE b == IF a = "main" THEN "target" ELSE "main"
<1>0. b \in Chargers /\ a # b /\ Chargers = {a, b} /\ a \in Actors
  OBVIOUS
<1>1. CASE Check(a) \/ CheckFails(a) \/ (ChargeFails(a) /\ UNCHANGED platform)
  <2>1. PICK l \in {"charge", "snapshot", "ended"} : Go(a, l)
    BY <1>1 DEF Check, CheckFails, ChargeFails, Refuse
  <2>2. at' = [at EXCEPT ![a] = l] /\ (raced' <=> raced \/ Together(at'))
    BY <1>0, <2>1, GoTyped, GoRaced
  <2>3. at[a] \in {"check", "charge"} /\ UNCHANGED platform
    BY <1>1 DEF Check, CheckFails, ChargeFails
  <2> QED
    BY <2>2, <2>3, HoldFrame
<1>2. CASE Charge(a)
  <2>1. at' = [at EXCEPT ![a] = "wallet"] /\ (raced' <=> raced \/ Together(at'))
    BY <1>0, <1>2, GoTyped, GoRaced DEF Charge
  <2>2. at[a] = "charge" /\ UNCHANGED platform
    BY <1>2 DEF Charge
  <2> QED
    BY <2>1, <2>2, HoldFrame
<1>3. CASE ChargeFails(a) /\ ~UNCHANGED platform
  <2>1. PICK l \in {"snapshot", "ended"} : Go(a, l)
    BY <1>3 DEF ChargeFails, Refuse
  <2>2. at' = [at EXCEPT ![a] = l] /\ (raced' <=> raced \/ Together(at'))
    BY <1>0, <2>1, GoTyped, GoRaced
  <2>3. /\ at[a] = "charge" /\ ~preAuth' /\ paid' = paid
        /\ hold' = IF hold = "active" THEN "released" ELSE hold
    BY <1>3 DEF ChargeFails
  <2>4. hold' # "active"
    BY <2>3
  <2>5. raced \/ at[b] # "settle"
    BY <1>0, <2>3, ApartOrRaced
  <2>6. at'[a] # "settle" /\ at'[b] = at[b]
    BY <1>0, <2>2
  <2> QED
    BY <1>0, <2>2, <2>3, <2>4, <2>5, <2>6 DEF HoldInv
<1>4. CASE Wallet(a) /\ ~(preAuth /\ Quota(billed[a]) > 0)
  <2>1. PICK l \in {"snapshot", "write"} : Go(a, l)
    BY <1>4 DEF Wallet, Charged
  <2>2. at' = [at EXCEPT ![a] = l] /\ (raced' <=> raced \/ Together(at'))
    BY <1>0, <2>1, GoTyped, GoRaced
  <2>3. at[a] = "wallet" /\ UNCHANGED <<preAuth, hold>>
    BY <1>4 DEF Wallet
  <2>4. paid'["stray"] = paid["stray"]
    BY <1>4 DEF Wallet, Pay, Exits
  <2> QED
    BY <1>0, <2>2, <2>3, <2>4 DEF HoldInv
<1>5. CASE Wallet(a) /\ preAuth /\ Quota(billed[a]) > 0
  <2>1. at' = [at EXCEPT ![a] = "settle"] /\ (raced' <=> raced \/ Together(at'))
    BY <1>0, <1>5, GoTyped, GoRaced DEF Wallet
  <2>2. at[a] = "wallet" /\ UNCHANGED <<preAuth, hold, paid>>
    BY <1>5 DEF Wallet
  <2>3. raced \/ (at[b] # "clear" /\ (b = "main" => at[b] # "unset"))
    BY <1>0, <2>2, ApartOrRaced
  <2>4. raced \/ hold = "active"
    BY <1>0, <1>5, <2>2, <2>3 DEF HoldInv
  <2> QED
    BY <1>0, <1>5, <2>1, <2>2, <2>4 DEF HoldInv
<1>6. CASE Settle(a) \/ SettleFails(a)
  <2>1. at' = [at EXCEPT ![a] = "clear"] /\ (raced' <=> raced \/ Together(at'))
    BY <1>0, <1>6, GoTyped, GoRaced DEF Settle, SettleFails
  <2>2. at[a] = "settle" /\ preAuth' = preAuth /\ hold' # "active"
    BY <1>6 DEF Settle, SettleFails
  <2>3. raced \/ at[b] # "settle"
    BY <1>0, <2>2, ApartOrRaced
  <2>4. raced \/ paid'["stray"] = paid["stray"]
    BY <1>6, <2>2 DEF HoldInv, Settle, SettleFails, Pay, Exits
  <2>5. at'[b] = at[b] /\ at'[a] = "clear"
    BY <1>0, <2>1
  <2> QED
    BY <1>0, <2>1, <2>2, <2>3, <2>4, <2>5 DEF HoldInv
<1>7. CASE Clear(a)
  <2>1. PICK l \in {"snapshot", "write"} : Go(a, l)
    BY <1>7 DEF Clear, Charged
  <2>2. at' = [at EXCEPT ![a] = l] /\ (raced' <=> raced \/ Together(at'))
    BY <1>0, <2>1, GoTyped, GoRaced
  <2>3. at[a] = "clear" /\ ~preAuth' /\ UNCHANGED <<hold, paid>>
    BY <1>7 DEF Clear
  <2>4. hold # "active"
    BY <2>3 DEF HoldInv
  <2>5. raced \/ at[b] # "settle"
    BY <1>0, <2>3, ApartOrRaced
  <2>6. at'[b] = at[b] /\ at'[a] # "settle"
    BY <1>0, <2>2
  <2> QED
    BY <1>0, <2>2, <2>3, <2>4, <2>5, <2>6 DEF HoldInv
<1> QED
  BY <1>1, <1>2, <1>3, <1>4, <1>5, <1>6, <1>7 DEF Charger

LEMMA HandlerHold ==
  ASSUME TypeOK, BeforeDial, HoldInv, Handler
  PROVE  HoldInv'
<1> USE DEF TypeOK, Readers, Chargers, Actors, Places, Charging
<1>1. CASE Dial
  <2>1. at["target"] = "ended" /\ at["main"] = "dial"
    BY <1>1 DEF Dial, BeforeDial
  <2>2. at'["target"] = "read" /\ at'["main"] = "select" /\ UNCHANGED <<raced, platform>>
    BY <1>1 DEF Dial
  <2>3. ~Together(at')
    BY <2>2 DEF Together
  <2> QED
    BY <2>1, <2>2, <2>3 DEF HoldInv, platform
<1>2. CASE DialFails \/ GiveUp \/ Wake \/ Drain \/ Snapshot \/ Refund \/ RefundFails \/ Return
  <2>1. PICK l \in {"giveUp", "release", "drain", "check", "snapshot", "refund", "leave",
                    "returned"} : Go("main", l)
    BY <1>2 DEF DialFails, GiveUp, Wake, Drain, Snapshot, Refund, RefundFails, Return
  <2>2. at' = [at EXCEPT !["main"] = l] /\ (raced' <=> raced \/ Together(at'))
    BY <2>1, GoTyped, GoRaced
  <2>3. at["main"] \notin {"clear", "unset"} /\ UNCHANGED platform
    BY <1>2 DEF DialFails, GiveUp, Wake, Drain, Snapshot, Refund, RefundFails, Return
  <2> QED
    BY <2>2, <2>3, HoldFrame
<1>3. CASE Release \/ ReleaseFails
  <2>1. at' = [at EXCEPT !["main"] = "unset"] /\ (raced' <=> raced \/ Together(at'))
    BY <1>3, GoTyped, GoRaced DEF Release, ReleaseFails
  <2>2. at["main"] = "release" /\ UNCHANGED <<preAuth, paid>>
    BY <1>3 DEF Release, ReleaseFails
  <2>3. hold' # "active"
    BY <1>3 DEF Release, ReleaseFails, HoldInv
  <2>4. raced \/ at["target"] # "settle"
    BY <2>2 DEF HoldInv, Together
  <2> QED
    BY <2>1, <2>2, <2>3, <2>4 DEF HoldInv
<1>4. CASE Unset
  <2>1. at' = [at EXCEPT !["main"] = "leave"] /\ (raced' <=> raced \/ Together(at'))
    BY <1>4, GoTyped, GoRaced DEF Unset
  <2>2. at["main"] = "unset" /\ ~preAuth' /\ UNCHANGED <<hold, paid>>
    BY <1>4 DEF Unset
  <2>3. hold # "active"
    BY <2>2 DEF HoldInv
  <2>4. raced \/ at["target"] # "settle"
    BY <2>2 DEF HoldInv, Together
  <2> QED
    BY <2>1, <2>2, <2>3, <2>4 DEF HoldInv
<1> QED
  BY <1>1, <1>2, <1>3, <1>4 DEF Handler

LEMMA HoldStep ==
  ASSUME TypeOK, BeforeDial, HoldInv, [Next]_vars
  PROVE  HoldInv'
<1>1. CASE UNCHANGED vars
  BY <1>1 DEF vars, platform, HoldInv, Together
<1> QED
  BY <1>1, ReaderHold, ChargerHold, HandlerHold DEF Next

LEMMA HoldHolds == Spec => []HoldInv
<1>1. Init => HoldInv
  BY DEF Init, HoldInv, Together, Chargers, Charging, Readers, Exits
<1> QED
  BY <1>1, BeforeDialHolds, HoldStep, PTL DEF Spec

\* The wallet is asked for exactly what the user's row has paid, and a session in which
\* the reader and the handler never charged together uses its hold once.
THEOREM WalletKeptCorrect == Spec => []WalletKept
<1>1. Init => WalletMirrorsLedger
  BY DEF Init, WalletMirrorsLedger, Asking, Readers, Exits
<1>2. Spec => []WalletMirrorsLedger
  BY <1>1, BeforeDialHolds, MirrorStep, PTL DEF Spec
<1>3. HoldInv /\ WalletMirrorsLedger => WalletKept
  BY DEF HoldInv, WalletKept, SettledOnce
<1> QED
  BY <1>2, <1>3, HoldHolds, PTL

-----------------------------------------------------------------------------
\* FreezeReturned

\* Where the handler has settled the freeze, or had none to settle.
Closing == {"release", "unset", "leave", "returned"}

\* The row differs from its start by the charges, and by the freeze once
\* the handler has given it back.
UserInv ==
  /\ at["main"] \notin Closing => userQuota = UserQuota0 - charged
  /\ at["main"] \in Closing /\ ~flagged => userQuota = UserQuota0 + final - charged
  /\ at["main"] \in {"leave", "returned"} /\ ~flagged /\ final # 0 => hold # "active"

\* A step that moves no quota, leaves an active hold to others and takes the handler
\* neither into nor out of its last steps.
LEMMA UserFrame ==
  ASSUME TypeOK, UserInv, UNCHANGED <<userQuota, charged, final>>,
         flagged => flagged', hold' = "active" => hold = "active",
         at'["main"] = at["main"] \/ ( /\ at["main"] \notin Closing
                                       /\ at'["main"] \notin Closing )
  PROVE  UserInv'
<1>3. at'["main"] \notin Closing => userQuota' = UserQuota0 - charged'
  BY DEF UserInv
<1>4. at'["main"] \in Closing /\ ~flagged' => userQuota' = UserQuota0 + final' - charged'
  BY DEF UserInv
<1>5. at'["main"] \in {"leave", "returned"} /\ ~flagged' /\ final' # 0 => hold' # "active"
  BY DEF UserInv, Closing
<1> QED
  BY <1>3, <1>4, <1>5 DEF UserInv

LEMMA ReaderUser ==
  ASSUME TypeOK, UserInv, NEW r \in Readers, Reader(r) \/ Leave(r)
  PROVE  UserInv'
<1> USE DEF TypeOK, Readers, Chargers, Actors, Places, Charging
<1>1. CASE ReadBad(r) \/ ReadClosed(r) \/ Write(r)
  <2>1. PICK l \in {"ended", "read"} : Go(r, l)
    BY <1>1 DEF ReadBad, ReadClosed, Write
  <2>2. at' = [at EXCEPT ![r] = l] /\ (raced => raced')
    BY <2>1, GoTyped, GoRaced
  <2>3. UNCHANGED <<userQuota, charged, final, billed, hold, flagged>>
    BY <1>1 DEF ReadBad, ReadClosed, Write, money, ledger, platform, log
  <2> QED
    BY <2>2, <2>3, UserFrame
<1>2. CASE Leave(r)
  BY <1>2 DEF Leave, UserInv, Quota, money, ledger, platform, log
<1>3. ASSUME NEW n \in 0..MaxTokens,
             ClientRead(n) \/ OutputEvent(n) \/ SettleUpstream(n) \/ SettleLocalInput(n)
      PROVE  UserInv'
  <2>1. PICK b \in Readers, l \in {"write", "check"} :
          Go(b, l) /\ at[b] = "read"
    BY <1>3 DEF ClientRead, OutputEvent, SettleUpstream, SettleLocalInput, TargetReads
  <2>2. at' = [at EXCEPT ![b] = l] /\ (raced => raced')
    BY <2>1, GoTyped, GoRaced
  <2>3. UNCHANGED <<userQuota, charged, final, hold, flagged>>
    BY <1>3 DEF ClientRead, OutputEvent, SettleUpstream, SettleLocalInput, TargetReads,
         money, platform, log
  <2> QED
    BY <2>1, <2>2, <2>3, UserFrame
<1> QED
  BY <1>1, <1>2, <1>3 DEF Reader

LEMMA ChargerUser ==
  ASSUME TypeOK, HoldInv, UserInv, NEW a \in Chargers, Charger(a)
  PROVE  UserInv'
<1> USE DEF TypeOK, Readers, Chargers, Actors, Places, Charging
<1> DEFINE b == IF a = "main" THEN "target" ELSE "main"
<1>0. b \in Chargers /\ a # b /\ Chargers = {a, b} /\ a \in Actors
  OBVIOUS
<1>1. Quota(billed[a]) \in Nat
  BY QuotaTyped
<1>3. CASE \/ Check(a) \/ CheckFails(a) \/ ChargeFails(a) \/ Wallet(a) \/ Settle(a)
           \/ SettleFails(a) \/ Clear(a)
  <2>1. PICK l \in {"charge", "snapshot", "ended", "write", "settle", "clear"} : Go(a, l)
    BY <1>3 DEF Check, CheckFails, ChargeFails, Wallet, Settle, SettleFails, Clear,
         Refuse, Charged
  <2>2. at' = [at EXCEPT ![a] = l]
    BY <1>0, <2>1, GoTyped
  <2>3. at[a] \in Charging /\ UNCHANGED <<userQuota, charged, final, flagged>>
    BY <1>3 DEF Check, CheckFails, ChargeFails, Wallet, Settle, SettleFails, Clear,
         money, log
  <2>5. hold' = "active" => hold = "active"
    BY <1>3 DEF Check, CheckFails, ChargeFails, Wallet, Settle, SettleFails, Clear,
         platform
  <2>6. at'["main"] = at["main"]
        \/ (at["main"] \notin Closing /\ at'["main"] \notin Closing)
    BY <2>2, <2>3 DEF Closing
  <2> QED
    BY <2>3, <2>5, <2>6, UserFrame
<1>4. CASE Charge(a)
  <2> DEFINE q == Quota(billed[a])
  <2>1. at' = [at EXCEPT ![a] = "wallet"]
    BY <1>0, <1>4, GoTyped DEF Charge
  <2>2. /\ at[a] = "charge" /\ UNCHANGED <<final, flagged, hold>>
        /\ userQuota' = userQuota - q /\ charged' = charged + q
    BY <1>4 DEF Charge, platform, log
  <2> HIDE DEF q
  <2>4. q \in Nat
    BY <1>1 DEF q
  <2>7. at'["main"] \notin Closing => userQuota' = UserQuota0 - charged'
    BY <2>1, <2>2, <2>4, RealtimeAssumption DEF UserInv, Closing
  <2>8. at'["main"] \in Closing /\ ~flagged' => userQuota' = UserQuota0 + final' - charged'
    <3>1. SUFFICES ASSUME at'["main"] \in Closing, ~flagged
                   PROVE  userQuota' = UserQuota0 + final' - charged'
      BY <2>2
    <3>2. at["main"] \in Closing
      BY <2>1, <3>1 DEF Closing
    <3>3. userQuota = UserQuota0 + final - charged
      BY <3>1, <3>2 DEF UserInv
    <3>4. final \in Int
      BY RealtimeAssumption
    <3> QED
      BY <2>2, <2>4, <3>3, <3>4, RealtimeAssumption
  <2>9. at'["main"] \in {"leave", "returned"} /\ ~flagged' /\ final' # 0 => hold' # "active"
    BY <2>1, <2>2 DEF UserInv
  <2> QED
    BY <2>7, <2>8, <2>9 DEF UserInv
<1> QED
  BY <1>3, <1>4 DEF Charger

LEMMA HandlerUser ==
  ASSUME TypeOK, BeforeDial, HoldInv, UserInv, Handler
  PROVE  UserInv'
<1> USE DEF TypeOK, Readers, Chargers, Actors, Places, Charging
<1>1. CASE Dial
  <2>2. at["main"] \notin Closing /\ at'["main"] \notin Closing
    BY <1>1 DEF Dial, Closing
  <2>3. UNCHANGED <<userQuota, charged, final, hold, flagged>>
    BY <1>1 DEF Dial, money, platform, log
  <2> QED
    BY <2>2, <2>3, UserFrame
<1>2. CASE DialFails \/ Wake \/ Drain \/ (Snapshot /\ final # 0)
  <2>1. PICK l \in {"giveUp", "drain", "check", "snapshot", "refund"} : Go("main", l)
    BY <1>2 DEF DialFails, Wake, Drain, Snapshot
  <2>2. at' = [at EXCEPT !["main"] = l] /\ (raced => raced')
    BY <2>1, GoTyped, GoRaced
  <2>3. /\ at["main"] \in {"dial", "select", "drain", "snapshot"}
        /\ UNCHANGED <<userQuota, charged, final, hold, flagged>>
    BY <1>2 DEF DialFails, Wake, Drain, Snapshot, money, platform, log, ledger
  <2>4. at["main"] \notin Closing /\ at'["main"] \notin Closing
    BY <2>2, <2>3 DEF Closing
  <2> QED
    BY <2>3, <2>4, UserFrame
<1>3. ASSUME NEW l \in Closing, Go("main", l), UNCHANGED <<charged, final>>,
             ~flagged' => userQuota' = UserQuota0 + final - charged,
             l \in {"leave", "returned"} /\ ~flagged' /\ final # 0 => hold' # "active"
      PROVE  UserInv'
  <2>1. at'["main"] = l
    BY <1>3, GoTyped DEF Closing
  <2> QED
    BY <1>3, <2>1 DEF UserInv
<1>4. final \in Nat /\ charged \in Nat /\ UserQuota0 \in Int
  BY RealtimeAssumption
<1>5. CASE GiveUp \/ Refund
  <2>1. /\ Go("main", "release") /\ userQuota' = userQuota + final
        /\ at["main"] \in {"giveUp", "refund"}
        /\ UNCHANGED <<charged, final, billed, flagged, hold>>
    BY <1>5 DEF GiveUp, Refund, ledger, log, platform
  <2>2. userQuota = UserQuota0 - charged
    BY <2>1 DEF UserInv, Closing
  <2>3. userQuota' = UserQuota0 + final - charged
    BY <1>4, <2>1, <2>2
  <2> QED
    BY <1>3, <2>1, <2>3 DEF Closing
<1>6. CASE Snapshot /\ final = 0
  <2>1. /\ Go("main", "leave") /\ at["main"] = "snapshot"
        /\ UNCHANGED <<charged, final, billed, flagged, hold, userQuota>>
    BY <1>6 DEF Snapshot, ledger, platform, money
  <2>2. userQuota = UserQuota0 + final - charged
    BY <1>4, <1>6, <2>1 DEF UserInv, Closing
  <2> QED
    BY <1>3, <1>6, <2>1, <2>2 DEF Closing
<1>7. CASE RefundFails
  <2>1. PICK l \in {"leave", "release"} : Go("main", l)
    BY <1>7 DEF RefundFails
  <2>2. /\ flagged' /\ at["main"] # "charge"
        /\ UNCHANGED <<charged, final, billed, hold, userQuota>>
    BY <1>7 DEF RefundFails, ledger, platform, money
  <2> QED
    BY <1>3, <2>1, <2>2 DEF Closing
<1>8. CASE Release \/ ReleaseFails \/ Unset \/ Return
  <2>1. PICK l \in {"unset", "leave", "returned"} :
          /\ Go("main", l)
          /\ l \in {"leave", "returned"} => at["main"] \in {"unset", "leave"}
    BY <1>8 DEF Release, ReleaseFails, Unset, Return
  <2>2. /\ at["main"] \in {"release", "unset", "leave"}
        /\ UNCHANGED <<charged, final, billed, flagged, userQuota>>
    BY <1>8 DEF Release, ReleaseFails, Unset, Return, ledger, log, money
  <2>3. l \in {"leave", "returned"} => hold' = hold
    BY <1>8, <2>1, <2>2 DEF Release, ReleaseFails, Unset, Return, platform
  <2>4. l \in {"leave", "returned"} /\ ~flagged' /\ final # 0 => hold' # "active"
    BY <2>1, <2>2, <2>3 DEF UserInv, HoldInv
  <2>5. ~flagged' => userQuota' = UserQuota0 + final - charged
    BY <2>2 DEF UserInv, Closing
  <2> QED
    BY <1>3, <2>1, <2>2, <2>4, <2>5 DEF Closing
<1> QED
  BY <1>1, <1>2, <1>5, <1>6, <1>7, <1>8 DEF Handler

LEMMA UserStep ==
  ASSUME TypeOK, BeforeDial, HoldInv, UserInv, [Next]_vars
  PROVE  UserInv'
<1>1. CASE UNCHANGED vars
  BY <1>1 DEF vars, ledger, money, platform, log, UserInv, Quota
<1> QED
  BY <1>1, ReaderUser, ChargerUser, HandlerUser DEF Next

\* A session ends with the freeze back and no hold left open, unless the refund failed
\* and is flagged (PostWssConsumeQuota, ReturnPreConsumedQuota).
THEOREM FreezeReturnedCorrect == Spec => []FreezeReturned
<1>1. Init => UserInv
  BY RealtimeAssumption DEF Init, UserInv, Chargers, Closing, Readers
<1>2. UserInv => FreezeReturned
  BY DEF UserInv, FreezeReturned, Ended, Closing
<1> QED
  BY <1>1, <1>2, BeforeDialHolds, HoldHolds, UserStep, PTL DEF Spec
=============================================================================
