--------------------------- MODULE RealtimeSession ---------------------------
(***************************************************************************)
(* One realtime session (OpenaiRealtimeHandler inside WssHelper).  Two     *)
(* readers pump messages between the client's websocket and the            *)
(* upstream's and feed one usage ledger; the upstream's reader charges     *)
(* each response as it ends, with the first charge settling the session's  *)
(* hold.  The handler waits for the first of them to end, charges what is  *)
(* left in the ledger, hands the freeze back and closes both sockets.      *)
(* Nothing makes it wait for the other reader, which may be charging, too. *)
(*                                                                         *)
(* The local writes of one PostConsumeQuota are one step here;             *)
(* RelayBilling takes them apart.                                          *)
(***************************************************************************)
EXTENDS Integers

CONSTANTS
  MaxTokens,   \* the most tokens one message counts for
  RatioNum, RatioDen, \* groupRatio * modelRatio
  UserQuota0,  \* the user's quota after the freeze
  KeyQuota0,   \* the key's; its row moves with the user's
  Freeze,      \* QuotaToPreConsume
  MaxInputs, MaxOutputs, \* bound: messages of the client and the upstream
  MaxFaults    \* bound: calls and writes that fail

ASSUME RealtimeAssumption ==
  /\ MaxTokens \in Nat /\ MaxInputs \in Nat /\ MaxOutputs \in Nat
  /\ MaxFaults \in Nat
  /\ RatioNum \in Nat /\ RatioDen \in Nat \ {0}
  /\ UserQuota0 \in Int /\ KeyQuota0 \in Int /\ Freeze \in Nat

VARIABLES
  at,        \* where the two readers and the handler are
  open,      \* the sockets that are open
  closed,    \* clientClosed, targetClosed
  errs,      \* the errors in errChan, whose capacity is 2
  messages,  \* messages read so far, per reader
  local, sum, \* the ledger
  billed,    \* the usage each charging actor holds
  userQuota, \* the user's row
  final,     \* relayInfo.FinalPreConsumedQuota: zero for a trusted user
  preAuth,   \* relayInfo.PlatformPreAuthID > 0
  hold,      \* the platform's record of the hold
  paid,      \* what the wallet has been asked for, by what became of it
  counted,   \* [local, upstream, superseded, charged, refused] in tokens
  charged,   \* quota charged to the user's row for usage
  logged,    \* the usage of the consume log, -1 before it is written
  flagged,   \* the refund of the freeze failed
  raced,     \* the reader and the handler have been charging together
  faults

session == <<open, closed, errs, messages>>
ledger == <<local, sum, billed, counted>>
money == <<userQuota, charged, final>>
platform == <<preAuth, hold, paid>>
log == <<logged, flagged>>
vars == <<at, session, ledger, money, platform, log, raced, faults>>

Readers == {"client", "target"}
Chargers == {"target", "main"}
Charging == {"check", "charge", "wallet", "settle", "clear"}

Exits == {"settled", "direct", "parked", "lost", "stray"}

Places == Charging \cup {"read", "write", "ended", "dial", "select", "drain",
                         "snapshot", "refund", "giveUp", "release", "unset",
                         "leave", "returned"}

TypeOK ==
  /\ at \in [Readers \cup {"main"} -> Places]
  /\ open \in SUBSET Readers /\ closed \in SUBSET Readers
  /\ errs \in 0..2
  /\ messages \in [Readers -> Nat]
  /\ local \in Nat /\ sum \in Nat
  /\ billed \in [Chargers -> Nat]
  /\ userQuota \in Int /\ charged \in Nat /\ final \in {0, Freeze}
  /\ preAuth \in BOOLEAN
  /\ hold \in {"none", "active", "settled", "released", "parked", "lost"}
  /\ paid \in [Exits -> Nat]
  /\ counted \in [local : Nat, upstream : Nat, superseded : Nat,
                  charged : Nat, refused : Nat]
  /\ logged \in Nat \cup {-1}
  /\ flagged \in BOOLEAN /\ raced \in BOOLEAN
  /\ faults \in 0..MaxFaults

\* The session after PreConsumeQuota: frozen or trusted, with or without a hold.
Init ==
  /\ at = [a \in Readers \cup {"main"} |->
             IF a = "main" THEN "dial" ELSE "ended"]
  /\ open = {"client"} /\ closed = {} /\ errs = 0
  /\ messages = [r \in Readers |-> 0]
  /\ local = 0 /\ sum = 0 /\ billed = [a \in Chargers |-> 0]
  /\ userQuota = UserQuota0 /\ charged = 0 /\ final \in {0, Freeze}
  /\ preAuth \in BOOLEAN
  /\ hold = IF preAuth THEN "active" ELSE "none"
  /\ paid = [e \in Exits |-> 0]
  /\ counted = [local |-> 0, upstream |-> 0, superseded |-> 0,
                charged |-> 0, refused |-> 0]
  /\ logged = -1 /\ flagged = FALSE /\ raced = FALSE /\ faults = 0

\* The reader's charge and one of the handler's exits are under way together.
Together(pcs) ==
  /\ pcs["target"] \in Charging \ {"check"}
  /\ pcs["main"] \in (Charging \ {"check"}) \cup {"release", "unset"}

Go(a, l) ==
  LET pcs == [at EXCEPT ![a] = l] IN
  at' = pcs /\ raced' = (raced \/ Together(pcs))

Fault == faults < MaxFaults /\ faults' = faults + 1

\* calculateAudioQuota: rounded half up, never free unless the ratio is zero.
Quota(n) ==
  LET rounded == (2 * n * RatioNum + RatioDen) \div (2 * RatioDen)
  IN  IF RatioNum = 0 THEN 0 ELSE IF rounded > 1 THEN rounded ELSE 1

SendErrCapOne == errs < 1 /\ errs' = errs + 1

\* errChan <- err; the goroutine would block on a full channel.
SendErr == errs < 2 /\ errs' = errs + 1

-----------------------------------------------------------------------------
\* WssHelper before the pumps

Dial ==
  /\ at["main"] = "dial"
  /\ at' = [a \in Readers \cup {"main"} |-> IF a = "main" THEN "select" ELSE "read"]
  /\ UNCHANGED raced
  /\ open' = Readers
  /\ UNCHANGED <<closed, errs, messages, ledger, money, platform,
                 log, faults>>

\* DoRequest fails: releasePreConsumedOnFailure.
DialFails ==
  /\ at["main"] = "dial"
  /\ Go("main", "giveUp")
  /\ UNCHANGED <<session, ledger, money, platform, log, faults>>

\* ReturnPreConsumedQuota: the refund, then the hold.
GiveUp ==
  /\ at["main"] = "giveUp"
  /\ userQuota' = userQuota + final
  /\ Go("main", "release")
  /\ UNCHANGED <<session, ledger, charged, final, platform, log, faults>>

-----------------------------------------------------------------------------
\* The client's reader

\* A message is read, counted into the ledger (addLocalInput) and forwarded.
ClientRead(n) ==
  /\ at["client"] = "read"
  /\ "client" \in open /\ messages["client"] < MaxInputs
  /\ messages' = [messages EXCEPT !["client"] = @ + 1]
  /\ local' = local + n
  /\ counted' = [counted EXCEPT !.local = @ + n]
  /\ Go("client", "write")
  /\ UNCHANGED <<open, closed, errs, sum, billed, money, platform,
                 log, faults>>

\* A reader's message cannot be parsed or counted: it ends without closing
\* its channel.
ReadBad(r) ==
  /\ at[r] = "read" /\ r \in open
  /\ Fault
  /\ SendErr
  /\ Go(r, "ended")
  /\ UNCHANGED <<open, closed, messages, ledger, money, platform,
                 log>>

\* The socket is closed: with a close frame, or by a failure, which is sent to
\* errChan as well.
ReadClosed(r) ==
  /\ at[r] = "read" /\ r \notin open
  /\ SendErr \/ UNCHANGED errs
  /\ closed' = closed \cup {r}
  /\ Go(r, "ended")
  /\ UNCHANGED <<open, messages, ledger, money, platform, log,
                 faults>>

\* A peer leaves.
Leave(r) ==
  /\ at["main"] # "dial" /\ r \in open
  /\ open' = open \ {r}
  /\ UNCHANGED <<at, raced, closed, errs, messages, ledger, money, platform,
                 log, faults>>

Other(r) == IF r = "client" THEN "target" ELSE "client"

\* WssString to the other side
Write(r) ==
  /\ at[r] = "write"
  /\ IF Other(r) \in open
       THEN Go(r, "read") /\ UNCHANGED errs
       ELSE Go(r, "ended") /\ SendErr
  /\ UNCHANGED <<open, closed, messages, ledger, money, platform,
                 log, faults>>

-----------------------------------------------------------------------------
\* The upstream's reader

TargetReads ==
  /\ at["target"] = "read"
  /\ "target" \in open /\ messages["target"] < MaxOutputs
  /\ messages' = [messages EXCEPT !["target"] = @ + 1]
  /\ UNCHANGED <<open, closed, errs, money, platform, log, faults>>

\* addLocalOutput; a session event counts for nothing.
OutputEvent(n) ==
  /\ TargetReads
  /\ local' = local + n
  /\ counted' = [counted EXCEPT !.local = @ + n]
  /\ Go("target", "write")
  /\ UNCHANGED <<sum, billed>>

\* response.done with usage: settleUpstream
SettleUpstream(u) ==
  /\ TargetReads
  /\ sum' = sum + u
  /\ billed' = [billed EXCEPT !["target"] = u]
  /\ counted' = [counted EXCEPT !.upstream = @ + u, !.superseded = @ + local]
  /\ local' = 0
  /\ Go("target", "check")

\* response.done without usage: settleLocalInput
SettleLocalInput(n) ==
  /\ TargetReads
  /\ sum' = sum + local + n
  /\ billed' = [billed EXCEPT !["target"] = local + n]
  /\ counted' = [counted EXCEPT !.local = @ + n]
  /\ local' = 0
  /\ Go("target", "check")

-----------------------------------------------------------------------------
\* PreWssConsumeQuota, for the upstream's reader and for the handler

\* Where an actor goes on, and what it does with an error.
Charged(a) == Go(a, IF a = "main" THEN "snapshot" ELSE "write")

Refuse(a) ==
  /\ counted' = [counted EXCEPT !.refused = @ + billed[a]]
  /\ billed' = [billed EXCEPT ![a] = 0]
  /\ IF a = "main"
       THEN Go(a, "snapshot") /\ UNCHANGED errs
       ELSE Go(a, "ended") /\ SendErr

\* GetUserQuota, GetTokenByKey: what the row holds or, from Redis, a copy that
\* still misses some of what the session has moved (cacheDecrUserQuota and
\* cacheIncrUserQuota run in goroutines of their own).
Balances == (userQuota - final) .. (UserQuota0 + final)

\* The quotas of the user and of the key are read and compared ...
Check(a) ==
  /\ at[a] = "check"
  /\ \E user, other \in Balances :
       IF \/ user < Quota(billed[a])
          \/ other - UserQuota0 + KeyQuota0 < Quota(billed[a])
         THEN Refuse(a)
         ELSE Go(a, "charge") /\ UNCHANGED <<billed, counted, errs>>
  /\ UNCHANGED <<open, closed, messages, local, sum, money, platform,
                 log, faults>>

\* ... or cannot be read.
CheckFails(a) ==
  /\ at[a] = "check"
  /\ Fault
  /\ Refuse(a)
  /\ UNCHANGED <<open, closed, messages, local, sum, money, platform,
                 log>>

\* PostConsumeQuota(quota, 0), the local writes
Charge(a) ==
  /\ at[a] = "charge"
  /\ userQuota' = userQuota - Quota(billed[a])
  /\ charged' = charged + Quota(billed[a])
  /\ counted' = [counted EXCEPT !.charged = @ + billed[a]]
  /\ Go(a, "wallet")
  /\ UNCHANGED <<session, local, sum, billed, final, platform, log, faults>>

\* A write fails and what was written is compensated; when it was the token's,
\* the hold is released.
ChargeFails(a) ==
  /\ at[a] = "charge"
  /\ Fault
  /\ Refuse(a)
  /\ \/ UNCHANGED platform
     \/ /\ preAuth
        /\ hold' = IF hold = "active" THEN "released" ELSE hold
        /\ preAuth' = FALSE
        /\ UNCHANGED paid
  /\ UNCHANGED <<open, closed, messages, local, sum, money, log>>

Pay(exit, a) == paid' = [paid EXCEPT ![exit] = @ + Quota(billed[a])]

\* settlePlatformWallet: with a hold it settles the hold, otherwise it debits.
Wallet(a) ==
  /\ at[a] = "wallet"
  /\ IF preAuth /\ Quota(billed[a]) > 0
       THEN Go(a, "settle") /\ UNCHANGED <<paid, billed>>
       ELSE /\ Charged(a) /\ Pay("direct", a)
            /\ billed' = [billed EXCEPT ![a] = 0]
  /\ UNCHANGED <<session, local, sum, counted, money, preAuth, hold, log,
                 faults>>

\* settleOrPark.  The platform settles an active hold once.
Settle(a) ==
  /\ at[a] = "settle"
  /\ IF hold = "active"
       THEN hold' = "settled" /\ Pay("settled", a)
       ELSE UNCHANGED hold /\ Pay("stray", a)
  /\ Go(a, "clear")
  /\ UNCHANGED <<session, ledger, money, preAuth, log, faults>>

\* The call fails: the settlement is parked in the outbox, or lost with it.
SettleFails(a) ==
  /\ at[a] = "settle"
  /\ Fault
  /\ \E e \in {"parked", "lost"} :
       Pay(e, a) /\ hold' = IF hold = "active" THEN e ELSE hold
  /\ Go(a, "clear")
  /\ UNCHANGED <<session, ledger, money, preAuth, log>>

ClearNot(a) ==
  /\ at[a] = "clear"
  /\ billed' = [billed EXCEPT ![a] = 0]
  /\ Charged(a)
  /\ UNCHANGED <<session, local, sum, counted, money, hold, paid, log,
                 faults, preAuth>>

\* PlatformPreAuthID = 0
Clear(a) ==
  /\ at[a] = "clear"
  /\ preAuth' = FALSE
  /\ billed' = [billed EXCEPT ![a] = 0]
  /\ Charged(a)
  /\ UNCHANGED <<session, local, sum, counted, money, hold, paid, log,
                 faults>>

-----------------------------------------------------------------------------
\* The handler

\* select: a closed channel, or an error
Wake ==
  /\ at["main"] = "select"
  /\ \/ closed # {} /\ UNCHANGED errs
     \/ errs > 0 /\ errs' = errs - 1
  /\ Go("main", "drain")
  /\ UNCHANGED <<open, closed, messages, ledger, money, platform, log,
                 faults>>

DrainUnbilled ==
  /\ at["main"] = "drain"
  /\ sum' = sum + local
  /\ local' = 0
  /\ Go("main", "snapshot")
  /\ UNCHANGED <<session, billed, counted, money, platform, log, faults>>

\* drainLocal
Drain ==
  /\ at["main"] = "drain"
  /\ sum' = sum + local
  /\ billed' = [billed EXCEPT !["main"] = local]
  /\ local' = 0
  /\ Go("main", IF local # 0 THEN "check" ELSE "snapshot")
  /\ UNCHANGED <<session, counted, money, platform, log, faults>>

SnapshotOnly ==
  /\ at["main"] = "snapshot"
  /\ logged' = sum /\ UNCHANGED flagged
  /\ Go("main", "leave")
  /\ UNCHANGED <<session, ledger, money, platform, faults>>

\* sumSnapshot; PostWssConsumeQuota settles the freeze when there is one.
Snapshot ==
  /\ at["main"] = "snapshot"
  /\ logged' = sum /\ UNCHANGED flagged
  /\ Go("main", IF final # 0 THEN "refund" ELSE "leave")
  /\ UNCHANGED <<session, ledger, money, platform, faults>>

\* SettleConsume(-final, final): the freeze goes back ...
Refund ==
  /\ at["main"] = "refund"
  /\ userQuota' = userQuota + final
  /\ Go("main", "release")
  /\ UNCHANGED <<session, ledger, charged, final, platform, log, faults>>

\* ... or the write fails, which the log row is flagged with; the hold of a
\* session that was served is then left alone.
RefundFails ==
  /\ at["main"] \in {"refund", "giveUp"}
  /\ Fault
  /\ flagged' = TRUE /\ UNCHANGED logged
  /\ Go("main", IF at["main"] = "refund" THEN "leave" ELSE "release")
  /\ UNCHANGED <<session, ledger, money, platform>>

\* abandonPreAuth: a hold that is still known is released ...
Release ==
  /\ at["main"] = "release"
  /\ hold' = IF preAuth /\ hold = "active" THEN "released" ELSE hold
  /\ Go("main", "unset")
  /\ UNCHANGED <<session, ledger, money, preAuth, paid, log, faults>>

\* ... or the release is parked, or lost.
ReleaseFails ==
  /\ at["main"] = "release" /\ preAuth /\ hold = "active"
  /\ Fault
  /\ hold' \in {"parked", "lost"}
  /\ Go("main", "unset")
  /\ UNCHANGED <<session, ledger, money, preAuth, paid, log>>

\* The id is cleared.
Unset ==
  /\ at["main"] = "unset"
  /\ preAuth' = FALSE
  /\ Go("main", "leave")
  /\ UNCHANGED <<session, ledger, money, hold, paid, log, faults>>

\* WssHelper and Relay close the sockets on their way out.
Return ==
  /\ at["main"] = "leave"
  /\ open' = {}
  /\ Go("main", "returned")
  /\ UNCHANGED <<closed, errs, messages, ledger, money, platform, log,
                 faults>>

-----------------------------------------------------------------------------
Reader(r) ==
  \/ ReadBad(r) \/ ReadClosed(r) \/ Write(r)
  \/ r = "client" /\ \E n \in 0..MaxTokens : ClientRead(n)
  \/ r = "target" /\ \E n \in 0..MaxTokens :
       OutputEvent(n) \/ SettleUpstream(n) \/ SettleLocalInput(n)

Charger(a) ==
  \/ Check(a) \/ CheckFails(a) \/ Charge(a) \/ ChargeFails(a)
  \/ Wallet(a) \/ Settle(a) \/ SettleFails(a) \/ Clear(a)

Handler ==
  \/ Dial \/ DialFails \/ GiveUp \/ Wake \/ Drain \/ Snapshot
  \/ Refund \/ RefundFails \/ Release \/ ReleaseFails \/ Unset \/ Return

Next ==
  \/ \E r \in Readers : Reader(r) \/ Leave(r)
  \/ \E a \in Chargers : Charger(a)
  \/ Handler

\* Goroutines are scheduled; peers need not leave.
Fairness ==
  /\ \A r \in Readers : WF_vars(Reader(r))
  /\ \A a \in Chargers : WF_vars(Charger(a))
  /\ WF_vars(Handler)

Spec == Init /\ [][Next]_vars /\ Fairness

-----------------------------------------------------------------------------
\* Properties

Ended == at["main"] = "returned" /\ \A r \in Readers : at[r] = "ended"

\* Every token counted on either side is still in the ledger, superseded by the
\* upstream's figure, or taken into the sum, once (realtimeLedger: the readers
\* go on feeding it while the handler drains it).
NoTokenBilledTwice ==
  sum + local + counted.superseded = counted.local + counted.upstream

\* The tokens an actor has taken into the sum and not charged yet.
InHand(a) == IF at[a] \in {"check", "charge"} THEN billed[a] ELSE 0

\* Every token of the sum has been charged or refused, or is about to be
\* (OpenaiRealtimeHandler charges outside the ledger's lock).
SumIsCharged ==
  sum = counted.charged + counted.refused + InHand("target") + InHand("main")

\* From the counters to the charge no token is lost and none is billed twice.
TokensAccounted == NoTokenBilledTwice /\ SumIsCharged

\* The charge an actor has still to ask the wallet for.
Asking(a) == IF at[a] \in {"wallet", "settle"} THEN Quota(billed[a]) ELSE 0

\* What the user's row has paid for usage, the wallet has been asked for,
\* through the hold or past it (PostConsumeQuota, settlePlatformWallet).
WalletMirrorsLedger ==
  charged = paid["settled"] + paid["direct"] + paid["parked"] + paid["lost"]
            + paid["stray"] + Asking("target") + Asking("main")

\* The hold is settled once, unless the reader and the handler were charging
\* together (settleOrPark, abandonPreAuth).
SettledOnce == raced \/ paid["stray"] = 0

\* The platform's side of the session: asked for what the row paid, the hold
\* used once.
WalletKept == WalletMirrorsLedger /\ SettledOnce

\* The same without the exception: "clear the id so no later cleanup can touch
\* the same hold twice" (abandonPreAuth).
SettledOnceAlways == paid["stray"] = 0

\* At the end the freeze has gone back: the session cost what its events were
\* charged, and no hold is left (PostWssConsumeQuota).
FreezeReturned ==
  Ended /\ ~flagged =>
    /\ userQuota = UserQuota0 + final - charged
    /\ final # 0 => hold # "active"

\* When a peer leaves, the handler returns and both readers end: neither is
\* left blocked on errChan (OpenaiRealtimeHandler).
TornDown == (open # Readers /\ at["main"] # "dial") ~> Ended
=============================================================================
