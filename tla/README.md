# newhub: a TLA+ model of the gateway's core

newhub is a multi-tenant LLM gateway.  A request comes in with an API key, is
priced, paid for in advance, relayed to an upstream vendor, and settled when
the vendor has answered.  What the program must not get wrong is the money: it
is kept in three local rows (the user's quota, the key's quota, the tenant's
credit pool) and in a wallet that a separate service, *the platform*, owns.
No transaction spans them.  The modules here model that path, statement by
statement, and what runs around it: the outbox that retries wallet calls, the
circuit breaker in front of the platform, the cap on unsecured spend during an
outage, paying into a pool, realtime sessions, asynchronous tasks and their
refunds.  Beside the money they model how a request finds a channel (breakers,
cooldowns, retries) and how the replicas elect the one that runs the periodic
work.

## Inventory

| Component | State | Operations | Talks to | What makes it hard | What makes it correct |
|---|---|---|---|---|---|
| Relay money path (`app/pre_consume_quota.go`, `quota.go`, `quota_settle.go`, `quota_pool.go`) | `RelayInfo` of the request; user, token and pool rows | freeze, settle in phases, compensate, refund, settle/release the hold, direct debit | database, platform, outbox | seven independent writes and calls, each able to fail; requests race for the rows; a flag flipped in mid-request | every ledger moves by exactly the charge; the wallet is charged only for what stood; every hold is closed |
| Billing outbox (`app/billing_outbox.go`, `billing_debit_outbox.go`) | two tables: status, retry count, next retry, claim time | park, claim, call, record | platform; every replica's ticker | replicas, crashes with rows claimed, late deliveries, holds that expire | one owner per row; truthful records; bounded retries; every row ends |
| Billing breaker (`pkg/common/billing_breaker.go`) and wallet client (`billing_client.go`) | closed / open / half open, failures, two time stamps | allow, success, failure | every wallet call | late outcomes, abandoned probes | one probe; only outages open it; it recovers |
| Degraded admission (`pkg/common/billing_cache.go`) | cached balance, spend counter in Redis | admit, reserve | breaker, Redis | check-then-increment over three round trips | no refused request admitted; bounded overshoot; windows roll |
| Credit pool administration (`app/credit_pool*.go`, `repo/tenant_credit_pool*.go`, `handler/tenant_credit_pool*.go`) | pool row, draw ledger, fund events | admit, debit, top-up, fund, revert, sweep, reset, drain | relay path, platform | resets and top-ups race with draws; retried, replayed and stranded payments | a payment ends in the pool or in the wallet, once; the balance is explained by the draws |
| Realtime sessions (`provider/openai/relay-openai.go`, `realtime_ledger.go`) | usage ledger, one hold, an error channel | two readers, a charge per usage event, drain, teardown | money path | three goroutines, one ledger, one hold | every token is charged once; the freeze goes back; nobody stays blocked |
| Channel breaker and relay retry (`pkg/resilience`, `handler/relay*.go`, `app/channel_select.go`, `session_affinity.go`) | breaker per channel, affinity binding, the request's retry state | select, admit, call, report, retry | upstreams, cooldown | outcomes of overlapping requests, clients that leave, a counter that is reset | one answer, the right one; breakers open for a reason; a request ends |
| Channel cooldown (`app/channel_cooldown*.go`) | Redis index, local marks and a snapshot per replica | mark, snapshot, lift | Redis, retry | each operation lets go of its lock around Redis | a lift sticks; replicas agree with Redis; a mark Redis never got is kept |
| Leader election and tasks (`repo/leader_election.go`, `lifecycle/leader_election.go`) | lease row; flag and estimate per replica | boot, renew, resign, run | database | hanging calls, lost answers, a leader that dies | one believer; a stale flag falls; some replica leads and works |
| Concurrency and rate limits (`middleware/`) | Redis counters, leases | acquire, release | relay | a killed holder | no slot is lost or doubled |
| Asynchronous tasks (`handler/task*.go`, `midjourney.go`, `app/relay/relay_task.go`) | task rows, consume rows | submit, charge, poll, settle again, refund, save | money path | pollers of two replicas, rows saved whole, a payer found by amount | one refund, to the payer; the invoice agrees |
| Redemption, provisioning, audit chain, sessions, TOTP, erasure, migrations | rows | see `PROJECT.json` | | | |
| Provider adaptors, pricing, catalogue, statistics, console, front end | | format conversion and CRUD | | | |

`PROJECT.json` lists every component with its status, and under `hazards` the
lines of this code that tests hardly reach.

## Modules

| Module | Models | Proofs |
|---|---|---|
| `RelayBilling` (`MCRelayBilling`) | the money path of concurrent requests | `RelayBillingProofs` |
| `BillingOutbox` (`MCBillingOutbox`) | both outboxes and the replicas that drain them | `BillingOutboxProofs` |
| `ParkedCall` | what the outbox promises per call it has taken over; `BillingOutbox` implements it | `BillingOutboxProofs` |
| `BillingBreaker` (`MCBillingBreaker`) | breaker, client error mapping, degraded admission | `BillingBreakerProofs` |
| `DegradedSpend` (`MCDegradedSpend`) | the Redis reservation of unsecured spend | `BillingBreakerProofs` |
| `CreditPool` | a tenant's pool: gate, debits, overdraft, reset, drain | `PoolTopupProofs` |
| `PoolTopup` (`MCPoolTopup`) | extends `CreditPool`: paying into the pool | `PoolTopupProofs` |
| `TopupIntent` | what a top-up promises per idempotency key; `PoolTopup` implements it | `PoolTopupProofs` |
| `RealtimeSession` (`MCRealtimeSession`) | one realtime session and its charges | `RealtimeSessionProofs` |
| `ChannelBreaker` | the per-channel breaker as operators on its record | `RelayRetryProofs` |
| `RelayRetry` (`MCRelayRetry`) | extends `ChannelBreaker`: channel selection and the retry loop of concurrent requests | `RelayRetryProofs` |
| `ChannelCooldown` (`MCChannelCooldown`) | the cooldown of a rate-limited channel on several replicas | `ChannelCooldownProofs` |
| `LeaderLease` (`MCLeaderLease`) | the election and the work it gates | `LeaderLeaseProofs` |
| `TaskPolling` (`MCTaskPolling`) | asynchronous tasks, their pollers and refunds | `RelayBillingProofs` |

The modules meet at narrow interfaces, so that each can be checked alone.
`RelayBilling` parks a settle or a release in its variable `outbox`, which is
where `BillingOutbox` starts (`Park`).  Its `PlatformCall` may fail in any way,
so it covers everything the breaker of `BillingBreaker` can do to a call, and
`PreAuthorize` admits or refuses at will, also after a call whose answer was
lost, which covers every degraded admission.  `BillingBreaker!TryDegradedPreAuth` may always refuse, which covers
the cap of `DegradedSpend`.  `RealtimeSession` and `TaskPolling` take the local
writes of one `PostConsumeQuota` as one step, which `RelayBilling` takes apart.
`RelayRetry` sees the cooldown as one replica does; `ChannelCooldown` shows
what that view is worth.  `TaskPolling` lets two replicas poll at any time,
which covers every change of leader that `LeaderLease` allows.

### RelayBilling

A request is a goroutine with a program counter; each action is one database
statement or one platform call, with its error arm as a disjunct or as an
action of its own.  Which operations may fail is the constant `Faults`.

* *PreConsumeQuota*: `PreAuthorize` (a hold, an admission without one, a
  refusal; after a call whose answer was lost the platform may keep a hold that
  the hub has no id for, `Unanswered`, and the request may be refused or, by
  `TryDegradedPreAuth`, admitted all the same), `Admit` (advisory mode, decided
  once), `GateReadFails`, `GateRefuses`, `GateTrusts`,
  `GatePasses` (balance, tenant quota, project budget, trust),
  `FreezeToken`/`FreezeTokenCapped`/`FreezeTokenFails`,
  `FreezeUser`/`FreezeUserRefused`, `Rollback`.
* *the relay*: `RelayServed` with any cost, `RelayFailed`.
* *PostConsumeQuota*: `PostUser`, `PostUserFails` (phase 1), `PostPool` (phase
  2.5), `PostToken`, `PostTokenFails` (phase 3), `CompensateUser`,
  `CompensatePool`, `Wallet` (phase 5).  The refund of a failed relay goes
  through the same actions with the arguments `ReturnPreConsumedQuota` passes.
* *the hold*: `Settle`, `Release`, `ParkSettle`, `ParkRelease`; `DirectDebit`
  is the detached goroutine of a request without a hold.
* `SetLocalLedgerAdvisory` is the config poller.

`userNet`, `tokenNet` and `poolNet` are what each row has paid for each request;
`alarms` are the CRITICAL lines and meter-loss metrics the code raised for it.
`drawn` says what became of the pool debit, the read of the token row that
skips it in silence included.  The balance the gates read comes from a cache and
is left unconstrained.

A request of the console (`Playground`) carries the key of the user's choice: its
pool is debited like any other, `PreConsumeTokenQuota` and `PostConsumeQuota`
leave the key's row alone, and `rollbackTokenFreeze`, which does not ask, credits
that row with a freeze that was never taken.

Abstractions: all requests have the same positive estimate; a failed write has
not been applied (its transaction is rolled back); `BatchUpdateEnabled` is off,
so that a write happens when it is made; the daily counter, mail, TPM and
cost-spike windows and mirror metering move no balance and are left out.

### BillingOutbox

Rows are claimed by `Claim` (one `UPDATE ... RETURNING` per table, so that the
order within a batch is open), processed by `Call` and `Record`, and taken over
when their lease runs out.  The platform is external: a call closes an active
hold, a repeated call is replayed as a success, any other call on a closed hold
is refused.  A call that timed out may still arrive (`LateDelivery`).  Time is
kept as ages and remaining waits, each stopped at the bound it is compared with,
so there is no last tick; `Tick` keeps a row from being worked on for longer
than `CallTimeout` and an idle replica from ignoring a due row for longer than
`Poll`.  A claim that returns no row is not a step.  The time of the closing
update is counted into `CallTimeout`.  Nobody looks at its error: `RecordFails`
puts the row down and leaves it claimed, with the attempt uncounted, until its
lease runs out (at most `MaxUnwritten` times).

`ParkedCall` is the abstract specification: a call taken over is carried out at
most once, or barred for good when its hold is closed otherwise or expires; the
outbox gives each call one final word, done only of a call carried out, and
raises the money-lost alarm only for one that never will be.  The mapping reads
`effect` off the platform's record of the hold (`Effect`) and `word` off the
row's status (`Word`), so that claims, retries, crashes and take-overs are
stutters.  `PromiseKept` says that every step of `BillingOutbox` is a step of
`ParkedCall` or a stutter.

### BillingBreaker

`Gate` is `BillingBreakerAllow` and the start of a call; `Reply`, `NoReply` and
`Cancel` end it and feed `recordBillingOutcome`; `TryDegradedPreAuth` follows a
failed pre-authorization and reads the breaker as it is then.  `Replies` is the
set of HTTP replies the platform may give, so that the mapping of
`PreAuthorize`, `SettlePreAuth` and `ReleasePreAuth` to typed and bare errors is
part of the model, the refusals without an arm of their own (a 402 or 409
without the balance code, 401, 403, 404, 422, 429) included.  `outages` counts
the calls since the last answer that the client knows (`Explained`), `misread`
that a refusal is among them, `verdict` and `unsecured` remember what became of a
request.  A body that cannot be decoded is met like a missing reply.  A call that
its client has abandoned goes on to the degraded path like any other that failed.

### DegradedSpend

`Get`, `Incr` and `Expire` are the three round trips of `reserveDegradedSpend`
with their dropped errors; `WindowEnds` is Redis expiring the key.  The proofs
extend this module together with `BillingBreaker`, hence `SpendInit`, `SpendNext`
and `SpendSpec`.

### CreditPool, PoolTopup and TopupIntent

`CreditPool` has one action per transaction or read on a tenant's pool: `Admit`
and `AdmitBlind` are the gate `PoolBalanceCheck` (a failed read lets a request
in), `Debit`, `HandBack` and `Keep` the request behind it, `ResetList` and
`ResetApply` the two halves of `ResetDuePools`, `Drain` is `DeleteCreditPool`.
What a reset has listed it keeps in a record of its own, so that the row may
move before it is applied.  `PoolTopup` adds the top-up endpoint, a request
being a program counter again: `Lookup`, `DebitWallet`, `TryFinalize`,
`Finalize`, `FundCheck`, `FundTx`, `Revert`, `Terminal`, `Strand`, each with its
failure; `Crash` at any of them; the sweep (`SweepList`, `SweepNext`), the
operator (`CloseManually`) and the platform's own funding (`PlatformFund`),
which shares the slots.  The platform is external: it takes and returns money
once per key.  Requests with one key run together at will.  Of the ghosts,
`untracked` names the keys whose refund was not recorded, or was given while
another attempt with the key was under way or had left its row (`Crossed`);
`adrift` those with a payment of which there is no record; `shadowed` those
whose stranded record met a taken slot and was dropped.

`TopupIntent` is the abstract specification: per key a payment is made, then
funded or returned, never both.  The mapping `intent` reads it off `wallet` and
`funded`; keys in `untracked` are void.  `IntentKept` says that every step of
`PoolTopup` is a step of `TopupIntent` or a stutter.

Abstractions: resets are in enforce mode; a period is one tick of `period`.

### RealtimeSession

The readers `client` and `target` and the handler `main` are three program
counters.  `ClientRead`, `OutputEvent`, `SettleUpstream` and `SettleLocalInput`
are messages that feed the ledger; `Check`, `Charge`, `Wallet`, `Settle` and
`Clear` are one charge, made by the reader at the end of a response or by the
handler for the rest (`Drain`); `Wake`, `Drain`, `Snapshot`, `Refund`,
`Release`, `Unset` and `Return` are the handler's end.  `SendErr` is a
send to the error channel, which blocks when two errors are in it.  `raced` remembers
that the reader and the handler were charging together.  `Check` reads the
user's and the key's balance as `GetUserQuota` and `GetTokenByKey` do, from Redis
if they can: any value between what the row holds and what it held before some of
the session's own moves (`Balances`).  A stale copy may let a charge through that
the row no longer covers, so nothing is said of the row staying positive.

Abstractions: tokens are a number, their price a ratio that rounds half up and is
never less than one; a session billed by call (`UsePrice`) charges nothing on the way
(`PreWssConsumeQuota` returns at once) and is left out.

### ChannelBreaker and RelayRetry

`ChannelBreaker` states each method of the breaker as an operator on its
record: the code holds the breaker's mutex for all of it.  `RelayRetry` walks a
request through `Arrive` (the distributor), `Pick` or `Reuse` (selection),
`Skip` or `Call` (the breaker), `Serve` or `Fail` (the outcome, its report and
the decision to retry); `DisableChannel` and `MaybeMarkCooldown` are what
`processChannelError` hands to goroutines; `HangUp` is a client that leaves.
`Select` is the search over groups, tiers, cooling, used channels and the
affinity binding; where the code draws by weight the model takes any channel of
the tier.  `Errors` are classes of errors that the code tells apart.
`Recovering` are the channels with a key that is to recover by itself: where
nothing else is left, they make an empty selection read as all cooling.  A client
that has left may go unnoticed, and the attempt is then reported as a success.

### ChannelCooldown

A mark, a snapshot and a lift each have one action per stretch between two
releases of `cooldownMu` or per Redis command.  Deadlines are kept as time left;
two comparisons of clock readings (`cooldownClearedGen` against `startGen`,
`writtenAt` against the snapshot's `now`) as sets.  One key per channel.  Of the
ghosts, a lift is `pure` if nobody else was at its channel meanwhile; a mark is
`alone` from its failed write until the entry is replaced, lifted or written by
another mark of the same deadline.

### LeaderLease

A replica boots with the boot lease (`Boot`, whose clock reading may be old by the
time the database answers), then takes election steps:
`StepBegin` reads the clock, `StepCall` is `TryAcquireOrRenew` whenever the
database comes round to it, `StepSet` is the answer, `StepFails` an error or a
lost answer.  `Stop`, `StopSeen`, `Release`, `Resign` are the end after SIGTERM,
`Die` any other.  `TaskRuns` and `TaskReturns` are a `LeaderTask`.  Instants are
distances from now; an election step waits for the database at most `MaxHang`
(the code sets no deadline: the bound is the driver's), and `Tick` keeps
everything else within its unit.

### TaskPolling

`Submit`, `ChargeTask` and `Record` are a submission (row, money, consume row);
`SubmitUncharged` is one of Midjourney's whose row carries a price that is not
charged (refused upstream, InPaint, CustomZoom).  `Poll`, `Fetch`, `UserLeg`,
`KeyLeg`, `Rewrite` and `Save` are a poll of one task, in the order the task's
kind has them: Suno refunds before it saves, video and Midjourney after.  The two
polling loops of a replica are pollers of their own (`Loop`).

Two endpoints save a task's row and move no money: `videoFetchByIDRespBodyBuilder`,
which shows a video to its user, and `RelayMidjourneyNotify`, which Midjourney's
proxy calls.  `Look` reads the row and has the upstream's answer, `LookSaves`
writes the whole row back, whatever it holds by then.  A failure saved this way is
not refunded, then or later (`unrefunded`); a row put back, or changed under a
poller, is `crossed`.

`Resolve` finds the payer as `resolveTaskChargeLedger` does: of the consume rows
of the task's channel and amount within a window, the newest `Limit`, if they name
one key.  The start of the window is free, which covers the month of a refund and
the submission time of a difference.  A Midjourney change action is logged on the
channel that served it (`via`) and stored with the one it continues (`chan`).
The other ghosts record why a task may be exempt: `shared`, `unsaved`,
`uncharged`, `lost`, `unlogged`, and `missed`, a lookup that took none of its
payer's rows though there is one, or looked on the wrong channel.
Only a video task may end at another cost than its estimate
(`TaskAssumption`): no other kind is charged again when it succeeds.
`Invoiced` adds up the consume rows of a key (`Total`, a recursive function, so
that the sum can be proved about).

Abstractions: one user; a batch holds one task, so that the error variable Suno's
loop shares between the items of a batch is not part of the model (see below).
The erasure of an account, which ends the user's open tasks in one statement
(`TerminaliseOpenTasksForUser`), is not modelled.

## Runs

Each run answers one question; `PROJECT.json` names its properties and, for
every property, a mutation of the modelled code that breaks it.  The type
invariant of each module holds under the same configurations and is proved for
every module; it is not listed as a property.

| Run | Shows | Bounds |
|---|---|---|
| `relay_faults` | `LocalChargeExact`, `PoolChargeExact`, `WalletChargeJustified`, `OneWalletExit`, `HoldExit` when everything may fail and advisory mode is flipped | two requests (one user-owned and trusted, one tenant-scoped) on one key and pool; costs below and above the estimate and zero |
| `relay_race` | `NoOverdraft` when two requests race for the balance of one, through every failure | a request and a console request of the same key; costs up to the estimate, nobody trusted |
| `outbox` | `OneOwner`, `AttemptsBounded`, `EventuallyFinal`, and the refinement `PromiseKept` (carried out once, done means applied, lost means unbilled, the word is final) | two replicas, two rows, two attempts, one crash, one closing update that fails, free use of the switch |
| `outbox_horizon` | `HoldOutlivesRetries`: a settle alone in its batch is not retried past its hold | three attempts; the constants keep the proportions of the code: the slack of the hold is just short of the lease |
| `breaker` | `OneProbe`, `OpenMeansOutage`, `DegradedOnlyInOutage`, `Recovers` | two callers, threshold two, two abandoned calls; replies of every kind the client tells apart, and a 402 and a 403 it has no arm for |
| `degraded` | `OvershootBounded`, `WindowReopens` | three handlers, two estimates, two faults |
| `pool_topup` | `PaymentsAccounted` (no free credit, no lost debit), `LedgerExplains`, `OverdraftBounded`, `OneRefillPerPeriod`, and the refinement `IntentKept` | one key, two requests of either amount in flight together, a pool that one of them overfills, two spenders, two resets of one period, two faults; a behaviour has faults or a reset, not both (`FaultsOrResets`) |
| `realtime` | `TokensAccounted` (counted once, charged once), `WalletKept` (the wallet is asked for what the row paid, the hold used once), `FreezeReturned`, `TornDown` | one client message, two upstream ones, a ratio that rounds, stale balances, one fault |
| `relay_retry` | `OneAnswer` (one stream, the right verdict), `BreakerSound` (trips have failures, half open has a probe), `FreshFirst`, `WalkEnds` | an auto token that crosses two groups beside a conversation with a binding; three channels; one retry per group, one ban, one client that leaves |
| `cooldown` | `LiftSticks`, `SnapshotAgrees`, `AloneKept` | two replicas, one channel, two marks, one lift, one fault |
| `leader` | `LeaseHonoured`, `StaleLeaderBounded`, `LeaderReturns`, `LeaderWorks` | two replicas; a call, that of the boot included, may hang for longer than the lease; a task's interval is twice the lease; one fault |
| `tasks` | `UserSettled` (one refund, paid as recorded), `RightPayer`, `InvoiceExplains` | the two polling loops and an endpoint; two tasks of the same estimate, a video and a task of any kind, of the same key or another, logged on its channel or another; two rows per lookup; two faults |

Two requests are enough for the races of `RelayBilling`: the only state they
share is three integers, and one rival suffices to take a balance away between
any two steps.  Two replicas are enough for a row to be stolen, two attempts for
a retry to be exhausted, one crash for a lease to be needed.  In the breaker one
caller may probe while the other brings a late outcome or asks for the slot.  In
`PoolTopup` keys do not share a slot, so one key suffices; a first attempt and a
retry are two requests, and two faults strand a debit and then lose its answer;
two spenders admitted together overdraw a pool by more than one quota.  That no
behaviour of this run has both a fault and a reset keeps it small; the proofs
allow both together.
In `RelayRetry` the two requests meet on the breakers of the first group, where
one's report meets the other's probe.  A threshold of one and a retry of one
keep the walk short: the counters they bound are compared, not used otherwise.
A lift and two marks from both replicas cover every pair of operations of
`ChannelCooldown` in flight together.  In `TaskPolling` tasks meet only through
equal amounts, and two suffice for one to take the other's row.  That two replicas
poll the same loop is left to `two_leaders` and to the proofs.  What is proved
holds for any number of them.

### Where the code and its comments disagree

The modules state a few more properties, which say what a comment says, and
which the code does not have.  They are not part of the runs above; the
configuration named here exhibits each one.

| Configuration | Disagreement |
|---|---|
| `hold_zero_usage` | a trusted request that used nothing keeps its hold ("every pre-auth MUST be either settled or released").  Removing `Trustable` and adding `"userRead"` or `"userWrite"` to `Faults` shows the two error paths that leak it the same way |
| `charged_to_nobody` | a settlement whose token write fails is undone, and the freeze stays with the user and the key ("this request is now charged to nobody") |
| `console_rollback` | a console request that loses the race for the user row credits its key with a freeze the key never paid ("undoes PreConsumeTokenQuota's per-key debit", which there is none of) |
| `advisory_paid_out` | in advisory mode a settlement whose user write *and* token write fail pays the user a surcharge that was never taken ("Compensation exists solely to undo Phase 1") |
| `pool_silent_skip` | a pool debit is dropped without log or counter when the token row cannot be read |
| `outbox_backlog` | with a second row in the batch, a settle is still being retried when its hold has expired: `OutboxRetryHorizon` counts backoffs only, while calls are sequential.  A crash (`MaxCrashes = 1`) does it too: the lease of 300s exceeds the slack of 290s |
| `breaker_suspended` | a pre-authorization answered 403 (or any 4xx without an arm in the client) counts as an outage and is then served on cached balance ("every one of them still fails closed") |
| `breaker_misread` | such refusals open the breaker ("a verdict ... is the platform up and answering: a success") |
| `degraded_stuck` | a counter that lost its EXPIRE never rolls |
| `skipped_sibling` | `getChannel` answers with the context's channel while `ChannelMeta` is nil, which a skipped attempt does not set: a request whose first channel has an open breaker gets it again at every turn and ends in 503 though siblings are healthy ("Recorded as used first so a skipped sibling is not re-selected") |
| `pool_twins` | of two attempts in flight with one key, one gives the debit back that the other has credited, or credits again ("so the key cannot be reused for a free credit") |
| `two_leaders` | two replicas that have read the same task refund it both (the status is kept "to prevent a duplicate refund", `task_video.go:130`, from the copy each of them has read) |
| `failed_by_fetch` | a failure that the user's own fetch, or Midjourney's notification, saves first is never refunded, and no log says so ("Two honest gaps remain, both visible in the log") |
| `payer_crowded` | with as many newer rows of another key at the same amount as the lookup takes (50; here one), the refund goes to that key ("Key and tenant are still right").  A Midjourney change action looked up on another channel than it was logged on does the same |

Put in the place of the invariants of the run's configuration, these are
violated too:

* `SettledOnceAlways` (`realtime`): the reader and the handler both read the id
  of the hold before either clears it, and settle it twice.
* `LedgerExplainsResets` (`pool_topup`): a reset writes the draw it computed
  from the balance it had listed, though the balance has moved.
* `NoDroppedRecord` (`pool_topup`): the slot derived for a collision may be
  taken as well, and the record of the second stranded debit is dropped.
* `DrainedIsClosed` (`pool_topup`): `DeleteCreditPool` sets the ceiling and
  leaves the balance, so that a drained pool still admits requests.

Read in the code, and outside what the models distinguish or visible in the
exceptions they make: the overshoot of the degraded cap
is one estimate per concurrent handler (`OvershootBounded`), not "one request's
estimate"; an affinity binding is consulted again after a token has crossed to
the next group (the exception of `FreshFirst`); a snapshot that begins after the
first stamp of a lift and is merged before the second brings the cooldown back
(`slipped`); `MarkChannelCooldown` stamps an entry with its start, so that a
snapshot read before its ZADD can drop the fresh entry; a settlement that runs
before the task's own consume row exists takes the row of another task of the
same amount (`unlogged`), one whose save failed looks for the wrong amount the
next time (`unsaved`), and two replicas may rewrite the same row (`overlap`); in
a batch of Suno tasks the error of one item's failed update makes the next
item's refund look failed.

### Fairness

`LiveSpec` of `BillingOutbox` assumes that time passes and that each replica's
loop goes on: the ticker fires every five seconds and every call has a deadline.
No fairness is assumed of `Park`, crashes, late deliveries or the platform's
answers, and `EventuallyFinal` asks for the switch to stay on, since
`billingOutboxTick` returns at once while it is off.  In `BillingBreaker`
requests keep coming, calls end (they have a deadline) and time passes; nothing
is assumed of the platform but what `Recovers` says in its premise.  In
`DegradedSpend` a handler that has started goes on, and Redis expires stamped
keys; no tenant is assumed to send requests.  In `RealtimeSession` goroutines
that can go on do; no peer is assumed to send or to leave.  In `LeaderLease`
time passes and goroutines run; a cancelled context and a due tick may be ready
together, and Go's select picks one at random, hence strong fairness of
`StopSeen`.  Nothing is assumed of stops, deaths and failures, which are bounded.

## Proofs

All are checked by TLAPS for every value of the constants that meets the named
assumptions.

* `TypeCorrect` (`RelayBilling`): one lemma per part of a request.
* `LocalChargeCorrect`: `LocalChargeExact` speaks of answered requests only and
  is not inductive.  `LocalInv` says at every program point what the two rows
  have paid so far, unless a lost write has been announced; `StepFrames` shows
  that no request disturbs another's facts, and one lemma per part of a request
  that its steps carry the facts along.  Assumption: `RelayAssumption`.
* `OneOwnerCorrect` (`BillingOutbox`): exclusion rests on time.  `OwnerInv`
  bounds the age of each claim a live replica holds by the rows of its batch it
  has finished times `CallTimeout`, plus the time spent on the current one.
  With `LeaseCoversBatch` (300s against 50 calls of 5s) no such claim can be
  taken over; a row is in at most one batch because claiming restarts its age.
* `RecordsTruthful`: an answer of a call in progress already tells the final
  state of the hold, since a closed hold never reopens (`RecordInv`); both parts
  of `RecordsTrue` follow.
* `PromiseRefined`: `PromiseKept` for every step.  With `OwnerInv` and
  `RecordInv`, what a step does to a hold and to a row is one step of
  `ParkedCall`; what has to be added is that a call still on its way after its
  timeout belongs to a row that was parked (`LateParked`), so that a late
  delivery never carries out a call nobody has taken over.
* `HoldOutlivesCorrect`: no settle is retried on an expired hold.  The invariant
  `HorizonInv` keeps every settle on a plan (`OnPlan`): a row with n failed
  attempts is due no later than the longest request, the n back-offs (`BackoffSum`)
  and n slots after the pre-authorization, a slot being one tick of the poller
  and one call for every row of the table.  `InTime` bounds the age of a claim by
  the calls its owner has made, `Manned` says that a claimed row has an owner, and
  `IdleReplica` (pigeonhole) that a due row finds a replica without work.
  Hypotheses (`Covered`): nothing crashes, no closing update fails, unified billing
  stays on, there are as many replicas as rows, and `HoldTTL` exceeds the longest
  request, the horizon and `MaxRetries` slots.  With the code's numbers (290s beyond the horizon, ten
  attempts, ticks and calls of 5s) this covers four rows in the table; the
  configuration `outbox_backlog` and its variant with a crash show that the
  hypotheses on the queue and on crashes are not idle.
* `OneProbeCorrect` (`BillingBreaker`): a running probe is younger than the
  slot's stamp and than the last recorded failure, so neither the cooldown nor
  the re-arm hands out a second slot before it has ended.  Assumption:
  `CallsEndInTime` (5s calls against 15s cooldowns).
* `OpenMeansOutageCorrect`, `DegradedCorrect`: for any set of replies.  The
  breaker's count is the number of calls in a row without an answer the client
  knows (`OutageInv`), and a failed pre-authorization that was refused in a form
  the client knows carries a typed error until the degraded path has read it
  (`AdmissionInv`).  What the two do not say, that a refusal is always such an
  answer, is false: `breaker_suspended`, `breaker_misread`.
* `OvershootCorrect` (`DegradedSpend`): the exposure, what is spent plus one
  largest estimate for each handler past its check, grows only when a handler
  has just read the counter below the cap, or by a failed read (`ExposureInv`).
* `TypeCorrect` of `BillingOutbox` and of `BillingBreaker`, `SpendTypeCorrect` of
  `DegradedSpend`: every clock, count and delay stays within its cap, for any
  caps.
* `LeaseHonouredCorrect` and its corollary `OneBeliever` (`LeaderLease`): the
  row and the estimate are computed from one clock reading, taken before the
  call.  `LeaseInv` adds what holds between the grant and the flag (`Granted`)
  and that an estimate from an earlier step ends no later than the lease of the
  present one (`EarlierEstimate`), which is why a renewal never leaves the row
  shorter than the belief; the row is taken from nobody who still owns it
  (`OthersKept`).  Assumption: `LeaseAssumption`, and equal clocks.
* `StaleLeaderCorrect`: `FlagInv` relates the estimate to the age of the last
  step's beginning while the manager is idle, and to the age of the step while
  it waits; a failed step keeps the flag only if its own reading is before the
  estimate's end.

* `PoolChargeCorrect` (`RelayBilling`): `PoolLedger` says at every program point
  what the pool has paid, with every failure allowed; the debit skipped in silence
  (`drawn = "unread"`, see `pool_silent_skip`) is the one gap without an alarm.
* `WalletChargeCorrect`, `OneWalletExitCorrect`, `HoldExitCorrect`: `Exits`
  relates hold, outbox row, direct debit and alarms at every program point, holds
  of lost answers included.  None has a hypothesis.  `HoldExit` names the three
  ways in which a request is answered with its hold open (`LeftOpen`), and the
  theorem shows that there is no fourth; `hold_zero_usage` shows one of the three.
* `NoOverdraftCorrect`: a settlement takes no more than was frozen (`Frozen`,
  `GuardInv`), so the two conditional debits decide.  Hypotheses (`Guarded`): no
  freeze is waived, no key is unlimited, no relay costs more than its estimate.
  A failed settlement may take a refund back that another request has spent by
  then, which `NoOverdraft` excepts.
* `AttemptsCorrect` (`BillingOutbox`): with `OneOwner`, the retry count a replica
  loaded with its batch is still the row's (`AttemptInv`), and every call beyond
  it was paid for by a crash or a failed closing update (`Uncounted`), or is about to
  be recorded.
* `PaymentsCorrect` and `IntentRefined` (`PoolTopup`): `PayInv` relates, for each
  key the hub has kept track of, the rows of its two slots (`Books`), the money
  taken, credited and returned, and what every request in flight with the key
  knows at its program point (`Stage`).  One lemma per action shows that it moves
  one key (`KeyFrame`) and keeps these facts; the refinement follows since no step
  moves the money of a key but from unpaid to paid to funded or returned (`Moved`).
  Any number of attempts with a key may overlap.  A key drops out (`untracked`)
  when a refund meets another attempt or its row; `pool_twins` shows that it must.
* `LedgerCorrect`: balance and draws move together in every transaction.
  `OneRefillCorrect`: every claimed due date lies before the next one
  (`RefillInv`), for any number of resets.  `OverdraftCorrect`: the balance less
  what is still to be charged never falls below the exposure (`DebtInv`); an
  unlimited pool lets requests in on an empty balance and may owe the whole of it
  when it is drained before they are charged, hence the equality allowed there.
* `TokensCorrect` (`RealtimeSession`): a sum over the places a token can be in,
  two of which are in a reader's hands, stays equal to what was counted.
  `WalletKeptCorrect`: `HoldInv` says that the id outlives the hold, and that
  whoever has used the hold is on the way to clear the id, unless reader and
  handler were charging together (`raced`).  `FreezeReturnedCorrect`: the row is at
  every point what the session started with, less what was charged, and with the
  freeze once it has gone back (`UserInv`), whatever balances were read.
* `TypeCorrect`, `OneAnswerCorrect`, `BreakerSoundCorrect`, `FreshFirstCorrect`,
  `WalkEndsCorrect` (`RelayRetry`).  `SelectDrawn` states what the search over
  groups, tiers and used channels returns: enabled channels, a group no earlier
  than before, and nothing used while something unused is within reach
  (`TierNonempty` shows that no tier below the number of tiers is empty).
  `Local` says what a request is at each point of the loop; it gives
  `OneAnswer`.  `Budget` bounds the calls made so far by the group and the retry
  counter, which the reset of the counter would break if it did not come with a
  later group; it gives `AttemptsBounded`, and `Rank` falls with every step.
  `BreakerInv` says that a breaker counts no failure its upstream is not to
  blame for; a report never leaves a breaker half open (`ReportSound`), so a half-open
  breaker is one that somebody was just admitted to.  `WalkEndsCorrect` assumes
  that there is a group at all.
* `TypeCorrect`, `LiftSticksCorrect`, `SnapshotAgreesCorrect`,
  `AloneKeptCorrect` (`ChannelCooldown`).  None of the three is inductive: `Inv`
  says what a snapshot in flight may still bring back.  `QuietOK`: of a channel
  nobody has touched since it began, it has read what the index holds and no
  entry is younger.  `CaughtUpOK`: such a channel stays covered by the snapshot
  that comes next.  `ClearOK`: how far a lift has come that has its channel to
  itself (`Sole`).  `LiftedOK`: of a lifted channel a snapshot has read nothing,
  or has it on the list of those to skip, which the deferred stamp sees to.
  `AloneOK`: a mark that Redis does not have is never among the entries a
  snapshot may drop.  A mark or a lift in flight excludes all of these on its
  channel (`Busy`), so that its steps disturb none of them.
* `TaskTypeCorrect`, `UserSettledCorrect` (`TaskPolling`, in
  `RelayBillingProofs` beside the other charges of the money path).
  `UserSettled` speaks of tasks at rest and is not inductive.  `SettleInv` says
  of a task that one poller has in hand what its row, its refunds and the user's
  money are at that poller's stage (`Held`), and of a task in nobody's hands that
  they are what its row says (`Free`); the amounts are exact unless a leg is on
  the lists of what was lost or never charged.  A task leaves these facts only
  when a second poller takes it, a save fails, or an endpoint puts an older row back
  or changes it under a poller (`crossed`); a task that an endpoint or a bulk update
  has failed keeps the facts but for the amounts (`unrefunded`).  Assumption:
  `TaskAssumption`.
* `RightPayerCorrect`: `PayerInv` adds, as long as no consume row is missing, no
  save has failed, no endpoint has crossed a poll, no lookup was cut off from all
  rows of its payer and no two replicas have polled together (`Orderly`), that the
  tasks whose consume row is still sought can be matched one to one with rows of
  the log of their key and amount (`Matching`), that no two pollers are in one
  loop (`Alone`), and that the row a poller has found has its task's key
  (`Found`).  A settlement may rewrite the row matched to another task of the
  same key and amount: the two rows are then exchanged in the matching.  The log
  may have any length, and `Limit`, the window and the channels any value: a lookup
  that takes a row of the payer and finds one key has found the payer.
* `InvoiceCorrect`: `InvoiceExplains` speaks of states at rest.  `InvoiceInv`
  says of every state in which nothing is on record as lost (`Clean`) that what
  a key has paid, refunds added back, less what its rows say, is the sum over the tasks of
  what each still owes the log (`Owing`): its estimate until its consume row is
  written, the difference until a settlement has rewritten a row.  A rewrite may
  hit the row of another task of the same key and amount, which leaves the sum of
  the key as it should be; that the key is the same is `PayerInv`.  At rest no
  task owes anything.

Sums over a log or over attempts are recursive functions.  What they are for
every argument is proved without an induction rule: the set of arguments for
which a fact fails would have a least member (`Least`, from `WFMin`), and the
recursion refutes it.  That a function satisfying the recursion exists at all is
proved in the same way, from its finite beginnings (`SumsTo`).

Only model-checked:

* liveness: `EventuallyFinal`, `Recovers`, `WindowReopens`, `TornDown`,
  `LeaderReturns` and `LeaderWorks` need fairness and `ENABLED`, which are out of
  the prover's reach.

Every other property of the runs is stated by a theorem, under the hypotheses
named above.

## Plan

What is left:

1. An abstract life of a hold across the relay and the outbox.  `ParkedCall` is
   the outbox's half; `OneWalletExit` and `HoldExit` state the relay's half as
   invariants, not as a refinement.
2. Drain and shutdown with the detached goroutines of the money path;
   `ConcurrencyLease`; `Redemption`: slots and credits that must be given at
   most once.

## Not modelled

Not planned: provider adaptors (format conversion), pricing, catalogue and
statistics (derived data), the console and front end (CRUD), NATS events and
notifications (best-effort output no money path reads back), migrations (at
start-up, under an advisory lock).  They are most of the repository's lines, and
have no protocol to check.  For later, after the plan: the audit chain,
sessions and TOTP, erasure and retention, token rotation.  Within modelled parts:
batched updates; how the Redis copies of the user and token rows are kept (what
may be read from them is part of the models); the erasure of an account with open
tasks; what closes the hold of a lost answer, the platform's sweep.
