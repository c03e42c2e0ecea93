----------------------------- MODULE TaskPolling -----------------------------
(***************************************************************************)
(* Asynchronous tasks (Suno, video, Midjourney).  A submission inserts the *)
(* task's row, then charges the user and the key, then writes the consume  *)
(* row.  Pollers gated on IsLeader read the unfinished rows, ask the       *)
(* upstream, and hand back the charge of a task that failed, or the        *)
(* difference when a video cost something else than was estimated.  A row  *)
(* is saved whole, from the copy that was read when the poll began.  Two   *)
(* endpoints save rows as well, and move no money: the one that shows a    *)
(* video to its user, and the one Midjourney's proxy notifies.             *)
(*                                                                         *)
(* A task's row does not name the key that paid: it is looked up by        *)
(* channel and amount among the newest consume rows of a window            *)
(* (resolveTaskChargeLedger).  One user.                                   *)
(* A key stands for the key's row and its tenant's pool; the local writes  *)
(* of one PostConsumeQuota are one step (RelayBilling takes them apart).   *)
(***************************************************************************)
EXTENDS Integers, Sequences, FiniteSetsExt

CONSTANTS
  Pollers, Loop, \* the pollers, and which of the two loops each runs
  Handlers, \* the requests to the two endpoints
  Tasks,
  Keys, Channels,
  Limit,    \* taskChargeCandidates
  Offers,   \* for each task, the submissions it may be
  MaxFaults \* bound: operations that fail and processes that end

ASSUME TaskAssumption ==
  /\ \A t \in Tasks :
       Offers[t] \subseteq {o \in [kind : {"suno", "video", "mj"}, key : Keys,
                                   est : Nat \ {0}, cost : Nat \ {0}, id : BOOLEAN,
                                   chan : Channels, via : Channels] :
                              /\ o.kind # "video" => o.cost = o.est
                              /\ o.kind # "mj" => o.via = o.chan}
  /\ "none" \notin Tasks /\ MaxFaults \in Nat /\ Limit \in Nat

VARIABLES
  task,      \* each task: its submission, its row, its upstream, its money
  poll,      \* the pollers of the replicas
  seen,      \* the copy of a row that an endpoint has in hand
  paid,      \* what each key has paid, net
  returned,  \* what each key has been handed back for failed tasks
  log,       \* the consume rows: [key, quota, chan]
  shared,    \* tasks that two pollers have had in hand together
  overlap,   \* two replicas have been polling together
  unsaved,   \* tasks whose money moved but whose row was not saved
  uncharged, \* tasks whose row names a charge that was never made
  lost,      \* tasks with a leg of the money lost; the log says so
  unlogged,  \* tasks whose money moved without their consume row
  missed,    \* tasks whose lookup took none of their payer's rows
  unrefunded, \* tasks failed by a write that hands nothing back
  crossed,   \* tasks whose row an endpoint has put back, or changed under a poller
  misdirected, \* tasks whose money moved on a key that had not paid for them
  faults

ghosts == <<shared, overlap, unsaved, uncharged, lost, unlogged, missed,
            unrefunded, crossed, misdirected>>
taskVars == <<task, poll, seen, paid, returned, log, ghosts, faults>>

\* UpdateTaskBulkWithContext and UpdateMidjourneyTaskBulkWithContext run on
\* every replica and take the tasks of a batch in turn.  A poller is one of
\* these loops with one task of its batch, from the read of the row on.
LoopOf(kind) == IF kind = "mj" THEN "midjourney" ELSE "task"

None == [at |-> "none", kind |-> "none", key |-> "none", est |-> 0,
         cost |-> 0, id |-> TRUE, chan |-> "none", via |-> "none", status |-> "none", quota |-> 0,
         up |-> "running", user |-> 0, refunds |-> 0]
IdlePoller == [at |-> "idle", cur |-> "none", ans |-> "running", row |-> 0,
         moved |-> FALSE]

NoCopy == [at |-> "idle", cur |-> "none", ans |-> "running", quota |-> 0]

Stages == {"idle", "ask", "user", "key", "rewrite", "save"}

Finals == {"running", "success", "failure"}

TaskRows == [at : {"none", "charge", "log", "done", "dead"},
             kind : {"none", "suno", "video", "mj"}, key : Keys \cup {"none"},
             est : Nat, cost : Nat, id : BOOLEAN,
             chan : Channels \cup {"none"}, via : Channels \cup {"none"},
             status : {"none", "pending", "SUCCESS", "FAILURE"}, quota : Nat,
             up : Finals, user : Int, refunds : Nat]
Polls == [at : Stages, cur : Tasks \cup {"none"}, ans : Finals, row : Nat,
          moved : BOOLEAN]
Copies == [at : {"idle", "looking", "answered"}, cur : Tasks \cup {"none"}, ans : Finals, quota : Nat]

TaskTypeOK ==
  /\ task \in [Tasks -> TaskRows] /\ poll \in [Pollers -> Polls]
  /\ seen \in [Handlers -> Copies]
  /\ paid \in [Keys -> Int] /\ returned \in [Keys -> Nat]
  /\ log \in Seq([key : Keys, quota : Nat, chan : Channels])
  /\ shared \subseteq Tasks /\ unsaved \subseteq Tasks /\ uncharged \subseteq Tasks
  /\ lost \subseteq Tasks /\ unlogged \subseteq Tasks /\ misdirected \subseteq Tasks
  /\ missed \subseteq Tasks /\ unrefunded \subseteq Tasks /\ crossed \subseteq Tasks
  /\ overlap \in BOOLEAN /\ faults \in 0..MaxFaults

TaskInit ==
  /\ task = [t \in Tasks |-> None]
  /\ poll = [p \in Pollers |-> IdlePoller] /\ seen = [h \in Handlers |-> NoCopy]
  /\ paid = [k \in Keys |-> 0] /\ returned = [k \in Keys |-> 0]
  /\ log = <<>>
  /\ shared = {} /\ overlap = FALSE /\ unsaved = {} /\ uncharged = {} /\ lost = {}
  /\ unlogged = {} /\ missed = {} /\ unrefunded = {} /\ crossed = {}
  /\ misdirected = {} /\ faults = 0

Fault == faults < MaxFaults /\ faults' = faults + 1

-----------------------------------------------------------------------------
\* RelayTaskSubmit, RelaySwapFace, RelayMidjourneySubmit

\* The row of a submission that has come to stage at.
Inserted(o, at) ==
  [at |-> at, kind |-> o.kind, key |-> o.key, est |-> o.est, cost |-> o.cost,
   id |-> o.id, chan |-> o.chan, via |-> o.via, status |-> "pending",
   quota |-> o.est, up |-> "running", user |-> 0, refunds |-> 0]

\* The upstream has taken the task, possibly without naming it, and the row is
\* inserted.
Submit(t, o) ==
  /\ task[t].at = "none"
  /\ task' = [task EXCEPT ![t] = Inserted(o, "charge")]
  /\ UNCHANGED <<faults, poll, paid, returned, log, ghosts>>

\* Midjourney has refused the task, or the action is InPaint or CustomZoom: the
\* row carries the price, which is not charged.
SubmitUncharged(t, o) ==
  /\ task[t].at = "none" /\ o.kind = "mj"
  /\ task' = [task EXCEPT ![t] = Inserted(o, "dead")]
  /\ uncharged' = uncharged \cup {t}
  /\ UNCHANGED <<faults, poll, paid, returned, log, shared, overlap, unsaved, lost,
                 unlogged, missed, unrefunded, crossed, misdirected>>

\* The insert fails: nothing is charged, but for Midjourney.
SubmitFails(t, o) ==
  /\ task[t].at = "none"
  /\ Fault
  /\ task' = [task EXCEPT ![t] =
       [Inserted(o, IF o.kind = "mj" THEN "charge" ELSE "dead")
          EXCEPT !.status = "none", !.quota = 0]]
  /\ UNCHANGED <<poll, paid, returned, log, ghosts>>

\* PostConsumeQuota in the deferred function
ChargeTask(t) ==
  /\ task[t].at = "charge"
  /\ task' = [task EXCEPT ![t].at = "log", ![t].user = @ + task[t].est]
  /\ paid' = [paid EXCEPT ![task[t].key] = @ + task[t].est]
  /\ UNCHANGED <<faults, poll, returned, log, ghosts>>

\* It fails, which is logged; the consume row is written regardless.
ChargeFails(t) ==
  /\ task[t].at = "charge"
  /\ Fault
  /\ task' = [task EXCEPT ![t].at = "log"]
  /\ uncharged' = uncharged \cup {t}
  /\ UNCHANGED <<poll, paid, returned, log, shared, overlap, unsaved, lost,
                 unlogged, missed, unrefunded, crossed, misdirected>>

\* RecordConsumeLog
Record(t) ==
  /\ task[t].at = "log"
  /\ task' = [task EXCEPT ![t].at = "done"]
  /\ log' = Append(log, [key |-> task[t].key, quota |-> task[t].est,
                           chan |-> task[t].via])
  /\ UNCHANGED <<faults, poll, paid, returned, ghosts>>

\* The row is not written, or the replica dies.
SubmitDies(t) ==
  /\ task[t].at \in {"charge", "log"}
  /\ Fault
  /\ task' = [task EXCEPT ![t].at = "dead"]
  /\ uncharged' = IF task[t].at = "charge" THEN uncharged \cup {t}
                  ELSE uncharged
  /\ lost' = lost \cup {t}
  /\ UNCHANGED <<poll, paid, returned, log, shared, overlap, unsaved,
                 unlogged, missed, unrefunded, crossed, misdirected>>

-----------------------------------------------------------------------------
\* The pollers

At(p, l) == poll[p].at = l
Has(t) == {p \in Pollers : poll[p].cur = t}

SameLoop(t, u) == LoopOf(task[t].kind) = LoopOf(task[u].kind)

\* GetAllUnFinishSyncTasks, GetAllUnFinishTasks, at a tick on a replica that
\* leads.  IsLeader is not asked again while the poll lasts, and a lease changes
\* hands meanwhile (LeaderLease): so two replicas may be polling.
Poll(p, t) ==
  /\ At(p, "idle") /\ task[t].status = "pending" /\ Loop[p] = LoopOf(task[t].kind)
  /\ poll' = [poll EXCEPT ![p] = [IdlePoller EXCEPT !.at = "ask", !.cur = t]]
  /\ shared' = IF Has(t) # {} THEN shared \cup {t} ELSE shared
  /\ overlap' = (overlap \/ \E u \in Tasks : Has(u) # {} /\ SameLoop(t, u))
  /\ UNCHANGED <<faults, task, paid, returned, log, unsaved, uncharged, lost,
                 unlogged, missed, unrefunded, crossed, misdirected>>

\* Tasks without an id fail in bulk, and nothing is handed back; so do those
\* whose channel cannot be read.
FailUnasked(p) ==
  LET t == poll[p].cur IN
  /\ At(p, "ask")
  /\ IF task[t].id THEN Fault ELSE UNCHANGED faults
  /\ task' = [task EXCEPT ![t].status = "FAILURE"]
  /\ poll' = [poll EXCEPT ![p] = IdlePoller]
  /\ unrefunded' = unrefunded \cup {t}
  /\ UNCHANGED <<paid, returned, log, shared, overlap, unsaved, uncharged, lost,
                 unlogged, missed, crossed, misdirected>>

\* Where an answer leads: Suno refunds before it saves, the others after.
FirstStage(t, ans) ==
  CASE ans = "failure" /\ task[t].kind = "suno" -> "user"
    [] ans = "success" /\ task[t].cost # task[t].est -> "user"
    [] OTHER -> "save"

\* What the upstream may say: what it has called final stays so.
Says(t) == IF task[t].up = "running" THEN {"running", "success", "failure"}
           ELSE {task[t].up}

\* The answer, or Midjourney's hour has passed, which fails the task too.
Fetch(p) ==
  LET t == poll[p].cur IN
  /\ At(p, "ask") /\ task[t].id
  /\ \E ans \in Says(t) :
       /\ task' = [task EXCEPT ![t].up = ans]
       /\ poll' = [poll EXCEPT ![p].at = FirstStage(t, ans), ![p].ans = ans]
  /\ UNCHANGED <<faults, paid, returned, log, ghosts>>

\* Nothing new in the answer; or none, or the context is cancelled before.
FetchSkips(p) ==
  /\ At(p, "ask")
  /\ (task[poll[p].cur].up = "running" /\ UNCHANGED faults) \/ Fault
  /\ poll' = [poll EXCEPT ![p] = IdlePoller]
  /\ UNCHANGED <<task, paid, returned, log, ghosts>>

\* resolveTaskChargeLedger: of the consume rows of a channel and an amount, the
\* newest within a window, a month for a refund and the time since the
\* submission for a difference.
Rows(c, q) == {i \in DOMAIN log : log[i].chan = c /\ log[i].quota = q}

Candidates(c, q, since) ==
  {i \in Rows(c, q) : i > since /\ Cardinality({j \in Rows(c, q) : j > i}) < Limit}

ResolveNewest(c, q, since) ==
  IF Candidates(c, q, since) = {} THEN 0 ELSE Max(Candidates(c, q, since))

\* The newest of them, provided that all name one key.
Resolve(c, q, since) ==
  LET rows == Candidates(c, q, since) IN
  IF rows # {} /\ \A i, j \in rows : log[i].key = log[j].key THEN Max(rows) ELSE 0

\* None of the rows taken is of the key that paid, though one is in the log; or
\* they were sought on another channel than the task was logged on.
Misses(k, since) ==
  \/ k.via # k.chan
  \/ /\ \E i \in Rows(k.chan, k.est) : log[i].key = k.key
     /\ \A i \in Candidates(k.chan, k.est, since) : log[i].key # k.key

\* refundTaskQuota hands the whole charge back, resettleVideoTask moves the
\* difference.
Delta(p) ==
  LET t == poll[p].cur IN
  IF poll[p].ans = "failure" THEN -task[t].est ELSE task[t].cost - task[t].est

RefundsFirst(t) == task[t].kind = "suno"

\* After the money, moved or not.
Settled(q, moved) ==
  IF q.ans = "failure" /\ ~RefundsFirst(q.cur) THEN IdlePoller
  ELSE [q EXCEPT !.at = "save", !.moved = moved]

\* The user's balance; without a payer the other legs are left out, as they are
\* when the log cannot be read or the key is gone.
UserLeg(p) ==
  LET q == poll[p]  t == q.cur  k == task[t] IN
  /\ At(p, "user")
  /\ task' = [task EXCEPT ![t].user = @ + Delta(p),
                          ![t].refunds = IF q.ans = "failure" THEN @ + 1 ELSE @]
  /\ \E since \in 0 .. Len(log) : \E row \in {0, Resolve(k.chan, k.est, since)} :
       /\ poll' = [poll EXCEPT ![p] = IF row = 0 THEN Settled(q, TRUE)
                                      ELSE [q EXCEPT !.at = "key", !.row = row]]
       /\ missed' = IF row # 0 /\ Misses(k, since) THEN missed \cup {t} ELSE missed
  /\ unlogged' = IF k.at = "done" THEN unlogged ELSE unlogged \cup {t}
  /\ UNCHANGED <<faults, paid, returned, log, shared, overlap, unsaved,
                 uncharged, lost, unrefunded, crossed, misdirected>>

\* A difference that cannot be moved is not recorded on the task either.
UserLegFails(p) ==
  LET q == poll[p] IN
  /\ At(p, "user")
  /\ Fault
  /\ poll' = [poll EXCEPT ![p] = Settled(q, FALSE)]
  /\ lost' = IF q.ans = "failure" THEN lost \cup {q.cur} ELSE lost
  /\ UNCHANGED <<task, paid, returned, log, shared, overlap, unsaved,
                 uncharged, unlogged, missed, unrefunded, crossed, misdirected>>

\* creditTaskLedgers, or the rest of PostConsumeQuota
KeyDone(q) == IF q.ans = "success" THEN [q EXCEPT !.at = "rewrite"]
              ELSE Settled(q, TRUE)

KeyLeg(p) ==
  LET q == poll[p]  k == log[q.row].key IN
  /\ At(p, "key")
  /\ paid' = [paid EXCEPT ![k] = @ + Delta(p)]
  /\ returned' = IF q.ans = "failure"
                   THEN [returned EXCEPT ![k] = @ - Delta(p)] ELSE returned
  /\ misdirected' = IF k = task[q.cur].key THEN misdirected
                    ELSE misdirected \cup {q.cur}
  /\ poll' = [poll EXCEPT ![p] = KeyDone(q)]
  /\ UNCHANGED <<faults, task, log, shared, overlap, unsaved, uncharged,
                 lost, unlogged, missed, unrefunded, crossed>>

\* A charge is taken back whole; a refund goes on without the key.
KeyLegFails(p) ==
  LET q == poll[p]  t == q.cur IN
  /\ At(p, "key")
  /\ Fault
  /\ IF Delta(p) > 0
       THEN /\ task' = [task EXCEPT ![t].user = @ - Delta(p)]
            /\ poll' = [poll EXCEPT ![p] = Settled(q, FALSE)]
            /\ UNCHANGED lost
       ELSE /\ poll' = [poll EXCEPT ![p] = KeyDone(q)]
            /\ lost' = lost \cup {t}
            /\ UNCHANGED task
  /\ UNCHANGED <<paid, returned, log, shared, overlap, unsaved, uncharged,
                 unlogged, missed, unrefunded, crossed, misdirected>>

RewriteNot(p) ==
  /\ At(p, "rewrite")
  /\ poll' = [poll EXCEPT ![p] = Settled(@, TRUE)]
  /\ UNCHANGED <<faults, task, log, paid, returned, ghosts>>

\* rewriteTaskConsumeRow
Rewrite(p) ==
  /\ At(p, "rewrite")
  /\ log' = [log EXCEPT ![poll[p].row].quota = task[poll[p].cur].cost]
  /\ poll' = [poll EXCEPT ![p] = Settled(@, TRUE)]
  /\ UNCHANGED <<faults, task, paid, returned, ghosts>>

RewriteFails(p) ==
  /\ At(p, "rewrite")
  /\ Fault
  /\ poll' = [poll EXCEPT ![p] = Settled(@, TRUE)]
  /\ lost' = lost \cup {poll[p].cur}
  /\ UNCHANGED <<task, paid, returned, log, shared, overlap, unsaved,
                 uncharged, unlogged, missed, unrefunded, crossed, misdirected>>

Status(ans) == CASE ans = "running" -> "pending" [] ans = "success" -> "SUCCESS"
                 [] ans = "failure" -> "FAILURE"

\* task.Update, MjUpdate: the whole row, whatever it holds by now.
Save(p) ==
  LET q == poll[p]  t == q.cur IN
  /\ At(p, "save")
  /\ task' = [task EXCEPT ![t].status = Status(q.ans),
       ![t].quota = IF q.ans = "success" /\ q.moved THEN task[t].cost
                    ELSE task[t].est]
  /\ poll' = [poll EXCEPT ![p] = IF q.ans = "failure" /\ ~RefundsFirst(t)
                                 THEN [q EXCEPT !.at = "user"] ELSE IdlePoller]
  /\ UNCHANGED <<faults, paid, returned, log, ghosts>>

SaveFailsRefunds(p) ==
  LET q == poll[p]  t == q.cur IN
  /\ At(p, "save")
  /\ Fault
  /\ poll' = [poll EXCEPT ![p] = IF q.ans = "failure" /\ ~RefundsFirst(t)
                                 THEN [q EXCEPT !.at = "user"] ELSE IdlePoller]
  /\ unsaved' = IF q.moved THEN unsaved \cup {t} ELSE unsaved
  /\ UNCHANGED <<task, paid, returned, log, shared, overlap, uncharged,
                 lost, unlogged, missed, unrefunded, crossed, misdirected>>

\* The row is not saved: then nothing is refunded after it.
SaveFails(p) ==
  LET q == poll[p] IN
  /\ At(p, "save")
  /\ Fault
  /\ poll' = [poll EXCEPT ![p] = IdlePoller]
  /\ unsaved' = IF q.moved THEN unsaved \cup {q.cur} ELSE unsaved
  /\ UNCHANGED <<task, paid, returned, log, shared, overlap, uncharged,
                 lost, unlogged, missed, unrefunded, crossed, misdirected>>

\* A replica is killed in the middle of a poll.
Owed(q) == \/ q.at \in {"key", "rewrite"}
           \/ q.at = "user" /\ q.ans = "failure" /\ ~RefundsFirst(q.cur)
Dirty(q) == \/ q.at \in {"key", "rewrite"}
               /\ (q.ans = "success" \/ RefundsFirst(q.cur))
            \/ q.at = "save" /\ q.moved

Kill(p) ==
  LET q == poll[p] IN
  /\ ~At(p, "idle")
  /\ Fault
  /\ lost' = IF Owed(q) THEN lost \cup {q.cur} ELSE lost
  /\ unsaved' = IF Dirty(q) THEN unsaved \cup {q.cur} ELSE unsaved
  /\ poll' = [poll EXCEPT ![p] = IdlePoller]
  /\ UNCHANGED <<task, paid, returned, log, shared, overlap, uncharged, unlogged,
                 missed, unrefunded, crossed, misdirected>>

-----------------------------------------------------------------------------
\* The endpoints: videoFetchByIDRespBodyBuilder, RelayMidjourneyNotify

\* The row is read; the upstream is asked, or is the one that calls.
Look(h, t) ==
  /\ seen[h].at = "idle"
  /\ task[t].status # "none" /\ task[t].kind # "suno" /\ task[t].id
  /\ \E ans \in Says(t) :
       /\ task' = [task EXCEPT ![t].up = ans]
       /\ seen' = [seen EXCEPT ![h] =
            [at |-> "looking", cur |-> t, ans |-> ans, quota |-> task[t].quota]]
  /\ UNCHANGED <<faults, poll, paid, returned, log, ghosts>>

\* The copy with the answer differs from the row in nothing but in finishing a
\* task that no poller has in hand.
Undisturbed(c) ==
  /\ c.quota = task[c.cur].quota
  /\ \/ Status(c.ans) = task[c.cur].status
     \/ task[c.cur].status = "pending" /\ Has(c.cur) = {}

\* The whole row is saved, with the answer for its status.
LookSaves(h) ==
  LET c == seen[h]  t == c.cur IN
  /\ c.at = "looking"
  /\ task' = [task EXCEPT ![t].status = Status(c.ans), ![t].quota = c.quota]
  /\ seen' = [seen EXCEPT ![h] = [NoCopy EXCEPT !.at = "answered"]]
  /\ crossed' = IF Undisturbed(c) THEN crossed ELSE crossed \cup {t}
  /\ unrefunded' = IF c.ans = "failure" /\ task[t].status = "pending"
                     THEN unrefunded \cup {t} ELSE unrefunded
  /\ UNCHANGED <<faults, poll, paid, returned, log, shared, overlap, unsaved,
                 uncharged, lost, unlogged, missed, misdirected>>

-----------------------------------------------------------------------------
Submission(t) ==
  \/ \E o \in Offers[t] : Submit(t, o) \/ SubmitUncharged(t, o) \/ SubmitFails(t, o)
  \/ ChargeTask(t) \/ ChargeFails(t) \/ Record(t) \/ SubmitDies(t)

Poller(p) ==
  \/ FailUnasked(p) \/ Fetch(p) \/ FetchSkips(p)
  \/ UserLeg(p) \/ UserLegFails(p) \/ KeyLeg(p) \/ KeyLegFails(p)
  \/ Rewrite(p) \/ RewriteFails(p) \/ Save(p) \/ SaveFails(p)

TaskNext ==
  \/ (\E t \in Tasks : Submission(t)) /\ UNCHANGED seen
  \/ /\ \E p \in Pollers :
          (\E t \in Tasks : Poll(p, t)) \/ Poller(p) \/ Kill(p)
     /\ UNCHANGED seen
  \/ \E h \in Handlers : (\E t \in Tasks : Look(h, t)) \/ LookSaves(h)

TaskSpec == TaskInit /\ [][TaskNext]_taskVars

-----------------------------------------------------------------------------
\* Properties

AtRest(t) == task[t].at \in {"done", "dead"} /\ Has(t) = {}

\* A failed task is refunded once: IsLeader is asked at the start of a poll
\* only, and a row is saved whole, but unless two pollers had the task in hand
\* together, the save after a refund failed, or an endpoint put an older row
\* back, no second refund follows (updateSunoTaskAll, updateVideoSingleTask,
\* updateMidjourneyTasks).
RefundedOnce ==
  \A t \in Tasks \ (shared \cup unsaved \cup crossed) : task[t].refunds <= 1

\* The same however many replicas poll: updateVideoSingleTask keeps the status
\* it has read "to prevent a duplicate refund".
NeverRefundedTwice == \A t \in Tasks \ (unsaved \cup crossed) : task[t].refunds <= 1

\* At rest the user has paid what the row says: nothing for a failed task, the
\* actual cost of one that succeeded, the estimate until then, whatever the
\* endpoints saved in between, unless they failed the task themselves
\* (refundTaskQuota, resettleVideoTask).
PaidAsRecorded ==
  \A t \in Tasks \ (shared \cup unsaved \cup uncharged \cup lost
                    \cup crossed \cup unrefunded) :
    AtRest(t) /\ task[t].status # "none" =>
      task[t].user = IF task[t].status = "FAILURE" THEN 0 ELSE task[t].quota

\* The user is settled with: one refund, and the balance the row stands for.
UserSettled == RefundedOnce /\ PaidAsRecorded

\* A task that the upstream has failed is handed back to the user, or one of
\* the faults that the log shows has hit it: "Two honest gaps remain, both
\* visible in the log", neither of which is the user's balance.
FailureHandedBack ==
  \A t \in Tasks \ (shared \cup unsaved \cup uncharged \cup lost) :
    AtRest(t) /\ task[t].id /\ task[t].up = "failure" /\ task[t].status = "FAILURE" =>
      task[t].user = 0

\* A refund or a difference goes to the key that paid for the task, though it
\* is looked up by amount among rows that other settlements rewrite, as long as
\* each settlement has the task to itself, saves its result, and takes one of
\* its payer's rows if the log has any (resolveTaskChargeLedger: "moving money
\* onto a guess is worse than leaving the ledger short").
RightPayer ==
  unlogged \cup unsaved \cup missed \cup crossed = {} /\ ~overlap => misdirected = {}

\* The same for a lookup that is cut short: "Key and tenant are still right -
\* every candidate must name one key or the lookup declines".
KeyStillRight ==
  unlogged \cup unsaved \cup crossed = {} /\ ~overlap => misdirected = {}

\* What the consume rows of a key add up to, the sum of its invoices.
Total(a, n) ==
  LET sum[i \in 0 .. n] == IF i = 0 THEN 0 ELSE sum[i - 1] + a[i] IN sum[n]
Invoiced(k) ==
  Total([i \in DOMAIN log |-> IF log[i].key = k THEN log[i].quota ELSE 0], Len(log))

\* The consume rows, which the invoices sum, agree with what the keys have
\* paid for tasks, refunds of failed tasks apart, though a settlement may
\* rewrite the row of another task of the same amount (rewriteTaskConsumeRow).
InvoiceExplains ==
  (\A t \in Tasks : AtRest(t)) /\ ~overlap
    /\ unsaved \cup uncharged \cup lost \cup unlogged \cup missed \cup crossed = {} =>
    \A k \in Keys : paid[k] + returned[k] = Invoiced(k)
=============================================================================
