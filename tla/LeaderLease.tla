---------------------------- MODULE LeaderLease ----------------------------
(***************************************************************************)
(* The lease that elects one replica (LeaderManager and repo's             *)
(* TryAcquireOrRenew), and the periodic work that it gates (LeaderTask).   *)
(* A replica raises the flag IsLeader when the database says that it holds *)
(* the lease and lowers it when it learns that it does not, or when its    *)
(* own estimate of the lease has run out.  An election step takes its      *)
(* clock reading before it calls the database and uses it after the call   *)
(* has returned.                                                           *)
(*                                                                         *)
(* Instants are kept as distances from now; the replicas' clocks agree,    *)
(* and a goroutine that has something to do does it within the unit of     *)
(* time.  A replica that has ended does not come back: its successor has   *)
(* an identity of its own (NodeHolderID).                                  *)
(***************************************************************************)
EXTENDS Integers

CONSTANTS
  Nodes, NoNode,
  TTL,        \* LeaderLeaseTTLSeconds
  BootTTL,    \* LeaderBootLeaseTTLSeconds
  RenewEvery, \* the manager's ticker
  Interval,   \* of the LeaderTask
  MaxHang,    \* how long the database can keep an election step waiting
  MaxFaults   \* bound: operations that fail and processes that are killed

ASSUME LeaseAssumption ==
  /\ NoNode \notin Nodes
  /\ TTL \in Nat \ {0} /\ BootTTL \in Nat \ {0}
  /\ RenewEvery \in Nat \ {0} /\ Interval \in Nat \ {0}
  /\ MaxHang \in Nat /\ MaxFaults \in Nat

VARIABLES
  life,    \* "new", "boot" (until its first step is over), "up", "stopping"
           \* (its context is cancelled) or "down"
  lease,   \* the row of leader_elections: [holder, left]
  leader,  \* IsLeader
  local,   \* localExpiry - now
  step,    \* the election step under way: [at, age, ok]
  since,   \* the age of the last step's beginning
  task,    \* the LeaderTask: [busy, ago], ago = Interval when it is due
  faults

vars == <<life, lease, leader, local, step, since, task, faults>>

Larger(a, b) == IF a > b THEN a ELSE b

\* How long a flag outlives the estimate that it rests on, at most.
Overhang == RenewEvery + 2 * MaxHang

\* Further in the past no reading of the clock tells instants apart.  An
\* expiry of zero is that far in the past.
Floor == -(Overhang + 1)
Past(d) == IF d > Floor THEN d - 1 ELSE Floor

NoStep == [at |-> "idle", age |-> 0, ok |-> FALSE]
Stages == {"idle", "call", "set", "release", "resign", "over"}
NoTask == [busy |-> FALSE, ago |-> Interval]

TypeOK ==
  /\ life \in [Nodes -> {"new", "boot", "up", "stopping", "down"}]
  /\ lease \in [holder : Nodes \cup {NoNode},
                left : Floor..Larger(TTL, BootTTL)]
  /\ leader \in [Nodes -> BOOLEAN]
  /\ local \in [Nodes -> Floor..TTL]
  /\ step \in [Nodes -> [at : Stages, age : 0..MaxHang, ok : BOOLEAN]]
  /\ since \in [Nodes -> 0..Larger(RenewEvery, MaxHang)]
  /\ task \in [Nodes -> [busy : BOOLEAN, ago : 0..Interval]]
  /\ faults \in 0..MaxFaults

Init ==
  /\ life = [n \in Nodes |-> "new"]
  /\ lease = [holder |-> NoNode, left |-> Floor]
  /\ leader = [n \in Nodes |-> FALSE]
  /\ local = [n \in Nodes |-> Floor]
  /\ step = [n \in Nodes |-> NoStep]
  /\ since = [n \in Nodes |-> 0]
  /\ task = [n \in Nodes |-> NoTask]
  /\ faults = 0

Fault == faults < MaxFaults /\ faults' = faults + 1
Running(n) == life[n] \in {"boot", "up", "stopping"}
At(n, l) == step[n].at = l
Goto(n, l) == step' = [step EXCEPT ![n].at = l]

-----------------------------------------------------------------------------
\* TryAcquireOrRenew

WinsOwn(n, age) == lease.holder = n

\* The conditional update, with a clock reading of the given age.
Wins(n, age) ==
  \/ lease.holder = n
  \/ lease.holder # NoNode /\ lease.left < -age

\* The insert that follows wins when there is no row; a row that another holds
\* makes it conflict.  So the two statements are one step.
Acquires(n, age) == Wins(n, age) \/ lease.holder = NoNode

Grant(n, ttl, age) == lease' = [holder |-> n, left |-> Larger(ttl - age, Floor)]

\* The boot lease, for the migrations, with a clock reading as old as the call
\* has hung.  The manager does not know of it, and how long the migrations take
\* nobody says.
Boot(n) ==
  /\ life[n] = "new"
  /\ life' = [life EXCEPT ![n] = "boot"]
  /\ \E age \in 0..MaxHang :
       IF Acquires(n, age)
         THEN Grant(n, BootTTL, age) /\ leader' = [leader EXCEPT ![n] = TRUE]
         ELSE UNCHANGED <<lease, leader>>
  /\ UNCHANGED <<local, step, since, task, faults>>

\* Run's first step, or a tick: RenewEvery after the one before, or sooner when
\* that one was late.  The select may prefer it to a cancelled context.
StepBegin(n) ==
  /\ Running(n) /\ At(n, "idle") /\ (life[n] = "boot" \/ since[n] > 0)
  /\ step' = [step EXCEPT ![n] = [NoStep EXCEPT !.at = "call"]]
  /\ since' = [since EXCEPT ![n] = 0]
  /\ UNCHANGED <<life, lease, leader, local, task, faults>>

StepCall(n) ==
  /\ At(n, "call")
  /\ IF Acquires(n, step[n].age)
       THEN /\ Grant(n, TTL, step[n].age)
            /\ step' = [step EXCEPT ![n].at = "set", ![n].ok = TRUE]
       ELSE Goto(n, "set") /\ UNCHANGED lease
  /\ UNCHANGED <<life, leader, local, since, task, faults>>

-----------------------------------------------------------------------------
\* LeaderManager

\* The step is over.  The loop, which hears of a cancelled context, begins
\* after the first.
Finish(n) ==
  /\ step' = [step EXCEPT ![n] = NoStep]
  /\ life' = [life EXCEPT ![n] = IF @ = "boot" THEN "up" ELSE @]

EstimateLate(n) == TTL

\* localExpiry = now + ttlSeconds
Estimate(n) == Larger(TTL - step[n].age, Floor)

\* step with the answer
StepSet(n) ==
  /\ At(n, "set")
  /\ leader' = [leader EXCEPT ![n] = step[n].ok]
  /\ local' = IF step[n].ok THEN [local EXCEPT ![n] = Estimate(n)] ELSE local
  /\ Finish(n)
  /\ UNCHANGED <<lease, since, task, faults>>

StaysAnyway(n) == TRUE

\* now < localExpiry
Stays(n) == local[n] + step[n].age > 0

\* step with an error: the call failed, or its answer was lost.
StepFails(n) ==
  /\ At(n, "call") \/ At(n, "set")
  /\ Fault
  /\ leader' = [leader EXCEPT ![n] = @ /\ Stays(n)]
  /\ Finish(n)
  /\ UNCHANGED <<lease, local, since, task>>

\* SIGTERM cancels the context; some other replica is there to take over.
Stop(n) ==
  /\ life[n] = "up" /\ \E m \in Nodes \ {n} : life[m] = "up"
  /\ life' = [life EXCEPT ![n] = "stopping"]
  /\ UNCHANGED <<lease, leader, local, step, since, task, faults>>

\* Run after ctx.Done: the lease first, if it leads, and the flag after.
StopSeen(n) ==
  /\ life[n] = "stopping" /\ At(n, "idle")
  /\ Goto(n, IF leader[n] THEN "release" ELSE "over")
  /\ UNCHANGED <<life, lease, leader, local, since, task, faults>>

\* ReleaseLease: expires_at = 0, if the row is still this holder's.
ReleaseLease(n) ==
  lease' = IF lease.holder = n THEN [lease EXCEPT !.left = Floor] ELSE lease

Release(n) ==
  /\ At(n, "release")
  /\ ReleaseLease(n)
  /\ Goto(n, "resign")
  /\ UNCHANGED <<life, leader, local, since, task, faults>>

ReleaseFails(n) ==
  /\ At(n, "release")
  /\ Fault
  /\ Goto(n, "resign")
  /\ UNCHANGED <<life, lease, leader, local, since, task>>

Resign(n) ==
  /\ At(n, "resign")
  /\ leader' = [leader EXCEPT ![n] = FALSE]
  /\ step' = [step EXCEPT ![n] = [NoStep EXCEPT !.at = "over"]]
  /\ UNCHANGED <<life, lease, local, since, task, faults>>

\* The process dies, with all it had in memory.
Die(n) ==
  /\ Running(n) /\ \E m \in Nodes \ {n} : life[m] = "up"
  /\ Fault
  /\ life' = [life EXCEPT ![n] = "down"]
  /\ leader' = [leader EXCEPT ![n] = FALSE]
  /\ local' = [local EXCEPT ![n] = Floor]
  /\ step' = [step EXCEPT ![n] = NoStep]
  /\ since' = [since EXCEPT ![n] = 0]
  /\ task' = [task EXCEPT ![n] = NoTask]
  /\ UNCHANGED lease

-----------------------------------------------------------------------------
\* LeaderTask.Run

\* lastRun is zero, or the interval has passed since.
Due(n) == task[n].ago = Interval

TaskRunsAtBoot(n) ==
  /\ life[n] = "boot" /\ leader[n] /\ ~task[n].busy
  /\ Due(n)
  /\ task' = [task EXCEPT ![n] = [busy |-> TRUE, ago |-> 0]]
  /\ UNCHANGED <<life, lease, leader, local, step, since, faults>>

TaskRuns(n) ==
  /\ Running(n) /\ leader[n] /\ ~task[n].busy
  /\ Due(n)
  /\ task' = [task EXCEPT ![n] = [busy |-> TRUE, ago |-> 0]]
  /\ UNCHANGED <<life, lease, leader, local, step, since, faults>>

\* fn returns, with an error or not; it is not asked meanwhile who leads.
TaskReturns(n) ==
  /\ task[n].busy
  /\ task' = [task EXCEPT ![n].busy = FALSE]
  /\ UNCHANGED <<life, lease, leader, local, step, since, faults>>

-----------------------------------------------------------------------------
Waiting(n) == step[n].at \notin {"idle", "over"}

\* The manager has something to do at once: a tick, or a cancelled context.
Urgent(n) ==
  /\ At(n, "idle")
  /\ \/ life[n] = "up" /\ since[n] >= RenewEvery
     \/ life[n] = "stopping"

\* A unit of time.  A step that waits for the database ends by MaxHang.
Tick ==
  /\ \A n \in Nodes : ~Urgent(n) /\ (Waiting(n) => step[n].age < MaxHang)
  /\ lease' = [lease EXCEPT !.left = Past(@)]
  /\ local' = [n \in Nodes |-> Past(local[n])]
  /\ step' = [n \in Nodes |->
       IF Waiting(n) THEN [step[n] EXCEPT !.age = @ + 1] ELSE step[n]]
  /\ since' = [n \in Nodes |->
       IF since[n] < Larger(RenewEvery, MaxHang) THEN since[n] + 1 ELSE since[n]]
  /\ task' = [n \in Nodes |->
       IF task[n].ago < Interval THEN [task[n] EXCEPT !.ago = @ + 1]
       ELSE task[n]]
  /\ UNCHANGED <<life, leader, faults>>

Election(n) ==
  \/ Boot(n) \/ StepBegin(n) \/ StepCall(n) \/ StepSet(n)
  \/ StepFails(n) \/ StopSeen(n) \/ Release(n) \/ ReleaseFails(n) \/ Resign(n)

Work(n) == TaskRuns(n) \/ TaskReturns(n)

Next ==
  \/ Tick
  \/ \E n \in Nodes : Election(n) \/ Stop(n) \/ Die(n) \/ Work(n)

\* Time passes, replicas are started, and their goroutines run.  A select does
\* not prefer the same one of two ready channels for ever.
Fairness ==
  /\ WF_vars(Tick)
  /\ \A n \in Nodes :
       WF_vars(Election(n)) /\ SF_vars(StopSeen(n)) /\ WF_vars(Work(n))

Spec == Init /\ [][Next]_vars /\ Fairness

-----------------------------------------------------------------------------
\* A replica whose own estimate says that its lease is running owns the row, at
\* least for as long as it believes: so no two replicas believe so together,
\* whatever errors, hanging calls, lost answers, releases and deaths came
\* before (TryAcquireOrRenew: "at most one holder owns a non-expired lease").
LeaseHonoured ==
  \A n \in Nodes :
    leader[n] /\ local[n] > 0 /\ ~At(n, "resign") =>
      lease.holder = n /\ lease.left >= local[n]

\* A replica that has lost the database, or hears from it late, stops doing
\* leader-only work: the flag outlives its estimate by a ticker period and two
\* hanging calls at most (LeaderManager.step).
StaleLeaderBounded ==
  \A n \in Nodes :
    life[n] \in {"up", "stopping"} /\ leader[n] => local[n] > -Overhang

\* As long as a replica remains, some replica leads again and again, however
\* the others ended: a lease that its holder took along runs out, one that was
\* released is taken over (LeaderManager.Run).
LeaderReturns == []<>(\E n \in Nodes : life[n] = "up" /\ leader[n])

\* A replica that keeps leading does its periodic work, and does it again,
\* though leadership came late or left and came back (LeaderTask.Run).
LeaderWorks == \A n \in Nodes : <>[]leader[n] => []<>task[n].busy
=============================================================================
