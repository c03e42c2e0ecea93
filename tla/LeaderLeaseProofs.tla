------------------------- MODULE LeaderLeaseProofs -------------------------
(***************************************************************************)
(* The lease keeps two replicas from believing at the same time that it is *)
(* theirs, and a flag that has lost its lease falls within a bounded time. *)
(* Both rest on the clock reading a step takes before it calls: the row    *)
(* and the estimate are computed from the same instant.                    *)
(***************************************************************************)
EXTENDS LeaderLease, TLAPS

Calling == {"call", "set"}

LEMMA LargerFacts ==
  ASSUME NEW a \in Int, NEW b \in Int
  PROVE  /\ Larger(a, b) \in Int
         /\ Larger(a, b) >= a /\ Larger(a, b) >= b
         /\ Larger(a, b) = a \/ Larger(a, b) = b
  BY DEF Larger

LEMMA BoundFacts ==
  /\ Overhang \in Nat /\ Floor \in Int /\ Floor = -Overhang - 1
  /\ Overhang = RenewEvery + 2 * MaxHang
  /\ Floor < 0 /\ Floor < -MaxHang
  /\ TTL \in Int /\ TTL > 0 /\ BootTTL \in Int /\ BootTTL > 0
  /\ RenewEvery \in Int /\ RenewEvery > 0 /\ MaxHang \in Int /\ MaxHang >= 0
  /\ Interval \in Int /\ Interval > 0 /\ MaxFaults \in Int
  BY LeaseAssumption DEF Overhang, Floor

\* Past moves an instant that is told apart by one, and keeps the others.
LEMMA PastFacts ==
  ASSUME NEW d \in Int, d >= Floor
  PROVE  /\ Past(d) \in Int /\ Past(d) >= Floor /\ Past(d) <= d
         /\ d > Floor => Past(d) = d - 1
         /\ Past(d) > Floor => d > Floor
  BY BoundFacts DEF Past

-----------------------------------------------------------------------------
\* Type correctness

LEMMA GrantTyped ==
  ASSUME NEW n \in Nodes, NEW ttl \in {TTL, BootTTL}, NEW age \in 0..MaxHang,
         Grant(n, ttl, age)
  PROVE  /\ lease' \in [holder : Nodes \cup {NoNode},
                        left : Floor..Larger(TTL, BootTTL)]
         /\ lease'.holder = n /\ lease'.left = Larger(ttl - age, Floor)
  <1> USE BoundFacts
  <1>1. /\ Larger(ttl - age, Floor) >= Floor
        /\ Larger(ttl - age, Floor) <= Larger(TTL, BootTTL)
        /\ Larger(ttl - age, Floor) \in Int
    BY DEF Larger
  <1>2. Larger(ttl - age, Floor) \in Floor..Larger(TTL, BootTTL)
    BY <1>1, LargerFacts
  <1> QED BY <1>2 DEF Grant

StepType == [at : Stages, age : 0..MaxHang, ok : BOOLEAN]

LEMMA StepTyped ==
  ASSUME NEW s \in StepType, NEW l \in Stages
  PROVE  /\ [s EXCEPT !.at = l] \in StepType
         /\ [s EXCEPT !.at = l, !.ok = TRUE] \in StepType
         /\ \A a \in 0..MaxHang : [s EXCEPT !.age = a] \in StepType
         /\ NoStep \in StepType /\ [NoStep EXCEPT !.at = l] \in StepType
  <1>1. 0 \in 0..MaxHang /\ "idle" \in Stages
    BY BoundFacts DEF Stages
  <1> QED BY <1>1 DEF StepType, NoStep

\* One node's step is replaced.
LEMMA StepReplaced ==
  ASSUME TypeOK, NEW n \in Nodes, NEW l \in Stages,
         \/ Goto(n, l)
         \/ step' = [step EXCEPT ![n].at = l, ![n].ok = TRUE]
         \/ step' = [step EXCEPT ![n] = NoStep]
         \/ step' = [step EXCEPT ![n] = [NoStep EXCEPT !.at = l]]
  PROVE  step' \in [Nodes -> StepType]
  <1>1. step \in [Nodes -> StepType] /\ step[n] \in StepType
    BY DEF TypeOK, StepType
  <1>2. CASE Goto(n, l)
    BY <1>1, <1>2, StepTyped DEF Goto
  <1>3. CASE step' = [step EXCEPT ![n].at = l, ![n].ok = TRUE]
    <2>1. step' = [step EXCEPT ![n] = [step[n] EXCEPT !.at = l, !.ok = TRUE]]
      BY <1>1, <1>3
    <2> QED BY <1>1, <2>1, StepTyped
  <1>4. CASE \/ step' = [step EXCEPT ![n] = NoStep]
             \/ step' = [step EXCEPT ![n] = [NoStep EXCEPT !.at = l]]
    BY <1>1, <1>4, StepTyped
  <1> QED BY <1>2, <1>3, <1>4

LEMMA TypeBoot ==
  ASSUME TypeOK, NEW n \in Nodes, Boot(n)
  PROVE  TypeOK'
  <1> PICK age \in 0..MaxHang :
         IF Acquires(n, age)
           THEN Grant(n, BootTTL, age) /\ leader' = [leader EXCEPT ![n] = TRUE]
           ELSE UNCHANGED <<lease, leader>>
    BY DEF Boot
  <1>1. CASE Acquires(n, age)
    <2>1. lease' \in [holder : Nodes \cup {NoNode},
                      left : Floor..Larger(TTL, BootTTL)]
      BY <1>1, GrantTyped, BoundFacts
    <2> QED BY <1>1, <2>1 DEF TypeOK, Boot
  <1>2. CASE ~Acquires(n, age)
    BY <1>2 DEF TypeOK, Boot
  <1> QED BY <1>1, <1>2

LEMMA TypeBegin ==
  ASSUME TypeOK, NEW n \in Nodes, StepBegin(n)
  PROVE  TypeOK'
  <1>1. 0 \in 0..Larger(RenewEvery, MaxHang) /\ 0 \in 0..MaxHang
    BY BoundFacts, LargerFacts
  <1> QED BY <1>1 DEF TypeOK, StepBegin, NoStep, Stages

LEMMA TypeCall ==
  ASSUME TypeOK, NEW n \in Nodes, StepCall(n)
  PROVE  TypeOK'
  <1>1. step[n].age \in 0..MaxHang
    BY DEF TypeOK
  <1>2. Grant(n, TTL, step[n].age) =>
          lease' \in [holder : Nodes \cup {NoNode},
                      left : Floor..Larger(TTL, BootTTL)]
    BY <1>1, GrantTyped
  <1>3. lease' \in [holder : Nodes \cup {NoNode},
                    left : Floor..Larger(TTL, BootTTL)]
    BY <1>2 DEF TypeOK, StepCall
  <1>4. step' \in [Nodes -> StepType]
    <2>1. "set" \in Stages
      BY DEF Stages
    <2> QED BY <2>1, StepReplaced DEF StepCall
  <1> QED BY <1>3, <1>4 DEF TypeOK, StepType, StepCall

LEMMA TypeFinish ==
  ASSUME TypeOK, NEW n \in Nodes, StepSet(n) \/ StepFails(n)
  PROVE  TypeOK'
  <1> USE BoundFacts
  <1>1. step' \in [Nodes -> StepType]
    BY StepReplaced DEF StepSet, StepFails, Finish, Stages
  <1>2. life' \in [Nodes -> {"new", "boot", "up", "stopping", "down"}]
    BY DEF TypeOK, StepSet, StepFails, Finish
  <1>3. Estimate(n) \in Floor..TTL
    BY DEF TypeOK, Estimate, Larger
  <1>4. local' \in [Nodes -> Floor..TTL]
    BY <1>3 DEF TypeOK, StepSet, StepFails
  <1>5. faults' \in 0..MaxFaults
    BY DEF TypeOK, StepSet, StepFails, Fault
  <1>6. leader' \in [Nodes -> BOOLEAN]
    <2>1. CASE StepSet(n)
      BY <2>1 DEF TypeOK, StepSet
    <2>2. CASE StepFails(n)
      <3>1. (leader[n] /\ Stays(n)) \in BOOLEAN
        BY DEF TypeOK, Stays
      <3> QED BY <2>2, <3>1 DEF TypeOK, StepFails
    <2> QED BY <2>1, <2>2
  <1> QED BY <1>1, <1>2, <1>4, <1>5, <1>6 DEF TypeOK, StepType, StepSet, StepFails

LEMMA TypeEnd ==
  ASSUME TypeOK, NEW n \in Nodes,
         \/ Stop(n) \/ StopSeen(n) \/ Release(n) \/ ReleaseFails(n)
         \/ Resign(n) \/ Die(n)
  PROVE  TypeOK'
  <1> USE BoundFacts
  <1>1. CASE Stop(n)
    BY <1>1 DEF TypeOK, Stop
  <1>2. CASE StopSeen(n)
    <2>1. step' \in [Nodes -> StepType]
      BY <1>2, StepReplaced DEF StopSeen, Stages
    <2> QED BY <1>2, <2>1 DEF TypeOK, StepType, StopSeen
  <1>3. CASE Release(n)
    <2>1. Floor \in Floor..Larger(TTL, BootTTL)
      BY LargerFacts
    <2>2. lease' \in [holder : Nodes \cup {NoNode},
                      left : Floor..Larger(TTL, BootTTL)]
      BY <1>3, <2>1 DEF TypeOK, Release, ReleaseLease
    <2>3. step' \in [Nodes -> StepType]
      BY <1>3, StepReplaced DEF Release, Stages
    <2> QED BY <1>3, <2>2, <2>3 DEF TypeOK, StepType, Release
  <1>4. CASE ReleaseFails(n)
    <2>1. step' \in [Nodes -> StepType]
      BY <1>4, StepReplaced DEF ReleaseFails, Stages
    <2> QED BY <1>4, <2>1 DEF TypeOK, StepType, ReleaseFails, Fault
  <1>5. CASE Resign(n)
    <2>1. step' \in [Nodes -> StepType]
      BY <1>5, StepReplaced DEF Resign, Stages
    <2> QED BY <1>5, <2>1 DEF TypeOK, StepType, Resign
  <1>6. CASE Die(n)
    <2>1. 0 \in 0..Larger(RenewEvery, MaxHang) /\ Floor \in Floor..TTL
      BY LargerFacts
    <2> QED BY <1>6, <2>1 DEF TypeOK, Die, Fault, NoStep, NoTask, Stages
  <1> QED BY <1>1, <1>2, <1>3, <1>4, <1>5, <1>6

LEMMA TypeWork ==
  ASSUME TypeOK, NEW n \in Nodes, Work(n)
  PROVE  TypeOK'
  <1>1. 0 \in 0..Interval
    BY BoundFacts
  <1>2. task' \in [Nodes -> [busy : BOOLEAN, ago : 0..Interval]]
    <2>1. task[n] \in [busy : BOOLEAN, ago : 0..Interval]
      BY DEF TypeOK
    <2>2. [task[n] EXCEPT !.busy = FALSE] \in [busy : BOOLEAN, ago : 0..Interval]
      BY <2>1
    <2>3. [busy |-> TRUE, ago |-> 0] \in [busy : BOOLEAN, ago : 0..Interval]
      BY <1>1
    <2>4. CASE TaskRuns(n)
      BY <2>3, <2>4 DEF TypeOK, TaskRuns
    <2>5. CASE TaskReturns(n)
      BY <2>2, <2>5 DEF TypeOK, TaskReturns
    <2> QED BY <2>4, <2>5 DEF Work
  <1> QED BY <1>2 DEF TypeOK, Work, TaskRuns, TaskReturns

LEMMA TypeTick ==
  ASSUME TypeOK, Tick
  PROVE  TypeOK'
  <1> USE BoundFacts
  <1>1. lease' \in [holder : Nodes \cup {NoNode},
                    left : Floor..Larger(TTL, BootTTL)]
    <2>1. lease.left \in Int /\ lease.left >= Floor
          /\ lease.left <= Larger(TTL, BootTTL) /\ Larger(TTL, BootTTL) \in Int
      BY LargerFacts DEF TypeOK
    <2>2. Past(lease.left) \in Floor..Larger(TTL, BootTTL)
      BY <2>1, PastFacts
    <2> QED BY <2>2 DEF TypeOK, Tick
  <1>2. local' \in [Nodes -> Floor..TTL]
    <2>1. \A n \in Nodes : Past(local[n]) \in Floor..TTL
      BY PastFacts DEF TypeOK
    <2> QED BY <2>1 DEF TypeOK, Tick
  <1>3. step' \in [Nodes -> StepType]
    <2>1. ASSUME NEW n \in Nodes
          PROVE  (IF Waiting(n) THEN [step[n] EXCEPT !.age = @ + 1] ELSE step[n])
                   \in StepType
      <3>1. step[n] \in StepType /\ step[n].at \in Stages
        BY DEF TypeOK, StepType
      <3>2. Waiting(n) => step[n].age + 1 \in 0..MaxHang
        BY DEF TypeOK, Tick
      <3> QED BY <3>1, <3>2, StepTyped
    <2> QED BY <2>1 DEF Tick
  <1>4. since' \in [Nodes -> 0..Larger(RenewEvery, MaxHang)]
    BY LargerFacts DEF TypeOK, Tick
  <1>5. task' \in [Nodes -> [busy : BOOLEAN, ago : 0..Interval]]
    <2>1. ASSUME NEW n \in Nodes
          PROVE  (IF task[n].ago < Interval THEN [task[n] EXCEPT !.ago = @ + 1]
                  ELSE task[n]) \in [busy : BOOLEAN, ago : 0..Interval]
      <3>1. task[n] \in [busy : BOOLEAN, ago : 0..Interval]
        BY DEF TypeOK
      <3>2. task[n].ago < Interval => task[n].ago + 1 \in 0..Interval
        BY <3>1
      <3> QED BY <3>1, <3>2
    <2> QED BY <2>1 DEF Tick
  <1> QED BY <1>1, <1>2, <1>3, <1>4, <1>5 DEF TypeOK, StepType, Tick

LEMMA TypeInit == Init => TypeOK
  <1>1. /\ Floor \in Floor..Larger(TTL, BootTTL) /\ Floor \in Floor..TTL
        /\ 0 \in 0..Larger(RenewEvery, MaxHang) /\ 0 \in 0..MaxHang
        /\ 0 \in 0..MaxFaults /\ Interval \in 0..Interval
    BY BoundFacts, LargerFacts, LeaseAssumption
  <1> QED BY <1>1 DEF Init, TypeOK, NoStep, NoTask, Stages

LEMMA TypeStep == TypeOK /\ [Next]_vars => TypeOK'
  <1> SUFFICES ASSUME TypeOK, [Next]_vars PROVE TypeOK'
    OBVIOUS
  <1>1. CASE Tick
    BY <1>1, TypeTick
  <1>2. ASSUME NEW n \in Nodes, Election(n) \/ Stop(n) \/ Die(n) \/ Work(n)
        PROVE  TypeOK'
    BY <1>2, TypeBoot, TypeBegin, TypeCall, TypeFinish, TypeEnd, TypeWork
    DEF Election
  <1>3. CASE UNCHANGED vars
    BY <1>3 DEF vars, TypeOK
  <1> QED BY <1>1, <1>2, <1>3 DEF Next

\* Every field keeps its range, the waits and ages their bounds.
THEOREM TypeCorrect == Spec => []TypeOK
  <1> QED BY TypeInit, TypeStep, PTL DEF Spec
-----------------------------------------------------------------------------
\* The lease

Owns(n, d) == lease.holder = n /\ lease.left >= d

\* A step that has been granted the lease, and has not told the manager yet,
\* owns the row for what is left of the TTL counted from its clock reading.
Granted(n) ==
  /\ step[n].ok => At(n, "set")
  /\ step[n].ok /\ TTL - step[n].age > 0 => Owns(n, TTL - step[n].age)

\* An estimate made before the step began ends no later than a lease granted
\* in the step would: renewing never shortens what the replica believes.
EarlierEstimate(n) ==
  step[n].at \in Calling /\ local[n] > Floor => local[n] <= TTL - step[n].age

Honoured(n) ==
  leader[n] /\ local[n] > 0 /\ ~At(n, "resign") => Owns(n, local[n])

\* The boot lease leaves no estimate and is no step.
NodeInv(n) ==
  /\ life[n] = "new" => local[n] <= 0 /\ At(n, "idle")
  /\ Granted(n) /\ EarlierEstimate(n) /\ Honoured(n)

LeaseInv == TypeOK /\ \A n \in Nodes : NodeInv(n)

\* The row is taken from a holder only after it has expired.
LEMMA OthersKept ==
  ASSUME NEW m \in Nodes, NodeInv(m), TypeOK,
         life'[m] = life[m], leader'[m] = leader[m], local'[m] = local[m],
         step'[m] = step[m],
         lease' = lease \/ lease.holder # m \/ lease.left <= 0
  PROVE  NodeInv(m)'
  <1> USE BoundFacts DEF NodeInv, Granted, EarlierEstimate, Honoured, Owns, At
  <1>1. CASE lease' = lease
    BY <1>1
  <1>2. CASE lease.holder # m \/ lease.left <= 0
    <2>1. /\ lease.left \in Int /\ local[m] \in Int /\ step[m].age \in Int
      BY LargerFacts DEF TypeOK
    <2>2. ~(step[m].ok /\ TTL - step[m].age > 0)
      BY <1>2, <2>1
    <2>3. ~(leader[m] /\ local[m] > 0 /\ ~At(m, "resign"))
      BY <1>2, <2>1
    <2> QED BY <2>2, <2>3
  <1> QED BY <1>1, <1>2

LEMMA LeaseFrame ==
  ASSUME TypeOK, NEW n \in Nodes, NEW m \in Nodes, m # n,
         Election(n) \/ Stop(n) \/ Die(n) \/ Work(n)
  PROVE  /\ life'[m] = life[m] /\ leader'[m] = leader[m]
         /\ local'[m] = local[m] /\ step'[m] = step[m]
         /\ lease' = lease \/ lease.holder # m \/ lease.left <= 0
  <1> USE DEF TypeOK
  <1>a. NoNode # m /\ lease.left \in Int
    BY LeaseAssumption, BoundFacts, LargerFacts
  <1>1. CASE Boot(n)
    BY <1>1, <1>a, BoundFacts DEF Boot, Acquires, Wins
  <1>2. CASE StepBegin(n)
    BY <1>2 DEF StepBegin
  <1>3. CASE StepCall(n)
    <2>1. step[n].age \in Int /\ step[n].age >= 0
      BY BoundFacts
    <2> QED BY <1>3, <1>a, <2>1 DEF StepCall, Acquires, Wins, Goto
  <1>4. CASE StepSet(n)
    BY <1>4 DEF StepSet, Finish
  <1>5. CASE StepFails(n)
    BY <1>5 DEF StepFails, Finish
  <1>6. CASE StopSeen(n)
    BY <1>6 DEF StopSeen, Goto
  <1>7. CASE Release(n)
    BY <1>7 DEF Release, ReleaseLease, Goto
  <1>8. CASE ReleaseFails(n)
    BY <1>8 DEF ReleaseFails, Goto
  <1>9. CASE Resign(n)
    BY <1>9 DEF Resign
  <1>10. CASE Stop(n)
    BY <1>10 DEF Stop
  <1>11. CASE Die(n)
    BY <1>11 DEF Die
  <1>12. CASE Work(n)
    BY <1>12 DEF Work, TaskRuns, TaskReturns
  <1> QED
    BY <1>1, <1>2, <1>3, <1>4, <1>5, <1>6, <1>7, <1>8, <1>9, <1>10, <1>11,
       <1>12 DEF Election

\* The node that acts: its database calls.
LEMMA LeaseCall ==
  ASSUME TypeOK, TypeOK', NEW n \in Nodes, NodeInv(n),
         Boot(n) \/ StepBegin(n) \/ StepCall(n)
  PROVE  NodeInv(n)'
  <1> USE BoundFacts DEF NodeInv, Granted, EarlierEstimate, Honoured, Owns, At
  <1>a. /\ local[n] \in Int /\ step[n].age \in 0..MaxHang
        /\ local[n] <= TTL /\ local[n] >= Floor
    BY DEF TypeOK
  <1>1. CASE Boot(n)
    <2>1. /\ life'[n] = "boot" /\ local[n] <= 0 /\ local' = local
          /\ step' = step /\ ~At(n, "set")
      BY <1>1 DEF Boot, TypeOK
    <2> QED BY <1>a, <2>1
  <1>2. CASE StepBegin(n)
    <2>1. step'[n] = [at |-> "call", age |-> 0, ok |-> FALSE]
      BY <1>2 DEF StepBegin, NoStep, TypeOK
    <2>2. life'[n] # "new" /\ UNCHANGED <<lease, leader, local>>
          /\ step[n].at = "idle"
      BY <1>2 DEF StepBegin, Running
    <2> QED BY <1>a, <2>1, <2>2
  <1>3. ASSUME Grant(n, TTL, step[n].age), At(n, "call"),
               step' = [step EXCEPT ![n].at = "set", ![n].ok = TRUE],
               UNCHANGED <<life, leader, local>>
        PROVE  NodeInv(n)'
    <2>1. /\ step'[n].age = step[n].age /\ step'[n].at = "set"
          /\ step[n].at \in Calling
      BY <1>3 DEF TypeOK, Calling
    <2>2. lease'.holder = n /\ lease'.left >= TTL - step[n].age
          /\ lease'.left \in Int
      <3>1. lease'.holder = n /\ lease'.left = Larger(TTL - step[n].age, Floor)
        BY <1>3, <1>a, GrantTyped
      <3> QED BY <3>1, <1>a DEF Larger
    <2>3. local[n] > 0 => local[n] <= TTL - step[n].age
      BY <1>a, <2>1
    <2> QED BY <1>3, <1>a, <2>1, <2>2, <2>3
  <1>4. ASSUME lease' = lease, At(n, "call"),
               Goto(n, "set"), UNCHANGED <<life, leader, local>>
        PROVE  NodeInv(n)'
    <2>1. /\ step'[n].age = step[n].age /\ step'[n].ok = step[n].ok
          /\ step'[n].at = "set" /\ step[n].at \in Calling
          /\ ~step[n].ok
      <3>1. step[n] \in StepType
        BY DEF TypeOK, StepType
      <3>2. step'[n] = [step[n] EXCEPT !.at = "set"]
        BY <1>4 DEF Goto, TypeOK
      <3> QED BY <1>4, <3>1, <3>2 DEF Calling, StepType
    <2> QED BY <1>4, <2>1
  <1> QED BY <1>1, <1>2, <1>3, <1>4 DEF StepCall

\* The node that acts: its manager.
LEMMA LeaseManager ==
  ASSUME TypeOK, NEW n \in Nodes, NodeInv(n),
         \/ StepSet(n) \/ StepFails(n) \/ Stop(n) \/ StopSeen(n) \/ Release(n)
         \/ ReleaseFails(n) \/ Resign(n) \/ Die(n) \/ Work(n)
  PROVE  NodeInv(n)'
  <1> USE BoundFacts DEF NodeInv, Granted, EarlierEstimate, Honoured, Owns, At,
                         TypeOK, Calling
  <1>a. /\ local[n] \in Int /\ step[n].age \in Int
    OBVIOUS
  <1>1. CASE StepSet(n)
    <2>1. step'[n] = NoStep /\ leader'[n] = step[n].ok
      BY <1>1 DEF StepSet, Finish
    <2>2. life'[n] # "new" \/ (life'[n] = life[n] /\ life[n] = "new")
      BY <1>1 DEF StepSet, Finish
    <2>3. CASE step[n].ok
      <3>1. local'[n] = Larger(TTL - step[n].age, Floor)
        BY <1>1, <2>3 DEF StepSet, Estimate
      <3>2. local'[n] > 0 =>
              local'[n] = TTL - step[n].age /\ TTL - step[n].age > 0
        BY <3>1, <1>a DEF Larger
      <3>3. lease' = lease /\ life'[n] # "new"
        BY <1>1, <2>2 DEF StepSet
      <3> QED BY <2>1, <2>3, <3>2, <3>3 DEF NoStep
    <2>4. CASE ~step[n].ok
      BY <1>1, <2>1, <2>2, <2>4 DEF StepSet, NoStep
    <2> QED BY <2>3, <2>4
  <1>2. CASE StepFails(n)
    <2>1. step'[n] = NoStep /\ (leader'[n] => leader[n])
      BY <1>2 DEF StepFails, Finish
    <2>2. life'[n] = "new" => life[n] = "new"
      BY <1>2 DEF StepFails, Finish
    <2> QED BY <1>2, <2>1, <2>2 DEF StepFails, NoStep
  <1>3. CASE Stop(n)
    BY <1>3 DEF Stop
  <1>4. CASE StopSeen(n)
    BY <1>4 DEF StopSeen, Goto
  <1>5. CASE Release(n)
    BY <1>5 DEF Release, Goto
  <1>6. CASE ReleaseFails(n)
    BY <1>6 DEF ReleaseFails, Goto
  <1>7. CASE Resign(n)
    BY <1>7 DEF Resign, NoStep
  <1>8. CASE Die(n)
    BY <1>8 DEF Die, NoStep
  <1>9. CASE Work(n)
    BY <1>9 DEF Work, TaskRuns, TaskReturns
  <1> QED BY <1>1, <1>2, <1>3, <1>4, <1>5, <1>6, <1>7, <1>8, <1>9

LEMMA LeaseTick ==
  ASSUME TypeOK, NEW n \in Nodes, NodeInv(n), Tick
  PROVE  NodeInv(n)'
  <1> USE BoundFacts DEF NodeInv, Granted, EarlierEstimate, Honoured, Owns, At,
                         Calling
  <1>1. /\ lease.left \in Int /\ lease.left >= Floor
        /\ local[n] \in Int /\ local[n] >= Floor /\ step[n].age \in Int
    BY LargerFacts DEF TypeOK
  <1>2. /\ lease'.holder = lease.holder /\ lease'.left = Past(lease.left)
        /\ local'[n] = Past(local[n])
        /\ life' = life /\ leader' = leader
    BY DEF Tick, TypeOK
  <1>3. /\ step'[n].at = step[n].at /\ step'[n].ok = step[n].ok
        /\ step[n].at \in Calling => step'[n].age = step[n].age + 1
        /\ step'[n].age >= step[n].age /\ step'[n].age \in Int
    BY DEF Tick, TypeOK, Waiting
  <1>4. /\ Past(local[n]) \in Int /\ Past(local[n]) <= local[n]
        /\ Past(local[n]) > Floor => Past(local[n]) = local[n] - 1
        /\ lease.left > Floor => Past(lease.left) = lease.left - 1
    BY <1>1, PastFacts
  <1>5. Granted(n)'
    BY <1>1, <1>2, <1>3, <1>4
  <1>6. EarlierEstimate(n)'
    BY <1>1, <1>2, <1>3, <1>4
  <1>7. Honoured(n)'
    BY <1>1, <1>2, <1>3, <1>4
  <1>8. (life[n] = "new" => local[n] <= 0 /\ At(n, "idle"))'
    BY <1>1, <1>2, <1>3, <1>4
  <1> QED BY <1>5, <1>6, <1>7, <1>8

LEMMA LeaseStep == LeaseInv /\ [Next]_vars => LeaseInv'
  <1> SUFFICES ASSUME LeaseInv, [Next]_vars PROVE LeaseInv'
    OBVIOUS
  <1>1. TypeOK /\ TypeOK'
    BY TypeStep DEF LeaseInv
  <1>2. CASE Tick
    BY <1>1, <1>2, LeaseTick DEF LeaseInv
  <1>3. ASSUME NEW n \in Nodes, Election(n) \/ Stop(n) \/ Die(n) \/ Work(n),
               NEW m \in Nodes
        PROVE  NodeInv(m)'
    <2>1. NodeInv(m)
      BY DEF LeaseInv
    <2>2. CASE m = n
      BY <1>1, <1>3, <2>1, <2>2, LeaseCall, LeaseManager DEF Election
    <2>3. CASE m # n
      BY <1>1, <1>3, <2>1, <2>3, LeaseFrame, OthersKept
    <2> QED BY <2>2, <2>3
  <1>4. CASE UNCHANGED vars
    BY <1>1, <1>4 DEF vars, LeaseInv, NodeInv, Granted, EarlierEstimate, Honoured,
                      Owns, At
  <1> QED BY <1>1, <1>2, <1>3, <1>4 DEF Next, LeaseInv

\* A replica that believes in its estimate owns the row for at least as long
\* (TryAcquireOrRenew), for any number of replicas, any TTLs and any hangs.
THEOREM LeaseHonouredCorrect == Spec => []LeaseHonoured
<1>1. Init => LeaseInv
  BY TypeInit, BoundFacts
  DEF Init, LeaseInv, NodeInv, Granted, EarlierEstimate, Honoured, NoStep, At, Calling
<1>2. LeaseInv => LeaseHonoured
  BY DEF LeaseInv, NodeInv, Honoured, Owns, LeaseHonoured
<1> QED BY <1>1, <1>2, LeaseStep, PTL DEF Spec

\* So no two replicas believe at the same time that the lease is theirs, except
\* one that has handed it back and is about to lower its flag.
Believes(n) == leader[n] /\ local[n] > 0 /\ ~At(n, "resign")

\* At most one replica acts on a lease that it holds to be running
\* (TryAcquireOrRenew: "at most one holder owns a non-expired lease").
THEOREM OneBeliever ==
  Spec => [](\A m, n \in Nodes : Believes(m) /\ Believes(n) => m = n)
<1>1. LeaseHonoured => \A m, n \in Nodes : Believes(m) /\ Believes(n) => m = n
  BY DEF LeaseHonoured, Believes
<1> QED BY <1>1, LeaseHonouredCorrect, PTL

-----------------------------------------------------------------------------
\* The flag

\* Between steps an estimate has run out for less than the age of the last
\* step's beginning; within a step, for a ticker period and a hang more at most.
FlagInv(n) ==
  /\ life[n] = "new" => At(n, "idle")
  /\ At(n, "over") => ~leader[n]
  /\ step[n].at \in Calling => since[n] = step[n].age
  /\ life[n] \in {"up", "stopping"} /\ leader[n] =>
       IF At(n, "idle") THEN local[n] + since[n] > 0
       ELSE local[n] + step[n].age > -(RenewEvery + MaxHang)

StaleInv == TypeOK /\ \A n \in Nodes : FlagInv(n)

LEMMA SinceFrame ==
  ASSUME TypeOK, NEW n \in Nodes, NEW m \in Nodes, m # n,
         Election(n) \/ Stop(n) \/ Die(n) \/ Work(n)
  PROVE  since'[m] = since[m]
  BY DEF TypeOK, Election, Boot, StepBegin, StepCall, StepSet,
         StepFails, StopSeen, Release, ReleaseFails, Resign, Stop, Die, Work,
         TaskRuns, TaskReturns

\* What a node's clock readings are, and how far apart they can be.
LEMMA NodeTypes ==
  ASSUME TypeOK, NEW n \in Nodes
  PROVE  /\ local[n] \in Int /\ local[n] >= Floor /\ since[n] \in Int
         /\ since[n] >= 0 /\ since[n] <= RenewEvery + MaxHang
         /\ step[n].age \in Int /\ step[n].age >= 0 /\ step[n].age <= MaxHang
  <1>1. /\ Larger(RenewEvery, MaxHang) <= RenewEvery + MaxHang
        /\ Larger(RenewEvery, MaxHang) \in Int
    BY BoundFacts DEF Larger
  <1> QED BY <1>1, BoundFacts DEF TypeOK

LEMMA FlagCall ==
  ASSUME TypeOK, NEW n \in Nodes, FlagInv(n),
         Boot(n) \/ StepBegin(n) \/ StepCall(n)
  PROVE  FlagInv(n)'
  <1> USE BoundFacts, NodeTypes DEF FlagInv, At, Calling
  <1>1. CASE Boot(n)
    BY <1>1 DEF Boot, TypeOK
  <1>2. CASE StepBegin(n)
    <2>1. /\ step'[n] = [at |-> "call", age |-> 0, ok |-> FALSE]
          /\ since'[n] = 0 /\ life'[n] # "new"
      BY <1>2 DEF StepBegin, NoStep, TypeOK, Running
    <2> QED BY <1>2, <2>1 DEF StepBegin
  <1>3. CASE StepCall(n)
    <2>1. /\ step'[n].age = step[n].age /\ step'[n].at = "set"
          /\ step[n].at = "call"
          /\ UNCHANGED <<life, leader, local, since>>
      BY <1>3 DEF StepCall, Goto, TypeOK
    <2> QED BY <2>1
  <1> QED BY <1>1, <1>2, <1>3

LEMMA FlagManager ==
  ASSUME TypeOK, NEW n \in Nodes, FlagInv(n),
         \/ StepSet(n) \/ StepFails(n) \/ Stop(n) \/ StopSeen(n) \/ Release(n)
         \/ ReleaseFails(n) \/ Resign(n) \/ Die(n) \/ Work(n)
  PROVE  FlagInv(n)'
  <1> USE BoundFacts, NodeTypes DEF FlagInv, At, Calling
  <1>1. CASE StepSet(n)
    <2>1. /\ step'[n] = NoStep /\ leader'[n] = step[n].ok /\ since'[n] = since[n]
          /\ since[n] = step[n].age
      BY <1>1 DEF StepSet, Finish, TypeOK
    <2>2. step[n].ok => local'[n] = Larger(TTL - step[n].age, Floor)
      BY <1>1 DEF StepSet, Estimate, TypeOK
    <2>3. step[n].ok => local'[n] \in Int /\ local'[n] + since'[n] > 0
      BY <2>1, <2>2 DEF Larger
    <2> QED BY <2>1, <2>3 DEF NoStep
  <1>2. CASE StepFails(n)
    <2>1. /\ step'[n] = NoStep /\ since'[n] = since[n] /\ local'[n] = local[n]
          /\ since[n] = step[n].age
      BY <1>2 DEF StepFails, Finish, TypeOK
    <2>2. leader'[n] => local[n] + step[n].age > 0
      BY <1>2 DEF StepFails, Stays, TypeOK
    <2> QED BY <2>1, <2>2 DEF NoStep
  <1>3. CASE Stop(n)
    BY <1>3 DEF Stop, TypeOK
  <1>4. CASE StopSeen(n)
    <2>1. /\ step'[n].at = IF leader[n] THEN "release" ELSE "over"
          /\ step'[n].age = step[n].age
          /\ UNCHANGED <<life, leader, local, since>>
          /\ life[n] = "stopping" /\ step[n].at = "idle"
      BY <1>4 DEF StopSeen, Goto, TypeOK
    <2> QED BY <2>1
  <1>5. CASE Release(n) \/ ReleaseFails(n)
    <2>1. /\ step'[n].at = "resign" /\ step'[n].age = step[n].age
          /\ UNCHANGED <<life, leader, local, since>> /\ step[n].at = "release"
      BY <1>5 DEF Release, ReleaseFails, Goto, TypeOK
    <2> QED BY <2>1
  <1>6. CASE Resign(n)
    <2>1. /\ step'[n].at = "over" /\ leader'[n] = FALSE /\ life' = life
          /\ step[n].at = "resign"
      BY <1>6 DEF Resign, NoStep, TypeOK
    <2> QED BY <2>1
  <1>7. CASE Die(n)
    <2>1. step'[n].at = "idle" /\ leader'[n] = FALSE
      BY <1>7 DEF Die, NoStep, TypeOK
    <2> QED BY <2>1
  <1>8. CASE Work(n)
    BY <1>8 DEF Work, TaskRuns, TaskReturns
  <1> QED BY <1>1, <1>2, <1>3, <1>4, <1>5, <1>6, <1>7, <1>8

LEMMA FlagTick ==
  ASSUME TypeOK, NEW n \in Nodes, FlagInv(n), Tick
  PROVE  FlagInv(n)'
  <1> USE BoundFacts, NodeTypes DEF FlagInv, At, Calling
  <1>1. /\ local'[n] = Past(local[n]) /\ life' = life /\ leader' = leader
        /\ step'[n].at = step[n].at
        /\ step[n].at \notin {"idle", "over"} =>
             step'[n].age = step[n].age + 1 /\ step[n].age < MaxHang
        /\ step[n].at \in {"idle", "over"} => step'[n].age = step[n].age
    BY DEF Tick, TypeOK, Waiting
  <1>2. since[n] < Larger(RenewEvery, MaxHang) => since'[n] = since[n] + 1
    BY DEF Tick, TypeOK
  <1>3. step[n].at = "idle" /\ life[n] \in {"up", "stopping"} =>
          since[n] < RenewEvery
    BY DEF Tick, Urgent
  <1>4. /\ Larger(RenewEvery, MaxHang) >= RenewEvery
        /\ Larger(RenewEvery, MaxHang) >= MaxHang
        /\ Larger(RenewEvery, MaxHang) \in Int
    BY LargerFacts
  <1>5. local[n] > Floor => Past(local[n]) = local[n] - 1
    BY PastFacts
  <1>6. (step[n].at \in Calling => since[n] = step[n].age)'
    BY <1>1, <1>2, <1>4
  <1>7. ASSUME life[n] \in {"up", "stopping"}, leader[n], At(n, "idle")
        PROVE  (local[n] + since[n] > 0)'
    BY <1>1, <1>2, <1>3, <1>4, <1>5, <1>7
  <1>8. ASSUME life[n] \in {"up", "stopping"}, leader[n], ~At(n, "idle")
        PROVE  (local[n] + step[n].age > -(RenewEvery + MaxHang))'
    BY <1>1, <1>5, <1>8
  <1> QED BY <1>1, <1>6, <1>7, <1>8

LEMMA StaleStep == StaleInv /\ [Next]_vars => StaleInv'
  <1> SUFFICES ASSUME StaleInv, [Next]_vars PROVE StaleInv'
    OBVIOUS
  <1>1. TypeOK /\ TypeOK'
    BY TypeStep DEF StaleInv
  <1>2. CASE Tick
    BY <1>1, <1>2, FlagTick DEF StaleInv
  <1>3. ASSUME NEW n \in Nodes, Election(n) \/ Stop(n) \/ Die(n) \/ Work(n),
               NEW m \in Nodes
        PROVE  FlagInv(m)'
    <2>1. FlagInv(m)
      BY DEF StaleInv
    <2>2. CASE m = n
      BY <1>1, <1>3, <2>1, <2>2, FlagCall, FlagManager DEF Election
    <2>3. CASE m # n
      <3>1. /\ life'[m] = life[m] /\ leader'[m] = leader[m]
            /\ local'[m] = local[m] /\ step'[m] = step[m] /\ since'[m] = since[m]
        BY <1>1, <1>3, <2>3, LeaseFrame, SinceFrame
      <3> QED BY <2>1, <3>1 DEF FlagInv, At
    <2> QED BY <2>2, <2>3
  <1>4. CASE UNCHANGED vars
    BY <1>1, <1>4 DEF vars, StaleInv, FlagInv, At
  <1> QED BY <1>1, <1>2, <1>3, <1>4 DEF Next, StaleInv

\* A replica that has lost the database, or hears from it late, lowers its flag
\* within a ticker period and two hanging calls of its estimate's end
\* (LeaderManager.step), whatever the TTL and however long calls hang.
THEOREM StaleLeaderCorrect == Spec => []StaleLeaderBounded
<1>1. Init => StaleInv
  BY TypeInit DEF Init, StaleInv, FlagInv, NoStep, At, Calling
<1>2. StaleInv => StaleLeaderBounded
  <2> SUFFICES ASSUME StaleInv, NEW n \in Nodes,
                      life[n] \in {"up", "stopping"}, leader[n]
               PROVE  local[n] > -Overhang
    BY DEF StaleLeaderBounded
  <2>1. TypeOK /\ FlagInv(n)
    BY DEF StaleInv
  <2> QED BY <2>1, BoundFacts, NodeTypes DEF FlagInv
<1> QED BY <1>1, <1>2, StaleStep, PTL DEF Spec
=============================================================================
