------------------------- MODULE BillingOutboxProofs -------------------------
(***************************************************************************)
(* The outbox for any number of replicas, rows, crashes and failed closing *)
(* updates and any lease that covers a batch: exclusive claims, true       *)
(* records, bounded attempts, the promise of ParkedCall, and retries that  *)
(* end before the hold does.                                               *)
(***************************************************************************)
EXTENDS BillingOutbox, FiniteSetTheorems, WellFoundedInduction, TLAPS

\* What a replica holds is marked as claimed, and the rows of its batch have
\* used at most the time of the calls it has already made.
HeldLease ==
  \A w \in Workers : \A e \in batch[w] :
    /\ status[e] = "processing"
    /\ age[e] + Cardinality(batch[w]) * CallTimeout <= Limit * CallTimeout + busy[w]

OwnerTypes ==
  /\ batch \in [Workers -> SUBSET Entries]
  /\ busy \in [Workers -> 0 .. CallTimeout]
  /\ age \in [Entries -> Nat]
  /\ status \in [Entries -> {"absent", "pending", "processing", "done", "failed"}]

OwnerInv == OwnerTypes /\ HeldLease /\ OneOwner

\* The arithmetic of a batch: c calls of at most d each.
LEMMA CallTime ==
  ASSUME NEW c \in Nat, NEW d \in Nat, NEW l \in Nat
  PROVE  /\ c * d \in Nat
         /\ c >= 1 => (c - 1) * d = c * d - d
         /\ c >= 1 => c * d >= d
         /\ c <= l => c * d <= l * d
<1>1. c * d \in Nat /\ l * d \in Nat
  OBVIOUS
<1>2. ASSUME c >= 1 PROVE (c - 1) * d = c * d - d /\ c * d >= d
  BY <1>2
<1>3. ASSUME c <= l PROVE c * d <= l * d
  <2>1. PICK k \in Nat : l = c + k
    BY <1>3
  <2>2. l * d = c * d + k * d /\ k * d \in Nat
    BY <2>1
  <2> QED BY <2>2, <1>1
<1> QED BY <1>1, <1>2, <1>3

\* A batch is a finite set of rows.
LEMMA BatchSize ==
  ASSUME NEW S \in SUBSET Entries
  PROVE  /\ IsFiniteSet(S) /\ Cardinality(S) \in Nat
         /\ \A e \in S : Cardinality(S) >= 1 /\ Cardinality(S \ {e}) = Cardinality(S) - 1
<1>1. IsFiniteSet(S) /\ Cardinality(S) \in Nat
  BY FS_Subset, FS_CardinalityType, OutboxAssumption
<1>2. ASSUME NEW e \in S
      PROVE Cardinality(S) >= 1 /\ Cardinality(S \ {e}) = Cardinality(S) - 1
  <2>1. IsFiniteSet(S \ {e}) /\ Cardinality(S \ {e}) = Cardinality(S) - 1
    BY <1>1, FS_RemoveElement
  <2>2. Cardinality(S \ {e}) \in Nat
    BY <2>1, FS_CardinalityType
  <2> QED BY <1>1, <2>1, <2>2
<1> QED BY <1>1, <1>2

\* A live replica's claim has not expired.
LEMMA LeaseAlive ==
  ASSUME OwnerInv, NEW w \in Workers, NEW e \in batch[w]
  PROVE  status[e] = "processing" /\ age[e] < Lease
<1> DEFINE c == Cardinality(batch[w])
<1>1. batch[w] \in SUBSET Entries /\ busy[w] \in 0 .. CallTimeout /\ e \in Entries /\ age[e] \in Nat
  BY DEF OwnerInv, OwnerTypes
<1>2. c \in Nat /\ c >= 1
  BY <1>1, BatchSize
<1>3. CallTimeout \in Nat /\ Limit \in Nat /\ Lease \in Nat
  BY OutboxAssumption
<1>4. c * CallTimeout \in Nat /\ c * CallTimeout >= CallTimeout /\ Limit * CallTimeout \in Nat
  BY <1>2, <1>3, CallTime
<1>5. status[e] = "processing" /\ age[e] + c * CallTimeout <= Limit * CallTimeout + busy[w]
  BY DEF OwnerInv, HeldLease
<1>6. busy[w] \in Nat /\ busy[w] <= CallTimeout
  BY <1>1, <1>3
<1> HIDE DEF c
<1>7. age[e] <= Limit * CallTimeout
  BY <1>1, <1>3, <1>4, <1>5, <1>6
<1> QED BY <1>1, <1>3, <1>4, <1>5, <1>7, LeaseCoversBatch

\* Claiming takes no row from a live replica and starts a fresh lease.
LEMMA ClaimOwner ==
  ASSUME OwnerInv, NEW w \in Workers, NEW table \in Tables, Claim(w, table)
  PROVE  OwnerInv'
<1>1. PICK S \in Claimable(table) \ {{}} :
        /\ batch' = [batch EXCEPT ![w] = S]
        /\ status' = [e \in Entries |-> IF e \in S THEN "processing" ELSE status[e]]
        /\ age' = [e \in Entries |-> IF e \in S THEN 0 ELSE age[e]]
  BY DEF Claim
<1>2. S \in SUBSET Due(table) /\ S \in SUBSET Entries /\ Cardinality(S) <= Limit
  <2>1. table \subseteq Entries
    BY OutboxAssumption DEF Tables
  <2>2. S \subseteq Due(table) /\ S \subseteq Entries
    BY <1>1, <2>1 DEF Claimable, Due
  <2>3. Cardinality(S) = Limit \/ Cardinality(S) <= Limit
    BY <1>1 DEF Claimable
  <2>4. Limit \in Nat
    BY OutboxAssumption
  <2> QED BY <2>2, <2>3, <2>4
<1>3. busy' = [busy EXCEPT ![w] = 0]
  BY DEF Claim
<1>4. OwnerTypes'
  <2>1. CallTimeout \in Nat
    BY OutboxAssumption
  <2> QED BY <1>1, <1>2, <1>3, <2>1 DEF OwnerInv, OwnerTypes
<1>5. ASSUME NEW v \in Workers, NEW e \in batch[v]
      PROVE e \notin S
  <2>1. status[e] = "processing" /\ age[e] < Lease
    BY <1>5, LeaseAlive
  <2>2. ASSUME e \in S PROVE FALSE
    <3>1. status[e] # "pending" /\ (status[e] = "processing" => age[e] >= Lease)
      BY <1>2, <2>1, <2>2 DEF Due
    <3>2. age[e] \in Nat /\ Lease \in Nat
      BY <1>2, <2>2, OutboxAssumption DEF OwnerInv, OwnerTypes
    <3> QED BY <2>1, <3>1, <3>2
  <2> QED BY <2>2
<1>6. OneOwner'
  <2>1. \A v \in Workers : batch'[v] = IF v = w THEN S ELSE batch[v]
    BY <1>1 DEF OwnerInv, OwnerTypes
  <2> QED BY <1>5, <2>1 DEF OwnerInv, OneOwner
<1>7. HeldLease'
  <2> SUFFICES ASSUME NEW v \in Workers, NEW e \in batch'[v]
               PROVE /\ status'[e] = "processing"
                     /\ age'[e] + Cardinality(batch'[v]) * CallTimeout
                          <= Limit * CallTimeout + busy'[v]
    BY DEF HeldLease
  <2>1. CASE v = w
    <3>1. batch'[v] = S /\ busy'[v] = 0 /\ age'[e] = 0 /\ status'[e] = "processing"
      BY <1>1, <1>2, <1>3, <2>1 DEF OwnerInv, OwnerTypes
    <3>2. Cardinality(S) \in Nat /\ CallTimeout \in Nat /\ Limit \in Nat
      BY <1>2, BatchSize, OutboxAssumption
    <3>3. Cardinality(S) * CallTimeout <= Limit * CallTimeout
          /\ Cardinality(S) * CallTimeout \in Nat /\ Limit * CallTimeout \in Nat
      BY <1>2, <3>2, CallTime
    <3> QED BY <3>1, <3>3
  <2>2. CASE v # w
    <3>1. batch'[v] = batch[v] /\ busy'[v] = busy[v]
      BY <1>1, <1>3, <2>2 DEF OwnerInv, OwnerTypes
    <3>2. e \in batch[v] /\ e \in Entries /\ e \notin S
      BY <3>1, <1>5 DEF OwnerInv, OwnerTypes
    <3>3. age'[e] = age[e] /\ status'[e] = status[e]
      BY <1>1, <3>2
    <3> QED BY <3>1, <3>2, <3>3 DEF OwnerInv, HeldLease
  <2> QED BY <2>1, <2>2
<1> QED BY <1>4, <1>6, <1>7 DEF OwnerInv

\* Finishing a row gives its time back to the rest of the batch.
LEMMA RecordOwner ==
  ASSUME OwnerInv, NEW w \in Workers, NEW e \in Entries,
         Record(w, e) \/ RecordFails(w, e)
  PROVE  OwnerInv'
<1>1. /\ e \in batch[w]
      /\ batch' = [batch EXCEPT ![w] = @ \ {e}]
      /\ busy' = [busy EXCEPT ![w] = 0]
  BY DEF Record, RecordFails, PutDown
<1>2. /\ age' \in [Entries -> Nat]
      /\ status' \in [Entries -> {"absent", "pending", "processing", "done", "failed"}]
      /\ \A f \in Entries \ {e} : age'[f] = age[f] /\ status'[f] = status[f]
  BY DEF Record, RecordFails, rowVars, Outcome, OwnerInv, OwnerTypes
<1>3. OwnerTypes'
  <2>1. CallTimeout \in Nat
    BY OutboxAssumption
  <2> QED BY <1>1, <1>2, <2>1 DEF OwnerInv, OwnerTypes
<1>4. \A v \in Workers : batch'[v] = IF v = w THEN batch[w] \ {e} ELSE batch[v]
  BY <1>1 DEF OwnerInv, OwnerTypes
<1>5. OneOwner'
  BY <1>4 DEF OwnerInv, OneOwner
<1>6. HeldLease'
  <2> SUFFICES ASSUME NEW v \in Workers, NEW f \in batch'[v]
               PROVE /\ status'[f] = "processing"
                     /\ age'[f] + Cardinality(batch'[v]) * CallTimeout
                          <= Limit * CallTimeout + busy'[v]
    BY DEF HeldLease
  <2>1. f \in batch[v] /\ f # e /\ f \in Entries
    BY <1>1, <1>4 DEF OwnerInv, OwnerTypes, OneOwner
  <2>2. age'[f] = age[f] /\ status'[f] = status[f] /\ age[f] \in Nat
    BY <1>2, <2>1 DEF OwnerInv, OwnerTypes
  <2>3. status[f] = "processing"
        /\ age[f] + Cardinality(batch[v]) * CallTimeout <= Limit * CallTimeout + busy[v]
    BY <2>1 DEF OwnerInv, HeldLease
  <2>4. CASE v = w
    <3> DEFINE c == Cardinality(batch[w])
               p == c * CallTimeout
               q == Limit * CallTimeout
    <3>1. c \in Nat /\ c >= 1 /\ Cardinality(batch'[v]) = c - 1
      BY <1>1, <1>4, <2>4, BatchSize DEF OwnerInv, OwnerTypes
    <3>2. CallTimeout \in Nat /\ Limit \in Nat
      BY OutboxAssumption
    <3>3. (c - 1) * CallTimeout = p - CallTimeout /\ p \in Nat /\ q \in Nat
      BY <3>1, <3>2, CallTime
    <3>4. busy[v] \in Nat /\ busy[v] <= CallTimeout /\ busy'[v] = 0
      BY <1>1, <2>4, <3>2 DEF OwnerInv, OwnerTypes
    <3>5. age[f] + p <= q + busy[v]
      BY <2>3, <2>4
    <3> HIDE DEF p, q, c
    <3>6. age[f] + (p - CallTimeout) <= q + 0
      BY <2>2, <3>2, <3>3, <3>4, <3>5
    <3> QED BY <2>2, <2>3, <3>1, <3>3, <3>4, <3>6 DEF q
  <2>5. CASE v # w
    <3>1. batch'[v] = batch[v] /\ busy'[v] = busy[v]
      BY <1>1, <1>4, <2>5 DEF OwnerInv, OwnerTypes
    <3> QED BY <2>2, <2>3, <3>1
  <2> QED BY <2>4, <2>5
<1> QED BY <1>3, <1>5, <1>6 DEF OwnerInv

\* Time ages a claim no faster than its owner's current call.
LEMMA TickOwner ==
  ASSUME OwnerInv, Tick
  PROVE  OwnerInv'
<1>1. /\ batch' = batch /\ status' = status
      /\ \A w \in Workers : batch[w] # {} => busy[w] < CallTimeout /\ busy'[w] = busy[w] + 1
      /\ \A w \in Workers : batch[w] = {} => busy'[w] = busy[w]
      /\ busy' = [w \in Workers |-> IF batch[w] # {} THEN busy[w] + 1 ELSE busy[w]]
  BY DEF Tick
<1>2. /\ age' \in [Entries -> Nat]
      /\ \A e \in Entries : age'[e] <= age[e] + 1
  <2>1. age' = [e \in Entries |->
          IF status[e] = "processing" /\ age[e] < Lease + Poll THEN age[e] + 1 ELSE age[e]]
    BY DEF Tick
  <2> QED BY <2>1 DEF OwnerInv, OwnerTypes
<1>3. OwnerTypes'
  <2>1. CallTimeout \in Nat
    BY OutboxAssumption
  <2>2. busy' \in [Workers -> 0 .. CallTimeout]
    BY <1>1, <2>1 DEF OwnerInv, OwnerTypes
  <2> QED BY <1>1, <1>2, <2>2 DEF OwnerInv, OwnerTypes
<1>4. OneOwner'
  BY <1>1 DEF OwnerInv, OneOwner
<1>5. HeldLease'
  <2> SUFFICES ASSUME NEW w \in Workers, NEW e \in batch[w]
               PROVE /\ status[e] = "processing"
                     /\ age'[e] + Cardinality(batch[w]) * CallTimeout
                          <= Limit * CallTimeout + busy'[w]
    BY <1>1 DEF HeldLease
  <2> DEFINE p == Cardinality(batch[w]) * CallTimeout
             q == Limit * CallTimeout
  <2>1. status[e] = "processing" /\ age[e] + p <= q + busy[w]
    BY DEF OwnerInv, HeldLease
  <2>2. busy'[w] = busy[w] + 1 /\ busy[w] \in Nat
    BY <1>1, OutboxAssumption DEF OwnerInv, OwnerTypes
  <2>3. age'[e] <= age[e] + 1 /\ age[e] \in Nat /\ age'[e] \in Nat
    BY <1>2 DEF OwnerInv, OwnerTypes
  <2>4. p \in Nat /\ q \in Nat
    BY BatchSize, CallTime, OutboxAssumption DEF OwnerInv, OwnerTypes
  <2> HIDE DEF p, q
  <2>5. age'[e] + p <= q + busy'[w]
    BY <2>1, <2>2, <2>3, <2>4
  <2> QED BY <2>1, <2>5 DEF p, q
<1> QED BY <1>3, <1>4, <1>5 DEF OwnerInv

\* A crash only lets go of rows.
LEMMA CrashOwner ==
  ASSUME OwnerInv, NEW w \in Workers, Crash(w)
  PROVE  OwnerInv'
<1>1. /\ batch' = [batch EXCEPT ![w] = {}] /\ busy' = [busy EXCEPT ![w] = 0]
      /\ age' = age /\ status' = status
  BY DEF Crash, rowVars
<1>2. CallTimeout \in Nat
  BY OutboxAssumption
<1>3. OwnerTypes' /\ OneOwner'
  BY <1>1, <1>2 DEF OwnerInv, OwnerTypes, OneOwner
<1>4. HeldLease'
  BY <1>1 DEF OwnerInv, OwnerTypes, HeldLease
<1> QED BY <1>3, <1>4 DEF OwnerInv

\* The invariant of every step.
LEMMA OwnerStep == OwnerInv /\ [Next]_vars => OwnerInv'
<1> SUFFICES ASSUME OwnerInv, [Next]_vars PROVE OwnerInv'
  OBVIOUS
<1>1. ASSUME UNCHANGED <<batch, busy, age, status>> PROVE OwnerInv'
  BY <1>1 DEF OwnerInv, OwnerTypes, HeldLease, OneOwner
<1>2. ASSUME NEW e \in Entries, Park(e) PROVE OwnerInv'
  <2>1. /\ status' = [status EXCEPT ![e] = "pending"] /\ status[e] = "absent"
        /\ batch' = batch /\ busy' = busy /\ age' = age
    BY <1>2 DEF Park, workerVars
  <2>2. OwnerTypes' /\ OneOwner'
    BY <2>1 DEF OwnerInv, OwnerTypes, OneOwner
  <2>3. \A w \in Workers : e \notin batch[w]
    BY <2>1 DEF OwnerInv, HeldLease
  <2>4. HeldLease'
    BY <2>1, <2>3 DEF OwnerInv, OwnerTypes, HeldLease
  <2> QED BY <2>2, <2>4 DEF OwnerInv
<1>3. ASSUME NEW e \in Entries, LateDelivery(e) PROVE OwnerInv'
  BY <1>1, <1>3 DEF LateDelivery, rowVars, workerVars
<1>4. ASSUME NEW w \in Workers, NEW e \in Entries, Call(w, e) PROVE OwnerInv'
  BY <1>1, <1>4 DEF Call, rowVars
<1>5. ASSUME SetBillingUnifiedEnabled PROVE OwnerInv'
  BY <1>1, <1>5 DEF SetBillingUnifiedEnabled, rowVars, workerVars
<1>6. ASSUME UNCHANGED vars PROVE OwnerInv'
  BY <1>1, <1>6 DEF vars, rowVars, workerVars
<1> QED
  BY <1>2, <1>3, <1>4, <1>5, <1>6, ClaimOwner, RecordOwner, TickOwner, CrashOwner DEF Next

\* Two replicas never hold the same row: the durable claim of claimOutboxRows
\* excludes every other live replica for as long as its owner needs it.
THEOREM OneOwnerCorrect == Spec => []OneOwner
<1>1. Init => OwnerInv
  BY OutboxAssumption DEF Init, OwnerInv, OwnerTypes, HeldLease, OneOwner
<1>2. OwnerInv => OneOwner
  BY DEF OwnerInv
<1> QED BY <1>1, <1>2, OwnerStep, PTL DEF Spec

-----------------------------------------------------------------------------
\* What the hub has written down about a call agrees with the platform.

\* A hold closed by other means than the row's own call.
Refused(e) == platform[e] \notin {"active", Closed(e)}

RecordTypes ==
  /\ platform \in [Entries -> {"active", "settled", "released", "expired"}]
  /\ answer \in [Workers -> [Entries -> Answers]]
  /\ status \in [Entries -> {"absent", "pending", "processing", "done", "failed"}]
  /\ lost \subseteq Settles

RecordInv ==
  /\ RecordTypes
  /\ \A w \in Workers, e \in Entries :
       /\ answer[w][e] = "ok" => platform[e] = Closed(e)
       /\ answer[w][e] = "futile" => Refused(e)
  /\ \A e \in Entries : status[e] = "done" => platform[e] = Closed(e)
  /\ \A e \in lost : Refused(e)

\* The platform's side only moves out of "active".
Settled(e) == platform[e] # "active" => platform'[e] = platform[e]

\* Whatever only moves the platform keeps the invariant.
LEMMA PlatformMoves ==
  ASSUME RecordInv, platform' \in [Entries -> {"active", "settled", "released", "expired"}],
         \A e \in Entries : Settled(e), UNCHANGED <<answer, status, lost>>
  PROVE  RecordInv'
<1>1. \A e \in Entries : Closed(e) \in {"settled", "released"}
  BY DEF Closed
<1>2. RecordTypes'
  BY DEF RecordInv, RecordTypes
<1>3. \A e \in Entries : Refused(e) => Refused(e)'
  BY DEF Refused, Settled, Closed
<1>4. \A e \in Entries : platform[e] = Closed(e) => platform'[e] = Closed(e)
  BY <1>1 DEF Settled
<1>5. \A e \in Entries : Closed(e)' = Closed(e)
  BY DEF Closed
<1>6. lost \subseteq Entries
  BY OutboxAssumption DEF RecordInv, RecordTypes
<1> QED BY <1>2, <1>3, <1>4, <1>5, <1>6 DEF RecordInv

\* An answer reports what the platform did.
LEMMA CallRecord ==
  ASSUME RecordInv, NEW w \in Workers, NEW e \in Entries, Call(w, e)
  PROVE  RecordInv'
<1>1. status' = status /\ lost' = lost
  BY DEF Call, rowVars
<1>2. \A f \in Entries : Closed(f) \in {"settled", "released"} /\ Closed(f)' = Closed(f)
  BY DEF Closed
<1>3. PICK a \in Answers : answer' = [answer EXCEPT ![w][e] = a]
      /\ (a = "ok" => platform'[e] = Closed(e))
      /\ (a = "futile" => Refused(e) /\ platform'[e] = platform[e])
      /\ platform' \in [Entries -> {"active", "settled", "released", "expired"}]
      /\ \A f \in Entries : platform[f] # "active" => platform'[f] = platform[f]
  <2>1. CASE platform' = Applied(e) /\ answer' = [answer EXCEPT ![w][e] = Verdict(e)]
    <3>1. platform' = [platform EXCEPT ![e] =
                         IF platform[e] = "active" THEN Closed(e) ELSE platform[e]]
      BY <2>1 DEF Applied
    <3>2. Verdict(e) \in Answers
      BY DEF Verdict, Answers
    <3>3. Verdict(e) = "ok" => platform'[e] = Closed(e)
      BY <3>1 DEF Verdict, RecordInv, RecordTypes
    <3>4. Verdict(e) = "futile" => Refused(e) /\ platform'[e] = platform[e]
      BY <3>1 DEF Verdict, Refused, RecordInv, RecordTypes
    <3>5. platform' \in [Entries -> {"active", "settled", "released", "expired"}]
      BY <1>2, <3>1 DEF RecordInv, RecordTypes
    <3>6. \A f \in Entries : platform[f] # "active" => platform'[f] = platform[f]
      BY <3>1 DEF RecordInv, RecordTypes
    <3> QED BY <2>1, <3>2, <3>3, <3>4, <3>5, <3>6
  <2>2. CASE platform' = platform /\ answer' = [answer EXCEPT ![w][e] = "error"]
    BY <2>2 DEF Answers, RecordInv, RecordTypes
  <2> QED BY <2>1, <2>2 DEF Call
<1>4. RecordTypes'
  BY <1>1, <1>3 DEF RecordInv, RecordTypes
<1>5. \A f \in Entries : /\ Refused(f) => Refused(f)'
                         /\ platform[f] = Closed(f) => platform'[f] = Closed(f)
  BY <1>2, <1>3 DEF Refused
<1>6. \A v \in Workers, f \in Entries :
        answer'[v][f] = IF v = w /\ f = e THEN a ELSE answer[v][f]
  BY <1>3 DEF RecordInv, RecordTypes
<1>7. lost \subseteq Entries
  BY OutboxAssumption DEF RecordInv, RecordTypes
<1>8. \A v \in Workers, f \in Entries :
        /\ answer'[v][f] = "ok" => platform'[f] = Closed(f)
        /\ answer'[v][f] = "futile" => Refused(f)'
  BY <1>3, <1>5, <1>6 DEF RecordInv
<1> QED BY <1>1, <1>2, <1>4, <1>5, <1>7, <1>8 DEF RecordInv

\* The closing update writes the answer down.
LEMMA RecordRecord ==
  ASSUME RecordInv, NEW w \in Workers, NEW e \in Entries,
         Record(w, e) \/ RecordFails(w, e)
  PROVE  RecordInv'
<1>1. /\ answer' = [answer EXCEPT ![w][e] = "none"] /\ platform' = platform
      /\ lost' = IF NoteMoneyLost(e, answer[w][e]) THEN lost \cup {e} ELSE lost
  BY DEF Record, RecordFails, PutDown
<1>2. /\ status' \in [Entries -> {"absent", "pending", "processing", "done", "failed"}]
      /\ \A f \in Entries : status'[f] = "done" =>
           status[f] = "done" \/ (f = e /\ answer[w][e] = "ok")
  BY DEF Record, RecordFails, rowVars, Outcome, RecordInv, RecordTypes
<1>3. lost' \subseteq Settles /\ \A f \in lost' : f \in lost \/ (f = e /\ answer[w][e] = "futile")
  BY <1>1 DEF NoteMoneyLost, RecordInv, RecordTypes
<1>4. RecordTypes'
  BY <1>1, <1>2, <1>3 DEF RecordInv, RecordTypes, Answers
<1>5. \A f \in Entries : Closed(f)' = Closed(f) /\ Refused(f)' = Refused(f)
  BY <1>1 DEF Closed, Refused
<1>6. \A v \in Workers, f \in Entries : answer'[v][f] \in {"none", answer[v][f]}
  BY <1>1 DEF RecordInv, RecordTypes
<1>7. lost' \subseteq Entries
  BY <1>3, OutboxAssumption
<1>8. \A v \in Workers, f \in Entries :
        /\ answer'[v][f] = "ok" => platform'[f] = Closed(f)
        /\ answer'[v][f] = "futile" => Refused(f)'
  BY <1>1, <1>5, <1>6 DEF RecordInv
<1>9. \A f \in Entries : status'[f] = "done" => platform'[f] = Closed(f)
  BY <1>1, <1>2 DEF RecordInv
<1>10. \A f \in lost' : Refused(f)'
  BY <1>3, <1>5, <1>7 DEF RecordInv
<1> QED BY <1>4, <1>5, <1>8, <1>9, <1>10 DEF RecordInv

\* The remaining steps leave answers and finished rows alone.
LEMMA RecordStep == RecordInv /\ [Next]_vars => RecordInv'
<1> SUFFICES ASSUME RecordInv, [Next]_vars PROVE RecordInv'
  OBVIOUS
<1>1. ASSUME UNCHANGED <<platform, answer, status, lost>> PROVE RecordInv'
  BY <1>1 DEF RecordInv, RecordTypes, Refused, Closed
<1>2. ASSUME NEW e \in Entries, LateDelivery(e) PROVE RecordInv'
  <2>1. platform' = Applied(e) /\ UNCHANGED <<answer, status, lost>>
    BY <1>2 DEF LateDelivery, rowVars, workerVars
  <2>2. platform' \in [Entries -> {"active", "settled", "released", "expired"}]
    BY <2>1 DEF Applied, Closed, RecordInv, RecordTypes
  <2>3. \A f \in Entries : Settled(f)
    BY <2>1 DEF Applied, Settled, RecordInv, RecordTypes
  <2> QED BY <2>1, <2>2, <2>3, PlatformMoves
<1>3. ASSUME Tick PROVE RecordInv'
  <2>1. UNCHANGED <<answer, status, lost>>
    BY <1>3 DEF Tick
  <2>2. platform' = [e \in Entries |->
          IF platform[e] = "active" /\ e \notin Debits /\ ttl[e] <= 1
          THEN "expired" ELSE platform[e]]
    BY <1>3 DEF Tick
  <2>3. platform' \in [Entries -> {"active", "settled", "released", "expired"}]
    BY <2>2 DEF RecordInv, RecordTypes
  <2>4. \A f \in Entries : Settled(f)
    BY <2>2 DEF Settled
  <2> QED BY <2>1, <2>3, <2>4, PlatformMoves
<1>4. ASSUME UNCHANGED <<platform, lost>>,
             status' \in [Entries -> {"absent", "pending", "processing", "done", "failed"}],
             answer' \in [Workers -> [Entries -> Answers]],
             \A e \in Entries : status'[e] = "done" => status[e] = "done",
             \A w \in Workers, e \in Entries : answer'[w][e] \in {"none", answer[w][e]}
      PROVE RecordInv'
  <2>1. \A f \in Entries : Closed(f)' = Closed(f) /\ Refused(f)' = Refused(f)
    BY <1>4 DEF Closed, Refused
  <2>2. RecordTypes'
    BY <1>4 DEF RecordInv, RecordTypes
  <2>3. \A v \in Workers, f \in Entries :
          /\ answer'[v][f] = "ok" => platform'[f] = Closed(f)
          /\ answer'[v][f] = "futile" => Refused(f)'
    BY <1>4, <2>1 DEF RecordInv
  <2>4. \A f \in Entries : status'[f] = "done" => platform'[f] = Closed(f)
    BY <1>4 DEF RecordInv
  <2>5. lost \subseteq Entries
    BY OutboxAssumption DEF RecordInv, RecordTypes
  <2>6. \A f \in lost' : Refused(f)'
    BY <1>4, <2>1, <2>5 DEF RecordInv
  <2> QED BY <2>1, <2>2, <2>3, <2>4, <2>6 DEF RecordInv
<1>5. ASSUME NEW e \in Entries, Park(e) PROVE RecordInv'
  BY <1>4, <1>5 DEF Park, workerVars, RecordInv, RecordTypes
<1>6. ASSUME NEW w \in Workers, NEW table \in Tables, Claim(w, table) PROVE RecordInv'
  BY <1>4, <1>6 DEF Claim, RecordInv, RecordTypes
<1>7. ASSUME NEW w \in Workers, Crash(w) PROVE RecordInv'
  <2>1. answer' = [answer EXCEPT ![w] = [e \in Entries |-> "none"]]
        /\ UNCHANGED <<platform, lost, status>>
    BY <1>7 DEF Crash, rowVars
  <2>2. answer' \in [Workers -> [Entries -> Answers]]
    BY <2>1 DEF RecordInv, RecordTypes, Answers
  <2>3. \A v \in Workers, f \in Entries : answer'[v][f] \in {"none", answer[v][f]}
    BY <2>1 DEF RecordInv, RecordTypes
  <2> QED BY <1>4, <2>1, <2>2, <2>3 DEF RecordInv, RecordTypes
<1>8. ASSUME SetBillingUnifiedEnabled PROVE RecordInv'
  BY <1>1, <1>8 DEF SetBillingUnifiedEnabled, rowVars, workerVars
<1>9. ASSUME UNCHANGED vars PROVE RecordInv'
  BY <1>1, <1>9 DEF vars, rowVars, workerVars
<1> QED
  BY <1>2, <1>3, <1>5, <1>6, <1>7, <1>8, <1>9, CallRecord, RecordRecord DEF Next

\* A row recorded as done has been carried out by the platform, and the money
\* lost alarm is raised only for settles the platform never collects, whatever
\* calls time out, arrive late or are repeated after a crash.
THEOREM RecordsTruthful == Spec => []RecordsTrue
<1>1. Init => RecordInv
  BY DEF Init, RecordInv, RecordTypes, Answers
<1>2. RecordInv => RecordsTrue
  <2> SUFFICES ASSUME RecordInv PROVE DoneMeansApplied /\ LostMeansUnbilled
    BY DEF RecordsTrue
  <2>1. DoneMeansApplied
    BY DEF RecordInv, DoneMeansApplied
  <2>2. \A e \in lost : Closed(e) = "settled"
    BY DEF RecordInv, RecordTypes, Closed
  <2>3. LostMeansUnbilled
    BY <2>2 DEF RecordInv, Refused, LostMeansUnbilled
  <2> QED BY <2>1, <2>3
<1> QED BY <1>1, <1>2, RecordStep, PTL DEF Spec

-----------------------------------------------------------------------------
\* How often a row is called.

Open == {"absent", "pending", "processing"}

AttemptTypes ==
  /\ retry \in [Entries -> Nat] /\ calls \in [Entries -> Nat] /\ crashes \in Nat
  /\ unwritten \in Nat
  /\ read \in [Workers -> [Entries -> Nat]]
  /\ answer \in [Workers -> [Entries -> Answers]]

\* No replica holds an answer for the row that it has not written down yet.
Unanswered(e) == \A w \in Workers : answer[w][e] = "none"

\* The rows of a batch were loaded with the count they still have; an open row has
\* an attempt left; and every call beyond the count was paid for by a crash, by a
\* failed closing update, or by the answer its owner is about to record.
AttemptInv ==
  /\ AttemptTypes
  /\ \A w \in Workers, e \in Entries :
       /\ answer[w][e] # "none" => e \in batch[w]
       /\ e \in batch[w] => read[w][e] = retry[e]
       /\ answer[w][e] # "none" => calls[e] <= retry[e] + 1 + Uncounted
  /\ \A e \in Entries :
       /\ status[e] \in Open => retry[e] < MaxRetries
       /\ status[e] \in Open /\ Unanswered(e) => calls[e] <= retry[e] + Uncounted
       /\ calls[e] <= MaxRetries + Uncounted

\* Steps that leave the counts, the answers and the batches alone.
LEMMA AttemptFrame ==
  ASSUME AttemptInv, UNCHANGED <<retry, calls, crashes, unwritten, read, answer, batch>>,
         \A e \in Entries : status'[e] \in Open => status[e] \in Open
  PROVE  AttemptInv'
  BY DEF AttemptInv, AttemptTypes, Unanswered, Uncounted

\* A claimed row has attempts left, and none of them is under way.
LEMMA ClaimAttempts ==
  ASSUME OwnerInv, AttemptInv, NEW w \in Workers, NEW table \in Tables, Claim(w, table)
  PROVE  AttemptInv'
<1> USE DEF Uncounted
<1>1. PICK S \in SUBSET Entries :
        /\ S \subseteq Due(table)
        /\ batch' = [batch EXCEPT ![w] = S]
        /\ read' = [read EXCEPT ![w] = [e \in Entries |-> IF e \in S THEN retry[e] ELSE 0]]
        /\ status' = [e \in Entries |-> IF e \in S THEN "processing" ELSE status[e]]
  BY OutboxAssumption DEF Claim, Claimable, Tables, Due
<1>2. UNCHANGED <<retry, calls, crashes, unwritten, answer>> /\ batch[w] = {}
  BY DEF Claim
<1>3. \A v \in Workers : batch'[v] = IF v = w THEN S ELSE batch[v]
  BY <1>1 DEF OwnerInv, OwnerTypes
<1>4. read' \in [Workers -> [Entries -> Nat]]
  BY <1>1 DEF AttemptInv, AttemptTypes
<1>5. \A v \in Workers, e \in Entries :
        read'[v][e] = IF v = w THEN IF e \in S THEN retry[e] ELSE 0 ELSE read[v][e]
  BY <1>1 DEF AttemptInv, AttemptTypes
<1>6. \A e \in Entries : status'[e] \in Open => status[e] \in Open
  BY <1>1 DEF Open, Due
<1>7. \A v \in Workers, e \in Entries :
       /\ answer[v][e] # "none" => e \in batch'[v]
       /\ e \in batch'[v] => read'[v][e] = retry[e]
  BY <1>2, <1>3, <1>5 DEF AttemptInv
<1> QED
  BY <1>2, <1>4, <1>6, <1>7 DEF AttemptInv, AttemptTypes, Unanswered

\* A call is the one attempt its claim allows.
LEMMA CallAttempts ==
  ASSUME OwnerInv, AttemptInv, NEW w \in Workers, NEW e \in Entries, Call(w, e)
  PROVE  AttemptInv'
<1> USE DEF Uncounted
<1>1. /\ e \in batch[w] /\ UNCHANGED <<retry, crashes, unwritten, read, batch, status>>
      /\ calls' = [calls EXCEPT ![e] = @ + 1]
  BY DEF Call, rowVars
<1>2. PICK a \in Answers \ {"none"} : answer' = [answer EXCEPT ![w][e] = a]
  BY DEF Call, Verdict, Answers
<1>3. \A v \in Workers, f \in Entries :
        answer'[v][f] = IF v = w /\ f = e THEN a ELSE answer[v][f]
  BY <1>2 DEF AttemptInv, AttemptTypes
<1>4. AttemptTypes'
  BY <1>1, <1>2 DEF AttemptInv, AttemptTypes
<1>5. Unanswered(e)
  BY <1>1 DEF Call, Unanswered, AttemptInv, OwnerInv, OneOwner
<1>6. status[e] \in Open /\ retry[e] < MaxRetries /\ calls[e] <= retry[e] + Uncounted
  BY <1>1, <1>5 DEF OwnerInv, HeldLease, AttemptInv, Open
<1>7. calls'[e] <= retry[e] + 1 + Uncounted /\ calls'[e] <= MaxRetries + Uncounted
  BY <1>1, <1>6, OutboxAssumption DEF AttemptInv, AttemptTypes
<1>8. \A f \in Entries : f # e => calls'[f] = calls[f] /\ (Unanswered(f)' => Unanswered(f))
  BY <1>1, <1>3 DEF AttemptInv, AttemptTypes, Unanswered
<1>9. ~Unanswered(e)'
  BY <1>3 DEF Unanswered
<1>10. \A v \in Workers, f \in Entries :
       /\ answer'[v][f] # "none" => f \in batch[v]
       /\ answer'[v][f] # "none" => calls'[f] <= retry[f] + 1 + Uncounted
  BY <1>1, <1>3, <1>7, <1>8 DEF AttemptInv
<1> QED
  BY <1>1, <1>4, <1>7, <1>8, <1>9, <1>10 DEF AttemptInv

\* The count written is the one read at the claim plus this attempt.
LEMMA RecordAttempts ==
  ASSUME OwnerInv, AttemptInv, NEW w \in Workers, NEW e \in Entries, Record(w, e)
  PROVE  AttemptInv'
<1> USE DEF Uncounted
<1> DEFINE n == IF answer[w][e] = "ok" THEN retry[e] ELSE retry[e] + 1
<1>1. /\ e \in batch[w] /\ answer[w][e] # "none" /\ UNCHANGED <<calls, crashes, unwritten>>
      /\ batch' = [batch EXCEPT ![w] = @ \ {e}]
      /\ read' = [read EXCEPT ![w][e] = 0]
      /\ answer' = [answer EXCEPT ![w][e] = "none"]
  BY DEF Record, PutDown
<1>2. /\ status[e] = "processing" /\ read[w][e] = retry[e] /\ retry[e] \in Nat
      /\ retry[e] < MaxRetries /\ calls[e] <= retry[e] + 1 + Uncounted
  BY <1>1 DEF OwnerInv, HeldLease, AttemptInv, AttemptTypes, Open
<1>3. /\ retry' = [retry EXCEPT ![e] = n]
      /\ status' = [status EXCEPT ![e] = Outcome(answer[w][e], n)]
  BY <1>2 DEF Record
<1>4. n \in Nat
  BY <1>2
<1>5. Outcome(answer[w][e], n) \in Open =>
        n < MaxRetries /\ calls[e] <= n + Uncounted
  BY <1>2, OutboxAssumption DEF Outcome, Open, AttemptInv, AttemptTypes
<1> HIDE DEF n
<1>6. AttemptTypes'
  BY <1>1, <1>3, <1>4 DEF AttemptInv, AttemptTypes, Answers
<1>7. \A v \in Workers : batch'[v] = IF v = w THEN batch[w] \ {e} ELSE batch[v]
  BY <1>1 DEF OwnerInv, OwnerTypes
<1>8. \A v \in Workers, f \in Entries :
        /\ answer'[v][f] = IF v = w /\ f = e THEN "none" ELSE answer[v][f]
        /\ read'[v][f] = IF v = w /\ f = e THEN 0 ELSE read[v][f]
  BY <1>1 DEF AttemptInv, AttemptTypes
<1>9. \A v \in Workers : v # w => e \notin batch[v] /\ answer[v][e] = "none"
  BY <1>1 DEF OwnerInv, OneOwner, AttemptInv
<1>10. \A f \in Entries : f # e =>
        /\ retry'[f] = retry[f] /\ status'[f] = status[f]
        /\ Unanswered(f)' => Unanswered(f)
  BY <1>3, <1>8 DEF AttemptInv, AttemptTypes, OwnerInv, OwnerTypes, Unanswered
<1>11. \A v \in Workers, f \in Entries :
       /\ answer'[v][f] # "none" => f \in batch'[v]
       /\ f \in batch'[v] => read'[v][f] = retry'[f]
       /\ answer'[v][f] # "none" => calls[f] <= retry'[f] + 1 + Uncounted
  BY <1>7, <1>8, <1>9, <1>10 DEF AttemptInv
<1>12. retry'[e] = n /\ status'[e] = Outcome(answer[w][e], n)
  BY <1>3 DEF AttemptInv, AttemptTypes, OwnerInv, OwnerTypes
<1>13. \A f \in Entries :
       /\ status'[f] \in Open => retry'[f] < MaxRetries
       /\ status'[f] \in Open /\ Unanswered(f)' => calls[f] <= retry'[f] + Uncounted
  BY <1>5, <1>10, <1>12 DEF AttemptInv
<1> QED
  BY <1>1, <1>6, <1>11, <1>13 DEF AttemptInv

\* A closing update that fails loses the answer of the one call it was about.
LEMMA RecordFailsAttempts ==
  ASSUME OwnerInv, AttemptInv, NEW w \in Workers, NEW e \in Entries, RecordFails(w, e)
  PROVE  AttemptInv'
<1> USE DEF Uncounted
<1>1. /\ UNCHANGED <<retry, calls, status, crashes>> /\ unwritten' = unwritten + 1
      /\ batch' = [batch EXCEPT ![w] = @ \ {e}]
      /\ read' = [read EXCEPT ![w][e] = 0]
      /\ answer' = [answer EXCEPT ![w][e] = "none"]
  BY DEF RecordFails, PutDown, rowVars
<1>2. AttemptTypes'
  BY <1>1 DEF AttemptInv, AttemptTypes, Answers
<1>3. \A v \in Workers : batch'[v] = IF v = w THEN batch[w] \ {e} ELSE batch[v]
  BY <1>1 DEF OwnerInv, OwnerTypes
<1>4. \A v \in Workers, f \in Entries :
        /\ answer'[v][f] = IF v = w /\ f = e THEN "none" ELSE answer[v][f]
        /\ read'[v][f] = IF v = w /\ f = e THEN 0 ELSE read[v][f]
  BY <1>1 DEF AttemptInv, AttemptTypes
<1>5. \A v \in Workers, f \in Entries :
       /\ answer'[v][f] # "none" => f \in batch'[v]
       /\ f \in batch'[v] => read'[v][f] = retry[f]
       /\ answer'[v][f] # "none" => calls[f] <= retry[f] + 1 + Uncounted'
  BY <1>1, <1>3, <1>4 DEF AttemptInv, AttemptTypes
<1>6. \A f \in Entries : status[f] \in Open => calls[f] <= retry[f] + Uncounted'
  BY <1>1 DEF AttemptInv, AttemptTypes, Unanswered
<1>7. \A f \in Entries : calls[f] <= MaxRetries + Uncounted'
  BY <1>1, OutboxAssumption DEF AttemptInv, AttemptTypes
<1> QED
  BY <1>1, <1>2, <1>5, <1>6, <1>7 DEF AttemptInv

\* A crash loses the answer of one call at most.
LEMMA CrashAttempts ==
  ASSUME OwnerInv, AttemptInv, NEW w \in Workers, Crash(w)
  PROVE  AttemptInv'
<1> USE DEF Uncounted
<1>1. /\ UNCHANGED <<retry, calls, status, unwritten>> /\ crashes' = crashes + 1
      /\ batch' = [batch EXCEPT ![w] = {}]
      /\ read' = [read EXCEPT ![w] = [e \in Entries |-> 0]]
      /\ answer' = [answer EXCEPT ![w] = [e \in Entries |-> "none"]]
  BY DEF Crash, rowVars
<1>2. AttemptTypes'
  BY <1>1 DEF AttemptInv, AttemptTypes, Answers
<1>3. \A v \in Workers : batch'[v] = IF v = w THEN {} ELSE batch[v]
  BY <1>1 DEF OwnerInv, OwnerTypes
<1>4. \A v \in Workers, f \in Entries :
        /\ answer'[v][f] = IF v = w THEN "none" ELSE answer[v][f]
        /\ read'[v][f] = IF v = w THEN 0 ELSE read[v][f]
  BY <1>1 DEF AttemptInv, AttemptTypes
<1>5. \A v \in Workers, f \in Entries :
       /\ answer'[v][f] # "none" => f \in batch'[v]
       /\ f \in batch'[v] => read'[v][f] = retry[f]
       /\ answer'[v][f] # "none" => calls[f] <= retry[f] + 1 + Uncounted'
  BY <1>1, <1>3, <1>4 DEF AttemptInv, AttemptTypes
<1>6. \A f \in Entries : status[f] \in Open => calls[f] <= retry[f] + Uncounted'
  BY <1>1 DEF AttemptInv, AttemptTypes, Unanswered
<1>7. \A f \in Entries : calls[f] <= MaxRetries + Uncounted'
  BY <1>1, OutboxAssumption DEF AttemptInv, AttemptTypes
<1> QED
  BY <1>1, <1>2, <1>5, <1>6, <1>7 DEF AttemptInv

\* Every step keeps the attempts within the count and what was lost of it.
LEMMA AttemptStep == OwnerInv /\ AttemptInv /\ [Next]_vars => AttemptInv'
<1> SUFFICES ASSUME OwnerInv, AttemptInv, [Next]_vars PROVE AttemptInv'
  OBVIOUS
<1>1. ASSUME NEW e \in Entries, Park(e) PROVE AttemptInv'
  <2>1. \A f \in Entries : status'[f] \in Open => status[f] \in Open
    BY <1>1 DEF Park, OwnerInv, OwnerTypes, Open
  <2> QED BY <1>1, <2>1, AttemptFrame DEF Park, workerVars
<1>2. ASSUME NEW e \in Entries, LateDelivery(e) PROVE AttemptInv'
  BY <1>2, AttemptFrame DEF LateDelivery, rowVars, workerVars
<1>3. ASSUME SetBillingUnifiedEnabled \/ Tick PROVE AttemptInv'
  BY <1>3, AttemptFrame DEF SetBillingUnifiedEnabled, Tick, rowVars, workerVars
<1>4. ASSUME UNCHANGED vars PROVE AttemptInv'
  BY <1>4, AttemptFrame DEF vars, rowVars, workerVars
<1> QED
  BY <1>1, <1>2, <1>3, <1>4, ClaimAttempts, CallAttempts, RecordAttempts,
     RecordFailsAttempts, CrashAttempts DEF Next

\* No row is called more than MaxRetries times plus once per crash and once per closing
\* update that failed, with any number of replicas: the count a replica loaded at its claim is still the row's when it
\* writes the next one, since nobody else holds the row.
THEOREM AttemptsCorrect == Spec => []AttemptsBounded
<1>1. Init => OwnerInv
  BY OutboxAssumption DEF Init, OwnerInv, OwnerTypes, HeldLease, OneOwner
<1>2. Init => AttemptInv
  BY OutboxAssumption DEF Init, AttemptInv, AttemptTypes, Answers, Unanswered, Open, Uncounted
<1>3. AttemptInv => AttemptsBounded
  BY DEF AttemptInv, AttemptsBounded
<1> QED BY <1>1, <1>2, <1>3, OwnerStep, AttemptStep, PTL DEF Spec

-----------------------------------------------------------------------------
\* A set of numbers has a least one: what the inductions below rest on.
LEMMA Least ==
  ASSUME NEW S \in SUBSET Nat, S # {}
  PROVE  \E n \in S : \A m \in S : n <= m
<1> DEFINE R == OpToRel(<, Nat)
<1>1. IsWellFoundedOn(R, Nat)
  BY NatLessThanWellFounded
<1>2. \A x \in Nat, y \in Nat : x < y => <<x, y>> \in R
  BY DEF OpToRel
<1> HIDE DEF R
<1>3. PICK n \in S : \A m \in S : ~(<<m, n>> \in R)
  BY <1>1, WFMin
<1>4. \A m \in S : ~(m < n)
  BY <1>2, <1>3
<1> QED BY <1>4

\* The sums of the first numbers of a.
SumsTo(a, n) ==
  {f \in [0 .. n -> Int] : f[0] = 0 /\ \A i \in 1 .. n : f[i] = f[i - 1] + a[i]}

\* There are such sums for every n.
LEMMA SumsToExist ==
  ASSUME NEW a \in [Nat -> Int], NEW n \in Nat
  PROVE  SumsTo(a, n) # {}
<1> DEFINE S == {m \in Nat : SumsTo(a, m) = {}}
<1> SUFFICES ASSUME S # {} PROVE FALSE
  OBVIOUS
<1>1. PICK m \in S : \A k \in S : m <= k
  BY Least
<1>2. m \in Nat /\ SumsTo(a, m) = {}
  BY <1>1
<1>3. CASE m = 0
  <2>1. [i \in 0 .. 0 |-> 0] \in SumsTo(a, 0)
    BY DEF SumsTo
  <2> QED BY <1>2, <1>3, <2>1
<1>4. CASE m # 0
  <2>1. m - 1 \in Nat /\ m - 1 \notin S
    BY <1>1, <1>2, <1>4
  <2>2. PICK f \in SumsTo(a, m - 1) : TRUE
    BY <2>1
  <2> DEFINE g == [i \in 0 .. m |-> IF i = m THEN f[m - 1] + a[m] ELSE f[i]]
  <2>3. /\ f \in [0 .. m - 1 -> Int] /\ f[0] = 0
        /\ \A i \in 1 .. m - 1 : f[i] = f[i - 1] + a[i]
    BY <2>2 DEF SumsTo
  <2>4. g \in [0 .. m -> Int] /\ g[0] = 0
    BY <1>2, <1>4, <2>1, <2>3
  <2>5. \A i \in 1 .. m : g[i] = g[i - 1] + a[i]
    BY <1>2, <1>4, <2>1, <2>3
  <2> HIDE DEF g
  <2>6. g \in SumsTo(a, m)
    BY <2>4, <2>5 DEF SumsTo
  <2> QED BY <1>2, <2>6
<1> QED BY <1>3, <1>4

\* They agree as far as they go.
LEMMA SumsToAgree ==
  ASSUME NEW a \in [Nat -> Int], NEW n \in Nat, NEW f \in SumsTo(a, n),
         NEW g \in SumsTo(a, n + 1)
  PROVE  f[n] = g[n]
<1> DEFINE S == {i \in 0 .. n : f[i] # g[i]}
<1> SUFFICES ASSUME S # {} PROVE FALSE
  BY DEF S
<1>1. PICK i \in S : \A k \in S : i <= k
  <2>1. S \in SUBSET Nat
    OBVIOUS
  <2> HIDE DEF S
  <2> QED BY <2>1, Least
<1>2. f[0] = 0 /\ g[0] = 0 /\ i \in Nat /\ i <= n /\ f[i] # g[i]
  BY <1>1 DEF SumsTo
<1>3. i # 0
  BY <1>2
<1>4. i \in 1 .. n /\ i \in 1 .. n + 1 /\ i - 1 \in 0 .. n /\ i - 1 \notin S
  BY <1>1, <1>2, <1>3
<1>5. f[i] = f[i - 1] + a[i] /\ g[i] = g[i - 1] + a[i]
  BY <1>4 DEF SumsTo
<1> QED BY <1>2, <1>4, <1>5

\* So the recursion has a solution.
LEMMA SumsExist ==
  ASSUME NEW a \in [Nat -> Int]
  PROVE  \E f \in [Nat -> Int] : f[0] = 0 /\ \A n \in Nat \ {0} : f[n] = f[n - 1] + a[n]
<1> DEFINE F(n) == CHOOSE f \in SumsTo(a, n) : TRUE
           g == [n \in Nat |-> F(n)[n]]
<1>1. \A n \in Nat : F(n) \in SumsTo(a, n)
  BY SumsToExist
<1> HIDE DEF F
<1>2. \A n \in Nat : /\ F(n) \in [0 .. n -> Int] /\ F(n)[0] = 0
                     /\ \A i \in 1 .. n : F(n)[i] = F(n)[i - 1] + a[i]
  BY <1>1 DEF SumsTo
<1>3. g \in [Nat -> Int] /\ g[0] = 0
  BY <1>2
<1>4. ASSUME NEW n \in Nat \ {0} PROVE g[n] = g[n - 1] + a[n]
  <2>1. n - 1 \in Nat /\ n - 1 + 1 = n /\ n \in 1 .. n
    OBVIOUS
  <2>2. F(n - 1)[n - 1] = F(n)[n - 1]
    <3>1. F(n - 1) \in SumsTo(a, n - 1) /\ F(n) \in SumsTo(a, (n - 1) + 1)
      BY <1>1, <2>1
    <3> QED BY <2>1, <3>1, SumsToAgree
  <2>3. F(n)[n] = F(n)[n - 1] + a[n]
    BY <1>2, <2>1
  <2> QED BY <2>1, <2>2, <2>3
<1> QED BY <1>3, <1>4

\* outboxBackoff returns a delay of at most MaxBackoff.
LEMMA BackoffType == \A n \in Nat : Backoff(n) \in Nat /\ Backoff(n) <= MaxBackoff
<1> SUFFICES ASSUME NEW n \in Nat PROVE Backoff(n) \in Nat /\ Backoff(n) <= MaxBackoff
  OBVIOUS
<1> DEFINE x == 2 ^ n
<1>1. x \in Nat
  <2>1. IsFiniteSet(1 .. n) /\ Cardinality(1 .. n) = n
    BY FS_Interval
  <2>2. IsFiniteSet(SUBSET (1 .. n)) /\ Cardinality(SUBSET (1 .. n)) = x
    BY <2>1, FS_SUBSET
  <2> QED BY <2>2, FS_CardinalityType
<1>2. Backoff(n) = IF x < MaxBackoff THEN x ELSE MaxBackoff
  BY DEF Backoff
<1> HIDE DEF x
<1> QED BY <1>1, <1>2, OutboxAssumption

\* OutboxRetryHorizon adds one delay at a time, and more attempts take longer.
LEMMA BackoffSumStep ==
  /\ BackoffSum[0] = 0
  /\ \A n \in Nat : BackoffSum[n] \in Nat
  /\ \A n \in Nat \ {0} : BackoffSum[n] = BackoffSum[n - 1] + Backoff(n)
<1> DEFINE a == [n \in Nat |-> Backoff(n)]
           E(f) == f = [n \in Nat |-> IF n = 0 THEN 0 ELSE f[n - 1] + Backoff(n)]
<1>1. a \in [Nat -> Int] /\ \A n \in Nat : a[n] = Backoff(n)
  BY BackoffType
<1> HIDE DEF a
<1>2. PICK f \in [Nat -> Int] : f[0] = 0 /\ \A n \in Nat \ {0} : f[n] = f[n - 1] + a[n]
  BY <1>1, SumsExist
<1>3. f = [n \in Nat |-> IF n = 0 THEN 0 ELSE f[n - 1] + Backoff(n)]
  BY <1>1, <1>2
<1>4. E(BackoffSum)
  BY <1>3 DEF BackoffSum
<1>5. /\ BackoffSum[0] = 0
      /\ \A n \in Nat \ {0} : BackoffSum[n] = BackoffSum[n - 1] + Backoff(n)
  BY <1>4
<1> HIDE DEF E
<1> DEFINE S == {n \in Nat : BackoffSum[n] \notin Nat}
<1>6. ASSUME S # {} PROVE FALSE
  <2>1. PICK n \in S : \A m \in S : n <= m
    BY <1>6, Least
  <2>2. n # 0
    BY <2>1, <1>5
  <2>3. n - 1 \in Nat /\ n - 1 \notin S
    BY <2>1, <2>2
  <2> QED BY <1>5, <2>1, <2>2, <2>3, BackoffType
<1> QED BY <1>5, <1>6

\* A longer schedule is at least as long in time.
LEMMA BackoffSumGrows ==
  ASSUME NEW n \in Nat, NEW m \in Nat, n <= m
  PROVE  BackoffSum[n] <= BackoffSum[m]
<1> DEFINE S == {k \in Nat : n <= k /\ BackoffSum[n] > BackoffSum[k]}
<1> SUFFICES ASSUME S # {} PROVE FALSE
  BY BackoffSumStep
<1>1. PICK k \in S : \A j \in S : k <= j
  BY Least
<1>2. k # n
  BY <1>1, BackoffSumStep
<1>3. k - 1 \in Nat /\ n <= k - 1 /\ k - 1 \notin S /\ k \in Nat \ {0}
  BY <1>1, <1>2
<1> QED BY <1>1, <1>3, BackoffSumStep, BackoffType

-----------------------------------------------------------------------------
\* The rows of billing_outbox, and the longest a due row waits for the answer to
\* its next attempt: a tick, and a call for every row of its batch.
Queue == Entries \ Debits
Slot == Poll + Cardinality(Queue) * CallTimeout

\* When a row with the given count should be due at the latest, counted from the
\* pre-authorization.
Planned(n) == LongestRequest + BackoffSum[n] + n * Slot

\* The hypotheses: nothing crashes, no closing update fails, unified billing stays on,
\* there is a replica for every row, and the hold outlives the plan of its last attempt.
Covered ==
  /\ MaxCrashes = 0 /\ MaxUnwritten = 0 /\ Switchable = FALSE
  /\ IsFiniteSet(Workers) /\ Cardinality(Entries) <= Cardinality(Workers)
  /\ HoldTTL > LongestRequest + OutboxRetryHorizon + MaxRetries * Slot

HorizonTypes ==
  /\ ttl \in [Entries -> 0 .. HoldTTL] /\ wait \in [Entries -> -Poll .. MaxBackoff]
  /\ unified = TRUE

OneTable == \A w \in Workers : batch[w] \subseteq Debits \/ batch[w] \subseteq Queue

\* The claim of a row is no older than the calls its owner has made.
InTime ==
  \A w \in Workers : \A e \in batch[w] :
    e \in Queue =>
      age[e] + Cardinality(batch[w]) * CallTimeout <= Cardinality(Queue) * CallTimeout + busy[w]

Manned == \A e \in Entries : status[e] = "processing" => \E w \in Workers : e \in batch[w]

\* The age of the hold, against the plan.
Spent(e) == HoldTTL - ttl[e]
OnPlan(e) ==
  /\ status[e] = "pending" => Spent(e) + wait[e] <= Planned(retry[e])
  /\ status[e] = "processing" => Spent(e) <= Planned(retry[e]) + Poll + age[e]

ExpiredLast == \A e \in Entries : platform[e] = "expired" => ttl[e] = 0

\* A row not parked yet has no history.
Fresh == \A e \in Entries : status[e] = "absent" => retry[e] = 0 /\ wait[e] = 0

HorizonInv ==
  /\ HorizonTypes /\ OneTable /\ InTime /\ Manned /\ ExpiredLast
  /\ \A e \in Settles : OnPlan(e)

\* The constants of the plan are numbers.
LEMMA PlanTyped ==
  /\ IsFiniteSet(Queue) /\ Cardinality(Queue) \in Nat
  /\ Cardinality(Queue) * CallTimeout \in Nat /\ Slot \in Nat
  /\ \A n \in Nat : n * Slot \in Nat /\ Planned(n) \in Nat
  /\ Settles \subseteq Queue /\ Queue \subseteq Entries
<1>1. Queue \in SUBSET Entries /\ Settles \subseteq Queue
  BY OutboxAssumption DEF Queue
<1>2. IsFiniteSet(Queue) /\ Cardinality(Queue) \in Nat
  BY <1>1, BatchSize
<1>3. Cardinality(Queue) * CallTimeout \in Nat
  BY <1>2, CallTime, OutboxAssumption
<1>4. Slot \in Nat
  BY <1>3, OutboxAssumption DEF Slot
<1>5. \A n \in Nat : n * Slot \in Nat
  BY <1>4, CallTime
<1>6. \A n \in Nat : Planned(n) \in Nat
  BY <1>5, BackoffSumStep, OutboxAssumption DEF Planned
<1> QED BY <1>1, <1>2, <1>3, <1>4, <1>5, <1>6

\* One attempt more.
LEMMA PlanStep ==
  ASSUME NEW n \in Nat
  PROVE  Planned(n + 1) = Planned(n) + Backoff(n + 1) + Slot
<1> DEFINE x == n * Slot
<1>1. (n + 1) * Slot = x + Slot /\ x \in Nat /\ Slot \in Nat
  BY PlanTyped
<1>2. BackoffSum[n + 1] = BackoffSum[n] + Backoff(n + 1) /\ BackoffSum[n] \in Nat
  BY BackoffSumStep
<1>3. Backoff(n + 1) \in Nat
  BY BackoffType
<1> HIDE DEF x
<1>4. Planned(n) = LongestRequest + BackoffSum[n] + x
  BY DEF Planned, x
<1>5. Planned(n + 1) = LongestRequest + BackoffSum[n + 1] + (x + Slot)
  BY <1>1 DEF Planned
<1> QED BY <1>1, <1>2, <1>3, <1>4, <1>5, OutboxAssumption

\* Within the plan of its last attempt a hold is alive.
LEMMA PlanCovered ==
  ASSUME Covered, NEW n \in Nat, n < MaxRetries
  PROVE  Planned(n) + Slot < HoldTTL
<1> DEFINE x == n * Slot
           y == MaxRetries * Slot
<1>1. MaxRetries \in Nat /\ n + 1 <= MaxRetries /\ n + 1 \in Nat /\ Slot \in Nat
  BY PlanTyped, OutboxAssumption
<1>2. (n + 1) * Slot <= y /\ y \in Nat
  BY <1>1, CallTime
<1>3. (n + 1) * Slot = x + Slot /\ x \in Nat
  BY <1>1, PlanTyped
<1>4. BackoffSum[n] <= BackoffSum[MaxRetries - 1] /\ BackoffSum[n] \in Nat
      /\ BackoffSum[MaxRetries - 1] \in Nat
  BY <1>1, BackoffSumGrows, BackoffSumStep
<1>5. HoldTTL > LongestRequest + BackoffSum[MaxRetries - 1] + y
  BY DEF Covered, OutboxRetryHorizon
<1>6. Planned(n) = LongestRequest + BackoffSum[n] + x
  BY DEF Planned
<1> HIDE DEF x, y
<1> QED BY <1>1, <1>2, <1>3, <1>4, <1>5, <1>6, OutboxAssumption

\* A row that nobody holds leaves a replica without work.
LEMMA IdleReplica ==
  ASSUME OwnerInv, Covered, NEW e \in Entries, status[e] # "processing"
  PROVE  \E w \in Workers : batch[w] = {}
<1> SUFFICES ASSUME \A w \in Workers : batch[w] # {} PROVE FALSE
  OBVIOUS
<1> DEFINE f == [w \in Workers |-> CHOOSE x \in batch[w] : TRUE]
           T == Entries \ {e}
<1>1. \A w \in Workers : f[w] \in batch[w] /\ batch[w] \subseteq T
  <2>1. \A w \in Workers : e \notin batch[w] /\ batch[w] \subseteq Entries
    BY DEF OwnerInv, OwnerTypes, HeldLease
  <2> QED BY <2>1
<1>2. f \in [Workers -> T]
  BY <1>1
<1>3. IsFiniteSet(T) /\ Cardinality(T) = Cardinality(Entries) - 1 /\ Cardinality(Entries) \in Nat
  BY OutboxAssumption, FS_RemoveElement, FS_CardinalityType
<1>4. IsFiniteSet(Workers) /\ Cardinality(Workers) \in Nat /\ Cardinality(T) < Cardinality(Workers)
  BY <1>3, FS_CardinalityType DEF Covered
<1> HIDE DEF f, T
<1>5. PICK v \in Workers, w \in Workers : v # w /\ f[v] = f[w]
  BY <1>2, <1>3, <1>4, FS_PigeonHole
<1> QED BY <1>1, <1>5 DEF OwnerInv, OneOwner

\* Steps that touch neither rows nor batches nor time.
LEMMA HorizonFrame ==
  ASSUME HorizonInv, UNCHANGED <<ttl, status, retry, wait, age, batch, busy, unified>>,
         \A e \in Entries : platform'[e] = "expired" => platform[e] = "expired"
  PROVE  HorizonInv'
  BY DEF HorizonInv, HorizonTypes, OneTable, InTime, Manned, ExpiredLast, OnPlan, Spent

\* A claim finds its rows at most a tick late, and puts them one call behind each
\* other's.
LEMMA ClaimHorizon ==
  ASSUME OwnerInv, AttemptInv, HorizonInv, NEW w \in Workers, NEW table \in Tables, Claim(w, table)
  PROVE  HorizonInv'
<1>1. PICK S \in SUBSET Entries :
        /\ S \subseteq table /\ S \subseteq Due(table)
        /\ batch' = [batch EXCEPT ![w] = S]
        /\ status' = [e \in Entries |-> IF e \in S THEN "processing" ELSE status[e]]
        /\ age' = [e \in Entries |-> IF e \in S THEN 0 ELSE age[e]]
        /\ wait' = [e \in Entries |-> IF e \in S THEN 0 ELSE wait[e]]
  BY OutboxAssumption DEF Claim, Claimable, Tables, Due
<1>2. /\ batch[w] = {} /\ busy' = [busy EXCEPT ![w] = 0]
      /\ UNCHANGED <<platform, ttl, retry, unified>>
  BY DEF Claim
<1>3. \A v \in Workers : /\ batch'[v] = IF v = w THEN S ELSE batch[v]
                         /\ busy'[v] = IF v = w THEN 0 ELSE busy[v]
  BY <1>1, <1>2 DEF OwnerInv, OwnerTypes
<1>4. \A v \in Workers : \A e \in batch[v] : e \notin S
  <2> SUFFICES ASSUME NEW v \in Workers, NEW e \in batch[v], e \in S PROVE FALSE
    OBVIOUS
  <2>1. status[e] = "processing" /\ age[e] < Lease
    BY LeaseAlive
  <2>2. age[e] \in Nat /\ Lease \in Nat
    BY OutboxAssumption DEF OwnerInv, OwnerTypes
  <2> QED BY <1>1, <2>1, <2>2 DEF Due
<1>5. \A e \in S : status[e] = "pending" /\ wait[e] <= 0
  BY <1>1, <1>4 DEF Due, HorizonInv, Manned
<1>6. HorizonTypes'
  <2>1. 0 \in -Poll .. MaxBackoff
    BY OutboxAssumption
  <2> QED BY <1>1, <1>2, <2>1 DEF HorizonInv, HorizonTypes
<1>7. OneTable'
  <2>1. table \subseteq Debits \/ table \subseteq Queue
    BY DEF Tables, Queue
  <2> QED BY <1>1, <1>3, <2>1 DEF HorizonInv, OneTable
<1>8. InTime'
  <2> SUFFICES ASSUME NEW v \in Workers, NEW e \in batch'[v], e \in Queue
               PROVE age'[e] + Cardinality(batch'[v]) * CallTimeout
                       <= Cardinality(Queue) * CallTimeout + busy'[v]
    BY DEF InTime
  <2>1. CASE v = w
    <3>1. batch'[v] = S /\ busy'[v] = 0 /\ age'[e] = 0
      BY <1>1, <1>3, <2>1
    <3>2. S \subseteq Queue
      BY <1>1, <3>1 DEF Tables, Queue
    <3>3. Cardinality(S) \in Nat /\ Cardinality(S) <= Cardinality(Queue)
      BY <3>2, PlanTyped, BatchSize, FS_Subset
    <3>4. Cardinality(S) * CallTimeout <= Cardinality(Queue) * CallTimeout
          /\ Cardinality(S) * CallTimeout \in Nat
      BY <3>3, PlanTyped, CallTime, OutboxAssumption
    <3> QED BY <3>1, <3>4, PlanTyped
  <2>2. CASE v # w
    BY <1>1, <1>3, <1>4, <2>2 DEF HorizonInv, InTime, Queue
  <2> QED BY <2>1, <2>2
<1>9. Manned'
  BY <1>1, <1>2, <1>3 DEF HorizonInv, Manned
<1>10. ExpiredLast'
  BY <1>2 DEF HorizonInv, ExpiredLast
<1>11. ASSUME NEW e \in Settles PROVE OnPlan(e)'
  <2>1. e \in Entries /\ OnPlan(e) /\ ttl[e] \in Int /\ HoldTTL \in Int /\ wait[e] \in -Poll .. MaxBackoff
    BY OutboxAssumption DEF HorizonInv, HorizonTypes
  <2>2. CASE e \in S
    <3>1. Spent(e) + wait[e] <= Planned(retry[e]) /\ age'[e] = 0 /\ status'[e] = "processing"
      BY <1>1, <1>5, <2>1, <2>2 DEF OnPlan
    <3>2. Planned(retry[e]) \in Nat /\ Spent(e) \in Int
      BY <2>1, PlanTyped DEF AttemptInv, AttemptTypes, Spent
    <3>3. Spent(e) <= Planned(retry[e]) + Poll + 0
      BY <2>1, <3>1, <3>2, OutboxAssumption
    <3> QED BY <1>2, <3>1, <3>3 DEF OnPlan, Spent
  <2>3. CASE e \notin S
    BY <1>1, <1>2, <2>1, <2>3 DEF OnPlan, Spent
  <2> QED BY <2>2, <2>3
<1> QED BY <1>6, <1>7, <1>8, <1>9, <1>10, <1>11 DEF HorizonInv

\* A recorded failure is at most a slot after its plan, and starts the next delay.
LEMMA RecordHorizon ==
  ASSUME OwnerInv, AttemptInv, HorizonInv, NEW w \in Workers, NEW e \in Entries, Record(w, e)
  PROVE  HorizonInv'
<1> DEFINE ans == answer[w][e]
           n == IF ans = "ok" THEN retry[e] ELSE retry[e] + 1
<1>1. /\ e \in batch[w] /\ UNCHANGED <<platform, ttl, unified>>
      /\ batch' = [batch EXCEPT ![w] = @ \ {e}] /\ busy' = [busy EXCEPT ![w] = 0]
  BY DEF Record, PutDown
<1>2. status[e] = "processing" /\ read[w][e] = retry[e] /\ retry[e] \in Nat
  BY <1>1 DEF OwnerInv, HeldLease, AttemptInv, AttemptTypes
<1>3. /\ status' = [status EXCEPT ![e] = Outcome(ans, n)]
      /\ retry' = [retry EXCEPT ![e] = n]
      /\ wait' = [wait EXCEPT ![e] = IF Outcome(ans, n) = "pending" THEN Backoff(n) ELSE 0]
      /\ age' = [age EXCEPT ![e] = 0]
  BY <1>2 DEF Record
<1>4. n \in Nat
  BY <1>2
<1>5. \A v \in Workers : /\ batch'[v] = IF v = w THEN batch[w] \ {e} ELSE batch[v]
                         /\ busy'[v] = IF v = w THEN 0 ELSE busy[v]
  BY <1>1 DEF OwnerInv, OwnerTypes
<1>6. \A v \in Workers : \A f \in batch'[v] : f \in batch[v] /\ f # e /\ f \in Entries
  BY <1>1, <1>5 DEF OwnerInv, OwnerTypes, OneOwner
<1>7. \A f \in Entries : f # e =>
        status'[f] = status[f] /\ retry'[f] = retry[f] /\ wait'[f] = wait[f] /\ age'[f] = age[f]
  BY <1>3 DEF OwnerInv, OwnerTypes, AttemptInv, AttemptTypes, HorizonInv, HorizonTypes
<1>8. status'[e] = Outcome(ans, n) /\ retry'[e] = n
      /\ wait'[e] = IF Outcome(ans, n) = "pending" THEN Backoff(n) ELSE 0
  BY <1>3 DEF OwnerInv, OwnerTypes, AttemptInv, AttemptTypes, HorizonInv, HorizonTypes
<1>9. Outcome(ans, n) # "processing" /\ (Outcome(ans, n) = "pending" => n = retry[e] + 1)
  BY DEF Outcome
<1> HIDE DEF n
<1>10. HorizonTypes'
  <2>1. (IF Outcome(ans, n) = "pending" THEN Backoff(n) ELSE 0) \in -Poll .. MaxBackoff
    BY <1>4, BackoffType, OutboxAssumption
  <2> QED BY <1>1, <1>3, <2>1 DEF HorizonInv, HorizonTypes
<1>11. OneTable'
  BY <1>5 DEF HorizonInv, OneTable
<1>12. InTime'
  <2> SUFFICES ASSUME NEW v \in Workers, NEW f \in batch'[v], f \in Queue
               PROVE age'[f] + Cardinality(batch'[v]) * CallTimeout
                       <= Cardinality(Queue) * CallTimeout + busy'[v]
    BY DEF InTime
  <2>1. f \in batch[v] /\ f # e /\ age'[f] = age[f] /\ age[f] \in Nat
    BY <1>6, <1>7 DEF OwnerInv, OwnerTypes
  <2> DEFINE c == Cardinality(batch[v])
             x == c * CallTimeout
             y == Cardinality(Queue) * CallTimeout
  <2>2. age[f] + x <= y + busy[v] /\ y \in Nat
    BY <2>1, PlanTyped DEF HorizonInv, InTime
  <2>3. CASE v = w
    <3>1. c \in Nat /\ c >= 1 /\ Cardinality(batch'[v]) = c - 1
      BY <1>1, <1>5, <2>3, BatchSize DEF OwnerInv, OwnerTypes
    <3>2. (c - 1) * CallTimeout = x - CallTimeout /\ x \in Nat
      BY <3>1, CallTime, OutboxAssumption
    <3>3. busy[v] \in Nat /\ busy[v] <= CallTimeout /\ busy'[v] = 0 /\ CallTimeout \in Nat
      BY <1>5, <2>3, OutboxAssumption DEF OwnerInv, OwnerTypes
    <3> HIDE DEF x, y, c
    <3>4. age[f] + (x - CallTimeout) <= y + 0
      BY <2>1, <2>2, <3>2, <3>3
    <3> QED BY <2>1, <3>1, <3>2, <3>3, <3>4 DEF y
  <2>4. CASE v # w
    BY <1>5, <2>1, <2>2, <2>4
  <2> QED BY <2>3, <2>4
<1>13. Manned'
  <2> SUFFICES ASSUME NEW f \in Entries, status'[f] = "processing"
               PROVE \E v \in Workers : f \in batch'[v]
    BY DEF Manned
  <2>1. f # e /\ status[f] = "processing"
    BY <1>7, <1>8, <1>9
  <2>2. PICK v \in Workers : f \in batch[v]
    BY <2>1 DEF HorizonInv, Manned
  <2> QED BY <1>5, <2>1, <2>2
<1>14. ExpiredLast'
  BY <1>1 DEF HorizonInv, ExpiredLast
<1>15. ASSUME NEW f \in Settles PROVE OnPlan(f)'
  <2>1. f \in Entries /\ OnPlan(f) /\ f \in Queue
    BY PlanTyped DEF HorizonInv
  <2>2. CASE f # e
    BY <1>1, <1>7, <2>1, <2>2 DEF OnPlan, Spent
  <2>3. CASE f = e /\ Outcome(ans, n) = "pending"
    <3> DEFINE c == Cardinality(batch[w])
               x == c * CallTimeout
               y == Cardinality(Queue) * CallTimeout
    <3>1. Spent(e) <= Planned(retry[e]) + Poll + age[e]
      BY <1>2, <2>1, <2>3 DEF OnPlan
    <3>2. age[e] + x <= y + busy[w] /\ y \in Nat
      BY <1>1, <2>1, <2>3, PlanTyped DEF HorizonInv, InTime
    <3>3. c \in Nat /\ c >= 1
      BY <1>1, BatchSize DEF OwnerInv, OwnerTypes
    <3>4. x \in Nat /\ x >= CallTimeout
      BY <3>3, CallTime, OutboxAssumption
    <3>5. busy[w] \in Nat /\ busy[w] <= CallTimeout /\ age[e] \in Nat /\ Spent(e) \in Int
      BY OutboxAssumption DEF OwnerInv, OwnerTypes, Spent, HorizonInv, HorizonTypes
    <3>6. Slot = Poll + y
      BY DEF Slot
    <3>7. Planned(n) = Planned(retry[e]) + Backoff(n) + Slot /\ Planned(retry[e]) \in Nat
          /\ Backoff(n) \in Nat
      BY <1>2, <1>4, <1>9, <2>3, PlanStep, PlanTyped, BackoffType
    <3> HIDE DEF x, y
    <3>8. Spent(e) + Backoff(n) <= Planned(n)
      BY <3>1, <3>2, <3>4, <3>5, <3>6, <3>7, OutboxAssumption
    <3> QED BY <1>1, <1>8, <2>3, <3>8 DEF OnPlan, Spent
  <2>4. CASE f = e /\ Outcome(ans, n) # "pending"
    BY <1>8, <1>9, <2>4 DEF OnPlan
  <2> QED BY <2>2, <2>3, <2>4
<1> QED BY <1>10, <1>11, <1>12, <1>13, <1>14, <1>15 DEF HorizonInv

\* Time passes only for rows that still wait or are held: a due row is claimed first.
LEMMA TickHorizon ==
  ASSUME Covered, OwnerInv, AttemptInv, HorizonInv, Tick
  PROVE  HorizonInv'
<1>1. /\ UNCHANGED <<status, retry, batch, unified>>
      /\ wait' = [e \in Entries |->
           IF status[e] = "pending" /\ wait[e] > -Poll THEN wait[e] - 1 ELSE wait[e]]
      /\ age' = [e \in Entries |->
           IF status[e] = "processing" /\ age[e] < Lease + Poll THEN age[e] + 1 ELSE age[e]]
      /\ ttl' = [e \in Entries |-> IF ttl[e] > 0 THEN ttl[e] - 1 ELSE 0]
      /\ platform' = [e \in Entries |->
           IF platform[e] = "active" /\ e \notin Debits /\ ttl[e] <= 1
           THEN "expired" ELSE platform[e]]
      /\ \A w \in Workers : batch[w] # {} => busy'[w] = busy[w] + 1
  BY DEF Tick
<1>2. \A e \in Entries : ttl[e] \in Nat /\ ttl[e] <= HoldTTL /\ age[e] \in Nat
                          /\ wait[e] \in Int /\ wait[e] >= -Poll /\ wait[e] <= MaxBackoff
  BY OutboxAssumption DEF HorizonInv, HorizonTypes, OwnerInv, OwnerTypes
<1>3. HorizonTypes'
  BY <1>1, <1>2, OutboxAssumption DEF HorizonInv, HorizonTypes
<1>4. OneTable' /\ Manned'
  BY <1>1 DEF HorizonInv, OneTable, Manned
<1>5. ExpiredLast'
  BY <1>1, <1>2 DEF HorizonInv, ExpiredLast
<1>6. InTime'
  <2> SUFFICES ASSUME NEW w \in Workers, NEW e \in batch[w], e \in Queue
               PROVE age'[e] + Cardinality(batch[w]) * CallTimeout
                       <= Cardinality(Queue) * CallTimeout + busy'[w]
    BY <1>1 DEF InTime
  <2> DEFINE x == Cardinality(batch[w]) * CallTimeout
             y == Cardinality(Queue) * CallTimeout
  <2>1. age[e] + x <= y + busy[w] /\ y \in Nat
    BY PlanTyped DEF HorizonInv, InTime
  <2>2. x \in Nat
    BY BatchSize, CallTime, OutboxAssumption DEF OwnerInv, OwnerTypes
  <2>3. busy'[w] = busy[w] + 1 /\ busy[w] \in Nat /\ e \in Entries
    BY <1>1, OutboxAssumption DEF OwnerInv, OwnerTypes
  <2>4. age'[e] <= age[e] + 1 /\ age[e] \in Nat /\ age'[e] \in Nat
    BY <1>1, <1>2, <2>3
  <2> HIDE DEF x, y
  <2>5. age'[e] + x <= y + busy'[w]
    BY <2>1, <2>2, <2>3, <2>4
  <2> QED BY <2>5 DEF x, y
<1>7. ASSUME NEW e \in Settles PROVE OnPlan(e)'
  <2>1. e \in Entries /\ OnPlan(e) /\ HoldTTL \in Nat /\ Poll \in Nat /\ Lease \in Nat
    BY OutboxAssumption DEF HorizonInv
  <2>2. retry[e] \in Nat /\ Planned(retry[e]) \in Nat
    BY <2>1, PlanTyped DEF AttemptInv, AttemptTypes
  <2>3. Spent(e) \in Int /\ Spent(e)' \in Int /\ Spent(e)' <= Spent(e) + 1
    BY <1>1, <1>2, <2>1 DEF Spent
  <2>4. CASE status[e] = "pending"
    <3>1. wait[e] > -Poll
      <4>1. \E w \in Workers : batch[w] = {}
        BY <2>1, <2>4, IdleReplica
      <4>2. ~Overdue(e)
        BY <2>1, <4>1 DEF Tick, HorizonInv, HorizonTypes
      <4> QED BY <1>2, <2>1, <2>4, <4>2 DEF Overdue
    <3>2. wait'[e] = wait[e] - 1
      BY <1>1, <2>1, <2>4, <3>1
    <3>3. Spent(e) + wait[e] <= Planned(retry[e])
      BY <2>1, <2>4 DEF OnPlan
    <3>4. Spent(e)' + wait'[e] <= Planned(retry[e])
      BY <1>2, <2>1, <2>2, <2>3, <3>2, <3>3
    <3> QED BY <1>1, <2>4, <3>4 DEF OnPlan
  <2>5. CASE status[e] = "processing"
    <3>1. age[e] < Lease
      <4>1. PICK w \in Workers : e \in batch[w]
        BY <2>1, <2>5 DEF HorizonInv, Manned
      <4> QED BY <4>1, LeaseAlive
    <3>2. age'[e] = age[e] + 1
      BY <1>1, <1>2, <2>1, <2>5, <3>1
    <3>3. Spent(e) <= Planned(retry[e]) + Poll + age[e]
      BY <2>1, <2>5 DEF OnPlan
    <3>4. Spent(e)' <= Planned(retry[e]) + Poll + age'[e]
      BY <1>2, <2>1, <2>2, <2>3, <3>2, <3>3
    <3> QED BY <1>1, <2>5, <3>4 DEF OnPlan
  <2> QED BY <1>1, <2>4, <2>5 DEF OnPlan
<1> QED BY <1>3, <1>4, <1>5, <1>6, <1>7 DEF HorizonInv

\* A row is parked within the longest request.
LEMMA ParkHorizon ==
  ASSUME OwnerInv, AttemptInv, HorizonInv, NEW e \in Entries, Park(e),
         Fresh
  PROVE  HorizonInv'
<1>1. /\ status[e] = "absent" /\ status' = [status EXCEPT ![e] = "pending"]
      /\ HoldTTL - ttl[e] <= LongestRequest /\ retry[e] = 0 /\ wait[e] = 0
      /\ UNCHANGED <<platform, ttl, retry, wait, age, batch, busy, unified>>
  BY DEF Park, workerVars, Fresh
<1>2. \A f \in Entries : status'[f] = IF f = e THEN "pending" ELSE status[f]
  BY <1>1 DEF OwnerInv, OwnerTypes
<1>3. /\ HorizonTypes' /\ OneTable' /\ InTime' /\ ExpiredLast'
  BY <1>1 DEF HorizonInv, HorizonTypes, OneTable, InTime, ExpiredLast
<1>4. Manned'
  BY <1>1, <1>2 DEF HorizonInv, Manned
<1>5. Planned(0) = LongestRequest
  BY PlanTyped, BackoffSumStep, OutboxAssumption DEF Planned
<1>6. ASSUME NEW f \in Settles PROVE OnPlan(f)'
  <2>1. f \in Entries /\ OnPlan(f)
    BY OutboxAssumption DEF HorizonInv
  <2>2. CASE f # e
    BY <1>1, <1>2, <2>1, <2>2 DEF OnPlan, Spent
  <2>3. CASE f = e
    <3>1. ttl[e] \in Int /\ HoldTTL \in Int /\ LongestRequest \in Int
      BY OutboxAssumption DEF HorizonInv, HorizonTypes
    <3>2. status'[f] = "pending" /\ Spent(f)' + wait'[f] <= Planned(retry'[f])
      BY <1>1, <1>2, <1>5, <2>3, <3>1 DEF Spent
    <3> QED BY <3>2 DEF OnPlan
  <2> QED BY <2>2, <2>3
<1> QED BY <1>3, <1>4, <1>6 DEF HorizonInv

\* Only parked rows get a count or a delay.
LEMMA FreshStep == OwnerInv /\ AttemptInv /\ HorizonTypes /\ Fresh /\ [Next]_vars => Fresh'
<1> SUFFICES ASSUME OwnerInv, AttemptInv, HorizonTypes, Fresh, [Next]_vars,
                    NEW e \in Entries, status'[e] = "absent"
             PROVE  retry'[e] = 0 /\ wait'[e] = 0
  BY DEF Fresh
<1> USE DEF Fresh, OwnerInv, OwnerTypes, AttemptInv, AttemptTypes, HorizonTypes
<1>1. ASSUME NEW f \in Entries, Park(f) PROVE retry'[e] = 0 /\ wait'[e] = 0
  BY <1>1 DEF Park
<1>2. ASSUME NEW f \in Entries, LateDelivery(f) PROVE retry'[e] = 0 /\ wait'[e] = 0
  BY <1>2 DEF LateDelivery, rowVars
<1>3. ASSUME NEW w \in Workers, NEW table \in Tables, Claim(w, table)
      PROVE retry'[e] = 0 /\ wait'[e] = 0
  <2>1. PICK S \in SUBSET Entries :
        /\ status' = [f \in Entries |-> IF f \in S THEN "processing" ELSE status[f]]
        /\ wait' = [f \in Entries |-> IF f \in S THEN 0 ELSE wait[f]]
        /\ retry' = retry
    BY <1>3, OutboxAssumption DEF Claim, Claimable, Tables, Due
  <2> QED BY <2>1
<1>4. ASSUME NEW w \in Workers, NEW f \in Entries, Call(w, f)
      PROVE retry'[e] = 0 /\ wait'[e] = 0
  BY <1>4 DEF Call, rowVars
<1>5. ASSUME NEW w \in Workers, NEW f \in Entries, Record(w, f)
      PROVE retry'[e] = 0 /\ wait'[e] = 0
  <2>1. CASE f = e
    <3>1. status[e] = "processing"
      BY <1>5, <2>1 DEF Record, PutDown, HeldLease
    <3>2. PICK a, n : status' = [status EXCEPT ![e] = Outcome(a, n)]
      BY <1>5, <2>1, <3>1 DEF Record
    <3> QED BY <3>2 DEF Outcome
  <2>2. CASE f # e
    BY <1>5, <2>2 DEF Record, rowVars
  <2> QED BY <2>1, <2>2
<1>6. ASSUME NEW w \in Workers, Crash(w) PROVE retry'[e] = 0 /\ wait'[e] = 0
  BY <1>6 DEF Crash, rowVars
<1>9. ASSUME NEW w \in Workers, NEW f \in Entries, RecordFails(w, f)
      PROVE retry'[e] = 0 /\ wait'[e] = 0
  BY <1>9 DEF RecordFails, rowVars
<1>7. ASSUME SetBillingUnifiedEnabled \/ UNCHANGED vars PROVE retry'[e] = 0 /\ wait'[e] = 0
  BY <1>7 DEF SetBillingUnifiedEnabled, vars, rowVars
<1>8. ASSUME Tick PROVE retry'[e] = 0 /\ wait'[e] = 0
  <2>1. /\ status' = status /\ retry' = retry
        /\ wait' = [f \in Entries |->
             IF status[f] = "pending" /\ wait[f] > -Poll THEN wait[f] - 1 ELSE wait[f]]
    BY <1>8 DEF Tick
  <2> QED BY <2>1
<1> QED BY <1>1, <1>2, <1>3, <1>4, <1>5, <1>6, <1>7, <1>8, <1>9 DEF Next

\* Nothing has crashed and no closing update has failed.
Unharmed == crashes = 0 /\ unwritten = 0

\* Every step keeps every open row on its plan.
LEMMA HorizonStep ==
  ASSUME Covered, OwnerInv, RecordInv, AttemptInv, Fresh, HorizonInv, [Next]_vars,
         Unharmed
  PROVE  HorizonInv' /\ Unharmed'
<1>1. ASSUME NEW e \in Entries, Park(e) PROVE HorizonInv' /\ Unharmed'
  BY <1>1, ParkHorizon DEF Park, Unharmed
<1>2. ASSUME NEW e \in Entries, LateDelivery(e) PROVE HorizonInv' /\ Unharmed'
  <2>1. \A f \in Entries : platform'[f] = "expired" => platform[f] = "expired"
    BY <1>2 DEF LateDelivery, Applied, Closed, RecordInv, RecordTypes
  <2> QED BY <1>2, <2>1, HorizonFrame DEF Unharmed, LateDelivery, rowVars, workerVars
<1>3. ASSUME NEW w \in Workers, NEW e \in Entries, Call(w, e)
      PROVE HorizonInv' /\ Unharmed'
  <2>1. \A f \in Entries : platform'[f] = "expired" => platform[f] = "expired"
    BY <1>3 DEF Call, Applied, Closed, RecordInv, RecordTypes
  <2> QED BY <1>3, <2>1, HorizonFrame DEF Unharmed, Call, rowVars, workerVars
<1>4. ASSUME NEW w \in Workers, NEW table \in Tables, Claim(w, table)
      PROVE HorizonInv' /\ Unharmed'
  BY <1>4, ClaimHorizon DEF Claim, Unharmed
<1>5. ASSUME NEW w \in Workers, NEW e \in Entries, Record(w, e)
      PROVE HorizonInv' /\ Unharmed'
  BY <1>5, RecordHorizon DEF Record, PutDown, Unharmed
<1>6. ASSUME Tick PROVE HorizonInv' /\ Unharmed'
  BY <1>6, TickHorizon DEF Tick, Unharmed
<1>7. ASSUME UNCHANGED vars PROVE HorizonInv' /\ Unharmed'
  BY <1>7, HorizonFrame DEF Unharmed, vars, rowVars, workerVars
<1>8. /\ ~SetBillingUnifiedEnabled
      /\ \A w \in Workers : ~Crash(w) /\ \A e \in Entries : ~RecordFails(w, e)
  BY DEF Covered, Unharmed, SetBillingUnifiedEnabled, Crash, RecordFails
<1> QED BY <1>1, <1>2, <1>3, <1>4, <1>5, <1>6, <1>7, <1>8 DEF Next

\* A settle is never retried on an expired hold, provided that PreAuthHoldTTL
\* exceeds the longest request, OutboxRetryHorizon and, for each attempt, a tick
\* and a call for every row of the table; that nothing crashes and no
\* closing update fails; that unified billing stays on; and that there are as many replicas as rows.
THEOREM HoldOutlivesCorrect ==
  ASSUME Covered
  PROVE  Spec => []HoldOutlivesRetries
<1> DEFINE I == /\ OwnerInv /\ RecordInv /\ AttemptInv /\ Fresh /\ HorizonInv
                /\ Unharmed
<1>1. Init => I
  <2> SUFFICES ASSUME Init PROVE I
    OBVIOUS
  <2>1. OwnerInv
    BY OutboxAssumption DEF Init, OwnerInv, OwnerTypes, HeldLease, OneOwner
  <2>2. RecordInv
    BY DEF Init, RecordInv, RecordTypes, Answers
  <2>3. AttemptInv
    BY OutboxAssumption DEF Init, AttemptInv, AttemptTypes, Answers, Unanswered, Open, Uncounted
  <2>4. HorizonTypes
    BY OutboxAssumption DEF Init, HorizonTypes
  <2>5. OneTable /\ InTime /\ Manned /\ ExpiredLast /\ Fresh
    BY DEF Init, OneTable, InTime, Manned, ExpiredLast, Fresh
  <2>6. \A e \in Settles : OnPlan(e)
    BY OutboxAssumption DEF Init, OnPlan
  <2> QED BY <2>1, <2>2, <2>3, <2>4, <2>5, <2>6 DEF HorizonInv, Init, Unharmed
<1>2. I /\ [Next]_vars => I'
  BY OwnerStep, RecordStep, AttemptStep, FreshStep, HorizonStep DEF HorizonInv
<1>3. I => HoldOutlivesRetries
  <2> SUFFICES ASSUME I, NEW e \in Settles, status[e] \in {"pending", "processing"}
               PROVE  platform[e] # "expired"
    BY DEF HoldOutlivesRetries
  <2>1. e \in Entries /\ e \in Queue /\ OnPlan(e) /\ ttl[e] \in Int /\ HoldTTL \in Nat
    BY PlanTyped, OutboxAssumption DEF HorizonInv, HorizonTypes
  <2>2. retry[e] \in Nat /\ retry[e] < MaxRetries /\ Planned(retry[e]) \in Nat
    BY <2>1, PlanTyped DEF AttemptInv, AttemptTypes, Open
  <2>3. Planned(retry[e]) + Slot < HoldTTL
    BY <2>2, PlanCovered
  <2> DEFINE y == Cardinality(Queue) * CallTimeout
  <2>4. Slot = Poll + y /\ y \in Nat /\ Poll \in Nat
    BY PlanTyped, OutboxAssumption DEF Slot
  <2>5. CASE status[e] = "pending"
    <3>1. Spent(e) + wait[e] <= Planned(retry[e]) /\ wait[e] \in Int /\ wait[e] >= -Poll
      BY <2>1, <2>5, OutboxAssumption DEF OnPlan, HorizonInv, HorizonTypes
    <3> HIDE DEF y
    <3>2. ttl[e] > 0
      BY <2>1, <2>2, <2>3, <2>4, <3>1 DEF Spent
    <3> QED BY <2>1, <3>2 DEF HorizonInv, ExpiredLast
  <2>6. CASE status[e] = "processing"
    <3>1. PICK w \in Workers : e \in batch[w]
      BY <2>1, <2>6 DEF HorizonInv, Manned
    <3> DEFINE x == Cardinality(batch[w]) * CallTimeout
    <3>2. age[e] + x <= y + busy[w]
      BY <2>1, <3>1 DEF HorizonInv, InTime
    <3>3. Cardinality(batch[w]) \in Nat /\ Cardinality(batch[w]) >= 1
      BY <3>1, BatchSize DEF OwnerInv, OwnerTypes
    <3>4. x \in Nat /\ x >= CallTimeout
      BY <3>3, CallTime, OutboxAssumption
    <3>5. busy[w] \in Nat /\ busy[w] <= CallTimeout /\ age[e] \in Nat
      BY <2>1, OutboxAssumption DEF OwnerInv, OwnerTypes
    <3>6. Spent(e) <= Planned(retry[e]) + Poll + age[e]
      BY <2>1, <2>6 DEF OnPlan
    <3> HIDE DEF x, y
    <3>7. age[e] <= y
      BY <2>4, <3>2, <3>4, <3>5, OutboxAssumption
    <3>8. ttl[e] > 0
      BY <2>1, <2>2, <2>3, <2>4, <3>5, <3>6, <3>7 DEF Spent
    <3> QED BY <2>1, <3>8 DEF HorizonInv, ExpiredLast
  <2> QED BY <2>5, <2>6
<1> QED BY <1>1, <1>2, <1>3, PTL DEF Spec

-----------------------------------------------------------------------------
effects == [e \in Entries |-> Effect(e)]
words == [e \in Entries |-> Word(e)]

\* The abstract state moves only with the platform's side and the status column.
LEMMA PromiseFrame ==
  /\ platform' = platform => effects' = effects
  /\ status' = status => words' = words
  BY DEF effects, words, Effect, Word, Closed

\* The platform carries out the call of one parked row, or replays or refuses it.
LEMMA CarryPromise ==
  ASSUME RecordInv, NEW e \in Entries, platform' = Applied(e), status[e] # "absent",
         UNCHANGED <<status, lost>>
  PROVE  [Promise!Next]_<<effects, words, lost>>
<1>1. words' = words
  BY PromiseFrame
<1>2. CASE platform[e] # "active"
  <2>1. platform' = platform
    BY <1>2 DEF Applied, RecordInv, RecordTypes
  <2> QED BY <1>1, <2>1, PromiseFrame
<1>3. CASE platform[e] = "active"
  <2>1. platform' = [platform EXCEPT ![e] = Closed(e)] /\ Closed(e) # "active"
    BY <1>3 DEF Applied, Closed
  <2>2. \A f \in Entries : platform'[f] = IF f = e THEN Closed(e) ELSE platform[f]
    BY <2>1 DEF RecordInv, RecordTypes
  <2>3. \A f \in Entries : Effect(f)' = IF f = e THEN "carried" ELSE Effect(f)
    BY <2>1, <2>2 DEF Effect, Closed
  <2>4. effects' = [effects EXCEPT ![e] = "carried"]
    BY <2>3 DEF effects
  <2>5. effects[e] = "open" /\ words[e] # "none"
    BY <1>3 DEF effects, words, Effect, Word, RecordInv, RecordTypes
  <2>6. Promise!Carry(e)
    BY <1>1, <2>4, <2>5 DEF Promise!Carry, effects, words
  <2> QED BY <2>6 DEF Promise!Next
<1> QED BY <1>2, <1>3

\* Time bars the calls whose holds it expires.
LEMMA TickPromise ==
  ASSUME RecordInv, Tick
  PROVE  [Promise!Next]_<<effects, words, lost>>
<1> DEFINE S == {e \in Entries : platform[e] = "active" /\ e \notin Debits /\ ttl[e] <= 1}
<1>1. UNCHANGED <<status, lost>>
      /\ platform' = [e \in Entries |-> IF e \in S THEN "expired" ELSE platform[e]]
  BY DEF Tick
<1>2. \A e \in Entries : Effect(e)' = IF e \in S THEN "barred" ELSE Effect(e)
  BY <1>1 DEF Effect, Closed
<1>3. effects' = [e \in Entries |-> IF e \in S THEN "barred" ELSE effects[e]]
  BY <1>2 DEF effects
<1>4. \A e \in S : effects[e] = "open"
  BY DEF effects, Effect
<1>5. words' = words
  BY <1>1, PromiseFrame
<1> HIDE DEF S
<1>6. S \in SUBSET Entries
  BY DEF S
<1>7. Promise!Bar(S)
  BY <1>1, <1>3, <1>4, <1>5 DEF Promise!Bar, effects, words
<1> QED BY <1>6, <1>7 DEF Promise!Next

\* The closing update is a word about a parked call, or leaves it parked.
LEMMA RecordPromise ==
  ASSUME OwnerInv, RecordInv, NEW w \in Workers, NEW e \in Entries, Record(w, e)
  PROVE  [Promise!Next]_<<effects, words, lost>>
<1> DEFINE ans == answer[w][e]
<1>1. /\ status[e] = "processing" /\ platform' = platform /\ ans # "none"
      /\ lost' = IF NoteMoneyLost(e, ans) THEN lost \cup {e} ELSE lost
  BY DEF Record, PutDown, OwnerInv, HeldLease
<1>2. PICK n : status' = [status EXCEPT ![e] = Outcome(ans, n)]
  BY <1>1 DEF Record
<1>3. effects' = effects /\ words[e] = "parked"
  BY <1>1, PromiseFrame DEF words, Word
<1>4. \A f \in Entries : status'[f] = IF f = e THEN Outcome(ans, n) ELSE status[f]
  BY <1>2 DEF RecordInv, RecordTypes
<1>5. \A f \in Entries : f # e => Word(f)' = Word(f)
  BY <1>4 DEF Word
<1>6. ans \in Answers
  BY DEF RecordInv, RecordTypes
<1>7. CASE Outcome(ans, n) = "done"
  <2>1. ans = "ok"
    BY <1>7 DEF Outcome
  <2>2. lost' = lost
    BY <1>1, <2>1 DEF NoteMoneyLost
  <2>3. effects[e] = "carried"
    BY <2>1 DEF RecordInv, effects, Effect, Closed
  <2>4. words' = [words EXCEPT ![e] = "done"]
    BY <1>4, <1>5, <1>7 DEF words, Word
  <2>5. Promise!Done(e)
    BY <1>3, <2>2, <2>3, <2>4 DEF Promise!Done, effects, words
  <2> QED BY <2>5 DEF Promise!Next
<1>8. CASE Outcome(ans, n) = "failed"
  <2>1. words' = [words EXCEPT ![e] = "failed"]
    BY <1>4, <1>5, <1>8 DEF words, Word
  <2>2. lost' = lost \/ (effects[e] = "barred" /\ lost' = lost \cup {e})
    <3>1. NoteMoneyLost(e, ans) => effects[e] = "barred"
      BY DEF NoteMoneyLost, RecordInv, Refused, effects, Effect
    <3> QED BY <1>1, <3>1
  <2>3. Promise!Fail(e)
    BY <1>3, <2>1, <2>2 DEF Promise!Fail, effects, words
  <2> QED BY <2>3 DEF Promise!Next
<1>9. CASE Outcome(ans, n) = "pending"
  <2>1. lost' = lost
    BY <1>1, <1>9 DEF Outcome, NoteMoneyLost
  <2>2. words' = words
    BY <1>1, <1>4, <1>5, <1>9 DEF words, Word
  <2> QED BY <1>3, <2>1, <2>2
<1> QED BY <1>7, <1>8, <1>9 DEF Outcome

\* When the closing update fails, the alarm is all that is left of it.
LEMMA RecordFailsPromise ==
  ASSUME OwnerInv, RecordInv, NEW w \in Workers, NEW e \in Entries, RecordFails(w, e)
  PROVE  [Promise!Next]_<<effects, words, lost>>
<1>1. /\ status[e] = "processing" /\ UNCHANGED <<platform, status>>
      /\ lost' = IF NoteMoneyLost(e, answer[w][e]) THEN lost \cup {e} ELSE lost
  BY DEF RecordFails, PutDown, rowVars, OwnerInv, HeldLease
<1>2. effects' = effects /\ words' = words /\ words[e] = "parked"
  BY <1>1, PromiseFrame DEF words, Word
<1>3. CASE NoteMoneyLost(e, answer[w][e])
  <2>1. effects[e] = "barred"
    BY <1>3 DEF NoteMoneyLost, RecordInv, Refused, effects, Effect
  <2>2. Promise!Lose(e)
    BY <1>1, <1>2, <1>3, <2>1 DEF Promise!Lose, effects, words
  <2> QED BY <2>2 DEF Promise!Next
<1>4. CASE ~NoteMoneyLost(e, answer[w][e])
  BY <1>1, <1>2, <1>4
<1> QED BY <1>3, <1>4

\* Late deliveries are of rows that have been parked.
LateParked == \A e \in late : e \in Entries /\ status[e] # "absent"

\* Only a call of a claimed row is ever delivered late.
LEMMA LateStep == OwnerInv /\ LateParked /\ [Next]_vars => LateParked'
<1> SUFFICES ASSUME OwnerInv, LateParked, [Next]_vars PROVE LateParked'
  OBVIOUS
<1> USE DEF LateParked, OwnerInv, OwnerTypes
<1>1. ASSUME NEW e \in Entries, Park(e) PROVE LateParked'
  BY <1>1 DEF Park
<1>2. ASSUME NEW e \in Entries, LateDelivery(e) PROVE LateParked'
  BY <1>2 DEF LateDelivery, rowVars
<1>3. ASSUME NEW w \in Workers, NEW table \in Tables, Claim(w, table) PROVE LateParked'
  <2>1. PICK S : /\ status' = [e \in Entries |-> IF e \in S THEN "processing" ELSE status[e]]
                 /\ late' = late
    BY <1>3 DEF Claim
  <2> QED BY <2>1
<1>4. ASSUME NEW w \in Workers, NEW e \in Entries, Call(w, e) PROVE LateParked'
  BY <1>4 DEF Call, rowVars, HeldLease
<1>5. ASSUME NEW w \in Workers, NEW e \in Entries, Record(w, e) PROVE LateParked'
  <2>1. status[e] = "processing" /\ late' = late
    BY <1>5 DEF Record, PutDown, HeldLease
  <2>2. PICK a, n : status' = [status EXCEPT ![e] = Outcome(a, n)]
    BY <1>5, <2>1 DEF Record
  <2>3. Outcome(a, n) # "absent"
    BY DEF Outcome
  <2> QED BY <2>1, <2>2, <2>3
<1>6. ASSUME NEW w \in Workers, Crash(w) PROVE LateParked'
  BY <1>6 DEF Crash, rowVars
<1>8. ASSUME NEW w \in Workers, NEW e \in Entries, RecordFails(w, e) PROVE LateParked'
  BY <1>8 DEF RecordFails, PutDown, rowVars
<1>7. ASSUME SetBillingUnifiedEnabled \/ Tick \/ UNCHANGED vars PROVE LateParked'
  BY <1>7 DEF SetBillingUnifiedEnabled, Tick, vars, rowVars
<1> QED BY <1>1, <1>2, <1>3, <1>4, <1>5, <1>6, <1>7, <1>8 DEF Next

\* Every step of the outbox is a step of the promise, or leaves it as it is.
LEMMA PromiseStep ==
  OwnerInv /\ RecordInv /\ LateParked /\ [Next]_vars => [Promise!Next]_<<effects, words, lost>>
<1> SUFFICES ASSUME OwnerInv, RecordInv, LateParked, [Next]_vars
             PROVE  [Promise!Next]_<<effects, words, lost>>
  OBVIOUS
<1> DEFINE Kept == [Promise!Next]_<<effects, words, lost>>
<1>1. ASSUME UNCHANGED <<platform, status, lost>> PROVE Kept
  BY <1>1, PromiseFrame
<1>2. ASSUME NEW e \in Entries, Park(e) PROVE Kept
  <2>1. /\ status[e] = "absent" /\ status' = [status EXCEPT ![e] = "pending"]
        /\ platform' = platform /\ lost' = lost
    BY <1>2 DEF Park
  <2>2. \A f \in Entries : Word(f)' = IF f = e THEN "parked" ELSE Word(f)
    BY <2>1 DEF Word, RecordInv, RecordTypes
  <2>3. words' = [words EXCEPT ![e] = "parked"] /\ words[e] = "none"
    BY <2>1, <2>2 DEF words, Word
  <2>4. Promise!TakeOver(e)
    BY <2>1, <2>3, PromiseFrame DEF Promise!TakeOver, effects, words
  <2> QED BY <2>4 DEF Promise!Next
<1>3. ASSUME NEW e \in Entries, LateDelivery(e) PROVE Kept
  BY <1>3, CarryPromise DEF LateDelivery, LateParked, rowVars
<1>4. ASSUME NEW w \in Workers, NEW table \in Tables, Claim(w, table) PROVE Kept
  <2>1. PICK S \in SUBSET Due(table) :
          status' = [e \in Entries |-> IF e \in S THEN "processing" ELSE status[e]]
    BY <1>4 DEF Claim, Claimable
  <2>2. platform' = platform /\ lost' = lost
    BY <1>4 DEF Claim
  <2>3. \A e \in S : status[e] \in {"pending", "processing"}
    BY <2>1 DEF Due
  <2>4. \A e \in Entries : Word(e)' = Word(e)
    BY <2>1, <2>3 DEF Word
  <2>5. words' = words
    BY <2>4 DEF words
  <2> QED BY <2>2, <2>5, PromiseFrame
<1>5. ASSUME NEW w \in Workers, NEW e \in Entries, Call(w, e) PROVE Kept
  <2>1. status[e] # "absent" /\ UNCHANGED <<status, lost>>
    BY <1>5 DEF Call, rowVars, OwnerInv, HeldLease
  <2>2. platform' = Applied(e) \/ platform' = platform
    BY <1>5 DEF Call
  <2> QED BY <1>1, <2>1, <2>2, CarryPromise
<1>6. ASSUME NEW w \in Workers, Crash(w) PROVE Kept
  BY <1>1, <1>6 DEF Crash, rowVars
<1>7. ASSUME SetBillingUnifiedEnabled \/ UNCHANGED vars PROVE Kept
  BY <1>1, <1>7 DEF SetBillingUnifiedEnabled, vars, rowVars
<1> HIDE DEF Kept
<1>8. /\ \A w \in Workers, e \in Entries : Record(w, e) \/ RecordFails(w, e) => Kept
      /\ Tick => Kept
  BY RecordPromise, RecordFailsPromise, TickPromise DEF Kept
<1>9. Kept
  BY <1>2, <1>3, <1>4, <1>5, <1>6, <1>7, <1>8 DEF Next
<1> QED BY <1>9 DEF Kept

\* The outbox implements ParkedCall: what its retries, timeouts, crashes and late
\* deliveries do to a call it has taken over is one effect at most and one final,
\* truthful word.
THEOREM PromiseRefined == Spec => PromiseKept
<1> DEFINE I == OwnerInv /\ RecordInv /\ LateParked
<1>1. Init => I
  <2>1. Init => OwnerInv
    BY OutboxAssumption DEF Init, OwnerInv, OwnerTypes, HeldLease, OneOwner
  <2>2. Init => RecordInv
    BY DEF Init, RecordInv, RecordTypes, Answers
  <2>3. Init => LateParked
    BY DEF Init, LateParked
  <2> QED BY <2>1, <2>2, <2>3
<1>2. I /\ [Next]_vars => I'
  BY OwnerStep, RecordStep, LateStep
<1>3. Init => Promise!Init
  BY DEF Init, Promise!Init, Effect, Word, Closed
<1>4. I /\ [Next]_vars => [Promise!Next]_<<effects, words, lost>>
  BY PromiseStep
<1> QED BY <1>1, <1>2, <1>3, <1>4, PTL DEF Spec, PromiseKept, Promise!Spec, effects, words

-----------------------------------------------------------------------------
\* Every step is type-correct.
LEMMA TypeStep == TypeOK /\ [Next]_vars => TypeOK'
<1> SUFFICES ASSUME TypeOK, [Next]_vars PROVE TypeOK'
  OBVIOUS
<1> USE OutboxAssumption DEF TypeOK, rowVars, workerVars
<1>1. ASSUME NEW e \in Entries, Park(e) PROVE TypeOK'
  BY <1>1 DEF Park
<1>2. ASSUME NEW e \in Entries, LateDelivery(e) PROVE TypeOK'
  BY <1>2 DEF LateDelivery, Applied, Closed
<1>3. ASSUME NEW w \in Workers, NEW table \in Tables, Claim(w, table) PROVE TypeOK'
  <2>1. PICK S \in SUBSET Entries :
        /\ batch' = [batch EXCEPT ![w] = S]
        /\ read' = [read EXCEPT ![w] = [e \in Entries |-> IF e \in S THEN retry[e] ELSE 0]]
        /\ status' = [e \in Entries |-> IF e \in S THEN "processing" ELSE status[e]]
        /\ age' = [e \in Entries |-> IF e \in S THEN 0 ELSE age[e]]
        /\ wait' = [e \in Entries |-> IF e \in S THEN 0 ELSE wait[e]]
    BY <1>3 DEF Claim, Claimable, Tables, Due
  <2>2. /\ busy' = [busy EXCEPT ![w] = 0]
        /\ UNCHANGED <<platform, ttl, retry, answer, late, lost, calls, crashes, unwritten, unified>>
    BY <1>3 DEF Claim
  <2>3. 0 \in 0 .. Lease + Poll /\ 0 \in -Poll .. MaxBackoff /\ 0 \in 0 .. CallTimeout
    OBVIOUS
  <2>4. status' \in [Entries -> {"absent", "pending", "processing", "done", "failed"}]
        /\ age' \in [Entries -> 0 .. Lease + Poll] /\ wait' \in [Entries -> -Poll .. MaxBackoff]
    BY <2>1, <2>3
  <2>5. batch' \in [Workers -> SUBSET Entries] /\ read' \in [Workers -> [Entries -> Nat]]
        /\ busy' \in [Workers -> 0 .. CallTimeout]
    BY <2>1, <2>2, <2>3
  <2> QED BY <2>2, <2>4, <2>5
<1>4. ASSUME NEW w \in Workers, NEW e \in Entries, Call(w, e) PROVE TypeOK'
  <2>1. platform' \in [Entries -> {"active", "settled", "released", "expired"}]
    <3>1. platform' = platform \/ platform' = Applied(e)
      BY <1>4 DEF Call
    <3> QED BY <3>1 DEF Applied, Closed
  <2>2. answer' \in [Workers -> [Entries -> Answers]]
    <3>1. Verdict(e) \in Answers /\ "error" \in Answers
      BY DEF Verdict, Answers
    <3>2. PICK a \in Answers : answer' = [answer EXCEPT ![w][e] = a]
      BY <1>4, <3>1 DEF Call
    <3> QED BY <3>2
  <2>3. late' \subseteq Entries /\ calls' \in [Entries -> Nat]
    BY <1>4 DEF Call
  <2> QED BY <1>4, <2>1, <2>2, <2>3 DEF Call
<1>5. ASSUME NEW w \in Workers, NEW e \in Entries, Record(w, e) PROVE TypeOK'
  <2> DEFINE ans == answer[w][e]
             n == IF ans = "ok" THEN read[w][e] ELSE read[w][e] + 1
  <2>1. n \in Nat
    <3>1. read[w][e] \in Nat
      OBVIOUS
    <3> QED BY <3>1
  <2>2. /\ status' \in [Entries -> {"absent", "pending", "processing", "done", "failed"}]
        /\ retry' \in [Entries -> Nat] /\ age' \in [Entries -> 0 .. Lease + Poll]
    <3>1. Outcome(ans, n) \in {"pending", "done", "failed"} /\ 0 \in 0 .. Lease + Poll
      BY DEF Outcome
    <3>2. \/ /\ status' = [status EXCEPT ![e] = Outcome(ans, n)]
             /\ retry' = [retry EXCEPT ![e] = n] /\ age' = [age EXCEPT ![e] = 0]
          \/ UNCHANGED <<status, retry, age>>
      BY <1>5 DEF Record
    <3>3. PICK o \in {"pending", "done", "failed"}, m \in Nat :
             \/ /\ status' = [status EXCEPT ![e] = o]
                /\ retry' = [retry EXCEPT ![e] = m] /\ age' = [age EXCEPT ![e] = 0]
             \/ UNCHANGED <<status, retry, age>>
      BY <2>1, <3>1, <3>2
    <3>4. status' \in [Entries -> {"absent", "pending", "processing", "done", "failed"}]
      BY <3>3
    <3>5. retry' \in [Entries -> Nat]
      BY <3>3
    <3>6. age' \in [Entries -> 0 .. Lease + Poll]
      BY <3>1, <3>3
    <3> QED BY <3>4, <3>5, <3>6
  <2>3. wait' \in [Entries -> -Poll .. MaxBackoff]
    <3>1. (IF Outcome(ans, n) = "pending" THEN Backoff(n) ELSE 0) \in -Poll .. MaxBackoff
      BY <2>1, BackoffType
    <3>2. \/ wait' = [wait EXCEPT ![e] = IF Outcome(ans, n) = "pending" THEN Backoff(n) ELSE 0]
          \/ wait' = wait
      BY <1>5 DEF Record
    <3> HIDE DEF n
    <3> QED BY <3>1, <3>2
  <2>4. /\ batch' \in [Workers -> SUBSET Entries] /\ read' \in [Workers -> [Entries -> Nat]]
        /\ answer' \in [Workers -> [Entries -> Answers]] /\ busy' \in [Workers -> 0 .. CallTimeout]
        /\ lost' \subseteq Settles
    BY <1>5 DEF Record, PutDown, Answers, NoteMoneyLost
  <2>5. UNCHANGED <<platform, ttl, late, calls, crashes, unwritten, unified>>
    BY <1>5 DEF Record, PutDown
  <2> QED BY <2>2, <2>3, <2>4, <2>5
<1>6. ASSUME NEW w \in Workers, Crash(w) PROVE TypeOK'
  BY <1>6 DEF Crash, Answers
<1>10. ASSUME NEW w \in Workers, NEW e \in Entries, RecordFails(w, e) PROVE TypeOK'
  BY <1>10 DEF RecordFails, PutDown, Answers, NoteMoneyLost
<1>7. ASSUME SetBillingUnifiedEnabled PROVE TypeOK'
  BY <1>7 DEF SetBillingUnifiedEnabled
<1>8. ASSUME UNCHANGED vars PROVE TypeOK'
  BY <1>8 DEF vars
<1>9. ASSUME Tick PROVE TypeOK'
  <2>1. /\ busy' = [w \in Workers |-> IF batch[w] # {} THEN busy[w] + 1 ELSE busy[w]]
        /\ \A w \in Workers : batch[w] # {} => busy[w] < CallTimeout
    BY <1>9 DEF Tick
  <2>2. busy' \in [Workers -> 0 .. CallTimeout]
    BY <2>1
  <2>3. wait' \in [Entries -> -Poll .. MaxBackoff]
    BY <1>9 DEF Tick
  <2>4. age' \in [Entries -> 0 .. Lease + Poll] /\ ttl' \in [Entries -> 0 .. HoldTTL]
    BY <1>9 DEF Tick
  <2>5. platform' \in [Entries -> {"active", "settled", "released", "expired"}]
    BY <1>9 DEF Tick
  <2> QED BY <1>9, <2>2, <2>3, <2>4, <2>5 DEF Tick
<1> QED BY <1>1, <1>2, <1>3, <1>4, <1>5, <1>6, <1>7, <1>8, <1>9, <1>10 DEF Next

\* Type correctness, the caps of the counters and ages included.
THEOREM TypeCorrect == Spec => []TypeOK
<1>1. Init => TypeOK
  BY OutboxAssumption DEF Init, TypeOK, Answers
<1> QED BY <1>1, TypeStep, PTL DEF Spec
=============================================================================
