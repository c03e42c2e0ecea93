-------------------------- MODULE RelayRetryProofs --------------------------
(***************************************************************************)
(* Proofs about RelayRetry, for any requests, channels, groups and         *)
(* priorities, any RetryTimes and any setting of the breakers.             *)
(***************************************************************************)
EXTENDS RelayRetry, FiniteSetTheorems, TLAPS

-----------------------------------------------------------------------------
\* Selection

Above(S, p) == {t \in S : t > p}

\* In a finite set of integers every rank from the top is taken.
LEMMA RankOnto ==
  ASSUME NEW S \in SUBSET Int, IsFiniteSet(S), NEW k \in 0..Cardinality(S) - 1
  PROVE  \E p \in S : Cardinality(Above(S, p)) = k
<1> DEFINE n == Cardinality(S)
           f == [p \in S |-> Cardinality(Above(S, p))]
<1>1. n \in Nat
  BY FS_CardinalityType
<1>2. ASSUME NEW p \in S
      PROVE  IsFiniteSet(Above(S, p)) /\ Cardinality(Above(S, p)) \in 0..n - 1
  <2>1. Above(S, p) \in SUBSET S /\ Above(S, p) # S
    BY DEF Above
  <2>2. IsFiniteSet(Above(S, p)) /\ Cardinality(Above(S, p)) <= n
        /\ Cardinality(Above(S, p)) # n
    BY <2>1, FS_Subset
  <2>3. Cardinality(Above(S, p)) \in Nat
    BY <2>2, FS_CardinalityType
  <2> QED
    BY <1>1, <2>2, <2>3
<1>3. ASSUME NEW p \in S, NEW r \in S, p < r
      PROVE  Cardinality(Above(S, r)) # Cardinality(Above(S, p))
  <2>0. \A t \in S : t > r => t > p
    BY <1>3
  <2>1. Above(S, r) \in SUBSET Above(S, p)
    BY <2>0 DEF Above
  <2>2. r > p /\ ~(r > r)
    BY <1>3
  <2>3. r \in Above(S, p) /\ r \notin Above(S, r)
    BY <2>2 DEF Above
  <2>4. IsFiniteSet(Above(S, p)) /\ Above(S, r) # Above(S, p)
    BY <1>2, <2>3
  <2> QED
    BY <2>1, <2>4, FS_Subset
<1>4. f \in [S -> 0..n - 1]
  BY <1>2
<1>5. \A p, r \in S : f[p] = f[r] => p = r
  <2>1. \A p, r \in S : p < r => f[p] # f[r]
    BY <1>3
  <2> QED
    BY <2>1
<1>6. f \in Injection(S, 0..n - 1)
  BY <1>4, <1>5 DEF Injection, IsInjective
<1>7. IsFiniteSet(0..n - 1) /\ Cardinality(0..n - 1) = n
  BY <1>1, FS_Interval
<1>8. f \in Surjection(S, 0..n - 1)
  BY <1>6, <1>7, FS_Injection
<1>9. PICK p \in S : f[p] = k
  BY <1>8 DEF Surjection
<1> QED
  BY <1>9

\* A nonempty finite set of integers has a least element.
LEMMA MinTyped ==
  ASSUME NEW S \in SUBSET Int, IsFiniteSet(S), S # {}
  PROVE  Min(S) \in S /\ \A y \in S : Min(S) <= y
<1> DEFINE n == Cardinality(S)
<1>1. n \in Nat /\ n # 0
  BY FS_CardinalityType, FS_EmptySet
<1>2. PICK p \in S : Cardinality(Above(S, p)) = n - 1
  BY <1>1, RankOnto
<1>3. IsFiniteSet(S \ {p}) /\ Cardinality(S \ {p}) = n - 1
  BY FS_RemoveElement
<1>4. Above(S, p) \in SUBSET (S \ {p})
  BY DEF Above
<1>5. Above(S, p) = S \ {p}
  BY <1>2, <1>3, <1>4, FS_Subset
<1>6. \A y \in S : p <= y
  BY <1>5 DEF Above
<1> QED
  BY <1>6, Zenon DEF Min

\* GetRandomSatisfiedChannelWhere: no priority tier that is asked for is empty, however
\* often the request has been retried.
LEMMA TierNonempty ==
  ASSUME NEW S \in SUBSET Channels, S # {}, NEW retry \in Nat
  PROVE  Tier(S, retry) # {} /\ Tier(S, retry) \subseteq S
<1> DEFINE tiers == {Priority[c] : c \in S}
           n == Cardinality(tiers)
           k == IF retry >= n THEN n - 1 ELSE retry
           f == [c \in S |-> Priority[c]]
<1>1. tiers \in SUBSET Int /\ tiers # {}
  BY RetryAssumption
<1>2. IsFiniteSet(tiers)
  <2>1. IsFiniteSet(S)
    BY RetryAssumption, FS_Subset
  <2>2. f \in Surjection(S, tiers)
    BY DEF Surjection
  <2> HIDE DEF f, tiers
  <2> QED
    BY <2>1, <2>2, FS_Surjection
<1>3. n \in Nat /\ n # 0
  BY <1>1, <1>2, FS_CardinalityType, FS_EmptySet
<1>4. k \in 0..n - 1
  BY <1>3
<1>5. PICK p \in tiers : Cardinality(Above(tiers, p)) = k
  <2> HIDE DEF tiers, k
  <2> QED
    BY <1>1, <1>2, <1>4, RankOnto
<1>6. PICK c \in S : p = Priority[c]
  OBVIOUS
<1>7. c \in Tier(S, retry)
  BY <1>5, <1>6 DEF Tier, Above
<1>8. Tier(S, retry) \subseteq S
  BY DEF Tier
<1> QED
  BY <1>7, <1>8

LEMMA GroupsTyped ==
  /\ Len(Groups) \in Nat
  /\ \A g \in 1..Len(Groups) : Groups[g] \subseteq Channels
  BY RetryAssumption

Misses == {"noChannel", "filterMiss", "allCooling"}

\* An answer of the selection draws from enabled channels, or says why it has none.
Drawn(s) ==
  /\ s.from \subseteq enabled
  /\ s.from = {} => s.miss \in Misses
  /\ s.from # {} => s.miss = "none"

\* The channels of a group that a request has not been through and could be sent to.
Untried(g, used) == {c \in Enabled(g) \ used : ~Cooling(c)}

LEMMA OnceDrawn ==
  ASSUME TypeOK, NEW g \in 1..Len(Groups), NEW retry \in Nat, NEW used
  PROVE  LET s == Once(g, retry, used)
         IN  /\ Drawn(s) /\ s.from \subseteq Enabled(g) \ used
             /\ Untried(g, used) # {} <=> s.from # {}
<1> DEFINE s == Once(g, retry, used)
           free == Enabled(g) \ used
           usable == {c \in free : ~Cooling(c)}
           k == IF used = {} THEN retry ELSE 0
<1>1. Enabled(g) \subseteq enabled /\ enabled \subseteq Channels
  BY DEF Enabled, TypeOK
<1>2. usable = Untried(g, used)
  BY DEF Untried
<1>3. CASE usable = {}
  <2>1. \/ s = [from |-> {}, miss |-> "noChannel"]
        \/ s = [from |-> {}, miss |-> "filterMiss"]
        \/ s = [from |-> {}, miss |-> "allCooling"]
    BY <1>3 DEF Once
  <2>2. s.from = {} /\ s.miss \in Misses
    BY <2>1 DEF Misses
  <2> HIDE DEF s
  <2> QED
    BY <1>2, <1>3, <2>2 DEF Drawn, s
<1>4. CASE usable # {}
  <2>1. s = [from |-> Tier(usable, k), miss |-> "none"]
    BY <1>4 DEF Once
  <2>2. Tier(usable, k) # {} /\ Tier(usable, k) \subseteq usable
    <3>1. usable \in SUBSET Channels /\ k \in Nat
      BY <1>1
    <3> HIDE DEF usable, k
    <3> QED
      BY <1>4, <3>1, TierNonempty
  <2>3. s.from = Tier(usable, k) /\ s.miss = "none"
    BY <2>1
  <2> HIDE DEF s
  <2>4. s.from \subseteq free /\ s.from # {} /\ s.from \subseteq enabled
    BY <1>1, <2>2, <2>3
  <2> QED
    BY <1>2, <1>4, <2>3, <2>4 DEF Drawn, s
<1> QED
  BY <1>3, <1>4

\* selectChannelWhere answers, and with a channel the request has not been through as
\* long as there is one.
LEMMA WhereDrawn ==
  ASSUME TypeOK, NEW g \in 1..Len(Groups), NEW retry \in Nat, NEW used
  PROVE  LET s == Where(g, retry, used)
         IN  /\ Drawn(s)
             /\ Untried(g, used) # {} => s.from \cap used = {}
<1> DEFINE strict == Once(g, retry, used)
           loose == Once(g, retry, {})
<1>1. /\ Drawn(strict) /\ strict.from \subseteq Enabled(g) \ used
      /\ Untried(g, used) # {} <=> strict.from # {}
  BY OnceDrawn
<1>2. Drawn(loose)
  BY OnceDrawn
<1>3. Where(g, retry, used) \in {strict, loose}
  BY DEF Where
<1>4. Untried(g, used) # {} => Where(g, retry, used) = strict
  BY <1>1 DEF Where, Drawn, Misses
<1> HIDE DEF strict, loose
<1> QED
  BY <1>1, <1>2, <1>3, <1>4

\* What the walk over the groups may do to the request's counters: nothing, move to a
\* later group with a fresh retry counter, or spend a group and have the counter reset.
Moves(r, q, s) ==
  \/ /\ s.group = q.group /\ s.retry = q.retry /\ s.reset = q.reset
     /\ s.from # {} => q.group <= Len(Groups)
  \/ /\ s.group \in q.group + 1..Len(Groups) /\ s.retry = 0 /\ s.reset = q.reset
  \/ /\ s.group \in q.group + 1..Len(Groups) + 1 /\ s.retry = 0 /\ s.reset = TRUE
     /\ r \in CrossGroup

LEMMA RunGroupsDrawn ==
  ASSUME TypeOK, NEW r \in Requests, NEW q \in RequestState, NEW strict \in BOOLEAN
  PROVE  LET s == RunGroups(r, q, strict)
         IN  /\ Drawn(s) /\ Moves(r, q, s)
             /\ strict => s.from \cap q.used = {}
             /\ strict /\ (\E i \in q.group..Len(Groups) : Untried(i, q.used) # {})
                  => s.from # {}
<1> DEFINE L == Len(Groups)
           retryAt(i) == IF i = q.group THEN q.retry ELSE 0
           tryAt(i) == IF strict THEN Once(i, 0, q.used)
                       ELSE Where(i, retryAt(i), q.used)
           hits == {i \in q.group..L : tryAt(i).from # {}}
           misses == {tryAt(i).miss : i \in q.group..L}
           here == Min(hits)
           retry == retryAt(here)
           spent == r \in CrossGroup /\ retry >= RetryTimes
           why == CASE "allCooling" \in misses -> "allCooling"
                    [] "allCooling" \notin misses /\ "filterMiss" \in misses -> "filterMiss"
                    [] OTHER -> "noChannel"
           none == [from |-> {}, retry |-> q.retry, reset |-> q.reset,
                    group |-> q.group, miss |-> why]
           some == [from |-> tryAt(here).from, miss |-> "none",
                    retry |-> IF spent THEN 0 ELSE retry,
                    reset |-> q.reset \/ spent,
                    group |-> IF spent THEN here + 1 ELSE here]
           s == RunGroups(r, q, strict)
<1>0. L \in Nat /\ RetryTimes \in Nat
  BY GroupsTyped, RetryAssumption
<1>1. /\ q.group \in 1..L + 1 /\ q.retry \in 0..RetryTimes /\ q.reset \in BOOLEAN
      /\ q.used \subseteq Channels
  BY DEF RequestState
<1>2. s = IF hits = {} THEN none ELSE some
  BY DEF RunGroups
<1>3. ASSUME NEW i \in q.group..L
      PROVE  /\ Drawn(tryAt(i))
             /\ strict => tryAt(i).from \cap q.used = {}
             /\ strict /\ Untried(i, q.used) # {} => tryAt(i).from # {}
  <2>1. i \in 1..L /\ retryAt(i) \in Nat
    BY <1>0, <1>1
  <2>2. CASE strict
    <3>1. tryAt(i) = Once(i, 0, q.used)
      BY <2>2
    <3> HIDE DEF tryAt
    <3> QED
      BY <2>1, <3>1, OnceDrawn
  <2>3. CASE ~strict
    <3>1. tryAt(i) = Where(i, retryAt(i), q.used)
      BY <2>3
    <3> HIDE DEF tryAt, retryAt
    <3> QED
      BY <2>1, <2>3, <3>1, WhereDrawn
  <2> QED
    BY <2>2, <2>3
<1> HIDE DEF tryAt
<1>4. CASE hits = {}
  <2>1. s = none
    BY <1>2, <1>4
  <2>2. /\ s.from = {} /\ s.retry = q.retry /\ s.reset = q.reset
        /\ s.group = q.group /\ s.miss = why
    BY <2>1
  <2>3. why \in Misses
    BY DEF Misses
  <2>4. \A i \in q.group..L : tryAt(i).from = {}
    BY <1>4
  <2>5. strict => \A i \in q.group..L : Untried(i, q.used) = {}
    BY <1>3, <2>4
  <2> HIDE DEF s, why
  <2> QED
    BY <2>2, <2>3, <2>5 DEF Drawn, Moves, s
<1>5. CASE hits # {}
  <2>1. hits \in SUBSET Int /\ IsFiniteSet(hits)
    <3>1. q.group \in Int /\ L \in Int
      BY <1>0, <1>1
    <3>2. IsFiniteSet(q.group..L)
      BY <3>1, FS_Interval
    <3>3. hits \in SUBSET (q.group..L)
      OBVIOUS
    <3>4. hits \in SUBSET Int
      OBVIOUS
    <3> HIDE DEF hits, L
    <3> QED
      BY <3>2, <3>3, <3>4, FS_Subset
  <2>2. here \in hits
    <3> HIDE DEF hits
    <3> QED
      BY <1>5, <2>1, MinTyped
  <2>3. here \in q.group..L /\ tryAt(here).from # {}
    BY <2>2
  <2>4. s = some
    BY <1>2, <1>5
  <2>5. /\ s.from = tryAt(here).from /\ s.miss = "none"
        /\ s.retry = (IF spent THEN 0 ELSE retry)
        /\ s.reset = (q.reset \/ spent)
        /\ s.group = (IF spent THEN here + 1 ELSE here)
    BY <2>4
  <2>6. Drawn(tryAt(here)) /\ (strict => tryAt(here).from \cap q.used = {})
    BY <1>3, <2>3
  <2>7. Drawn(s)
    BY <2>3, <2>5, <2>6 DEF Drawn
  <2>8. here \in Int /\ q.group \in Int /\ q.group <= here /\ here <= L
    BY <1>0, <1>1, <2>3
  <2> HIDE DEF here, s, hits
  <2>9. Moves(r, q, s)
    <3>1. CASE spent
      <4>1. s.reset = TRUE /\ s.retry = 0 /\ s.group = here + 1 /\ r \in CrossGroup
        BY <2>5, <3>1
      <4> HIDE DEF L
      <4> QED
        BY <1>0, <2>8, <4>1 DEF Moves, L
    <3>2. CASE ~spent
      <4>1. s.reset = q.reset
        BY <1>1, <2>5, <3>2
      <4>2. s.retry = retry /\ s.group = here
        BY <2>5, <3>2
      <4> HIDE DEF spent
      <4> QED
        BY <1>0, <2>8, <4>1, <4>2 DEF Moves
    <3> QED
      BY <3>1, <3>2
  <2> QED
    BY <2>3, <2>5, <2>6, <2>7, <2>9 DEF s
<1> QED
  BY <1>4, <1>5

Stays(q, s) == s.group = q.group /\ s.retry = q.retry /\ s.reset = q.reset

\* Some channel within the request's reach is untried.
UntriedLeft(r, q) ==
  IF TokenGroup[r] = 0 THEN \E i \in q.group..Len(Groups) : Untried(i, q.used) # {}
  ELSE Untried(TokenGroup[r], q.used) # {}

\* CacheGetRandomSatisfiedChannel.
LEMMA SelectDrawn ==
  ASSUME TypeOK, NEW r \in Requests, NEW q \in RequestState
  PROVE  LET s == Select(r, q)
         IN  /\ Drawn(s)
             /\ PinHolds(r, q) \/ TokenGroup[r] # 0 => Stays(q, s)
             /\ ~PinHolds(r, q) /\ TokenGroup[r] = 0 => Moves(r, q, s)
             /\ ~PinHolds(r, q) /\ UntriedLeft(r, q) => s.from \cap q.used = {}
<1> DEFINE s == Select(r, q)
           stay(t) == [from |-> t.from, miss |-> t.miss, retry |-> q.retry,
                       reset |-> q.reset, group |-> q.group]
<1>1. CASE PinHolds(r, q)
  <2>1. s = stay([from |-> {pin}, miss |-> "none"])
    BY <1>1 DEF Select
  <2>2. s.from = {pin} /\ s.miss = "none" /\ Stays(q, s)
    BY <2>1 DEF Stays
  <2>3. pin \in enabled
    BY <1>1 DEF PinHolds
  <2> HIDE DEF s
  <2> QED
    BY <1>1, <2>2, <2>3 DEF Drawn, s
<1>2. CASE ~PinHolds(r, q) /\ TokenGroup[r] # 0
  <2> DEFINE w == Where(TokenGroup[r], q.retry, q.used)
  <2>1. s = stay(w)
    BY <1>2 DEF Select
  <2>2. s.from = w.from /\ s.miss = w.miss /\ Stays(q, s)
    BY <2>1 DEF Stays
  <2>3. TokenGroup[r] \in 1..Len(Groups) /\ q.retry \in Nat
    BY <1>2, GroupsTyped, RetryAssumption DEF RequestState
  <2>4. Drawn(w) /\ (Untried(TokenGroup[r], q.used) # {} => w.from \cap q.used = {})
    BY <2>3, WhereDrawn
  <2> HIDE DEF s, w
  <2>5. Drawn(s)
    BY <2>2, <2>4 DEF Drawn
  <2> QED
    BY <1>2, <2>2, <2>4, <2>5 DEF UntriedLeft, s
<1>3. CASE ~PinHolds(r, q) /\ TokenGroup[r] = 0
  <2> DEFINE hard == RunGroups(r, q, TRUE)
             soft == RunGroups(r, q, FALSE)
  <2>1. s = IF q.used # {} /\ hard.from # {} THEN hard ELSE soft
    BY <1>3 DEF Select, WalkGroups
  <2>2. /\ Drawn(hard) /\ Moves(r, q, hard) /\ hard.from \cap q.used = {}
        /\ UntriedLeft(r, q) => hard.from # {}
    BY <1>3, RunGroupsDrawn DEF UntriedLeft
  <2>3. Drawn(soft) /\ Moves(r, q, soft)
    BY RunGroupsDrawn
  <2> HIDE DEF s, hard, soft
  <2> QED
    BY <1>3, <2>1, <2>2, <2>3 DEF s
<1> QED
  BY <1>1, <1>2, <1>3

\* Whatever it answers, the selection leaves the request's counters in their range, and a
\* group once left is not returned to.
LEMMA SelectTyped ==
  ASSUME TypeOK, NEW r \in Requests, NEW q \in RequestState
  PROVE  LET s == Select(r, q)
         IN  /\ s.from \subseteq Channels /\ s.from \subseteq enabled
             /\ s.from = {} => s.miss \in Misses
             /\ s.retry \in 0..RetryTimes /\ s.reset \in BOOLEAN
             /\ s.group \in q.group..Len(Groups) + 1
<1> DEFINE s == Select(r, q)
<1>1. Drawn(s) /\ (Stays(q, s) \/ Moves(r, q, s))
  BY SelectDrawn
<1>2. /\ q.group \in 1..Len(Groups) + 1 /\ q.retry \in 0..RetryTimes
      /\ q.reset \in BOOLEAN /\ Len(Groups) \in Nat /\ RetryTimes \in Nat
  BY GroupsTyped, RetryAssumption DEF RequestState
<1>3. enabled \subseteq Channels
  BY DEF TypeOK
<1> HIDE DEF s
<1>4. s.reset \in BOOLEAN
  BY <1>1, <1>2, Zenon DEF Stays, Moves
<1>5. s.retry \in 0..RetryTimes
  BY <1>1, <1>2 DEF Stays, Moves
<1>6. s.group \in q.group..Len(Groups) + 1
  BY <1>1, <1>2 DEF Stays, Moves
<1> QED
  BY <1>1, <1>3, <1>4, <1>5, <1>6 DEF Drawn, s

-----------------------------------------------------------------------------
\* The records

LEMMA FreshTyped == Fresh \in RequestState
  BY GroupsTyped, RetryAssumption DEF Fresh, RequestState, States, Answers

\* What a request that has ended still carries.
LEMMA AnswerTyped ==
  ASSUME NEW q \in RequestState, NEW a \in Answers
  PROVE  /\ Answer(q, a) \in RequestState
         /\ Answer(q, a).pc = "done" /\ Answer(q, a).err = a
         /\ Answer(q, a).written = q.written /\ Answer(q, a).streams = q.streams
         /\ Answer(q, a).calls = q.calls /\ Answer(q, a).heard = q.heard
<1>1. Answer(q, a) \in RequestState
  BY FreshTyped DEF Answer, RequestState, States
<1> QED
  BY <1>1, FreshTyped DEF Answer, Fresh

LEMMA LeaveTyped ==
  ASSUME NEW q \in RequestState
  PROVE  \E a \in Answers :
           /\ Leave(q) = Answer(q, a)
           /\ a = IF ~q.attempted /\ q.err = "none" THEN "breakersOpen" ELSE q.err
<1>1. q.err \in Answers /\ "breakersOpen" \in Answers
  BY DEF RequestState, Answers
<1> QED
  BY <1>1 DEF Leave

\* The loop goes on with one retry more, or with the counter just reset; or it ends.
LEMMA AgainTyped ==
  ASSUME NEW q \in RequestState
  PROVE  /\ Again(q) \in RequestState
         /\ \/ /\ q.reset
               /\ Again(q) = [[q EXCEPT !.reset = FALSE] EXCEPT !.pc = "select"]
            \/ /\ ~q.reset /\ q.retry < RetryTimes
               /\ Again(q) = [[q EXCEPT !.retry = q.retry + 1] EXCEPT !.pc = "select"]
            \/ ~q.reset /\ Again(q) = Answer(q, q.err) /\ (q.attempted \/ q.err # "none")
            \/ /\ ~q.reset /\ Again(q) = Answer(q, "breakersOpen")
               /\ ~q.attempted /\ q.err = "none"
<1>0. q.retry \in 0..RetryTimes /\ RetryTimes \in Nat /\ q.reset \in BOOLEAN
  BY RetryAssumption DEF RequestState
<1>1. CASE q.reset
  <2> DEFINE n == [q EXCEPT !.reset = FALSE]
  <2>1. n \in RequestState /\ n.retry = q.retry
    BY DEF RequestState
  <2>2. Again(q) = [n EXCEPT !.pc = "select"]
    BY <1>0, <1>1, <2>1 DEF Again
  <2>3. Again(q) \in RequestState
    <3> HIDE DEF n
    <3> QED
      BY <2>1, <2>2 DEF RequestState, States
  <2> QED
    BY <1>1, <2>2, <2>3
<1>2. CASE ~q.reset /\ q.retry < RetryTimes
  <2> DEFINE n == [q EXCEPT !.retry = q.retry + 1]
  <2>1. n \in RequestState /\ n.retry = q.retry + 1
    BY <1>0, <1>2 DEF RequestState
  <2>2. Again(q) = [n EXCEPT !.pc = "select"]
    BY <1>0, <1>2, <2>1 DEF Again
  <2>3. Again(q) \in RequestState
    <3> HIDE DEF n
    <3> QED
      BY <2>1, <2>2 DEF RequestState, States
  <2> QED
    BY <1>2, <2>2, <2>3
<1>3. CASE ~q.reset /\ ~(q.retry < RetryTimes)
  <2> DEFINE n == [q EXCEPT !.retry = q.retry + 1]
  <2>1. /\ n.retry = q.retry + 1 /\ n.err = q.err /\ n.attempted = q.attempted
        /\ n.written = q.written /\ n.streams = q.streams /\ n.calls = q.calls
        /\ n.heard = q.heard
    BY DEF RequestState
  <2>2. Again(q) = Leave(n)
    BY <1>0, <1>3, <2>1 DEF Again
  <2> HIDE DEF n
  <2>3. Leave(n) = Leave(q)
    BY <2>1 DEF Leave, Answer
  <2>4. Leave(q) \in RequestState
    BY LeaveTyped, AnswerTyped
  <2> QED
    BY <1>3, <2>2, <2>3, <2>4 DEF Leave
<1> QED
  BY <1>0, <1>1, <1>2, <1>3

-----------------------------------------------------------------------------
\* What each request is at each point of the loop

InFlight == {"select", "admit", "call"}

\* The errors the loop carries along.
LoopErrors == UpstreamErrors \cup OwnErrors \cup {"none", "noKey"}

\* A request in the loop has a channel, has sent the client nothing, and carries an
\* error once it has been attempted; the reset flag is up only between the selection of
\* a group's last channel and the next retry.
Flight(r, q) ==
  /\ q.chan \in Channels
  /\ ~q.written /\ q.streams = 0
  /\ q.err \in LoopErrors
  /\ q.heard => q.err # "none"
  /\ q.attempted /\ q.pc # "call" => q.err # "none"
  /\ q.pc = "select" => ~q.reset
  /\ q.pc = "select" /\ q.meta /\ q.retry = 0 => r \in CrossGroup
  /\ ~q.meta => ~q.reset /\ q.calls = 0
  /\ q.reset => r \in CrossGroup /\ q.retry = 0
  /\ TokenGroup[r] # 0 => q.group = 1 /\ ~q.reset

\* What a finished request has told the client.
Verdict(q) ==
  /\ q.streams <= 1
  /\ q.err # "none"
  /\ q.err = "ok" => q.streams = 1
  /\ q.heard => q.err \notin {"allCooling", "breakersOpen"}

Local(r, q) ==
  /\ q.pc = "idle" => q = Fresh
  /\ q.pc \in InFlight => Flight(r, q)
  /\ q.pc = "done" => Verdict(q)

\* What a request has when the loop decides about its next retry.
Retrying(r, q) ==
  /\ q.chan \in Channels
  /\ ~q.written /\ q.streams = 0
  /\ q.err \in LoopErrors
  /\ q.heard => q.err # "none"
  /\ q.attempted => q.err # "none"
  /\ ~q.meta => ~q.reset /\ q.calls = 0
  /\ q.reset => r \in CrossGroup /\ q.retry = 0
  /\ TokenGroup[r] # 0 => q.group = 1 /\ ~q.reset

-----------------------------------------------------------------------------
\* The attempts made so far, and what is left of a request

\* Attempts of the groups before the g-th.
Before(g) == (g - 1) * (RetryTimes + 1)

Extra(r) == IF r \in Affine THEN 1 ELSE 0

Walked(r) == IF TokenGroup[r] = 0 THEN Len(Groups) ELSE 1

\* A request has called no more often than its group and its retry counter say; past
\* the last group only the affinity binding is left to call.
Spent(r, q) ==
  /\ q.pc \in InFlight /\ q.meta =>
       /\ q.calls + (IF q.reset THEN 1 ELSE 0) <=
            Before(q.group)
              + (IF q.group <= Len(Groups) THEN q.retry
                 ELSE IF q.pc = "select" /\ q.retry > 0 THEN Extra(r) ELSE 0)
       /\ q.group > Len(Groups) /\ ~q.reset /\ q.pc # "select" =>
            r \in Affine /\ q.retry = 0
  /\ q.pc = "done" => q.calls <= Walked(r) * (RetryTimes + 1) + Extra(r)

\* The same with some group to walk.
Budget(r, q) == Len(Groups) > 0 => Spent(r, q)

\* A request that is about to be retried.
SpentRetrying(r, q) ==
  q.meta => q.calls <= Before(q.group)
                       + (IF q.reset THEN 0
                          ELSE IF q.group <= Len(Groups) THEN q.retry + 1
                          ELSE Extra(r))

LEMMA BeforeGrows ==
  ASSUME NEW g \in 1..Len(Groups) + 1, NEW h \in 1..Len(Groups) + 1, g < h
  PROVE  /\ Before(g) \in Nat /\ Before(h) \in Nat
         /\ Before(g) + RetryTimes + 1 <= Before(h)
<1> DEFINE K == RetryTimes + 1
<1>1. K \in Nat /\ g - 1 \in Nat /\ h - 1 \in Nat /\ h - g - 1 \in Nat
  BY GroupsTyped, RetryAssumption
<1>2. /\ (g - 1) * K \in Nat /\ (h - 1) * K \in Nat /\ (h - g - 1) * K \in Nat
      /\ (h - 1) * K = (g - 1) * K + (h - g - 1) * K + K
  <2> HIDE DEF K
  <2> QED
    BY <1>1
<1>3. Before(g) = (g - 1) * K /\ Before(h) = (h - 1) * K
  BY DEF Before
<1>4. Before(g) \in Nat /\ Before(h) \in Nat /\ Before(g) + K <= Before(h)
  <2> DEFINE a == (g - 1) * K
             b == (h - 1) * K
             c == (h - g - 1) * K
  <2>1. a \in Nat /\ b \in Nat /\ c \in Nat /\ b = a + c + K /\ Before(g) = a /\ Before(h) = b
    BY <1>2, <1>3
  <2> HIDE DEF a, b, c, K
  <2> QED
    BY <1>1, <2>1
<1>5. RetryTimes \in Nat
  BY RetryAssumption
<1> QED
  BY <1>4, <1>5

LEMMA BeforeTyped ==
  ASSUME NEW g \in 1..Len(Groups) + 1
  PROVE  /\ Before(g) \in Nat
         /\ Before(g) <= Before(Len(Groups) + 1)
         /\ g <= Len(Groups) => Before(g) + RetryTimes + 1 <= Before(Len(Groups) + 1)
<1>1. Len(Groups) \in Nat /\ RetryTimes \in Nat
  BY GroupsTyped, RetryAssumption
<1>2. Len(Groups) + 1 \in 1..Len(Groups) + 1
  BY <1>1
<1>3. CASE g < Len(Groups) + 1
  <2>1. /\ Before(g) \in Nat /\ Before(Len(Groups) + 1) \in Nat
        /\ Before(g) + RetryTimes + 1 <= Before(Len(Groups) + 1)
    BY <1>2, <1>3, BeforeGrows
  <2> QED
    BY <1>1, <2>1
<1>4. CASE g = Len(Groups) + 1
  <2>1. RetryTimes + 1 \in Nat /\ g - 1 \in Nat
    BY <1>1
  <2>2. (g - 1) * (RetryTimes + 1) \in Nat
    BY <2>1
  <2> QED
    BY <1>1, <1>4, <2>2 DEF Before
<1> QED
  BY <1>1, <1>3, <1>4

\* The attempts of a request that has ended.
LEMMA WalkedTyped ==
  ASSUME NEW r \in Requests
  PROVE  /\ Walked(r) * (RetryTimes + 1) =
              IF TokenGroup[r] = 0 THEN Before(Len(Groups) + 1) ELSE Before(1) + RetryTimes + 1
         /\ Before(1) = 0
<1>1. Len(Groups) \in Nat /\ RetryTimes \in Nat
  BY GroupsTyped, RetryAssumption
<1>2. Before(1) = 0
  BY <1>1 DEF Before
<1>3. Before(Len(Groups) + 1) = Len(Groups) * (RetryTimes + 1)
  BY <1>1 DEF Before
<1>4. CASE TokenGroup[r] = 0
  BY <1>2, <1>3, <1>4 DEF Walked
<1>5. CASE TokenGroup[r] # 0
  <2>1. Walked(r) = 1
    BY <1>5 DEF Walked
  <2>2. 1 * (RetryTimes + 1) = 0 + RetryTimes + 1
    BY <1>1
  <2> QED
    BY <1>2, <1>5, <2>1, <2>2
<1> QED
  BY <1>4, <1>5

\* The part of Rank that counts the groups left.
Ahead(g) == (Len(Groups) + 1 - g) * (RetryTimes + 3)

LEMMA AheadShrinks ==
  ASSUME NEW g \in 1..Len(Groups) + 1, NEW h \in 1..Len(Groups) + 1, g < h
  PROVE  /\ Ahead(g) \in Nat /\ Ahead(h) \in Nat
         /\ Ahead(h) + RetryTimes + 3 <= Ahead(g)
<1> DEFINE K == RetryTimes + 3
           L == Len(Groups) + 1
<1>1. K \in Nat /\ L - g \in Nat /\ L - h \in Nat /\ h - g - 1 \in Nat
  BY GroupsTyped, RetryAssumption
<1>2. /\ (L - g) * K \in Nat /\ (L - h) * K \in Nat /\ (h - g - 1) * K \in Nat
      /\ (L - g) * K = (L - h) * K + (h - g - 1) * K + K
  <2>1. L \in Int /\ g \in Int /\ h \in Int
    BY GroupsTyped
  <2> HIDE DEF K, L
  <2> QED
    BY <1>1, <2>1
<1>3. Ahead(g) = (L - g) * K /\ Ahead(h) = (L - h) * K
  BY DEF Ahead
<1>4. Ahead(g) \in Nat /\ Ahead(h) \in Nat /\ Ahead(h) + K <= Ahead(g)
  <2> DEFINE a == (L - g) * K
             b == (L - h) * K
             c == (h - g - 1) * K
  <2>1. a \in Nat /\ b \in Nat /\ c \in Nat /\ a = b + c + K /\ Ahead(g) = a /\ Ahead(h) = b
    BY <1>2, <1>3
  <2> HIDE DEF a, b, c, K
  <2> QED
    BY <1>1, <2>1
<1>5. RetryTimes \in Nat
  BY RetryAssumption
<1> QED
  BY <1>4, <1>5

LEMMA AheadTyped ==
  ASSUME NEW g \in 1..Len(Groups) + 1
  PROVE  Ahead(g) \in Nat
<1>1. RetryTimes + 3 \in Nat /\ Len(Groups) + 1 - g \in Nat
  BY GroupsTyped, RetryAssumption
<1> QED
  BY <1>1 DEF Ahead

\* Rank of a request in the loop, with s steps left of its attempt.
Weight(q, s) ==
  4 * (Ahead(q.group) + RetryTimes + 1 - q.retry + (IF q.reset THEN 1 ELSE 0)) + s

LEMMA RankTyped ==
  ASSUME NEW q \in RequestState
  PROVE  /\ q.pc = "select" => Rank(q) = Weight(q, 3)
         /\ q.pc = "admit" => Rank(q) = Weight(q, 2)
         /\ q.pc = "call" => Rank(q) = Weight(q, 1)
         /\ q.pc = "done" => Rank(q) = 0
         /\ \A s \in Nat : Weight(q, s) \in Nat /\ Weight(q, s) >= 4 + s
<1>1. /\ Ahead(q.group) \in Nat /\ q.retry \in 0..RetryTimes /\ RetryTimes \in Nat
      /\ q.reset \in BOOLEAN
  BY AheadTyped, RetryAssumption DEF RequestState
<1>2. \A s \in Nat : Weight(q, s) \in Nat /\ Weight(q, s) >= 4 + s
  BY <1>1 DEF Weight
<1>3. q.pc = "done" => Rank(q) = 0
  BY DEF Rank
<1>4. q.pc = "select" => Rank(q) = Weight(q, 3)
  BY DEF Rank, Weight, Ahead
<1>5. q.pc = "admit" => Rank(q) = Weight(q, 2)
  BY DEF Rank, Weight, Ahead
<1>6. q.pc = "call" => Rank(q) = Weight(q, 1)
  BY DEF Rank, Weight, Ahead
<1> QED
  BY <1>2, <1>3, <1>4, <1>5, <1>6

\* The calls of a request that ends.
LEMMA SpentAtEnd ==
  ASSUME NEW r \in Requests, NEW q \in RequestState, q.meta, SpentRetrying(r, q),
         TokenGroup[r] # 0 => q.group = 1 /\ ~q.reset, Len(Groups) > 0
  PROVE  q.calls <= Walked(r) * (RetryTimes + 1) + Extra(r)
<1> DEFINE L == Len(Groups)
           W == Walked(r) * (RetryTimes + 1)
           g == q.group
<1>1. /\ L \in Nat /\ RetryTimes \in Nat /\ g \in 1..L + 1 /\ q.retry \in 0..RetryTimes
      /\ q.calls \in Nat /\ Extra(r) \in 0..1 /\ q.reset \in BOOLEAN
  BY GroupsTyped, RetryAssumption DEF RequestState, Extra
<1>2. /\ Before(g) \in Nat /\ Before(g) <= Before(L + 1)
      /\ g <= L => Before(g) + RetryTimes + 1 <= Before(L + 1)
  BY <1>1, BeforeTyped
<1>3. Before(L + 1) \in Nat
  BY <1>1, BeforeTyped
<1>4. W = (IF TokenGroup[r] = 0 THEN Before(L + 1) ELSE Before(1) + RetryTimes + 1)
      /\ Before(1) = 0
  BY WalkedTyped
<1>5. q.calls <= Before(g) + (IF q.reset THEN 0 ELSE IF g <= L THEN q.retry + 1
                              ELSE Extra(r))
  BY DEF SpentRetrying
<1> HIDE DEF W, L, g
<1>6. CASE TokenGroup[r] = 0
  BY <1>1, <1>2, <1>3, <1>4, <1>5, <1>6 DEF W
<1>7. CASE TokenGroup[r] # 0
  <2>1. g = 1 /\ ~q.reset /\ g <= L
    BY <1>1, <1>7 DEF g, L
  <2> QED
    BY <1>1, <1>4, <1>5, <1>7, <2>1 DEF W
<1> QED
  BY <1>6, <1>7

\* The calls of a request that ends without one.
LEMMA UnspentAtEnd ==
  ASSUME NEW r \in Requests, NEW n \in 0..1, Len(Groups) > 0
  PROVE  n <= Walked(r) * (RetryTimes + 1) + Extra(r)
<1>1. Len(Groups) \in Nat /\ RetryTimes \in Nat /\ Extra(r) \in 0..1
  BY GroupsTyped, RetryAssumption DEF Extra
<1>2. Before(1) + RetryTimes + 1 <= Before(Len(Groups) + 1) /\ Before(1) = 0
      /\ Before(Len(Groups) + 1) \in Nat
  BY <1>1, BeforeTyped, WalkedTyped
<1>3. Walked(r) * (RetryTimes + 1) =
        IF TokenGroup[r] = 0 THEN Before(Len(Groups) + 1) ELSE Before(1) + RetryTimes + 1
  BY WalkedTyped
<1> DEFINE W == Walked(r) * (RetryTimes + 1)
<1>4. W \in Nat /\ W >= 1
  BY <1>1, <1>2, <1>3
<1> HIDE DEF W
<1> QED
  BY <1>1, <1>4 DEF W

\* A request that ends in a verdict.
LEMMA AnswerGood ==
  ASSUME NEW r \in Requests, NEW q \in RequestState, NEW a \in Answers \ {"none"},
         q.streams <= 1, a = "ok" => q.streams = 1,
         q.heard => a \notin {"allCooling", "breakersOpen"},
         NEW n, n = Answer(q, a)
  PROVE  /\ n \in RequestState /\ n.pc = "done" /\ Local(r, n) /\ Rank(n) = 0
         /\ q.calls <= Walked(r) * (RetryTimes + 1) + Extra(r) => Spent(r, n)
<1>1. /\ n \in RequestState /\ n.pc = "done" /\ n.err = a /\ n.streams = q.streams
      /\ n.calls = q.calls /\ n.heard = q.heard
  BY AnswerTyped
<1>2. Verdict(n)
  BY <1>1 DEF Verdict
<1>3. Local(r, n)
  BY <1>1, <1>2 DEF Local, InFlight
<1>4. Rank(n) = 0
  BY <1>1, RankTyped
<1>5. q.calls <= Walked(r) * (RetryTimes + 1) + Extra(r) => Spent(r, n)
  BY <1>1 DEF Spent, InFlight
<1> QED
  BY <1>1, <1>3, <1>4, <1>5

\* IncreaseRetry and the head of the loop: the request goes on, closer to its end, or ends.
LEMMA AgainGood ==
  ASSUME NEW r \in Requests, NEW q \in RequestState, Retrying(r, q),
         NEW n, n = Again(q)
  PROVE  /\ n \in RequestState /\ n.pc \in {"select", "done"} /\ Local(r, n)
         /\ Rank(n) \in Nat /\ Rank(n) < Weight(q, 1)
         /\ Len(Groups) > 0 /\ SpentRetrying(r, q) => Spent(r, n)
<1>0. /\ q.retry \in 0..RetryTimes /\ RetryTimes \in Nat /\ q.reset \in BOOLEAN
      /\ Len(Groups) \in Nat /\ q.group \in 1..Len(Groups) + 1 /\ q.calls \in Nat
      /\ Ahead(q.group) \in Nat /\ Before(q.group) \in Nat /\ Extra(r) \in Nat
      /\ q.meta \in BOOLEAN
  BY AheadTyped, BeforeTyped, GroupsTyped, RetryAssumption DEF RequestState, Extra
<1>1. n \in RequestState
  BY AgainTyped
<1>2. CASE n.pc = "select"
  <2>1. /\ n.chan = q.chan /\ n.meta = q.meta /\ n.group = q.group /\ n.err = q.err
        /\ n.attempted = q.attempted /\ n.written = q.written /\ n.streams = q.streams
        /\ n.calls = q.calls /\ n.heard = q.heard /\ ~n.reset
        /\ \/ q.reset /\ n.retry = q.retry
           \/ ~q.reset /\ n.retry = q.retry + 1
    <3>1. CASE n = [[q EXCEPT !.reset = FALSE] EXCEPT !.pc = "select"] /\ q.reset
      BY <3>1 DEF RequestState
    <3>2. CASE n = [[q EXCEPT !.retry = q.retry + 1] EXCEPT !.pc = "select"] /\ ~q.reset
      BY <3>2 DEF RequestState
    <3>3. \A a \in Answers : n = Answer(q, a) => FALSE
      BY <1>2, AnswerTyped
    <3>4. q.err \in Answers /\ "breakersOpen" \in Answers
      BY DEF RequestState, Answers
    <3> QED
      BY <3>1, <3>2, <3>3, <3>4, AgainTyped
  <2>2. Flight(r, n)
    BY <1>0, <1>2, <2>1 DEF Flight, Retrying
  <2>3. Local(r, n)
    BY <1>2, <2>2 DEF Local
  <2>4. Rank(n) = Weight(n, 3) /\ Weight(n, 3) \in Nat
    BY <1>1, <1>2, RankTyped
  <2>5. Weight(n, 3) < Weight(q, 1)
    <3> DEFINE w == Ahead(q.group) + RetryTimes + 1 - q.retry
    <3>1. CASE q.reset
      <4>1. Weight(q, 1) = 4 * (w + 1) + 1 /\ Weight(n, 3) = 4 * (w + 0) + 3
        BY <1>0, <2>1, <3>1 DEF Weight
      <4> QED
        BY <1>0, <4>1
    <3>2. CASE ~q.reset
      <4>1. Weight(q, 1) = 4 * (w + 0) + 1
        BY <3>2 DEF Weight
      <4>2. n.retry = q.retry + 1 /\ n.group = q.group /\ ~n.reset
        BY <2>1, <3>2
      <4>3. Weight(n, 3) = 4 * (w - 1 + 0) + 3
        BY <1>0, <4>2 DEF Weight
      <4> QED
        BY <1>0, <4>1, <4>3
    <3> QED
      BY <1>0, <3>1, <3>2
  <2>6. Weight(q, 1) \in Nat
    BY RankTyped
  <2>7. ASSUME SpentRetrying(r, q)
        PROVE  Spent(r, n)
    <3>1. CASE ~q.meta
      BY <1>2, <2>1, <3>1 DEF Spent
    <3>2. CASE q.meta
      <4>1. q.calls <= Before(q.group) + (IF q.reset THEN 0
                          ELSE IF q.group <= Len(Groups) THEN q.retry + 1 ELSE Extra(r))
        BY <2>7, <3>2 DEF SpentRetrying
      <4>2. n.calls + 0 <= Before(n.group)
              + (IF n.group <= Len(Groups) THEN n.retry
                 ELSE IF n.retry > 0 THEN Extra(r) ELSE 0)
        BY <1>0, <2>1, <4>1
      <4> QED
        BY <1>2, <2>1, <4>2 DEF Spent
    <3> QED
      BY <1>0, <3>1, <3>2
  <2> QED
    BY <1>1, <1>2, <2>3, <2>4, <2>5, <2>6, <2>7
<1>3. CASE n.pc # "select"
  <2>1. PICK a \in Answers \ {"none"} :
          n = Answer(q, a) /\ a # "ok" /\ (q.heard => a \notin {"allCooling", "breakersOpen"})
    <3>1. \A x \in RequestState : [x EXCEPT !.pc = "select"].pc = "select"
      BY DEF RequestState
    <3>2. [q EXCEPT !.reset = FALSE] \in RequestState
      BY DEF RequestState
    <3>3. ASSUME q.retry < RetryTimes
          PROVE  [q EXCEPT !.retry = q.retry + 1] \in RequestState
      <4>1. q.retry + 1 \in 0..RetryTimes
        BY <1>0, <3>3
      <4> QED
        BY <4>1 DEF RequestState
    <3>4. \/ n = Answer(q, q.err) /\ (q.attempted \/ q.err # "none")
          \/ n = Answer(q, "breakersOpen") /\ ~q.attempted /\ q.err = "none"
      <4>1. ~(q.reset /\ n = [[q EXCEPT !.reset = FALSE] EXCEPT !.pc = "select"])
        BY <1>3, <3>1, <3>2
      <4>2. ~( /\ ~q.reset /\ q.retry < RetryTimes
               /\ n = [[q EXCEPT !.retry = q.retry + 1] EXCEPT !.pc = "select"] )
        BY <1>3, <3>1, <3>3
      <4> QED
        BY <4>1, <4>2, AgainTyped
    <3>5. q.err \in Answers /\ "breakersOpen" \in Answers
      BY DEF RequestState, Answers
    <3> QED
      BY <3>4, <3>5 DEF Retrying, LoopErrors, UpstreamErrors, OwnErrors
  <2>2. q.streams = 0 /\ (~q.meta => q.calls = 0)
        /\ (TokenGroup[r] # 0 => q.group = 1 /\ ~q.reset)
    BY DEF Retrying
  <2>3. /\ n.pc = "done" /\ Local(r, n) /\ Rank(n) = 0
        /\ q.calls <= Walked(r) * (RetryTimes + 1) + Extra(r) => Spent(r, n)
    BY <2>1, <2>2, AnswerGood
  <2>4. Weight(q, 1) >= 5 /\ Weight(q, 1) \in Nat
    BY RankTyped
  <2>5. ASSUME Len(Groups) > 0, SpentRetrying(r, q)
        PROVE  q.calls <= Walked(r) * (RetryTimes + 1) + Extra(r)
    <3>1. CASE q.meta
      BY <2>2, <2>5, <3>1, SpentAtEnd
    <3>2. CASE ~q.meta
      BY <2>2, <2>5, <3>2, UnspentAtEnd
    <3> QED
      BY <1>0, <3>1, <3>2
  <2> QED
    BY <1>1, <2>3, <2>4, <2>5
<1> QED
  BY <1>2, <1>3

-----------------------------------------------------------------------------
\* Each step keeps what is known of its request, and brings its end closer

Good(r, n) == n \in RequestState /\ Local(r, n) /\ Budget(r, n)

Closer(q, n) == 0 <= Rank(n) /\ Rank(n) < Rank(q)

\* A selection within the loop: the counters it leaves.
LEMMA TakeGood ==
  ASSUME TypeOK, NEW r \in Requests, NEW q \in RequestState, q.pc = "select",
         Flight(r, q), q.meta, NEW s, s = Select(r, q), NEW c \in s.from
  PROVE  /\ c \in Channels /\ s.retry \in 0..RetryTimes /\ s.reset \in BOOLEAN
         /\ s.group \in 1..Len(Groups) + 1
         /\ s.reset => r \in CrossGroup /\ s.retry = 0
         /\ TokenGroup[r] # 0 => s.group = 1 /\ ~s.reset
         /\ Weight(s, 2) < Weight(q, 3)
         /\ Spent(r, q) /\ Len(Groups) > 0 =>
              /\ q.calls + (IF s.reset THEN 1 ELSE 0)
                   <= Before(s.group) + (IF s.group <= Len(Groups) THEN s.retry ELSE 0)
              /\ s.group > Len(Groups) /\ ~s.reset => r \in Affine /\ s.retry = 0
<1>0. /\ q.retry \in 0..RetryTimes /\ RetryTimes \in Nat /\ ~q.reset
      /\ Len(Groups) \in Nat /\ q.group \in 1..Len(Groups) + 1 /\ q.calls \in Nat
      /\ Ahead(q.group) \in Nat /\ Before(q.group) \in Nat
  BY AheadTyped, BeforeTyped, GroupsTyped, RetryAssumption DEF RequestState, Flight
<1>1. /\ c \in Channels /\ s.retry \in 0..RetryTimes /\ s.reset \in BOOLEAN
      /\ s.group \in q.group..Len(Groups) + 1
  BY SelectTyped
<1>2. s.group \in 1..Len(Groups) + 1
  BY <1>0, <1>1
<1>3. Spent(r, q) => q.calls <= Before(q.group)
                       + (IF q.group <= Len(Groups) THEN q.retry
                          ELSE IF q.retry > 0 THEN Extra(r) ELSE 0)
  BY <1>0 DEF Spent, InFlight
<1>4. TokenGroup[r] # 0 => q.group = 1
  BY DEF Flight
<1>5. Weight(q, 3) = 4 * (Ahead(q.group) + RetryTimes + 1 - q.retry) + 3
  BY <1>0 DEF Weight
<1>6. ASSUME Stays(q, s), q.group <= Len(Groups) \/ (PinHolds(r, q) /\ q.group > Len(Groups))
      PROVE  /\ ~s.reset
             /\ TokenGroup[r] # 0 => s.group = 1
             /\ Weight(s, 2) < Weight(q, 3)
             /\ Spent(r, q) =>
                  /\ q.calls <= Before(s.group)
                                 + (IF s.group <= Len(Groups) THEN s.retry ELSE 0)
                  /\ s.group > Len(Groups) => r \in Affine /\ s.retry = 0
  <2>1. s.group = q.group /\ s.retry = q.retry /\ ~s.reset
    BY <1>0, <1>6 DEF Stays
  <2>2. Weight(s, 2) = 4 * (Ahead(q.group) + RetryTimes + 1 - q.retry) + 2
    BY <1>0, <2>1 DEF Weight
  <2>3. Weight(s, 2) < Weight(q, 3)
    BY <1>0, <1>5, <2>2
  <2>4. CASE q.group <= Len(Groups)
    BY <1>0, <1>3, <1>4, <2>1, <2>3, <2>4
  <2>5. CASE PinHolds(r, q) /\ q.group > Len(Groups)
    <3>1. q.retry = 0 /\ r \in Affine
      BY <2>5 DEF PinHolds, Bound
    <3> QED
      BY <1>0, <1>3, <1>4, <2>1, <2>3, <2>5, <3>1
  <2> QED
    BY <1>6, <2>4, <2>5
<1>7. ASSUME s.group \in q.group + 1..Len(Groups) + 1, s.retry = 0
      PROVE  /\ Weight(s, 2) < Weight(q, 3)
             /\ Spent(r, q) => q.calls + 1 <= Before(s.group)
  <2>1. /\ q.group < s.group /\ q.group <= Len(Groups)
    BY <1>0, <1>7
  <2>2. /\ Ahead(s.group) \in Nat /\ Ahead(s.group) + RetryTimes + 3 <= Ahead(q.group)
    BY <1>0, <1>2, <2>1, AheadShrinks
  <2>3. /\ Before(s.group) \in Nat /\ Before(q.group) + RetryTimes + 1 <= Before(s.group)
    BY <1>0, <1>2, <2>1, BeforeGrows
  <2>4. PICK e \in 0..1 : e = IF s.reset THEN 1 ELSE 0
    OBVIOUS
  <2>5. Weight(s, 2) = 4 * (Ahead(s.group) + RetryTimes + 1 - 0 + e) + 2
    BY <1>7, <2>4 DEF Weight
  <2>6. Weight(s, 2) < Weight(q, 3)
    <3> DEFINE x == Ahead(s.group)
               y == Ahead(q.group)
    <3>1. x \in Nat /\ y \in Nat /\ x + RetryTimes + 3 <= y
      BY <1>0, <2>2
    <3>2. x + RetryTimes + 1 - 0 + e < y + RetryTimes + 1 - q.retry
      <4> HIDE DEF x, y
      <4> QED
        BY <1>0, <3>1
    <3>3. 4 * (x + RetryTimes + 1 - 0 + e) + 2 < 4 * (y + RetryTimes + 1 - q.retry) + 3
      <4> HIDE DEF x, y
      <4> QED
        BY <1>0, <3>1, <3>2
    <3> QED
      BY <1>5, <2>5, <3>3
  <2>7. Spent(r, q) => q.calls + 1 <= Before(s.group)
    BY <1>0, <1>3, <2>1, <2>3
  <2> QED
    BY <2>6, <2>7
<1>8. CASE PinHolds(r, q) \/ TokenGroup[r] # 0
  <2>1. Stays(q, s)
    BY <1>8, SelectDrawn
  <2>2. q.group <= Len(Groups) \/ (PinHolds(r, q) /\ q.group > Len(Groups))
    BY <1>0, <1>4, <1>8, RetryAssumption
  <2>3. ~s.reset
    BY <1>6, <2>1, <2>2
  <2> QED
    BY <1>0, <1>1, <1>2, <1>6, <2>1, <2>2, <2>3
<1>9. CASE ~PinHolds(r, q) /\ TokenGroup[r] = 0
  <2>1. Moves(r, q, s) /\ s.from # {}
    BY <1>9, SelectDrawn
  <2>2. CASE Stays(q, s) /\ q.group <= Len(Groups)
    <3>1. ~s.reset
      BY <1>6, <2>2
    <3> QED
      BY <1>0, <1>1, <1>2, <1>6, <1>9, <2>2, <3>1
  <2>3. CASE s.group \in q.group + 1..Len(Groups) /\ s.retry = 0 /\ s.reset = q.reset
    <3>1. s.group \in q.group + 1..Len(Groups) + 1 /\ ~s.reset /\ s.group <= Len(Groups)
      BY <1>0, <2>3
    <3>2. /\ Weight(s, 2) < Weight(q, 3)
          /\ Spent(r, q) => q.calls + 1 <= Before(s.group)
      BY <1>7, <2>3, <3>1
    <3>3. Before(s.group) \in Nat
      BY <1>2, BeforeTyped
    <3> QED
      BY <1>0, <1>1, <1>2, <1>9, <2>3, <3>1, <3>2, <3>3
  <2>4. CASE /\ s.group \in q.group + 1..Len(Groups) + 1 /\ s.retry = 0 /\ s.reset = TRUE
             /\ r \in CrossGroup
    <3>1. /\ Weight(s, 2) < Weight(q, 3)
          /\ Spent(r, q) => q.calls + 1 <= Before(s.group)
      BY <1>7, <2>4
    <3>2. Before(s.group) \in Nat
      BY <1>2, BeforeTyped
    <3> QED
      BY <1>0, <1>1, <1>2, <1>9, <2>4, <3>1, <3>2
  <2> QED
    BY <2>1, <2>2, <2>3, <2>4 DEF Moves, Stays
<1> QED
  BY <1>8, <1>9

LEMMA ArriveSpecificGood ==
  ASSUME TypeOK, NEW r \in Requests, Local(r, req[r]), ArriveSpecific(r)
  PROVE  \E n : req' = [req EXCEPT ![r] = n] /\ Good(r, n)
<1> DEFINE q == req[r]
<1>1. q = Fresh /\ q \in RequestState
  BY DEF ArriveSpecific, Local, TypeOK
<1>2. PICK c \in Specific[r] \ {NoChannel} :
        req' = [req EXCEPT ![r] =
                 IF c \in enabled
                 THEN [q EXCEPT !.pc = "select", !.chan = c, !.specific = c]
                 ELSE Answer(q, "noChannel")]
  BY DEF ArriveSpecific
<1>3. c \in Channels
  BY RetryAssumption
<1>4. CASE c \in enabled
  <2> DEFINE n == [q EXCEPT !.pc = "select", !.chan = c, !.specific = c]
  <2>1. n \in RequestState
    BY <1>1, <1>3 DEF RequestState, States
  <2>2. /\ n.pc = "select" /\ n.chan = c /\ ~n.meta /\ n.retry = 0 /\ ~n.reset
        /\ n.group = 1 /\ n.err = "none" /\ ~n.attempted /\ ~n.written
        /\ n.streams = 0 /\ n.calls = 0 /\ ~n.heard
    BY <1>1 DEF Fresh
  <2> HIDE DEF n
  <2>3. Flight(r, n)
    BY <1>3, <2>2 DEF Flight, LoopErrors
  <2>4. Local(r, n) /\ Budget(r, n)
    BY <2>2, <2>3 DEF Local, Budget, Spent
  <2>5. req' = [req EXCEPT ![r] = n]
    BY <1>2, <1>4 DEF n
  <2> QED
    BY <2>1, <2>4, <2>5 DEF Good
<1>5. CASE c \notin enabled
  <2> DEFINE n == Answer(q, "noChannel")
  <2>1. "noChannel" \in Answers \ {"none"}
    BY DEF Answers, SelectErrors
  <2>2. q.streams = 0 /\ q.calls = 0 /\ ~q.heard
    BY <1>1 DEF Fresh
  <2>3. /\ n \in RequestState /\ Local(r, n)
        /\ q.calls <= Walked(r) * (RetryTimes + 1) + Extra(r) => Spent(r, n)
    BY <1>1, <2>1, <2>2, AnswerGood
  <2>4. Len(Groups) > 0 => q.calls <= Walked(r) * (RetryTimes + 1) + Extra(r)
    BY <2>2, UnspentAtEnd
  <2>5. req' = [req EXCEPT ![r] = n]
    BY <1>2, <1>5
  <2> QED
    BY <2>3, <2>4, <2>5 DEF Good, Budget
<1> QED
  BY <1>4, <1>5

LEMMA ArriveGood ==
  ASSUME TypeOK, NEW r \in Requests, Local(r, req[r]), Arrive(r)
  PROVE  \E n : req' = [req EXCEPT ![r] = n] /\ Good(r, n)
<1> DEFINE q == req[r]
           s == Select(r, q)
<1>1. q = Fresh /\ q \in RequestState
  BY DEF Arrive, Local, TypeOK
<1>2. /\ s.from \subseteq Channels
      /\ s.from = {} => s.miss \in Misses
      /\ s.retry \in 0..RetryTimes /\ s.reset \in BOOLEAN
      /\ s.group \in q.group..Len(Groups) + 1
  BY <1>1, SelectTyped
<1>3. q.streams = 0 /\ q.calls = 0 /\ ~q.heard /\ q.group = 1
  BY <1>1 DEF Fresh
<1>4. ASSUME NEW a \in Answers \ {"none", "ok"}, req' = [req EXCEPT ![r] = Answer(q, a)]
      PROVE  \E n : req' = [req EXCEPT ![r] = n] /\ Good(r, n)
  <2> DEFINE n == Answer(q, a)
  <2>1. /\ n \in RequestState /\ Local(r, n)
        /\ q.calls <= Walked(r) * (RetryTimes + 1) + Extra(r) => Spent(r, n)
    BY <1>1, <1>3, AnswerGood
  <2>2. Len(Groups) > 0 => q.calls <= Walked(r) * (RetryTimes + 1) + Extra(r)
    BY <1>3, UnspentAtEnd
  <2> QED
    BY <1>4, <2>1, <2>2 DEF Good, Budget
<1>5. CASE s.from = {} /\ req' = [req EXCEPT ![r] = Answer(q, s.miss)]
  <2>1. s.miss \in Answers \ {"none", "ok"}
    BY <1>2, <1>5 DEF Misses, Answers, SelectErrors
  <2> QED
    BY <1>4, <1>5, <2>1
<1>6. CASE req' = [req EXCEPT ![r] = Answer(q, "noKey")]
  <2>1. "noKey" \in Answers \ {"none", "ok"}
    BY DEF Answers, SelectErrors
  <2> QED
    BY <1>4, <1>6, <2>1
<1>7. ASSUME NEW c \in s.from,
             req' = [req EXCEPT ![r] = [Take(q, s, c) EXCEPT !.pc = "select",
                                                    !.retry = 0, !.reset = FALSE]]
      PROVE  \E n : req' = [req EXCEPT ![r] = n] /\ Good(r, n)
  <2> DEFINE t == Take(q, s, c)
             n == [t EXCEPT !.pc = "select", !.retry = 0, !.reset = FALSE]
  <2>1. c \in Channels /\ s.group \in 1..Len(Groups) + 1
    BY <1>2, <1>3, GroupsTyped
  <2>2. /\ t \in RequestState /\ t.chan = c /\ t.group = s.group /\ ~t.meta
        /\ t.err = "none" /\ ~t.attempted /\ ~t.written /\ t.streams = 0
        /\ t.calls = 0 /\ ~t.heard
    <3>1. t \in RequestState
      BY <1>1, <1>2, <2>1 DEF Take, RequestState
    <3> QED
      BY <1>1, <3>1 DEF Take, Fresh
  <2> HIDE DEF t
  <2>3. n \in RequestState
    <3>1. 0 \in 0..RetryTimes
      BY RetryAssumption
    <3> QED
      BY <2>2, <3>1 DEF RequestState, States
  <2>4. /\ n.pc = "select" /\ n.chan = c /\ ~n.meta /\ n.retry = 0 /\ ~n.reset
        /\ n.group = s.group /\ n.err = "none" /\ ~n.attempted /\ ~n.written
        /\ n.streams = 0 /\ n.calls = 0 /\ ~n.heard
    BY <2>2 DEF RequestState
  <2>5. TokenGroup[r] # 0 => s.group = 1
    BY <1>1, <1>3, SelectDrawn DEF Stays
  <2> HIDE DEF n
  <2>6. Flight(r, n)
    BY <2>1, <2>4, <2>5 DEF Flight, LoopErrors
  <2>7. Local(r, n) /\ Budget(r, n)
    BY <2>4, <2>6 DEF Local, Budget, Spent
  <2> QED
    BY <1>7, <2>3, <2>7 DEF Good, n, t
<1> QED
  BY <1>5, <1>6, <1>7 DEF Arrive

LEMMA ReuseGood ==
  ASSUME TypeOK, NEW r \in Requests, Local(r, req[r]), Budget(r, req[r]), Reuse(r)
  PROVE  \E n : req' = [req EXCEPT ![r] = n] /\ Good(r, n) /\ Closer(req[r], n)
<1> DEFINE q == req[r]
           p == [q EXCEPT !.pc = "admit"]
           n == [p EXCEPT !.used = q.used \cup {q.chan}]
<1>1. q \in RequestState /\ q.pc = "select" /\ ~q.meta /\ Flight(r, q)
  BY DEF Reuse, Local, TypeOK, InFlight
<1>2. req' = [req EXCEPT ![r] = n]
  BY DEF Reuse, TypeOK, RequestState
<1>3. p \in RequestState
  BY <1>1 DEF RequestState, States
<1>4. n \in RequestState
  BY <1>1, <1>3 DEF RequestState, Flight
<1>5. /\ n.pc = "admit" /\ n.chan = q.chan /\ n.meta = q.meta /\ n.retry = q.retry
      /\ n.reset = q.reset /\ n.group = q.group /\ n.err = q.err
      /\ n.attempted = q.attempted /\ n.written = q.written /\ n.streams = q.streams
      /\ n.calls = q.calls /\ n.heard = q.heard
  BY <1>1 DEF RequestState
<1> HIDE DEF n, p
<1>6. Flight(r, n)
  BY <1>1, <1>5 DEF Flight
<1>7. Local(r, n) /\ Budget(r, n)
  BY <1>1, <1>5, <1>6 DEF Local, Budget, Spent
<1>8. Rank(n) = Weight(n, 2) /\ Rank(q) = Weight(q, 3) /\ Weight(n, 2) \in Nat
      /\ Weight(q, 3) \in Nat
  BY <1>1, <1>4, <1>5, RankTyped
<1>9. Weight(q, 3) = Weight(n, 2) + 1
  <2> DEFINE w == 4 * (Ahead(q.group) + RetryTimes + 1 - q.retry
                         + (IF q.reset THEN 1 ELSE 0))
  <2>1. Weight(q, 3) = w + 3 /\ Weight(n, 2) = w + 2
    BY <1>5 DEF Weight
  <2>2. w \in Int
    <3>1. /\ Ahead(q.group) \in Nat /\ RetryTimes \in Nat /\ q.retry \in Nat
          /\ (IF q.reset THEN 1 ELSE 0) \in Nat
      BY <1>1, AheadTyped, RetryAssumption DEF RequestState
    <3> QED
      BY <3>1
  <2> HIDE DEF w
  <2> QED
    BY <2>1, <2>2
<1>10. Good(r, n) /\ Closer(q, n)
  BY <1>4, <1>7, <1>8, <1>9 DEF Good, Closer
<1> QED
  BY <1>2, <1>10

LEMMA WeightSteps ==
  ASSUME NEW q \in RequestState, NEW i \in Nat, NEW j \in Nat, i < j
  PROVE  Weight(q, i) < Weight(q, j) /\ Weight(q, i) \in Nat /\ Weight(q, j) \in Nat
<1> DEFINE w == 4 * (Ahead(q.group) + RetryTimes + 1 - q.retry
                       + (IF q.reset THEN 1 ELSE 0))
<1>1. Weight(q, i) = w + i /\ Weight(q, j) = w + j
  BY DEF Weight
<1>2. w \in Int
  <2>1. /\ Ahead(q.group) \in Nat /\ RetryTimes \in Nat /\ q.retry \in Nat
        /\ (IF q.reset THEN 1 ELSE 0) \in Nat
    BY AheadTyped, RetryAssumption DEF RequestState
  <2> QED
    BY <2>1
<1>3. Weight(q, i) \in Nat /\ Weight(q, j) \in Nat
  BY RankTyped
<1> HIDE DEF w
<1> QED
  BY <1>1, <1>2, <1>3

\* What a request has spent before its attempt is within what it may have spent after.
LEMMA SpentGoesOn ==
  ASSUME NEW r \in Requests, NEW q \in RequestState, q.pc \in {"select", "admit"},
         Flight(r, q), Spent(r, q)
  PROVE  SpentRetrying(r, q)
<1>1. /\ q.retry \in Nat /\ Before(q.group) \in Nat /\ Extra(r) \in Nat
      /\ q.calls \in Nat /\ Len(Groups) \in Nat /\ q.group \in Nat
      /\ q.reset \in BOOLEAN /\ q.meta \in BOOLEAN
  BY BeforeTyped, GroupsTyped, RetryAssumption DEF RequestState, Extra
<1>2. SUFFICES ASSUME q.meta
               PROVE  q.calls <= Before(q.group)
                        + (IF q.reset THEN 0
                           ELSE IF q.group <= Len(Groups) THEN q.retry + 1 ELSE Extra(r))
  BY DEF SpentRetrying
<1>3. q.calls + (IF q.reset THEN 1 ELSE 0) <=
            Before(q.group)
              + (IF q.group <= Len(Groups) THEN q.retry
                 ELSE IF q.pc = "select" /\ q.retry > 0 THEN Extra(r) ELSE 0)
  BY <1>2 DEF Spent, InFlight
<1>4. q.reset => q.retry = 0
  BY DEF Flight
<1>5. CASE q.reset
  BY <1>1, <1>3, <1>4, <1>5
<1>6. CASE ~q.reset
  BY <1>1, <1>3, <1>6
<1> QED
  BY <1>1, <1>5, <1>6

\* A call is one of the attempts the request may make.
LEMMA CallSpent ==
  ASSUME NEW r \in Requests, NEW q \in RequestState, q.pc = "call", Flight(r, q),
         Spent(r, q), Len(Groups) > 0, NEW x \in 0..1
  PROVE  q.calls + x <= Before(q.group)
                        + (IF q.reset THEN 0
                           ELSE IF q.group <= Len(Groups) THEN q.retry + 1 ELSE Extra(r))
<1>1. /\ q.retry \in Nat /\ Before(q.group) \in Nat
      /\ q.calls \in Nat /\ Len(Groups) \in Nat /\ q.group \in 1..Len(Groups) + 1
      /\ q.reset \in BOOLEAN /\ q.meta \in BOOLEAN /\ RetryTimes \in Nat
      /\ Extra(r) \in Nat /\ (r \in Affine => Extra(r) = 1)
  BY BeforeTyped, GroupsTyped, RetryAssumption DEF RequestState, Extra
<1>2. CASE q.meta
  <2>1. /\ q.calls + (IF q.reset THEN 1 ELSE 0) <=
             Before(q.group) + (IF q.group <= Len(Groups) THEN q.retry ELSE 0)
        /\ q.group > Len(Groups) /\ ~q.reset => r \in Affine
    BY <1>2 DEF Spent, InFlight
  <2>2. q.reset => q.retry = 0
    BY DEF Flight
  <2>3. CASE q.reset
    BY <1>1, <2>1, <2>2, <2>3
  <2>4. CASE ~q.reset
    BY <1>1, <2>1, <2>4
  <2> QED
    BY <1>1, <2>3, <2>4
<1>3. CASE ~q.meta
  <2>1. q.calls = 0 /\ ~q.reset
    BY <1>3 DEF Flight
  <2>2. q.group > Len(Groups) => Before(q.group) >= 1
    <3>1. /\ Before(1) = 0 /\ 1 \in 1..Len(Groups) + 1
          /\ 1 <= Len(Groups) => Before(1) + RetryTimes + 1 <= Before(Len(Groups) + 1)
          /\ Before(Len(Groups) + 1) \in Nat
      BY <1>1, BeforeTyped, WalkedTyped
    <3>2. q.group > Len(Groups) => q.group = Len(Groups) + 1
      BY <1>1
    <3> QED
      BY <1>1, <3>1, <3>2
  <2> QED
    BY <1>1, <2>1, <2>2
<1> QED
  BY <1>1, <1>2, <1>3

LEMMA PickGood ==
  ASSUME TypeOK, NEW r \in Requests, Local(r, req[r]), Budget(r, req[r]), Pick(r)
  PROVE  \E n : /\ req' = [req EXCEPT ![r] = n] /\ Good(r, n) /\ Closer(req[r], n)
                /\ n.pc = "admit" => n.chan \in Select(r, req[r]).from
<1> DEFINE q == req[r]
           s == Select(r, q)
<1>1. q \in RequestState /\ q.pc = "select" /\ q.meta /\ Flight(r, q)
  BY DEF Pick, Local, TypeOK, InFlight
<1>2. Rank(q) = Weight(q, 3) /\ Weight(q, 3) \in Nat /\ Weight(q, 3) >= 7
  BY <1>1, RankTyped
<1>3. CASE s.from = {}
  <2> DEFINE a == IF s.miss = "allCooling" /\ q.err # "none" THEN q.err ELSE s.miss
             n == Answer(q, a)
  <2>1. s.miss \in Misses
    BY <1>1, <1>3, SelectTyped
  <2>2. /\ q.streams = 0 /\ q.err \in LoopErrors /\ (q.heard => q.err # "none")
        /\ TokenGroup[r] # 0 => q.group = 1 /\ ~q.reset
    BY <1>1 DEF Flight
  <2>3. a \in Answers \ {"none", "ok"} /\ (q.heard => a \notin {"allCooling", "breakersOpen"})
    BY <2>1, <2>2 DEF Misses, LoopErrors, Answers, UpstreamErrors, OwnErrors, SelectErrors
  <2>4. req' = [req EXCEPT ![r] = n]
    <3>1. req' = [req EXCEPT ![r] = IF s.miss = "allCooling" /\ q.err # "none"
                                    THEN Leave(q) ELSE Answer(q, s.miss)]
      BY <1>3 DEF Pick
    <3>2. q.err # "none" => Leave(q) = Answer(q, q.err)
      BY DEF Leave
    <3> HIDE DEF s, q
    <3> QED
      BY <3>1, <3>2
  <2>5. /\ n \in RequestState /\ n.pc = "done" /\ Local(r, n) /\ Rank(n) = 0
        /\ q.calls <= Walked(r) * (RetryTimes + 1) + Extra(r) => Spent(r, n)
    <3> HIDE DEF a
    <3> QED
      BY <1>1, <2>2, <2>3, AnswerGood
  <2>6. Budget(r, n)
    <3>1. SUFFICES ASSUME Len(Groups) > 0
                   PROVE  q.calls <= Walked(r) * (RetryTimes + 1) + Extra(r)
      BY <2>5 DEF Budget
    <3>2. SpentRetrying(r, q)
      BY <1>1, <3>1, SpentGoesOn DEF Budget
    <3> QED
      BY <1>1, <2>2, <3>1, <3>2, SpentAtEnd
  <2>7. Good(r, n) /\ Closer(q, n)
    BY <1>2, <2>5, <2>6 DEF Good, Closer
  <2> QED
    BY <2>4, <2>5, <2>7
<1>4. CASE s.from # {}
  <2>1. PICK c \in s.from :
          req' = [req EXCEPT ![r] = [Take(q, s, c) EXCEPT !.pc = "admit",
                                                          !.used = @ \cup {c}]]
    BY <1>4 DEF Pick
  <2>2. /\ c \in Channels /\ s.retry \in 0..RetryTimes /\ s.reset \in BOOLEAN
        /\ s.group \in 1..Len(Groups) + 1
        /\ s.reset => r \in CrossGroup /\ s.retry = 0
        /\ TokenGroup[r] # 0 => s.group = 1 /\ ~s.reset
        /\ Weight(s, 2) < Weight(q, 3)
        /\ Spent(r, q) /\ Len(Groups) > 0 =>
             /\ q.calls + (IF s.reset THEN 1 ELSE 0)
                  <= Before(s.group) + (IF s.group <= Len(Groups) THEN s.retry ELSE 0)
             /\ s.group > Len(Groups) /\ ~s.reset => r \in Affine /\ s.retry = 0
    BY <1>1, TakeGood
  <2> DEFINE t == Take(q, s, c)
             n == [t EXCEPT !.pc = "admit", !.used = t.used \cup {c}]
  <2>3. /\ t \in RequestState /\ t.chan = c /\ t.group = s.group /\ t.meta = q.meta
        /\ t.retry = s.retry /\ t.reset = s.reset
        /\ t.err = q.err /\ t.attempted = q.attempted /\ t.written = q.written
        /\ t.streams = q.streams /\ t.calls = q.calls /\ t.heard = q.heard
    <3>1. t \in RequestState
      BY <1>1, <2>2 DEF Take, RequestState
    <3> QED
      BY <1>1, <3>1 DEF Take, RequestState
  <2> HIDE DEF t
  <2>4. n \in RequestState
    BY <2>2, <2>3 DEF RequestState, States
  <2>5. /\ n.pc = "admit" /\ n.chan = c /\ n.group = s.group /\ n.meta = q.meta
        /\ n.retry = s.retry /\ n.reset = s.reset
        /\ n.err = q.err /\ n.attempted = q.attempted /\ n.written = q.written
        /\ n.streams = q.streams /\ n.calls = q.calls /\ n.heard = q.heard
    BY <2>3 DEF RequestState
  <2>6. req' = [req EXCEPT ![r] = n]
    BY <2>1 DEF t
  <2> HIDE DEF n, s
  <2>7. Flight(r, n)
    BY <1>1, <2>2, <2>5 DEF Flight
  <2>8. Local(r, n)
    BY <2>5, <2>7 DEF Local
  <2>9. Budget(r, n)
    BY <2>2, <2>5 DEF Budget, Spent
  <2>10. Rank(n) = Weight(n, 2) /\ Weight(n, 2) \in Nat /\ Weight(n, 2) = Weight(s, 2)
    BY <2>4, <2>5, RankTyped DEF Weight
  <2>11. Good(r, n) /\ Closer(q, n)
    BY <1>2, <2>2, <2>4, <2>8, <2>9, <2>10 DEF Good, Closer
  <2>12. n.chan \in Select(r, q).from
    BY <2>1, <2>5 DEF s
  <2> QED
    BY <2>6, <2>11, <2>12
<1> QED
  BY <1>3, <1>4

LEMMA PickKeylessGood ==
  ASSUME TypeOK, NEW r \in Requests, Local(r, req[r]), Budget(r, req[r]), PickKeyless(r)
  PROVE  \E n : /\ req' = [req EXCEPT ![r] = n] /\ Good(r, n) /\ Closer(req[r], n)
                /\ n.pc # "admit"
<1> DEFINE q == req[r]
           s == Select(r, q)
<1>1. q \in RequestState /\ q.pc = "select" /\ q.meta /\ Flight(r, q)
  BY DEF PickKeyless, Local, TypeOK, InFlight
<1>2. Rank(q) = Weight(q, 3) /\ Weight(q, 3) \in Nat /\ Weight(q, 3) >= 7
  BY <1>1, RankTyped
<1>3. PICK c \in s.from :
        LET t == [Take(q, s, c) EXCEPT !.err = "noKey"]
        IN  req' = [req EXCEPT ![r] =
                      IF RetryTimes - t.retry > 0 /\ ShouldRetry(t, "noKey")
                      THEN Again([t EXCEPT !.used = t.used \cup {c}])
                      ELSE Leave(t)]
  BY DEF PickKeyless
<1> DEFINE k == Take(q, s, c)
           t == [k EXCEPT !.err = "noKey"]
           u == [t EXCEPT !.used = t.used \cup {c}]
<1>4. /\ c \in Channels /\ s.retry \in 0..RetryTimes /\ s.reset \in BOOLEAN
      /\ s.group \in 1..Len(Groups) + 1
      /\ s.reset => r \in CrossGroup /\ s.retry = 0
      /\ TokenGroup[r] # 0 => s.group = 1 /\ ~s.reset
      /\ Weight(s, 2) < Weight(q, 3)
      /\ Spent(r, q) /\ Len(Groups) > 0 =>
           /\ q.calls + (IF s.reset THEN 1 ELSE 0)
                <= Before(s.group) + (IF s.group <= Len(Groups) THEN s.retry ELSE 0)
           /\ s.group > Len(Groups) /\ ~s.reset => r \in Affine /\ s.retry = 0
  BY <1>1, TakeGood
<1>5. /\ k \in RequestState /\ k.chan = c /\ k.group = s.group /\ k.meta = q.meta
      /\ k.retry = s.retry /\ k.reset = s.reset
      /\ k.attempted = q.attempted /\ k.written = q.written
      /\ k.streams = q.streams /\ k.calls = q.calls /\ k.heard = q.heard
  <2>1. k \in RequestState
    BY <1>1, <1>4 DEF Take, RequestState
  <2> QED
    BY <1>1, <2>1 DEF Take, RequestState
<1> HIDE DEF k
<1>6. t \in RequestState /\ u \in RequestState
  <2>1. t \in RequestState
    BY <1>5 DEF RequestState, Answers, SelectErrors
  <2> HIDE DEF t
  <2>2. u \in RequestState
    BY <1>4, <2>1 DEF RequestState
  <2> QED
    BY <2>1, <2>2
<1>7. /\ t.chan = c /\ t.group = s.group /\ t.meta /\ t.retry = s.retry
      /\ t.reset = s.reset /\ t.err = "noKey" /\ ~t.written /\ t.streams = 0
      /\ t.calls = q.calls
  BY <1>1, <1>5 DEF RequestState, Flight
<1>8. /\ u.chan = c /\ u.group = s.group /\ u.meta /\ u.retry = s.retry
      /\ u.reset = s.reset /\ u.err = "noKey" /\ ~u.written /\ u.streams = 0
      /\ u.calls = q.calls
  <2> HIDE DEF t
  <2> QED
    BY <1>6, <1>7 DEF RequestState
<1> HIDE DEF s, t, u
<1>9. ASSUME NEW v, v \in {t, u}
      PROVE  Retrying(r, v) /\ (Len(Groups) > 0 => SpentRetrying(r, v))
             /\ Weight(v, 1) < Weight(q, 3)
  <2>1. Retrying(r, v)
    BY <1>4, <1>7, <1>8, <1>9 DEF Retrying, LoopErrors
  <2>2. Weight(v, 1) < Weight(v, 2) /\ Weight(v, 1) \in Nat /\ Weight(v, 2) \in Nat
    BY <1>6, <1>9, WeightSteps
  <2>4. Weight(v, 2) = Weight(s, 2)
    BY <1>7, <1>8, <1>9 DEF Weight
  <2>3. ASSUME Len(Groups) > 0
        PROVE  SpentRetrying(r, v)
    <3>1. q.calls + (IF s.reset THEN 1 ELSE 0)
            <= Before(s.group) + (IF s.group <= Len(Groups) THEN s.retry ELSE 0)
      BY <1>4, <2>3 DEF Budget
    <3>2. /\ q.calls \in Nat /\ Before(s.group) \in Nat /\ Extra(r) \in Nat
          /\ s.retry \in Nat /\ Len(Groups) \in Nat
      BY <1>1, <1>4, BeforeTyped, GroupsTyped, RetryAssumption DEF RequestState, Extra
    <3>3. q.calls <= Before(s.group)
                       + (IF s.reset THEN 0
                          ELSE IF s.group <= Len(Groups) THEN s.retry + 1 ELSE Extra(r))
      <4>1. CASE s.reset
        BY <1>4, <3>1, <3>2, <4>1
      <4>2. CASE ~s.reset
        BY <1>4, <3>1, <3>2, <4>2
      <4> QED
        BY <4>1, <4>2
    <3> QED
      BY <1>7, <1>8, <1>9, <3>3 DEF SpentRetrying
  <2> QED
    BY <1>2, <1>4, <2>1, <2>2, <2>3, <2>4
<1>10. CASE req' = [req EXCEPT ![r] = Again(u)]
  <2> DEFINE n == Again(u)
  <2>1. /\ n \in RequestState /\ Local(r, n)
        /\ Rank(n) \in Nat /\ Rank(n) < Weight(u, 1) /\ n.pc \in {"select", "done"}
        /\ Len(Groups) > 0 /\ SpentRetrying(r, u) => Spent(r, n)
    BY <1>6, <1>9, AgainGood
  <2>2. Weight(u, 1) \in Nat
    BY <1>6, RankTyped
  <2>3. Good(r, n) /\ Closer(q, n)
    BY <1>2, <1>9, <2>1, <2>2 DEF Good, Closer, Budget
  <2> QED
    BY <1>10, <2>1, <2>3
<1>11. CASE req' = [req EXCEPT ![r] = Leave(t)]
  <2> DEFINE n == Answer(t, "noKey")
  <2>1. Leave(t) = n
    BY <1>7 DEF Leave
  <2>2. "noKey" \in Answers \ {"none"}
    BY DEF Answers, SelectErrors
  <2>3. /\ n \in RequestState /\ n.pc = "done" /\ Local(r, n) /\ Rank(n) = 0
        /\ t.calls <= Walked(r) * (RetryTimes + 1) + Extra(r) => Spent(r, n)
    BY <1>6, <1>7, <2>2, AnswerGood
  <2>4. Budget(r, n)
    BY <1>4, <1>6, <1>7, <1>9, <2>3, SpentAtEnd DEF Budget
  <2>5. Good(r, n) /\ Closer(q, n)
    BY <1>2, <2>3, <2>4 DEF Good, Closer
  <2> QED
    BY <1>11, <2>1, <2>3, <2>5
<1> QED
  BY <1>3, <1>10, <1>11 DEF k, t, u

LEMMA SkipGood ==
  ASSUME TypeOK, NEW r \in Requests, Local(r, req[r]), Budget(r, req[r]), Skip(r)
  PROVE  \E n : req' = [req EXCEPT ![r] = n] /\ Good(r, n) /\ Closer(req[r], n)
<1> DEFINE q == req[r]
           n == Again(q)
<1>1. q \in RequestState /\ q.pc = "admit" /\ Flight(r, q)
  BY DEF Skip, Local, TypeOK, InFlight
<1>2. Retrying(r, q)
  BY <1>1 DEF Flight, Retrying
<1>3. /\ n \in RequestState /\ Local(r, n) /\ n.pc \in {"select", "done"}
      /\ Rank(n) \in Nat /\ Rank(n) < Weight(q, 1)
      /\ Len(Groups) > 0 /\ SpentRetrying(r, q) => Spent(r, n)
  BY <1>1, <1>2, AgainGood
<1>4. Budget(r, n)
  BY <1>1, <1>3, SpentGoesOn DEF Budget
<1>5. Rank(q) = Weight(q, 2) /\ Weight(q, 1) < Weight(q, 2)
      /\ Weight(q, 1) \in Nat /\ Weight(q, 2) \in Nat
  BY <1>1, RankTyped, WeightSteps
<1>6. Good(r, n) /\ Closer(q, n)
  BY <1>3, <1>4, <1>5 DEF Good, Closer
<1> QED
  BY <1>6 DEF Skip

LEMMA CallGood ==
  ASSUME TypeOK, NEW r \in Requests, Local(r, req[r]), Budget(r, req[r]), Call(r)
  PROVE  \E n : /\ req' = [req EXCEPT ![r] = n] /\ Good(r, n) /\ Closer(req[r], n)
                /\ n.pc = "call" /\ n.chan = req[r].chan
<1> DEFINE q == req[r]
           p == [q EXCEPT !.pc = "call"]
           n == [p EXCEPT !.attempted = TRUE]
<1>1. q \in RequestState /\ q.pc = "admit" /\ Flight(r, q)
  BY DEF Call, Local, TypeOK, InFlight
<1>2. req' = [req EXCEPT ![r] = n]
  BY DEF Call, TypeOK, RequestState
<1>3. p \in RequestState
  BY <1>1 DEF RequestState, States
<1>4. n \in RequestState
  BY <1>1, <1>3 DEF RequestState
<1>5. /\ n.pc = "call" /\ n.chan = q.chan /\ n.meta = q.meta /\ n.retry = q.retry
      /\ n.reset = q.reset /\ n.group = q.group /\ n.err = q.err
      /\ n.written = q.written /\ n.streams = q.streams
      /\ n.calls = q.calls /\ n.heard = q.heard
  BY <1>1 DEF RequestState
<1> HIDE DEF n, p
<1>6. Flight(r, n)
  BY <1>1, <1>5 DEF Flight
<1>7. Local(r, n)
  BY <1>5, <1>6 DEF Local
<1>8. Budget(r, n)
  BY <1>1, <1>5 DEF Budget, Spent, InFlight
<1>9. /\ Rank(n) = Weight(n, 1) /\ Rank(q) = Weight(q, 2)
      /\ Weight(q, 1) < Weight(q, 2) /\ Weight(q, 1) \in Nat
  <2>1. Rank(n) = Weight(n, 1)
    BY <1>4, <1>5, RankTyped
  <2>2. Rank(q) = Weight(q, 2)
    BY <1>1, RankTyped
  <2>3. Weight(q, 1) < Weight(q, 2) /\ Weight(q, 1) \in Nat
    BY <1>1, WeightSteps
  <2> QED
    BY <2>1, <2>2, <2>3
<1>10. Weight(n, 1) = Weight(q, 1)
  BY <1>5 DEF Weight
<1>11. Good(r, n) /\ Closer(q, n)
  BY <1>4, <1>7, <1>8, <1>9, <1>10 DEF Good, Closer
<1> QED
  BY <1>2, <1>5, <1>11

LEMMA ServeGood ==
  ASSUME TypeOK, NEW r \in Requests, Local(r, req[r]), Budget(r, req[r]), Serve(r)
  PROVE  \E n : req' = [req EXCEPT ![r] = n] /\ Good(r, n) /\ Closer(req[r], n)
<1> DEFINE q == req[r]
           a == Answer(q, "ok")
           n == [a EXCEPT !.written = TRUE, !.streams = a.streams + 1, !.calls = a.calls + 1]
<1>1. q \in RequestState /\ q.pc = "call" /\ Flight(r, q)
  BY DEF Serve, Local, TypeOK, InFlight
<1>2. req' = [req EXCEPT ![r] = n]
  BY DEF Serve
<1>3. /\ a \in RequestState /\ a.pc = "done" /\ a.err = "ok" /\ a.streams = q.streams
      /\ a.calls = q.calls /\ a.heard = q.heard
  BY <1>1, AnswerTyped DEF Answers
<1> HIDE DEF a
<1>4. n \in RequestState
  <2>1. a.streams + 1 \in Nat /\ a.calls + 1 \in Nat
    BY <1>3 DEF RequestState
  <2> QED
    BY <1>3, <2>1 DEF RequestState
<1>5. /\ n.pc = "done" /\ n.err = "ok" /\ n.streams = q.streams + 1
      /\ n.calls = q.calls + 1 /\ n.heard = q.heard
  BY <1>3 DEF RequestState
<1> HIDE DEF n
<1>6. Local(r, n)
  <2>1. q.streams = 0
    BY <1>1 DEF Flight
  <2>2. n.streams = 1
    BY <1>5, <2>1
  <2>3. Verdict(n)
    BY <1>5, <2>2 DEF Verdict
  <2> QED
    BY <1>5, <2>3 DEF Local, InFlight
<1>7. Budget(r, n)
  <2>1. SUFFICES ASSUME Len(Groups) > 0
                 PROVE  Spent(r, n)
    BY DEF Budget
  <2> DEFINE v == [q EXCEPT !.calls = q.calls + 1, !.meta = TRUE]
  <2>2. q.calls + 1 <= Before(q.group)
                        + (IF q.reset THEN 0
                           ELSE IF q.group <= Len(Groups) THEN q.retry + 1 ELSE Extra(r))
    <3>1. Spent(r, q) /\ 1 \in 0..1
      BY <2>1 DEF Budget
    <3> QED
      BY <1>1, <2>1, <3>1, CallSpent
  <2>3. /\ v \in RequestState /\ v.calls = q.calls + 1 /\ v.meta /\ v.group = q.group
        /\ v.reset = q.reset /\ v.retry = q.retry
    <3>1. q.calls + 1 \in Nat
      BY <1>1 DEF RequestState
    <3>2. v \in RequestState
      BY <1>1, <3>1 DEF RequestState
    <3> QED
      BY <1>1, <3>2 DEF RequestState
  <2> HIDE DEF v
  <2>4. SpentRetrying(r, v)
    BY <2>2, <2>3 DEF SpentRetrying
  <2>5. TokenGroup[r] # 0 => v.group = 1 /\ ~v.reset
    BY <1>1, <2>3 DEF Flight
  <2>6. v.calls <= Walked(r) * (RetryTimes + 1) + Extra(r)
    BY <2>1, <2>3, <2>4, <2>5, SpentAtEnd
  <2> QED
    BY <1>5, <2>3, <2>6 DEF Spent, InFlight
<1>8. Rank(n) = 0 /\ Rank(q) = Weight(q, 1) /\ Weight(q, 1) \in Nat /\ Weight(q, 1) >= 5
  <2>1. Rank(n) = 0
    BY <1>4, <1>5, RankTyped
  <2>2. Rank(q) = Weight(q, 1) /\ Weight(q, 1) \in Nat /\ Weight(q, 1) >= 5
    BY <1>1, RankTyped
  <2> QED
    BY <2>1, <2>2
<1>9. Good(r, n) /\ Closer(q, n)
  BY <1>4, <1>6, <1>7, <1>8 DEF Good, Closer
<1> QED
  BY <1>2, <1>9

LEMMA FailGood ==
  ASSUME TypeOK, NEW r \in Requests, Local(r, req[r]), Budget(r, req[r]),
         NEW e \in Errors, NEW cut \in BOOLEAN, Fail(r, e, cut)
  PROVE  \E n : req' = [req EXCEPT ![r] = n] /\ Good(r, n) /\ Closer(req[r], n)
<1> DEFINE q == req[r]
           one == IF e \in UpstreamErrors THEN 1 ELSE 0
           t == [q EXCEPT !.err = e, !.meta = TRUE, !.written = q.written \/ cut,
                          !.streams = IF cut THEN q.streams + 1 ELSE q.streams,
                          !.calls = IF e \in UpstreamErrors THEN q.calls + 1 ELSE q.calls,
                          !.heard = q.heard \/ e \in UpstreamErrors]
<1>1. q \in RequestState /\ q.pc = "call" /\ Flight(r, q)
  BY DEF Fail, Local, TypeOK, InFlight
<1>2. req' = [req EXCEPT ![r] = IF ShouldRetry(t, e) THEN Again(t) ELSE Leave(t)]
  BY DEF Fail
<1>3. e \in UpstreamErrors \cup OwnErrors
  BY ErrorsAssumption
<1>4. e \in Answers \ {"none", "ok", "allCooling", "breakersOpen"} /\ e \in LoopErrors
  BY <1>3 DEF Answers, LoopErrors, UpstreamErrors, OwnErrors
<1>5. /\ (q.written \/ cut) \in BOOLEAN /\ (q.heard \/ e \in UpstreamErrors) \in BOOLEAN
      /\ (IF cut THEN q.streams + 1 ELSE q.streams) \in Nat
      /\ (IF e \in UpstreamErrors THEN q.calls + 1 ELSE q.calls) \in Nat
  BY <1>1 DEF RequestState
<1>6. /\ t \in RequestState
      /\ t.chan = q.chan /\ t.meta /\ t.retry = q.retry /\ t.reset = q.reset
      /\ t.group = q.group /\ t.err = e /\ t.attempted = q.attempted
      /\ t.written = (q.written \/ cut)
      /\ t.streams = (IF cut THEN q.streams + 1 ELSE q.streams)
      /\ t.calls = (IF e \in UpstreamErrors THEN q.calls + 1 ELSE q.calls)
  <2>1. t \in RequestState
    BY <1>1, <1>4, <1>5 DEF RequestState
  <2> QED
    BY <1>1, <2>1 DEF RequestState
<1> HIDE DEF t
<1>7. one \in 0..1 /\ t.calls = q.calls + one
  BY <1>1, <1>6 DEF RequestState
<1> HIDE DEF one
<1>8. TokenGroup[r] # 0 => t.group = 1 /\ ~t.reset
  BY <1>1, <1>6 DEF Flight
<1>9. ASSUME Len(Groups) > 0
      PROVE  SpentRetrying(r, t) /\ t.calls <= Walked(r) * (RetryTimes + 1) + Extra(r)
  <2>1. q.calls + one <= Before(q.group)
                        + (IF q.reset THEN 0
                           ELSE IF q.group <= Len(Groups) THEN q.retry + 1 ELSE Extra(r))
    BY <1>1, <1>7, <1>9, CallSpent DEF Budget
  <2>2. SpentRetrying(r, t)
    BY <1>6, <1>7, <2>1 DEF SpentRetrying
  <2> QED
    BY <1>6, <1>8, <1>9, <2>2, SpentAtEnd
<1>10. Weight(t, 1) = Weight(q, 1)
  BY <1>6 DEF Weight
<1>11. Rank(q) = Weight(q, 1) /\ Weight(q, 1) \in Nat /\ Weight(q, 1) >= 5
  BY <1>1, RankTyped
<1>12. CASE ShouldRetry(t, e)
  <2> DEFINE n == Again(t)
  <2>1. ~t.written
    BY <1>12 DEF ShouldRetry
  <2>2. ~cut
    BY <1>6, <2>1
  <2>3. Retrying(r, t)
    BY <1>1, <1>4, <1>6, <2>1, <2>2 DEF Flight, Retrying
  <2>4. /\ n \in RequestState /\ Local(r, n)
        /\ Rank(n) \in Nat /\ Rank(n) < Weight(t, 1)
        /\ Len(Groups) > 0 /\ SpentRetrying(r, t) => Spent(r, n)
    BY <1>6, <2>3, AgainGood
  <2>5. Good(r, n) /\ Closer(q, n)
    BY <1>9, <1>10, <1>11, <2>4 DEF Good, Closer, Budget
  <2> QED
    BY <1>2, <1>12, <2>5
<1>13. CASE ~ShouldRetry(t, e)
  <2> DEFINE n == Answer(t, e)
  <2>1. Leave(t) = n
    BY <1>4, <1>6 DEF Leave
  <2>2. t.streams <= 1
    BY <1>1, <1>6 DEF Flight
  <2>3. /\ n \in RequestState /\ Local(r, n) /\ Rank(n) = 0
        /\ t.calls <= Walked(r) * (RetryTimes + 1) + Extra(r) => Spent(r, n)
    BY <1>4, <1>6, <2>2, AnswerGood
  <2>4. Good(r, n) /\ Closer(q, n)
    BY <1>9, <1>11, <2>3 DEF Good, Closer, Budget
  <2> QED
    BY <1>2, <1>13, <2>1, <2>4
<1> QED
  BY <1>12, <1>13

LEMMA HangUpGood ==
  ASSUME TypeOK, NEW r \in Requests, Local(r, req[r]), Budget(r, req[r]), HangUp(r)
  PROVE  \E n : /\ req' = [req EXCEPT ![r] = n] /\ Good(r, n)
                /\ n.pc = req[r].pc /\ n.chan = req[r].chan /\ n.gone # req[r].gone
<1> DEFINE q == req[r]
           n == [q EXCEPT !.gone = TRUE]
<1>1. q \in RequestState /\ q.pc \in InFlight /\ ~q.gone /\ Flight(r, q)
  BY DEF HangUp, Local, TypeOK, InFlight
<1>2. req' = [req EXCEPT ![r] = n]
  BY DEF HangUp, TypeOK, RequestState
<1>3. n \in RequestState
  BY <1>1 DEF RequestState
<1>4. /\ n.pc = q.pc /\ n.chan = q.chan /\ n.meta = q.meta /\ n.retry = q.retry
      /\ n.reset = q.reset /\ n.group = q.group /\ n.err = q.err
      /\ n.attempted = q.attempted
      /\ n.written = q.written /\ n.streams = q.streams
      /\ n.calls = q.calls /\ n.heard = q.heard /\ n.gone
  BY <1>1 DEF RequestState
<1> HIDE DEF n
<1>5. Flight(r, n)
  BY <1>1, <1>4 DEF Flight
<1>6. Local(r, n)
  BY <1>1, <1>4, <1>5 DEF Local, InFlight
<1>7. Budget(r, n)
  BY <1>4 DEF Budget, Spent
<1> QED
  BY <1>1, <1>2, <1>3, <1>4, <1>6, <1>7 DEF Good

-----------------------------------------------------------------------------
\* The breakers

LEMMA MaxAgeTyped == MaxAge \in Nat /\ \A x \in Ages : x \in Nat /\ x <= MaxAge
<1> DEFINE S == {Timeout, HalfOpenTimeout, FailureWindow + 1}
<1>1. \A x \in S : x \in Nat
  BY BreakerAssumption
<1>2. \E x \in S : \A y \in S : x >= y
  BY BreakerAssumption
<1>3. Max(S) \in S
  <2> HIDE DEF S
  <2> QED
    BY <1>2, Zenon DEF Max
<1>4. MaxAge \in Nat
  BY <1>1, <1>3 DEF MaxAge
<1> QED
  BY <1>4 DEF Ages

LEMMA NewBreakerTyped ==
  NewBreaker \in Breakers /\ NewBreaker.state = "closed" /\ NewBreaker.fails = 0
<1>1. 0 \in 0..Threshold /\ MaxAge \in Ages
  BY MaxAgeTyped, BreakerAssumption DEF Ages
<1> QED
  BY <1>1 DEF NewBreaker, Breakers

LEMMA ElapseTyped ==
  ASSUME NEW b \in Breakers
  PROVE  /\ Elapse(b, 1) \in Breakers
         /\ Elapse(b, 1).state = b.state /\ Elapse(b, 1).fails = b.fails
<1>1. \A x \in Ages : Older(x, 1) \in Ages
  BY MaxAgeTyped DEF Older, Ages
<1>2. Elapse(b, 1) \in Breakers
  BY <1>1 DEF Elapse, Breakers
<1> QED
  BY <1>2 DEF Elapse, Breakers

LEMMA AdmittedTyped ==
  ASSUME NEW b \in Breakers
  PROVE  /\ Admitted(b) \in Breakers /\ Admitted(b).fails = b.fails
         /\ b.state = "closed" <=> Admitted(b).state = "closed"
<1>1. 0 \in Ages
  BY MaxAgeTyped DEF Ages
<1>2. Admitted(b) \in Breakers
  BY <1>1 DEF Admitted, Breakers
<1> QED
  BY <1>2 DEF Admitted, Breakers

\* The failures of a breaker, and its leaving Closed, have upstreams to blame.
Justified(b, m) == b.fails <= m /\ (b.state # "closed" => m = Threshold)

\* What is blamed on an upstream that has m failures in a row.
BlameAfter(m, gone, e) ==
  CASE gone -> m
    [] ~gone /\ e = "none" -> 0
    [] ~gone /\ e \in {"5xx", "timeout", "channel"} ->
         IF m < Threshold THEN m + 1 ELSE m
    [] OTHER -> m

LEMMA RecordSuccessSound ==
  ASSUME NEW b \in Breakers
  PROVE  LET n == RecordSuccess(b)
         IN  n \in Breakers /\ n.state = "closed" /\ n.fails = 0
<1>1. 0 \in 0..Threshold /\ MaxAge \in Ages
  BY MaxAgeTyped, BreakerAssumption DEF Ages
<1>2. RecordSuccess(b) \in Breakers
  BY <1>1 DEF RecordSuccess, Breakers
<1> QED
  BY <1>2 DEF RecordSuccess, Breakers

LEMMA RecordInconclusiveSound ==
  ASSUME NEW b \in Breakers
  PROVE  LET n == RecordInconclusive(b)
         IN  /\ n \in Breakers /\ n.state # "halfOpen" /\ n.fails = b.fails
             /\ n.state # "closed" => b.state # "closed"
<1>1. 0 \in Ages /\ MaxAge \in Ages
  BY MaxAgeTyped DEF Ages
<1>2. RecordInconclusive(b) \in Breakers
  BY <1>1 DEF RecordInconclusive, Breakers
<1> QED
  BY <1>2 DEF RecordInconclusive, Breakers

LEMMA RecordFailureSound ==
  ASSUME NEW b \in Breakers, NEW m \in 0..Threshold, Justified(b, m)
  PROVE  LET n == RecordFailure(b)
             k == IF m < Threshold THEN m + 1 ELSE m
         IN  n \in Breakers /\ n.state # "halfOpen" /\ Justified(n, k)
<1> DEFINE run == Run(b) + 1
           f == IF run > Threshold THEN Threshold ELSE run
           s == IF b.state = "closed" /\ run < Threshold THEN "closed" ELSE "open"
           h == IF b.state = "halfOpen" THEN MaxAge ELSE b.halfOpen
           n == [b EXCEPT !.fails = f, !.lastFail = 0, !.halfOpen = h, !.state = s]
           k == IF m < Threshold THEN m + 1 ELSE m
<1>1. /\ Threshold \in Nat /\ Threshold > 0 /\ b.fails \in 0..Threshold
      /\ b.state \in {"closed", "open", "halfOpen"} /\ b.halfOpen \in Ages
      /\ 0 \in Ages /\ MaxAge \in Ages
  BY MaxAgeTyped, BreakerAssumption DEF Breakers, Ages
<1>2. Run(b) \in Nat /\ Run(b) <= b.fails
  BY <1>1 DEF Run
<1>3. RecordFailure(b) = n
  BY DEF RecordFailure
<1>4. /\ f \in 0..Threshold /\ f <= k /\ (s # "closed" => k = Threshold)
      /\ s \in {"closed", "open"} /\ h \in Ages
  BY <1>1, <1>2 DEF Justified
<1> HIDE DEF f, s, h, k
<1>5. n \in Breakers
  BY <1>1, <1>4 DEF Breakers
<1>6. n.fails = f /\ n.state = s
  BY <1>5 DEF Breakers
<1>7. Justified(n, k)
  BY <1>4, <1>6 DEF Justified
<1>8. s # "halfOpen"
  BY <1>4
<1> QED
  BY <1>3, <1>5, <1>6, <1>7, <1>8 DEF k

\* reportBreakerOutcomeCtx leaves no breaker half open.
LEMMA ReportSound ==
  ASSUME NEW b \in Breakers, NEW gone \in BOOLEAN, NEW e, NEW m \in 0..Threshold,
         Justified(b, m)
  PROVE  LET n == Report(b, gone, e)
             k == BlameAfter(m, gone, e)
         IN  /\ n \in Breakers /\ n.state # "halfOpen"
             /\ k \in 0..Threshold /\ Justified(n, k)
<1> DEFINE n == Report(b, gone, e)
           k == BlameAfter(m, gone, e)
<1>1. Threshold \in Nat /\ m \in Nat /\ m <= Threshold
  BY BreakerAssumption
<1>2. CASE ~gone /\ e = "none"
  <2>1. n = RecordSuccess(b) /\ k = 0
    BY <1>2, "none" \notin {"5xx", "timeout", "channel"}, Zenon
    DEF Report, BlameAfter, IsUpstreamFailure
  <2>2. n \in Breakers /\ n.state = "closed" /\ n.fails = 0
    BY <2>1, RecordSuccessSound
  <2> QED
    BY <1>1, <2>1, <2>2 DEF Justified
<1>3. CASE ~gone /\ e # "none" /\ IsUpstreamFailure(e)
  <2>1. n = RecordFailure(b) /\ k = IF m < Threshold THEN m + 1 ELSE m
    BY <1>3 DEF Report, BlameAfter, IsUpstreamFailure
  <2>2. n \in Breakers /\ n.state # "halfOpen" /\ Justified(n, k)
    BY <2>1, RecordFailureSound
  <2>3. k \in 0..Threshold
    BY <1>1, <2>1
  <2> QED
    BY <2>2, <2>3
<1>4. CASE gone \/ (e # "none" /\ ~IsUpstreamFailure(e))
  <2>1. n = RecordInconclusive(b) /\ k = m
    BY <1>4 DEF Report, BlameAfter, IsUpstreamFailure
  <2>2. /\ n \in Breakers /\ n.state # "halfOpen" /\ n.fails = b.fails
        /\ n.state # "closed" => b.state # "closed"
    BY <2>1, RecordInconclusiveSound
  <2> QED
    BY <2>1, <2>2 DEF Justified
<1>5. \/ gone \/ (e # "none" /\ ~IsUpstreamFailure(e))
      \/ ~gone /\ e = "none"
      \/ ~gone /\ e # "none" /\ IsUpstreamFailure(e)
  BY DEF IsUpstreamFailure
<1> QED
  BY <1>2, <1>3, <1>4, <1>5, Zenon

-----------------------------------------------------------------------------
\* The invariants

Inv == TypeOK /\ \A r \in Requests : Local(r, req[r]) /\ Budget(r, req[r])

\* A half-open breaker is probed, and a breaker's failures are its upstream's.
BreakerInv == /\ \A c \in Channels : Justified(breaker[c], blame[c])
              /\ HalfOpenHasProbe

\* What a step does to the requests: at most one of them moves.
ReqStep(r, n) ==
  /\ req' = [req EXCEPT ![r] = n] /\ Good(r, n)
  /\ req[r].pc = "idle" \/ Closer(req[r], n) \/ n.gone # req[r].gone

LEMMA ReqSteps ==
  ASSUME Inv, Next
  PROVE  req' = req \/ \E r \in Requests : \E n : ReqStep(r, n)
<1>1. TypeOK /\ \A r \in Requests : Local(r, req[r]) /\ Budget(r, req[r])
  BY DEF Inv
<1>2. ASSUME NEW r \in Requests, ArriveSpecific(r)
      PROVE  \E n : ReqStep(r, n)
  <2>1. req[r].pc = "idle"
    BY <1>2 DEF ArriveSpecific
  <2> QED
    BY <1>1, <1>2, <2>1, ArriveSpecificGood DEF ReqStep
<1>3. ASSUME NEW r \in Requests, Arrive(r)
      PROVE  \E n : ReqStep(r, n)
  <2>1. req[r].pc = "idle"
    BY <1>3 DEF Arrive
  <2> QED
    BY <1>1, <1>3, <2>1, ArriveGood DEF ReqStep
<1>4. ASSUME NEW r \in Requests, Step(r)
      PROVE  \E n : ReqStep(r, n)
  <2>1. ASSUME Reuse(r)
        PROVE  \E n : ReqStep(r, n)
    BY <1>1, <2>1, ReuseGood DEF ReqStep
  <2>2. ASSUME Pick(r)
        PROVE  \E n : ReqStep(r, n)
    BY <1>1, <2>2, PickGood DEF ReqStep
  <2>3. ASSUME PickKeyless(r)
        PROVE  \E n : ReqStep(r, n)
    BY <1>1, <2>3, PickKeylessGood DEF ReqStep
  <2>4. ASSUME Skip(r)
        PROVE  \E n : ReqStep(r, n)
    BY <1>1, <2>4, SkipGood DEF ReqStep
  <2>5. ASSUME Call(r)
        PROVE  \E n : ReqStep(r, n)
    BY <1>1, <2>5, CallGood DEF ReqStep
  <2>6. ASSUME Serve(r)
        PROVE  \E n : ReqStep(r, n)
    BY <1>1, <2>6, ServeGood DEF ReqStep
  <2>7. ASSUME NEW e \in Errors, NEW cut \in BOOLEAN, Fail(r, e, cut)
        PROVE  \E n : ReqStep(r, n)
    BY <1>1, <2>7, FailGood DEF ReqStep
  <2> QED
    BY <1>4, <2>1, <2>2, <2>3, <2>4, <2>5, <2>6, <2>7 DEF Step
<1>5. ASSUME NEW r \in Requests, HangUp(r)
      PROVE  \E n : ReqStep(r, n)
  BY <1>1, <1>5, HangUpGood DEF ReqStep
<1>6. ASSUME NEW c \in Channels, DisableChannel(c) \/ MaybeMarkCooldown(c)
      PROVE  req' = req
  BY <1>6 DEF DisableChannel, MaybeMarkCooldown
<1>7. ASSUME Tick
      PROVE  req' = req
  BY <1>7 DEF Tick
<1> QED
  BY <1>2, <1>3, <1>4, <1>5, <1>6, <1>7 DEF Next

LEMMA PinTyped ==
  ASSUME TypeOK, NEW r \in Requests, NEW q \in RequestState,
         NEW c \in Select(r, q).from
  PROVE  Pin(r, q, c) \in Channels \cup {NoChannel}
<1>1. c \in Channels
  BY SelectTyped
<1> QED
  BY <1>1 DEF Pin, TypeOK

\* The rest of the type invariant.
Others ==
  /\ breaker \in [Channels -> Breakers]
  /\ prober \in [Channels -> Requests \cup {NoChannel}]
  /\ enabled \subseteq Channels /\ cool \in [Channels -> 0..CoolFor]
  /\ async \subseteq {"ban", "cool"} \X Channels
  /\ pin \in Channels \cup {NoChannel}
  /\ blame \in [Channels -> 0..Threshold] /\ bans \in 0..MaxBans
  /\ hangUps \in 0..MaxHangUps

\* What a report on channel d does to the breakers.
Reported(d, gone, e) ==
  /\ breaker' = [breaker EXCEPT ![d] = Report(breaker[d], gone, e)]
  /\ Released(d) /\ Blamed(d, gone, e)

\* A report on the channel of request r.
LEMMA ReportStep ==
  ASSUME Inv, BreakerInv, NEW r \in Requests, req[r].pc = "call", NEW e,
         NEW gone \in {FALSE, req[r].gone}, Reported(req[r].chan, gone, e)
  PROVE  /\ req[r].chan \in Channels
         /\ breaker' \in [Channels -> Breakers]
         /\ prober' \in [Channels -> Requests \cup {NoChannel}]
         /\ blame' \in [Channels -> 0..Threshold]
         /\ \A c \in Channels : Justified(breaker'[c], blame'[c])
         /\ breaker'[req[r].chan].state # "halfOpen"
         /\ \A c \in Channels \ {req[r].chan} :
              breaker'[c] = breaker[c] /\ prober'[c] = prober[c]
<1> DEFINE d == req[r].chan
           g == gone
<1>1. /\ d \in Channels /\ g \in BOOLEAN /\ breaker[d] \in Breakers
      /\ breaker \in [Channels -> Breakers] /\ blame \in [Channels -> 0..Threshold]
      /\ prober \in [Channels -> Requests \cup {NoChannel}] /\ blame[d] \in 0..Threshold
  BY DEF Inv, TypeOK, RequestState, Local, Flight, InFlight
<1>2. blame' = [blame EXCEPT ![d] = BlameAfter(blame[d], g, e)]
  BY <1>1, Zenon DEF Reported, Blamed, BlameAfter
<1>3. \A c \in Channels : Justified(breaker[c], blame[c])
  BY DEF BreakerInv
<1>4. /\ Report(breaker[d], g, e) \in Breakers /\ Report(breaker[d], g, e).state # "halfOpen"
      /\ BlameAfter(blame[d], g, e) \in 0..Threshold
      /\ Justified(Report(breaker[d], g, e), BlameAfter(blame[d], g, e))
  BY <1>1, <1>3, ReportSound
<1>5. prober' = [prober EXCEPT ![d] = IF breaker'[d].state = "halfOpen" THEN prober[d]
                                      ELSE NoChannel]
  BY DEF Reported, Released
<1> HIDE DEF d, g
<1>6. breaker' = [breaker EXCEPT ![d] = Report(breaker[d], g, e)]
  BY DEF Reported, d, g
<1>7. breaker'[d] = Report(breaker[d], g, e) /\ blame'[d] = BlameAfter(blame[d], g, e)
  BY <1>1, <1>2, <1>6
<1>8. \A c \in Channels \ {d} : breaker'[c] = breaker[c] /\ prober'[c] = prober[c]
                                /\ blame'[c] = blame[c]
  BY <1>1, <1>2, <1>5, <1>6
<1>9. breaker' \in [Channels -> Breakers]
  BY <1>1, <1>4, <1>6
<1>10. prober' \in [Channels -> Requests \cup {NoChannel}]
  BY <1>1, <1>5
<1>11. blame' \in [Channels -> 0..Threshold]
  BY <1>1, <1>2, <1>4
<1>12. \A c \in Channels : Justified(breaker'[c], blame'[c])
  BY <1>3, <1>4, <1>7, <1>8
<1> QED
  BY <1>1, <1>4, <1>7, <1>8, <1>9, <1>10, <1>11, <1>12 DEF d

\* A step that leaves the breakers alone and does not end a call keeps every probe.
LEMMA ProbeKept ==
  ASSUME BreakerInv, UNCHANGED <<breaker, prober>>,
         req' = req \/ \E r \in Requests : \E n :
           /\ req' = [req EXCEPT ![r] = n]
           /\ req[r].pc # "call" \/ (n.pc = req[r].pc /\ n.chan = req[r].chan),
         NEW S, req \in [Requests -> S]
  PROVE  HalfOpenHasProbe'
<1> SUFFICES ASSUME NEW c \in Channels, breaker'[c].state = "halfOpen"
             PROVE  \E p \in Requests : /\ prober'[c] = p
                                        /\ req'[p].pc = "call" /\ req'[p].chan = c
  BY DEF HalfOpenHasProbe
<1>1. PICK p \in Requests : prober[c] = p /\ req[p].pc = "call" /\ req[p].chan = c
  BY DEF BreakerInv, HalfOpenHasProbe
<1>2. req'[p].pc = "call" /\ req'[p].chan = c
  BY <1>1
<1> QED
  BY <1>1, <1>2

LEMMA BlameKept ==
  ASSUME BreakerInv, UNCHANGED <<breaker, blame>>
  PROVE  \A c \in Channels : Justified(breaker'[c], blame'[c])
  BY DEF BreakerInv

LEMMA RestStep ==
  ASSUME Inv, BreakerInv, Next
  PROVE  Others' /\ BreakerInv'
<1>1. TypeOK /\ Others /\ \A r \in Requests : Local(r, req[r]) /\ Budget(r, req[r])
  BY DEF Inv, TypeOK, Others
<1>2. req \in [Requests -> RequestState]
  BY <1>1 DEF TypeOK
<1>3. ASSUME NEW r \in Requests, ArriveSpecific(r) \/ Reuse(r) \/ Skip(r)
      PROVE  Others' /\ BreakerInv'
  <2>1. UNCHANGED <<pin, channels, hangUps>> /\ req[r].pc # "call"
    BY <1>3, Zenon DEF ArriveSpecific, Reuse, Skip
  <2>2. \E n : req' = [req EXCEPT ![r] = n]
    BY <1>3, Zenon DEF ArriveSpecific, Reuse, Skip
  <2>3. HalfOpenHasProbe'
    BY <1>2, <2>1, <2>2, ProbeKept DEF channels
  <2>4. \A c \in Channels : Justified(breaker'[c], blame'[c])
    BY <2>1, BlameKept DEF channels
  <2>5. Others'
    BY <1>1, <2>1 DEF Others, channels
  <2> QED
    BY <2>3, <2>4, <2>5 DEF BreakerInv
<1>4. ASSUME NEW r \in Requests, Arrive(r) \/ Pick(r) \/ PickKeyless(r)
      PROVE  Others' /\ BreakerInv'
  <2>1. UNCHANGED <<channels, hangUps>> /\ req[r].pc # "call"
    BY <1>4, Zenon DEF Arrive, Pick, PickKeyless
  <2>2. \E n : req' = [req EXCEPT ![r] = n]
    BY <1>4, Zenon DEF Arrive, Pick, PickKeyless
  <2>3. HalfOpenHasProbe'
    BY <1>2, <2>1, <2>2, ProbeKept DEF channels
  <2>4. \A c \in Channels : Justified(breaker'[c], blame'[c])
    BY <2>1, BlameKept DEF channels
  <2>5. pin' = pin \/ \E c \in Select(r, req[r]).from : pin' = Pin(r, req[r], c)
    BY <1>4, Zenon DEF Arrive, Pick, PickKeyless
  <2>6. req[r] \in RequestState
    BY <1>2
  <2>7. pin' \in Channels \cup {NoChannel}
    BY <1>1, <2>5, <2>6, PinTyped DEF Others
  <2>8. Others'
    BY <1>1, <2>1, <2>7 DEF Others, channels
  <2> QED
    BY <2>3, <2>4, <2>8 DEF BreakerInv
<1>5. ASSUME NEW r \in Requests, Call(r)
      PROVE  Others' /\ BreakerInv'
  <2> DEFINE d == req[r].chan
  <2>1. /\ req[r].pc = "admit" /\ d \in Channels
        /\ breaker' = [breaker EXCEPT ![d] = Admitted(breaker[d])]
        /\ prober' = [prober EXCEPT ![d] =
                        IF breaker[d].state = "closed" THEN prober[d] ELSE r]
        /\ UNCHANGED <<enabled, cool, async, pin, blame, bans, hangUps>>
    BY <1>1, <1>2, <1>5 DEF Call, Local, Flight, InFlight
  <2>2. PICK n : /\ req' = [req EXCEPT ![r] = n]
                 /\ n.pc = "call" /\ n.chan = d
    BY <1>1, <1>5, CallGood
  <2> HIDE DEF d
  <2>3. /\ breaker \in [Channels -> Breakers] /\ breaker[d] \in Breakers
        /\ prober \in [Channels -> Requests \cup {NoChannel}]
    BY <1>1, <2>1 DEF Others
  <2>4. /\ Admitted(breaker[d]) \in Breakers
        /\ Admitted(breaker[d]).fails = breaker[d].fails
        /\ breaker[d].state = "closed" <=> Admitted(breaker[d]).state = "closed"
    BY <2>3, AdmittedTyped
  <2>5. breaker'[d] = Admitted(breaker[d])
    BY <2>1, <2>3
  <2>6. \A c \in Channels \ {d} : breaker'[c] = breaker[c] /\ prober'[c] = prober[c]
    BY <2>1, <2>3
  <2>7. breaker' \in [Channels -> Breakers]
    BY <2>1, <2>3, <2>4
  <2>8. prober' \in [Channels -> Requests \cup {NoChannel}]
    BY <2>1, <2>3
  <2>9. Others'
    BY <1>1, <2>1, <2>7, <2>8 DEF Others
  <2>10. \A c \in Channels : Justified(breaker'[c], blame'[c])
    BY <2>1, <2>4, <2>5, <2>6 DEF BreakerInv, Justified
  <2>11. ASSUME NEW c \in Channels, breaker'[c].state = "halfOpen"
         PROVE  \E p \in Requests : /\ prober'[c] = p
                                    /\ req'[p].pc = "call" /\ req'[p].chan = c
    <3>1. CASE c = d
      <4>1. breaker[d].state # "closed"
        BY <2>4, <2>5, <2>11, <3>1
      <4>2. prober'[d] = r
        BY <2>1, <2>3, <4>1
      <4>3. req'[r] = n
        BY <1>2, <2>2
      <4> QED
        BY <2>2, <3>1, <4>2, <4>3
    <3>2. CASE c # d
      <4>1. PICK p \in Requests : prober[c] = p /\ req[p].pc = "call" /\ req[p].chan = c
        BY <2>6, <2>11, <3>2 DEF BreakerInv, HalfOpenHasProbe
      <4>2. p # r
        BY <2>1, <4>1
      <4>3. req'[p] = req[p]
        BY <1>2, <2>2, <4>2
      <4> QED
        BY <2>6, <3>2, <4>1, <4>3
    <3> QED
      BY <3>1, <3>2
  <2> QED
    BY <2>9, <2>10, <2>11 DEF BreakerInv, HalfOpenHasProbe
<1>6. ASSUME NEW r \in Requests, NEW e, NEW n, req' = [req EXCEPT ![r] = n],
             req[r].pc = "call", NEW gone \in {FALSE, req[r].gone},
             Reported(req[r].chan, gone, e),
             UNCHANGED <<enabled, cool, pin, hangUps>>, bans' \in 0..MaxBans,
             async' \subseteq async \cup {"ban", "cool"} \X {req[r].chan}
      PROVE  Others' /\ BreakerInv'
  <2> DEFINE d == req[r].chan
  <2>1. /\ d \in Channels
        /\ breaker' \in [Channels -> Breakers]
        /\ prober' \in [Channels -> Requests \cup {NoChannel}]
        /\ blame' \in [Channels -> 0..Threshold]
        /\ \A c \in Channels : Justified(breaker'[c], blame'[c])
        /\ breaker'[d].state # "halfOpen"
        /\ \A c \in Channels \ {d} : breaker'[c] = breaker[c] /\ prober'[c] = prober[c]
    BY <1>6, ReportStep
  <2>2. async' \subseteq {"ban", "cool"} \X Channels
    <3>1. {"ban", "cool"} \X {d} \subseteq {"ban", "cool"} \X Channels
      BY <2>1
    <3>2. async \subseteq {"ban", "cool"} \X Channels
      BY <1>1 DEF Others
    <3> QED
      BY <1>6, <3>1, <3>2
  <2>3. Others'
    BY <1>1, <1>6, <2>1, <2>2 DEF Others
  <2> HIDE DEF d
  <2>4. ASSUME NEW c \in Channels, breaker'[c].state = "halfOpen"
        PROVE  \E p \in Requests : /\ prober'[c] = p
                                   /\ req'[p].pc = "call" /\ req'[p].chan = c
    <3>1. c # d
      BY <2>1, <2>4
    <3>2. PICK p \in Requests : prober[c] = p /\ req[p].pc = "call" /\ req[p].chan = c
      BY <2>1, <2>4, <3>1 DEF BreakerInv, HalfOpenHasProbe
    <3>3. p # r
      BY <3>1, <3>2 DEF d
    <3>4. req'[p] = req[p]
      BY <1>2, <1>6, <3>3
    <3> QED
      BY <2>1, <3>1, <3>2, <3>4
  <2> QED
    BY <2>1, <2>3, <2>4 DEF BreakerInv, HalfOpenHasProbe
<1>7. ASSUME NEW r \in Requests, Serve(r)
      PROVE  Others' /\ BreakerInv'
  <2>1. PICK gone \in {FALSE, req[r].gone} :
          /\ req[r].pc = "call" /\ \E n : req' = [req EXCEPT ![r] = n]
          /\ Reported(req[r].chan, gone, "none")
          /\ UNCHANGED <<enabled, cool, async, pin, bans, hangUps>>
    BY <1>7 DEF Serve, Reported
  <2>2. bans' \in 0..MaxBans
    BY <1>1, <2>1 DEF Others
  <2>3. async' \subseteq async \cup {"ban", "cool"} \X {req[r].chan}
    BY <2>1
  <2> QED
    BY <1>6, <2>1, <2>2, <2>3
<1>8. ASSUME NEW r \in Requests, NEW e \in Errors, NEW cut \in BOOLEAN, Fail(r, e, cut)
      PROVE  Others' /\ BreakerInv'
  <2> DEFINE d == req[r].chan
  <2>1. /\ req[r].pc = "call" /\ \E n : req' = [req EXCEPT ![r] = n]
        /\ Reported(d, req[r].gone, e)
        /\ UNCHANGED <<enabled, cool, pin, hangUps>>
        /\ bans' \in {bans, bans + 1} /\ bans' <= MaxBans
        /\ async' = async \cup {<<"ban", c>> : c \in {x \in {d} : ShouldDisable(e)}}
                          \cup {<<"cool", c>> : c \in {x \in {d} : Cools(e)}}
    BY <1>8 DEF Fail, Reported
  <2>2. bans' \in 0..MaxBans
    BY <1>1, <2>1, RetryAssumption DEF Others
  <2>3. async' \subseteq async \cup {"ban", "cool"} \X {d}
    BY <2>1
  <2> QED
    BY <1>6, <2>1, <2>2, <2>3
<1>9. ASSUME NEW r \in Requests, HangUp(r)
      PROVE  Others' /\ BreakerInv'
  <2>1. UNCHANGED <<pin, channels>> /\ hangUps' = hangUps + 1 /\ hangUps < MaxHangUps
    BY <1>9 DEF HangUp
  <2>2. \E n : req' = [req EXCEPT ![r] = n] /\ n.pc = req[r].pc /\ n.chan = req[r].chan
    BY <1>1, <1>9, HangUpGood
  <2>3. HalfOpenHasProbe'
    BY <1>2, <2>1, <2>2, ProbeKept DEF channels
  <2>4. \A c \in Channels : Justified(breaker'[c], blame'[c])
    BY <2>1, BlameKept DEF channels
  <2>5. hangUps' \in 0..MaxHangUps
    BY <1>1, <2>1, RetryAssumption DEF Others
  <2>6. Others'
    BY <1>1, <2>1, <2>5 DEF Others, channels
  <2> QED
    BY <2>3, <2>4, <2>6 DEF BreakerInv
<1>10. ASSUME NEW c \in Channels, DisableChannel(c) \/ MaybeMarkCooldown(c)
       PROVE  Others' /\ BreakerInv'
  <2>1. /\ UNCHANGED <<req, breaker, prober, pin, blame, bans, hangUps>>
        /\ async' \subseteq async /\ enabled' \subseteq enabled
        /\ cool' = cool \/ cool' = [cool EXCEPT ![c] = CoolFor]
    BY <1>10 DEF DisableChannel, MaybeMarkCooldown
  <2>2. cool' \in [Channels -> 0..CoolFor]
    <3>1. CoolFor \in 0..CoolFor
      BY RetryAssumption
    <3>2. cool \in [Channels -> 0..CoolFor]
      BY <1>1 DEF Others
    <3>3. CASE cool' = cool
      BY <3>2, <3>3
    <3>4. CASE cool' = [cool EXCEPT ![c] = CoolFor]
      BY <3>1, <3>2, <3>4
    <3> QED
      BY <2>1, <3>3, <3>4
  <2>3. HalfOpenHasProbe'
    BY <1>2, <2>1, ProbeKept
  <2>4. \A x \in Channels : Justified(breaker'[x], blame'[x])
    BY <2>1, BlameKept
  <2>5. Others'
    BY <1>1, <2>1, <2>2 DEF Others
  <2> QED
    BY <2>3, <2>4, <2>5 DEF BreakerInv
<1>11. ASSUME Tick
       PROVE  Others' /\ BreakerInv'
  <2>1. /\ breaker' = [c \in Channels |-> Elapse(breaker[c], 1)]
        /\ cool' = [c \in Channels |-> IF cool[c] > 0 THEN cool[c] - 1 ELSE 0]
        /\ UNCHANGED <<req, prober, enabled, async, pin, blame, bans, hangUps>>
    BY <1>11 DEF Tick
  <2>2. \A c \in Channels : /\ breaker'[c] \in Breakers
                            /\ breaker'[c].state = breaker[c].state
                            /\ breaker'[c].fails = breaker[c].fails
    BY <1>1, <2>1, ElapseTyped DEF Others
  <2>3. cool' \in [Channels -> 0..CoolFor]
    BY <1>1, <2>1, RetryAssumption DEF Others
  <2>4. breaker' \in [Channels -> Breakers]
    BY <2>1, <2>2
  <2>5. Others'
    BY <1>1, <2>1, <2>3, <2>4 DEF Others
  <2>6. HalfOpenHasProbe'
    BY <2>1, <2>2 DEF BreakerInv, HalfOpenHasProbe
  <2>7. \A c \in Channels : Justified(breaker'[c], blame'[c])
    BY <2>1, <2>2 DEF BreakerInv, Justified
  <2> QED
    BY <2>5, <2>6, <2>7 DEF BreakerInv
<1> QED
  BY <1>3, <1>4, <1>5, <1>7, <1>8, <1>9, <1>10, <1>11 DEF Next, Step

LEMMA InvInit ==
  ASSUME Init
  PROVE  Inv /\ BreakerInv
<1>1. req \in [Requests -> RequestState] /\ \A r \in Requests : req[r] = Fresh
  BY FreshTyped DEF Init
<1>2. Fresh.pc = "idle"
  BY DEF Fresh
<1>3. \A r \in Requests : Local(r, req[r]) /\ Budget(r, req[r])
  BY <1>1, <1>2 DEF Local, Budget, Spent, InFlight
<1>4. /\ breaker = [c \in Channels |-> NewBreaker]
      /\ prober = [c \in Channels |-> NoChannel]
      /\ enabled = Channels /\ cool = [c \in Channels |-> 0] /\ async = {}
      /\ pin \in Bindings /\ blame = [c \in Channels |-> 0] /\ bans = 0 /\ hangUps = 0
  BY DEF Init
<1>5. 0 \in 0..CoolFor /\ 0 \in 0..Threshold /\ 0 \in 0..MaxBans /\ 0 \in 0..MaxHangUps
  BY RetryAssumption, BreakerAssumption
<1>6. NewBreaker \in Breakers /\ NewBreaker.state = "closed" /\ NewBreaker.fails = 0
  BY NewBreakerTyped
<1>7. Bindings \subseteq Channels \cup {NoChannel}
  BY RetryAssumption
<1>8. TypeOK
  BY <1>1, <1>4, <1>5, <1>6, <1>7 DEF TypeOK
<1>9. \A c \in Channels : Justified(breaker[c], blame[c])
  BY <1>4, <1>6 DEF Justified
<1>10. HalfOpenHasProbe
  BY <1>4, <1>6 DEF HalfOpenHasProbe
<1> QED
  BY <1>3, <1>8, <1>9, <1>10 DEF Inv, BreakerInv

LEMMA InvStep ==
  ASSUME Inv, BreakerInv, [Next]_vars
  PROVE  Inv' /\ BreakerInv'
<1>1. CASE Next
  <2>1. Others' /\ BreakerInv'
    BY <1>1, RestStep
  <2>2. req \in [Requests -> RequestState]
        /\ \A r \in Requests : Local(r, req[r]) /\ Budget(r, req[r])
    BY DEF Inv, TypeOK
  <2>3. req' \in [Requests -> RequestState]
        /\ \A r \in Requests : Local(r, req'[r]) /\ Budget(r, req'[r])
    <3>1. CASE req' = req
      BY <2>2, <3>1
    <3>2. ASSUME NEW r \in Requests, NEW n, req' = [req EXCEPT ![r] = n], Good(r, n)
          PROVE  req' \in [Requests -> RequestState]
                 /\ \A p \in Requests : Local(p, req'[p]) /\ Budget(p, req'[p])
      <4>1. n \in RequestState /\ Local(r, n) /\ Budget(r, n)
        BY <3>2 DEF Good
      <4>2. req' \in [Requests -> RequestState]
        BY <2>2, <3>2, <4>1
      <4>3. req'[r] = n /\ \A p \in Requests \ {r} : req'[p] = req[p]
        BY <2>2, <3>2
      <4> QED
        BY <2>2, <4>1, <4>2, <4>3
    <3> QED
      BY <1>1, <3>1, <3>2, ReqSteps DEF ReqStep
  <2>4. TypeOK'
    BY <2>1, <2>3 DEF TypeOK, Others
  <2> QED
    BY <2>1, <2>3, <2>4 DEF Inv
<1>2. CASE UNCHANGED vars
  BY <1>2 DEF vars, channels, Inv, TypeOK, BreakerInv, HalfOpenHasProbe
<1> QED
  BY <1>1, <1>2

\* Inv and BreakerInv are inductive.
THEOREM InvCorrect == Spec => [](Inv /\ BreakerInv)
<1>1. Init => Inv /\ BreakerInv
  BY InvInit
<1>2. Inv /\ BreakerInv /\ [Next]_vars => (Inv /\ BreakerInv)'
  BY InvStep
<1> QED
  BY <1>1, <1>2, PTL DEF Spec

\* Every variable keeps its type, whatever the requests of a replica do to each other's
\* channels: retry counters stay within RetryTimes and group indices within the groups.
THEOREM TypeCorrect == Spec => []TypeOK
<1>1. Inv => TypeOK
  BY DEF Inv
<1> QED
  BY <1>1, InvCorrect, PTL

\* The client has one answer, and the right one: no second attempt after a byte of the
\* first is out, "ok" only for a served attempt, and an upstream's refusal is not
\* replaced by a 503 about cooling channels or open breakers.
THEOREM OneAnswerCorrect == Spec => []OneAnswer
<1>1. ASSUME Inv
      PROVE  OneAnswer
  <2> SUFFICES ASSUME NEW r \in Requests
               PROVE  /\ req[r].streams <= 1
                      /\ req[r].pc = "done" => Verdict(req[r])
    BY DEF OneAnswer, OneStream, VerdictKept, Verdict
  <2>1. Local(r, req[r]) /\ req[r] \in RequestState
    BY <1>1 DEF Inv, TypeOK
  <2>2. req[r].pc \in InFlight \cup {"idle", "done"}
    BY <2>1 DEF RequestState, States, InFlight
  <2>3. Fresh.streams = 0
    BY DEF Fresh
  <2>4. req[r].streams <= 1
    BY <2>1, <2>2, <2>3 DEF Local, Flight, Verdict
  <2> QED
    BY <2>1, <2>4 DEF Local
<1> QED
  BY <1>1, InvCorrect, PTL

\* A breaker leaves Closed only after Threshold failures in a row of its upstream, and a
\* half-open one has its probe in flight, for any number of requests reporting to it in
\* any order.
THEOREM BreakerSoundCorrect == Spec => []BreakerSound
<1>1. BreakerInv => BreakerSound
  BY DEF BreakerInv, Justified, BreakerSound, TripMeansFailures
<1> QED
  BY <1>1, InvCorrect, PTL

LEMMA CallsBounded ==
  ASSUME Inv, Len(Groups) > 0, NEW r \in Requests
  PROVE  req[r].calls <= Walked(r) * (RetryTimes + 1) + Extra(r)
<1> DEFINE q == req[r]
<1>1. q \in RequestState /\ Local(r, q) /\ Spent(r, q)
  BY DEF Inv, TypeOK, Budget
<1>2. q.pc \in {"idle", "select", "admit", "call", "done"}
  BY <1>1 DEF RequestState, States
<1> HIDE DEF q
<1>3. CASE q.pc = "idle"
  <2>1. q.calls = 0
    BY <1>1, <1>3 DEF Local, Fresh
  <2> QED
    BY <2>1, UnspentAtEnd DEF q
<1>4. CASE q.pc = "done"
  BY <1>1, <1>4 DEF Spent, q
<1>5. CASE q.pc \in InFlight
  <2>1. Flight(r, q)
    BY <1>1, <1>5 DEF Local
  <2>2. TokenGroup[r] # 0 => q.group = 1 /\ ~q.reset
    BY <2>1 DEF Flight
  <2>3. CASE ~q.meta
    <3>1. q.calls = 0
      BY <2>1, <2>3 DEF Flight
    <3> QED
      BY <3>1, UnspentAtEnd DEF q
  <2>4. CASE q.meta
    <3>1. SpentRetrying(r, q)
      <4>1. CASE q.pc = "call"
        <5>1. 0 \in 0..1 /\ q.calls + 0 = q.calls
          BY <1>1 DEF RequestState
        <5>2. q.calls + 0 <= Before(q.group)
                + (IF q.reset THEN 0
                   ELSE IF q.group <= Len(Groups) THEN q.retry + 1 ELSE Extra(r))
          BY <1>1, <2>1, <4>1, <5>1, CallSpent
        <5> QED
          BY <5>1, <5>2 DEF SpentRetrying
      <4>2. CASE q.pc \in {"select", "admit"}
        BY <1>1, <2>1, <4>2, SpentGoesOn
      <4> QED
        BY <1>5, <4>1, <4>2 DEF InFlight
    <3> QED
      BY <1>1, <2>2, <2>4, <3>1, SpentAtEnd DEF q
  <2> QED
    BY <2>3, <2>4
<1> QED
  BY <1>2, <1>3, <1>4, <1>5 DEF InFlight

\* Every step of a request that the distributor let in brings its answer closer, and it
\* calls upstreams no more often than RetryTimes + 1 times per group plus once for the
\* affinity binding, for any groups (at least one), priorities and RetryTimes.
THEOREM WalkEndsCorrect == ASSUME Len(Groups) > 0 PROVE Spec => WalkEnds
<1> DEFINE Approach ==
             \A r \in {i \in Requests : req[i].pc \notin {"idle", "done"}} :
               req[r]' # req[r] /\ req[r]'.gone = req[r].gone =>
                 0 <= Rank(req[r]') /\ Rank(req[r]') < Rank(req[r])
<1>1. ASSUME Inv
      PROVE  AttemptsBounded
  <2> SUFFICES ASSUME NEW r \in Requests
               PROVE  req[r].calls <= (IF TokenGroup[r] = 0 THEN Len(Groups) ELSE 1)
                                        * (RetryTimes + 1) + Cardinality({r} \cap Affine)
    BY DEF AttemptsBounded
  <2>1. Cardinality({r} \cap Affine) = Extra(r)
    <3>1. CASE r \in Affine
      <4>1. {r} \cap Affine = {r} /\ Cardinality({r}) = 1
        BY <3>1, FS_Singleton
      <4> QED
        BY <3>1, <4>1 DEF Extra
    <3>2. CASE r \notin Affine
      <4>1. {r} \cap Affine = {} /\ Cardinality({}) = 0
        BY <3>2, FS_EmptySet
      <4> QED
        BY <3>2, <4>1 DEF Extra
    <3> QED
      BY <3>1, <3>2
  <2>2. req[r].calls <= Walked(r) * (RetryTimes + 1) + Extra(r)
    BY <1>1, CallsBounded
  <2> QED
    BY <2>1, <2>2 DEF Walked
<1>2. ASSUME Inv, Next
      PROVE  Approach
  <2> SUFFICES ASSUME NEW r \in Requests, req[r].pc # "idle",
                      req'[r] # req[r], req'[r].gone = req[r].gone
               PROVE  0 <= Rank(req'[r]) /\ Rank(req'[r]) < Rank(req[r])
    OBVIOUS
  <2>1. req \in [Requests -> RequestState]
    BY <1>2 DEF Inv, TypeOK
  <2>2. PICK p \in Requests : \E n : ReqStep(p, n)
    BY <1>2, ReqSteps
  <2>3. PICK n : ReqStep(p, n)
    BY <2>2
  <2>4. req' = [req EXCEPT ![p] = n]
    BY <2>3 DEF ReqStep
  <2>5. p = r
    BY <2>1, <2>4
  <2>6. req'[r] = n
    BY <2>1, <2>4, <2>5
  <2>7. Closer(req[r], n)
    BY <2>3, <2>5, <2>6 DEF ReqStep
  <2> QED
    BY <2>6, <2>7 DEF Closer
<1>3. ASSUME Inv, [Next]_vars
      PROVE  [Approach]_vars
  BY <1>2, <1>3
<1>4. (Spec => []AttemptsBounded) /\ (Spec => [][Approach]_vars)
  <2> HIDE DEF Approach
  <2> QED
    BY <1>1, <1>3, InvCorrect, PTL DEF Spec
<1> QED
  BY <1>4, PTL DEF WalkEnds

\* getChannel goes back to a used channel only when nothing else is within reach.
LEMMA PickFresh ==
  ASSUME Inv, NEW r \in Requests \ (Affine \cap CrossGroup), Pick(r)
  PROVE  ~TurnsBack(r)
<1> DEFINE q == req[r]
<1>1. /\ q \in RequestState /\ TypeOK /\ Local(r, q) /\ Budget(r, q)
      /\ q.pc = "select" /\ q.meta /\ Flight(r, q)
  BY DEF Pick, Inv, Local, TypeOK, InFlight
<1>2. SUFFICES ASSUME TurnsBack(r)
               PROVE  FALSE
  OBVIOUS
<1>3. PICK n : /\ req' = [req EXCEPT ![r] = n]
               /\ n.pc = "admit" => n.chan \in Select(r, q).from
  BY <1>1, PickGood
<1>4. req'[r] = n
  BY <1>1, <1>3 DEF TypeOK
<1>5. n.pc = "admit" /\ n.chan \in q.used
  BY <1>2, <1>4 DEF TurnsBack
<1>6. ~PinHolds(r, q)
  <2>1. q.retry = 0 => r \in CrossGroup
    BY <1>1 DEF Flight
  <2> QED
    BY <2>1 DEF PinHolds, Bound
<1>7. UntriedLeft(r, q)
  <2>1. PICK c \in Reachable(r) \cap enabled : ~Cooling(c) /\ c \notin q.used
    BY <1>2 DEF TurnsBack
  <2>2. CASE TokenGroup[r] = 0
    <3>1. PICK i \in q.group..Len(Groups) : c \in Groups[i]
      BY <2>1, <2>2 DEF Reachable
    <3>2. c \in Untried(i, q.used)
      BY <2>1, <3>1 DEF Untried, Enabled
    <3> QED
      BY <2>2, <3>2 DEF UntriedLeft
  <2>3. CASE TokenGroup[r] # 0
    <3>1. c \in Untried(TokenGroup[r], q.used)
      BY <2>1, <2>3 DEF Untried, Enabled, Reachable
    <3> QED
      BY <2>3, <3>1 DEF UntriedLeft
  <2> QED
    BY <2>2, <2>3
<1>8. Select(r, q).from \cap q.used = {}
  BY <1>1, <1>6, <1>7, SelectDrawn
<1> QED
  BY <1>3, <1>5, <1>8

\* A retry goes to a channel that the request has been through only when no other one
\* is within its reach, for any groups, priorities, cooldowns and disabled channels.
THEOREM FreshFirstCorrect == Spec => FreshFirst
<1> DEFINE Onward == \A r \in Requests \ (Affine \cap CrossGroup) :
                       req[r].meta => ~TurnsBack(r)
<1>1. ASSUME Inv, Next
      PROVE  Onward
  <2> SUFFICES ASSUME NEW r \in Requests \ (Affine \cap CrossGroup), req[r].meta,
                      TurnsBack(r)
               PROVE  FALSE
    OBVIOUS
  <2>1. req[r].pc = "select" /\ req'[r].pc = "admit"
    BY DEF TurnsBack
  <2>2. TypeOK /\ req \in [Requests -> RequestState]
        /\ \A p \in Requests : Local(p, req[p]) /\ Budget(p, req[p])
    BY <1>1 DEF Inv, TypeOK
  <2>3. ASSUME NEW p \in Requests, NEW n, req' = [req EXCEPT ![p] = n]
        PROVE  p = r /\ n.pc = "admit"
    BY <2>1, <2>2, <2>3
  <2>4. ASSUME NEW p \in Requests, ArriveSpecific(p) \/ Arrive(p)
        PROVE  FALSE
    <3>1. req[p].pc = "idle" /\ \E n : req' = [req EXCEPT ![p] = n]
      BY <2>4, Zenon DEF ArriveSpecific, Arrive
    <3> QED
      BY <2>1, <2>3, <3>1
  <2>5. ASSUME NEW p \in Requests, Reuse(p)
        PROVE  FALSE
    <3>1. ~req[p].meta /\ \E n : req' = [req EXCEPT ![p] = n]
      BY <2>2, <2>5, ReuseGood DEF Reuse
    <3> QED
      BY <2>3, <3>1
  <2>6. ASSUME NEW p \in Requests, Pick(p)
        PROVE  FALSE
    <3>1. \E n : req' = [req EXCEPT ![p] = n]
      BY <2>2, <2>6, PickGood
    <3>2. p = r
      BY <2>3, <3>1
    <3> QED
      BY <1>1, <2>6, <3>2, PickFresh
  <2>7. ASSUME NEW p \in Requests, PickKeyless(p)
        PROVE  FALSE
    <3>1. \E n : req' = [req EXCEPT ![p] = n] /\ n.pc # "admit"
      BY <2>2, <2>7, PickKeylessGood
    <3> QED
      BY <2>3, <3>1
  <2>8. ASSUME NEW p \in Requests, Skip(p) \/ Call(p)
        PROVE  FALSE
    <3>1. req[p].pc = "admit" /\ \E n : req' = [req EXCEPT ![p] = n]
      BY <2>2, <2>8, SkipGood, CallGood DEF Skip, Call
    <3> QED
      BY <2>1, <2>3, <3>1
  <2>9. ASSUME NEW p \in Requests,
               Serve(p) \/ \E e \in Errors, cut \in BOOLEAN : Fail(p, e, cut)
        PROVE  FALSE
    <3>1. req[p].pc = "call" /\ \E n : req' = [req EXCEPT ![p] = n]
      BY <2>9, Zenon DEF Serve, Fail
    <3> QED
      BY <2>1, <2>3, <3>1
  <2>10. ASSUME NEW p \in Requests, HangUp(p)
         PROVE  FALSE
    <3>1. \E n : req' = [req EXCEPT ![p] = n] /\ n.pc = req[p].pc
      BY <2>2, <2>10, HangUpGood
    <3> QED
      BY <2>1, <2>3, <3>1
  <2>11. req' # req
    BY <2>1
  <2>12. ASSUME NEW c \in Channels, DisableChannel(c) \/ MaybeMarkCooldown(c)
         PROVE  FALSE
    BY <2>11, <2>12 DEF DisableChannel, MaybeMarkCooldown
  <2>13. ~Tick
    BY <2>11 DEF Tick
  <2> QED
    BY <1>1, <2>4, <2>5, <2>6, <2>7, <2>8, <2>9, <2>10, <2>12, <2>13 DEF Next, Step
<1>2. ASSUME Inv, [Next]_vars
      PROVE  [Onward]_vars
  BY <1>1, <1>2
<1>3. Spec => [][Onward]_vars
  <2> HIDE DEF Onward
  <2> QED
    BY <1>2, InvCorrect, PTL DEF Spec
<1> QED
  BY <1>3 DEF FreshFirst
=============================================================================
