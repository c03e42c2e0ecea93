------------------------ MODULE ChannelCooldownProofs ------------------------
(***************************************************************************)
(* Proofs about ChannelCooldown, for any replicas, channels and goroutines *)
(* that mark, lift and take snapshots at once.                             *)
(***************************************************************************)
EXTENDS ChannelCooldown, TLAPS

\* A mark that Redis does not have is in the replica's own entries, and not given up
\* to Redis.
AloneOK(r, c) ==
  /\ alone[r][c] <= local[r][c]
  /\ alone[r][c] > 0 => c \notin synced[r]

\* A channel that nobody has touched since the snapshot in flight began.
QuietOK(r, c) ==
  snap[r].at # "idle" /\ c \in snap[r].quiet =>
    /\ Still(c)
    /\ c \notin snap[r].cleared /\ c \notin young[r]
    /\ snap[r].at = "merge" => snap[r].seen[c] = index[c]

\* A channel that nobody has touched since the last snapshot began.
CaughtUpOK(r, c) ==
  c \in caughtUp[r] =>
    /\ Still(c)
    /\ remote[r][c] = index[c]
    /\ c \in synced[r] => local[r][c] <= index[c]
    /\ snap[r].at # "idle" => c \in snap[r].quiet

\* Nobody else is at the channel of the lift p.
Sole(p) ==
  /\ \A m \in Markers : mark[m].at # "idle" => mark[m].chan # clear[p].chan
  /\ \A x \in Clearers : clear[x].at # "idle" /\ clear[x].chan = clear[p].chan => x = p

\* How far a lift has come that nobody has interfered with.
ClearOK(p) ==
  LET k == clear[p]
      r == Home[p]
  IN  /\ k.members \subseteq {k.chan}
      /\ k.at # "idle" /\ k.pure =>
           /\ Sole(p)
           /\ k.at \in {"list", "rem", "stamp"} =>
                /\ local[r][k.chan] = 0
                /\ k.chan \notin slipped[r] => remote[r][k.chan] = 0
           /\ k.at = "rem" /\ k.chan \notin k.members => index[k.chan] = 0
           /\ k.at = "stamp" => index[k.chan] = 0

\* A lifted channel: a snapshot in flight has nothing to bring back.
LiftedOK(r, c) ==
  <<r, c>> \in lifted =>
    /\ Still(c)
    /\ index[c] = 0 /\ local[r][c] = 0
    /\ c \notin slipped[r] => remote[r][c] = 0
    /\ snap[r].at = "merge" => c \in snap[r].cleared \/ snap[r].seen[c] = 0

Facts == /\ \A r \in Replicas, c \in Channels :
              AloneOK(r, c) /\ QuietOK(r, c) /\ CaughtUpOK(r, c) /\ LiftedOK(r, c)
         /\ \A p \in Clearers : ClearOK(p)

Inv == TypeOK /\ Facts

-----------------------------------------------------------------------------
\* Types

LEMMA LeftTyped ==
  /\ 0 \in Left /\ \A x \in Left : x \in Nat /\ x <= CoolFor
  /\ None \in [Channels -> Left] /\ \A c \in Channels : None[c] = 0
  BY CooldownAssumption DEF Left, None

LEMMA IdleTyped ==
  /\ NoSnap \in Snaps /\ NoSnap.at = "idle"
  /\ NoMark \in Marks /\ NoMark.at = "idle" /\ NoMark.young = FALSE
  /\ NoClear \in Clears /\ NoClear.at = "idle" /\ NoClear.members = {}
<1>1. (CHOOSE c \in Channels : TRUE) \in Channels
  BY CooldownAssumption
<1>2. NoSnap \in Snaps /\ NoSnap.at = "idle"
  BY LeftTyped DEF NoSnap, Snaps
<1>3. NoMark \in Marks /\ NoMark.at = "idle" /\ NoMark.young = FALSE
  BY <1>1, LeftTyped DEF NoMark, Marks
<1>4. NoClear \in Clears /\ NoClear.at = "idle" /\ NoClear.members = {}
  BY <1>1 DEF NoClear, Clears
<1> QED
  BY <1>2, <1>3, <1>4

LEMMA HomeTyped ==
  /\ \A p \in Markers : Home[p] \in Replicas
  /\ \A p \in Clearers : Home[p] \in Replicas
  BY CooldownAssumption

\* The bounds on marks, lifts and faults.
LEMMA SpentTyped ==
  ASSUME NEW S, S = [marks : 0..MaxMarks, clears : 0..MaxClears, faults : 0..MaxFaults],
         NEW s \in S
  PROVE  /\ s.marks < MaxMarks => [s EXCEPT !.marks = s.marks + 1] \in S
         /\ s.clears < MaxClears => [s EXCEPT !.clears = s.clears + 1] \in S
         /\ s.faults < MaxFaults => [s EXCEPT !.faults = s.faults + 1] \in S
<1>1. /\ s.marks < MaxMarks => s.marks + 1 \in 0..MaxMarks
      /\ s.clears < MaxClears => s.clears + 1 \in 0..MaxClears
      /\ s.faults < MaxFaults => s.faults + 1 \in 0..MaxFaults
  BY CooldownAssumption
<1>2. ASSUME s.marks < MaxMarks
      PROVE  [s EXCEPT !.marks = s.marks + 1] \in S
  BY <1>1, <1>2
<1>3. ASSUME s.clears < MaxClears
      PROVE  [s EXCEPT !.clears = s.clears + 1] \in S
  BY <1>1, <1>3
<1>4. ASSUME s.faults < MaxFaults
      PROVE  [s EXCEPT !.faults = s.faults + 1] \in S
  BY <1>1, <1>4
<1> QED
  BY <1>2, <1>3, <1>4

\* What the proofs need of the types.
LEMMA Fields ==
  ASSUME TypeOK
  PROVE  /\ index \in [Channels -> Left] /\ local \in [Replicas -> [Channels -> Left]]
         /\ remote \in [Replicas -> [Channels -> Left]]
         /\ alone \in [Replicas -> [Channels -> Left]]
         /\ synced \in [Replicas -> SUBSET Channels] /\ young \in [Replicas -> SUBSET Channels]
         /\ slipped \in [Replicas -> SUBSET Channels]
         /\ caughtUp \in [Replicas -> SUBSET Channels]
         /\ \A r \in Replicas :
              /\ snap[r] \in Snaps
              /\ snap[r].at \in {"idle", "read", "merge"} /\ snap[r].seen \in [Channels -> Left]
              /\ snap[r].cleared \subseteq Channels /\ snap[r].quiet \subseteq Channels
         /\ \A p \in Markers :
              /\ mark[p] \in Marks
              /\ mark[p].at \in {"idle", "write", "sync"} /\ mark[p].chan \in Channels
              /\ mark[p].left \in Left /\ mark[p].young \in BOOLEAN
         /\ \A p \in Clearers :
              /\ clear[p] \in Clears
              /\ clear[p].at \in {"idle", "drop", "list", "rem", "stamp"}
              /\ clear[p].chan \in Channels
              /\ clear[p].members \subseteq Channels /\ clear[p].pure \in BOOLEAN
<1>1. \A r \in Replicas : snap[r] \in Snaps
  BY DEF TypeOK
<1>2. \A p \in Markers : mark[p] \in Marks
  BY DEF TypeOK
<1>3. \A p \in Clearers : clear[p] \in Clears
  BY DEF TypeOK
<1>4. ASSUME NEW r \in Replicas
      PROVE  /\ snap[r].at \in {"idle", "read", "merge"} /\ snap[r].seen \in [Channels -> Left]
             /\ snap[r].cleared \subseteq Channels /\ snap[r].quiet \subseteq Channels
  BY <1>1 DEF Snaps
<1>5. ASSUME NEW p \in Markers
      PROVE  /\ mark[p].at \in {"idle", "write", "sync"} /\ mark[p].chan \in Channels
             /\ mark[p].left \in Left /\ mark[p].young \in BOOLEAN
  BY <1>2 DEF Marks
<1>6. ASSUME NEW p \in Clearers
      PROVE  /\ clear[p].at \in {"idle", "drop", "list", "rem", "stamp"}
             /\ clear[p].chan \in Channels
             /\ clear[p].members \subseteq Channels /\ clear[p].pure \in BOOLEAN
  BY <1>3 DEF Clears
<1> QED
  BY <1>1, <1>2, <1>3, <1>4, <1>5, <1>6 DEF TypeOK

\* What a mark or a lift in flight rules out.
LEMMA Busy ==
  ASSUME Inv
  PROVE  /\ \A p \in Markers : mark[p].at # "idle" =>
              /\ ~Still(mark[p].chan)
              /\ \A x \in Clearers : clear[x].at # "idle" /\ clear[x].pure =>
                                       clear[x].chan # mark[p].chan
         /\ \A p \in Clearers : clear[p].at # "idle" =>
              /\ ~Still(clear[p].chan)
              /\ \A x \in Clearers \ {p} : clear[x].at # "idle" /\ clear[x].pure =>
                                             clear[x].chan # clear[p].chan
  BY DEF Inv, Facts, Still, ClearOK, Sole

\* A step of a marker or of a lift that stays at its channel leaves the others alone.
LEMMA StillKept ==
  ASSUME \A p \in Markers : mark'[p].at # "idle" =>
           mark[p].at # "idle" /\ mark'[p].chan = mark[p].chan,
         \A p \in Clearers : clear'[p].at # "idle" =>
           clear[p].at # "idle" /\ clear'[p].chan = clear[p].chan
  PROVE  /\ \A c \in Channels : Still(c) => Still(c)'
         /\ \A p \in Clearers : clear'[p].at # "idle" /\ Sole(p) => Sole(p)'
  BY DEF Still, Sole

-----------------------------------------------------------------------------
\* Marks

LEMMA MarkRedisInv ==
  ASSUME Inv, NEW p \in Markers, MarkRedis(p)
  PROVE  Inv'
<1> DEFINE d == mark[p].chan
           n == [mark[p] EXCEPT !.at = "sync"]
<1>1. /\ mark[p].at = "write" /\ index' = [index EXCEPT ![d] = mark[p].left]
      /\ mark' = [mark EXCEPT ![p] = n]
      /\ UNCHANGED <<local, remote, synced, young, due, snap, clear, lifted, slipped,
                     caughtUp, alone, spent>>
  BY DEF MarkRedis, views, ghosts, Inv, TypeOK
<1>2. TypeOK /\ Facts
  BY DEF Inv
<1>3. n \in Marks /\ n.at = "sync" /\ n.chan = d
  BY <1>2, Fields DEF Marks
<1>4. mark \in [Markers -> Marks] /\ d \in Channels /\ mark[p].left \in Left
      /\ index \in [Channels -> Left]
  BY <1>2, Fields DEF TypeOK
<1> HIDE DEF d, n
<1>5. /\ \A c \in Channels \ {d} : index'[c] = index[c]
      /\ mark'[p] = n /\ \A m \in Markers \ {p} : mark'[m] = mark[m]
  BY <1>1, <1>4
<1>6. TypeOK'
  BY <1>1, <1>2, <1>3, <1>4 DEF TypeOK
<1>7. /\ ~Still(d)
      /\ \A x \in Clearers : clear[x].at # "idle" /\ clear[x].pure => clear[x].chan # d
  BY <1>1, Busy DEF d
<1>8. /\ \A c \in Channels : Still(c) => Still(c)'
      /\ \A x \in Clearers : clear'[x].at # "idle" /\ Sole(x) => Sole(x)'
  <2>1. \A m \in Markers : mark'[m].at # "idle" =>
           mark[m].at # "idle" /\ mark'[m].chan = mark[m].chan
    BY <1>1, <1>3, <1>5 DEF d
  <2> QED
    BY <1>1, <2>1, StillKept
<1>9. ASSUME NEW r \in Replicas, NEW c \in Channels
      PROVE  AloneOK(r, c)' /\ QuietOK(r, c)' /\ CaughtUpOK(r, c)' /\ LiftedOK(r, c)'
  <2>1. AloneOK(r, c) /\ QuietOK(r, c) /\ CaughtUpOK(r, c) /\ LiftedOK(r, c)
    BY <1>2 DEF Facts
  <2>2. Still(c) => Still(c)' /\ index'[c] = index[c]
    BY <1>5, <1>7, <1>8
  <2>3. AloneOK(r, c)'
    BY <1>1, <2>1 DEF AloneOK
  <2>4. QuietOK(r, c)'
    BY <1>1, <2>1, <2>2 DEF QuietOK
  <2>5. CaughtUpOK(r, c)'
    BY <1>1, <2>1, <2>2 DEF CaughtUpOK
  <2>6. LiftedOK(r, c)'
    BY <1>1, <2>1, <2>2 DEF LiftedOK
  <2> QED
    BY <2>3, <2>4, <2>5, <2>6
<1>10. ASSUME NEW x \in Clearers
       PROVE  ClearOK(x)'
  <2>1. ClearOK(x) /\ clear[x].chan \in Channels
    BY <1>2, Fields DEF Facts
  <2>2. clear[x].at # "idle" /\ clear[x].pure => index'[clear[x].chan] = index[clear[x].chan]
    BY <1>5, <1>7, <2>1
  <2> QED
    BY <1>1, <1>8, <2>1, <2>2 DEF ClearOK
<1> QED
  BY <1>6, <1>9, <1>10 DEF Inv, Facts

\* MarkChannelCooldown begins: what was known of the channel is forgotten.
LEMMA MarkLocalInv ==
  ASSUME Inv, NEW p \in Markers, NEW d \in Channels, NEW left \in -1..CoolFor,
         MarkLocal(p, d, left)
  PROVE  Inv'
<1> DEFINE h == Home[p]
           n == [at |-> "write", chan |-> d, left |-> left, young |-> snap[h].at # "idle"]
<1>1. /\ mark[p].at = "idle" /\ left > 0 /\ spent.marks < MaxMarks
      /\ spent' = [spent EXCEPT !.marks = spent.marks + 1]
      /\ mark' = [mark EXCEPT ![p] = n]
      /\ local' = [local EXCEPT ![h] = [local[h] EXCEPT ![d] = left]]
      /\ synced' = [synced EXCEPT ![h] = synced[h] \ {d}]
      /\ caughtUp' = [r \in Replicas |-> caughtUp[r] \ {d}]
      /\ lifted' = {x \in lifted : x[2] # d}
      /\ slipped' = [r \in Replicas |-> slipped[r] \ {d}]
      /\ snap' = [s \in Replicas |-> [snap[s] EXCEPT !.quiet = snap[s].quiet \ {d}]]
      /\ clear' = [x \in Clearers |-> IF clear[x].chan = d
                                      THEN [clear[x] EXCEPT !.pure = FALSE] ELSE clear[x]]
      /\ alone' = [alone EXCEPT ![h] = [alone[h] EXCEPT ![d] = 0]]
      /\ UNCHANGED <<index, remote, young, due>>
  BY DEF MarkLocal, Records, Disturb, Impure
<1>2. TypeOK /\ Facts /\ h \in Replicas
  BY HomeTyped DEF Inv
<1>3. left \in Left
  BY <1>1, CooldownAssumption DEF Left
<1>4. n \in Marks /\ n.at = "write" /\ n.chan = d
  BY <1>3 DEF Marks
<1> HIDE DEF n, h
<1>5. /\ mark'[p] = n /\ \A m \in Markers \ {p} : mark'[m] = mark[m]
      /\ mark' \in [Markers -> Marks]
  BY <1>1, <1>2, <1>4 DEF TypeOK
<1>6. \A r \in Replicas : /\ snap'[r] \in Snaps /\ snap'[r].at = snap[r].at
                          /\ snap'[r].seen = snap[r].seen
                          /\ snap'[r].cleared = snap[r].cleared
                          /\ snap'[r].quiet = snap[r].quiet \ {d}
  <2> SUFFICES ASSUME NEW r \in Replicas
               PROVE  /\ snap'[r] \in Snaps /\ snap'[r].at = snap[r].at
                      /\ snap'[r].seen = snap[r].seen
                      /\ snap'[r].cleared = snap[r].cleared
                      /\ snap'[r].quiet = snap[r].quiet \ {d}
    OBVIOUS
  <2>1. snap'[r] = [snap[r] EXCEPT !.quiet = snap[r].quiet \ {d}] /\ snap[r] \in Snaps
    BY <1>1, <1>2, Fields
  <2> QED
    BY <2>1 DEF Snaps
<1>7. \A x \in Clearers : /\ clear'[x] \in Clears /\ clear'[x].at = clear[x].at
                          /\ clear'[x].chan = clear[x].chan
                          /\ clear'[x].members = clear[x].members
                          /\ clear'[x].pure = (clear[x].pure /\ clear[x].chan # d)
  <2> SUFFICES ASSUME NEW x \in Clearers
               PROVE  /\ clear'[x] \in Clears /\ clear'[x].at = clear[x].at
                      /\ clear'[x].chan = clear[x].chan
                      /\ clear'[x].members = clear[x].members
                      /\ clear'[x].pure = (clear[x].pure /\ clear[x].chan # d)
    OBVIOUS
  <2>1. clear[x] \in Clears /\ clear[x].pure \in BOOLEAN
    BY <1>2, Fields
  <2>2. CASE clear[x].chan = d
    <3>1. clear'[x] = [clear[x] EXCEPT !.pure = FALSE]
      BY <1>1, <2>2
    <3> QED
      BY <2>1, <2>2, <3>1 DEF Clears
  <2>3. CASE clear[x].chan # d
    <3>1. clear'[x] = clear[x]
      BY <1>1, <2>3
    <3> QED
      BY <2>1, <2>3, <3>1
  <2> QED
    BY <2>2, <2>3
<1>8. TypeOK'
  <2>1. /\ local' \in [Replicas -> [Channels -> Left]]
        /\ alone' \in [Replicas -> [Channels -> Left]]
        /\ synced' \in [Replicas -> SUBSET Channels]
        /\ slipped' \in [Replicas -> SUBSET Channels]
        /\ caughtUp' \in [Replicas -> SUBSET Channels]
        /\ lifted' \subseteq Replicas \X Channels
    BY <1>1, <1>2, <1>3, LeftTyped DEF TypeOK
  <2>2. snap' \in [Replicas -> Snaps] /\ clear' \in [Clearers -> Clears]
    BY <1>1, <1>6, <1>7
  <2>3. spent' \in [marks : 0..MaxMarks, clears : 0..MaxClears, faults : 0..MaxFaults]
    BY <1>1, <1>2, SpentTyped DEF TypeOK
  <2> QED
    BY <1>1, <1>2, <1>5, <2>1, <2>2, <2>3 DEF TypeOK
<1>9. \A c \in Channels \ {d} : Still(c) => Still(c)'
  BY <1>4, <1>5, <1>7 DEF Still
<1>10. ASSUME NEW r \in Replicas, NEW c \in Channels
       PROVE  AloneOK(r, c)' /\ QuietOK(r, c)' /\ CaughtUpOK(r, c)' /\ LiftedOK(r, c)'
  <2>1. AloneOK(r, c) /\ QuietOK(r, c) /\ CaughtUpOK(r, c) /\ LiftedOK(r, c)
    BY <1>2 DEF Facts
  <2>2. CASE c # d
    <3>1. /\ local'[r][c] = local[r][c] /\ alone'[r][c] = alone[r][c]
          /\ c \in synced'[r] <=> c \in synced[r]
          /\ c \in caughtUp'[r] <=> c \in caughtUp[r]
          /\ c \in slipped'[r] <=> c \in slipped[r]
      BY <1>1, <1>2, <2>2 DEF TypeOK
    <3>2. <<r, c>> \in lifted' <=> <<r, c>> \in lifted
      BY <1>1, <2>2
    <3>3. AloneOK(r, c)'
      BY <2>1, <3>1 DEF AloneOK
    <3>4. QuietOK(r, c)'
      BY <1>1, <1>6, <1>9, <2>1, <2>2 DEF QuietOK
    <3>5. CaughtUpOK(r, c)'
      BY <1>1, <1>6, <1>9, <2>1, <2>2, <3>1 DEF CaughtUpOK
    <3>6. LiftedOK(r, c)'
      BY <1>1, <1>6, <1>9, <2>1, <2>2, <3>1, <3>2 DEF LiftedOK
    <3> QED
      BY <3>3, <3>4, <3>5, <3>6
  <2>3. CASE c = d
    <3>1. d \notin snap'[r].quiet /\ d \notin caughtUp'[r] /\ <<r, d>> \notin lifted'
      BY <1>1, <1>6
    <3>2. alone'[r][d] <= local'[r][d] /\ (alone'[r][d] > 0 => d \notin synced'[r])
      <4>1. CASE r = h
        <5>1. alone'[r][d] = 0 /\ local'[r][d] = left
          BY <1>1, <1>2, <4>1 DEF TypeOK
        <5> QED
          BY <1>1, <5>1
      <4>2. CASE r # h
        BY <1>1, <1>2, <2>1, <2>3, <4>2 DEF TypeOK, AloneOK
      <4> QED
        BY <4>1, <4>2
    <3> QED
      BY <2>3, <3>1, <3>2 DEF AloneOK, QuietOK, CaughtUpOK, LiftedOK
  <2> QED
    BY <2>2, <2>3
<1>11. ASSUME NEW x \in Clearers
       PROVE  ClearOK(x)'
  <2> DEFINE e == clear[x].chan
             r == Home[x]
  <2>1. ClearOK(x) /\ e \in Channels /\ r \in Replicas
    BY <1>2, Fields, HomeTyped DEF Facts
  <2>2. ASSUME clear'[x].at # "idle", clear'[x].pure
        PROVE  /\ e # d /\ clear[x].pure
               /\ Sole(x) => Sole(x)'
               /\ local'[r][e] = local[r][e]
               /\ e \in slipped'[r] <=> e \in slipped[r]
    <3>1. e # d /\ clear[x].pure
      BY <1>7, <2>2
    <3>2. Sole(x) => Sole(x)'
      BY <1>4, <1>5, <1>7, <3>1 DEF Sole
    <3>3. local'[r][e] = local[r][e] /\ (e \in slipped'[r] <=> e \in slipped[r])
      BY <1>1, <1>2, <2>1, <3>1 DEF TypeOK
    <3> QED
      BY <3>1, <3>2, <3>3
  <2> QED
    BY <1>1, <1>7, <2>1, <2>2 DEF ClearOK
<1> QED
  BY <1>8, <1>10, <1>11 DEF Inv, Facts

\* The pipeline has answered or failed: the entry is Redis's, or this replica's alone.
LEMMA MarkEndInv ==
  ASSUME Inv, NEW p \in Markers, MarkDone(p) \/ MarkFails(p)
  PROVE  Inv'
<1> DEFINE d == mark[p].chan
           h == Home[p]
           l == mark[p].left
<1>1. /\ mark[p].at # "idle" /\ mark' = [mark EXCEPT ![p] = NoMark]
      /\ UNCHANGED <<index, local, remote, due, snap, clear, lifted, slipped, caughtUp>>
  BY DEF MarkDone, MarkFails, views
<1>2. TypeOK /\ Facts /\ h \in Replicas /\ d \in Channels /\ l \in Left
  BY HomeTyped, Fields DEF Inv
<1>3. \E y \in SUBSET Channels, z \in SUBSET Channels, a \in Left :
        /\ synced' = [synced EXCEPT ![h] = z] /\ young' = [young EXCEPT ![h] = y]
        /\ alone' = [alone EXCEPT ![h] = [alone[h] EXCEPT ![d] = a]]
        /\ \A c \in Channels \ {d} : (c \in z <=> c \in synced[h]) /\ (c \in y <=> c \in young[h])
        /\ a <= local[h][d] /\ (a > 0 => d \notin z)
  <2>1. /\ AloneOK(h, d) /\ synced[h] \in SUBSET Channels /\ young[h] \in SUBSET Channels
        /\ alone[h][d] \in Left /\ local[h][d] \in Left
        /\ alone \in [Replicas -> [Channels -> Left]]
        /\ synced \in [Replicas -> SUBSET Channels] /\ young \in [Replicas -> SUBSET Channels]
    BY <1>2, Fields DEF Facts
  <2>2. CASE MarkDone(p)
    <3> DEFINE sync == MarkSynced(h, d, l)
               z == IF sync THEN synced[h] \cup {d} ELSE synced[h]
               y == IF sync /\ mark[p].young THEN young[h] \cup {d}
                    ELSE IF sync THEN young[h] \ {d} ELSE young[h]
               a == IF sync THEN 0 ELSE alone[h][d]
    <3>1. /\ synced' = [synced EXCEPT ![h] = z] /\ young' = [young EXCEPT ![h] = y]
          /\ alone' = [alone EXCEPT ![h] = [alone[h] EXCEPT ![d] = a]]
      BY <2>2 DEF MarkDone
    <3>2. z \in SUBSET Channels /\ y \in SUBSET Channels /\ a \in Left
      BY <1>2, <2>1, LeftTyped
    <3>3. a <= local[h][d] /\ (a > 0 => d \notin z)
      BY <2>1, LeftTyped DEF AloneOK
    <3>4. \A c \in Channels \ {d} : (c \in z <=> c \in synced[h]) /\ (c \in y <=> c \in young[h])
      OBVIOUS
    <3> HIDE DEF z, y, a
    <3> QED
      BY <3>1, <3>2, <3>3, <3>4
  <2>3. CASE MarkFails(p)
    <3> DEFINE a == IF mark[p].at = "write" /\ local[h][d] = l /\ d \notin synced[h]
                    THEN l ELSE alone[h][d]
    <3>1. /\ UNCHANGED <<synced, young>>
          /\ alone' = [alone EXCEPT ![h] = [alone[h] EXCEPT ![d] = a]]
      BY <2>3 DEF MarkFails, views
    <3>2. a \in Left /\ a <= local[h][d] /\ (a > 0 => d \notin synced[h])
      BY <1>2, <2>1, LeftTyped DEF AloneOK
    <3>3. synced' = [synced EXCEPT ![h] = synced[h]] /\ young' = [young EXCEPT ![h] = young[h]]
      BY <2>1, <3>1
    <3> HIDE DEF a
    <3> QED
      BY <2>1, <3>1, <3>2, <3>3
  <2> QED
    BY <2>2, <2>3
<1>4. spent' \in [marks : 0..MaxMarks, clears : 0..MaxClears, faults : 0..MaxFaults]
  <2>1. CASE MarkDone(p)
    BY <1>2, <2>1 DEF MarkDone, TypeOK
  <2>2. CASE MarkFails(p)
    <3>1. spent.faults < MaxFaults /\ spent' = [spent EXCEPT !.faults = spent.faults + 1]
      BY <2>2 DEF MarkFails, Fault
    <3> QED
      BY <1>2, <3>1, SpentTyped DEF TypeOK
  <2> QED
    BY <2>1, <2>2
<1>5. PICK y \in SUBSET Channels, z \in SUBSET Channels, a \in Left :
        /\ synced' = [synced EXCEPT ![h] = z] /\ young' = [young EXCEPT ![h] = y]
        /\ alone' = [alone EXCEPT ![h] = [alone[h] EXCEPT ![d] = a]]
        /\ \A c \in Channels \ {d} : (c \in z <=> c \in synced[h]) /\ (c \in y <=> c \in young[h])
        /\ a <= local[h][d] /\ (a > 0 => d \notin z)
  BY <1>3
<1>6. /\ ~Still(d)
      /\ \A x \in Clearers : clear[x].at # "idle" /\ clear[x].pure => clear[x].chan # d
  BY <1>1, Busy
<1> HIDE DEF d, h, l
<1>7. \A r \in Replicas, c \in Channels :
        /\ c # d \/ r # h => /\ c \in synced'[r] <=> c \in synced[r]
                             /\ c \in young'[r] <=> c \in young[r]
                             /\ alone'[r][c] = alone[r][c]
        /\ c = d /\ r = h => alone'[r][c] = a /\ synced'[r] = z
  BY <1>2, <1>5 DEF TypeOK
<1>8. TypeOK'
  <2>1. /\ synced' \in [Replicas -> SUBSET Channels] /\ young' \in [Replicas -> SUBSET Channels]
        /\ alone' \in [Replicas -> [Channels -> Left]]
    BY <1>2, <1>5 DEF TypeOK
  <2>2. mark' \in [Markers -> Marks]
    BY <1>1, <1>2, IdleTyped DEF TypeOK
  <2> QED
    BY <1>1, <1>2, <1>4, <2>1, <2>2 DEF TypeOK
<1>9. /\ \A c \in Channels : Still(c) => Still(c)'
      /\ \A x \in Clearers : clear'[x].at # "idle" /\ Sole(x) => Sole(x)'
  <2>1. \A m \in Markers : mark'[m].at # "idle" =>
           mark[m].at # "idle" /\ mark'[m].chan = mark[m].chan
    BY <1>1, <1>2, IdleTyped DEF TypeOK
  <2> QED
    BY <1>1, <2>1, StillKept
<1>10. ASSUME NEW r \in Replicas, NEW c \in Channels
       PROVE  AloneOK(r, c)' /\ QuietOK(r, c)' /\ CaughtUpOK(r, c)' /\ LiftedOK(r, c)'
  <2>1. AloneOK(r, c) /\ QuietOK(r, c) /\ CaughtUpOK(r, c) /\ LiftedOK(r, c)
    BY <1>2 DEF Facts
  <2>2. Still(c) => c # d
    BY <1>6
  <2>3. AloneOK(r, c)'
    <3>1. CASE c = d /\ r = h
      BY <1>1, <1>5, <1>7, <3>1 DEF AloneOK
    <3>2. CASE c # d \/ r # h
      BY <1>1, <1>7, <2>1, <3>2 DEF AloneOK
    <3> QED
      BY <3>1, <3>2
  <2>4. QuietOK(r, c)'
    BY <1>1, <1>7, <1>9, <2>1, <2>2 DEF QuietOK
  <2>5. CaughtUpOK(r, c)'
    BY <1>1, <1>7, <1>9, <2>1, <2>2 DEF CaughtUpOK
  <2>6. LiftedOK(r, c)'
    BY <1>1, <1>9, <2>1 DEF LiftedOK
  <2> QED
    BY <2>3, <2>4, <2>5, <2>6
<1>11. ASSUME NEW x \in Clearers
       PROVE  ClearOK(x)'
  BY <1>1, <1>2, <1>9 DEF Facts, ClearOK
<1> QED
  BY <1>8, <1>10, <1>11 DEF Inv, Facts

-----------------------------------------------------------------------------
\* Snapshots

\* Forgetting which marks are young changes nothing else.
LEMMA AgedKept ==
  ASSUME TypeOK, NEW r \in Replicas, Aged(r)
  PROVE  /\ young' \in [Replicas -> SUBSET Channels] /\ young'[r] = {}
         /\ \A s \in Replicas : young'[s] \subseteq young[s]
         /\ mark' \in [Markers -> Marks]
         /\ \A p \in Markers : mark'[p].at = mark[p].at /\ mark'[p].chan = mark[p].chan
<1>1. /\ young' = [young EXCEPT ![r] = {}]
      /\ mark' = [p \in Markers |-> IF Home[p] = r THEN [mark[p] EXCEPT !.young = FALSE]
                                                   ELSE mark[p]]
  BY DEF Aged
<1>2. young' \in [Replicas -> SUBSET Channels] /\ young'[r] = {}
      /\ \A s \in Replicas : young'[s] \subseteq young[s]
  BY <1>1 DEF TypeOK
<1>3. ASSUME NEW p \in Markers
      PROVE  mark'[p] \in Marks /\ mark'[p].at = mark[p].at /\ mark'[p].chan = mark[p].chan
  <2>1. mark[p] \in Marks
    BY DEF TypeOK
  <2>2. [mark[p] EXCEPT !.young = FALSE] \in Marks
        /\ [mark[p] EXCEPT !.young = FALSE].at = mark[p].at
        /\ [mark[p] EXCEPT !.young = FALSE].chan = mark[p].chan
    BY <2>1 DEF Marks
  <2> QED
    BY <1>1, <2>1, <2>2
<1> QED
  BY <1>1, <1>2, <1>3

LEMMA SnapBeginInv ==
  ASSUME Inv, NEW h \in Replicas, SnapBegin(h)
  PROVE  Inv'
<1> DEFINE n == [NoSnap EXCEPT !.at = "read", !.quiet = {c \in Channels : Still(c)}]
<1>1. /\ due' = [due EXCEPT ![h] = FALSE] /\ snap' = [snap EXCEPT ![h] = n] /\ Aged(h)
      /\ UNCHANGED <<index, local, remote, synced, clear, lifted, slipped, caughtUp, alone,
                     spent>>
  BY DEF SnapBegin, ghosts
<1>2. TypeOK /\ Facts
  BY DEF Inv
<1>3. n \in Snaps /\ n.at = "read" /\ n.cleared = {} /\ n.quiet = {c \in Channels : Still(c)}
  BY LeftTyped DEF Snaps, NoSnap
<1> HIDE DEF n
<1>4. snap'[h] = n /\ \A r \in Replicas \ {h} : snap'[r] = snap[r]
  BY <1>1, <1>2 DEF TypeOK
<1>5. /\ young' \in [Replicas -> SUBSET Channels] /\ young'[h] = {}
      /\ \A s \in Replicas : young'[s] \subseteq young[s]
      /\ mark' \in [Markers -> Marks]
      /\ \A p \in Markers : mark'[p].at = mark[p].at /\ mark'[p].chan = mark[p].chan
  BY <1>1, <1>2, AgedKept
<1>6. TypeOK'
  BY <1>1, <1>2, <1>3, <1>5 DEF TypeOK
<1>7. /\ \A c \in Channels : Still(c) => Still(c)'
      /\ \A x \in Clearers : clear'[x].at # "idle" /\ Sole(x) => Sole(x)'
  BY <1>1, <1>5, StillKept
<1>8. ASSUME NEW r \in Replicas, NEW c \in Channels
      PROVE  AloneOK(r, c)' /\ QuietOK(r, c)' /\ CaughtUpOK(r, c)' /\ LiftedOK(r, c)'
  <2>1. AloneOK(r, c) /\ QuietOK(r, c) /\ CaughtUpOK(r, c) /\ LiftedOK(r, c)
    BY <1>2 DEF Facts
  <2>2. AloneOK(r, c)'
    BY <1>1, <2>1 DEF AloneOK
  <2>3. CASE r = h
    <3>1. QuietOK(r, c)'
      BY <1>3, <1>4, <1>5, <1>7, <2>3 DEF QuietOK
    <3>2. CaughtUpOK(r, c)'
      BY <1>1, <1>3, <1>4, <1>7, <2>1, <2>3 DEF CaughtUpOK
    <3>3. LiftedOK(r, c)'
      BY <1>1, <1>3, <1>4, <1>7, <2>1, <2>3 DEF LiftedOK
    <3> QED
      BY <2>2, <3>1, <3>2, <3>3
  <2>4. CASE r # h
    <3>1. snap'[r] = snap[r] /\ (c \in young'[r] => c \in young[r])
      BY <1>4, <1>5, <2>4
    <3>2. QuietOK(r, c)'
      BY <1>1, <1>7, <2>1, <3>1 DEF QuietOK
    <3>3. CaughtUpOK(r, c)'
      BY <1>1, <1>7, <2>1, <3>1 DEF CaughtUpOK
    <3>4. LiftedOK(r, c)'
      BY <1>1, <1>7, <2>1, <3>1 DEF LiftedOK
    <3> QED
      BY <2>2, <3>2, <3>3, <3>4
  <2> QED
    BY <2>3, <2>4
<1>9. ASSUME NEW x \in Clearers
      PROVE  ClearOK(x)'
  BY <1>1, <1>2, <1>7 DEF Facts, ClearOK
<1> QED
  BY <1>6, <1>8, <1>9 DEF Inv, Facts

LEMMA SnapReadInv ==
  ASSUME Inv, NEW h \in Replicas, SnapRead(h)
  PROVE  Inv'
<1> DEFINE n == [snap[h] EXCEPT !.at = "merge", !.seen = index]
<1>1. /\ snap[h].at = "read" /\ snap' = [snap EXCEPT ![h] = n]
      /\ UNCHANGED <<index, local, remote, synced, young, due, mark, clear, lifted, slipped,
                     caughtUp, alone, spent>>
  BY DEF SnapRead, views, ghosts, Inv, TypeOK
<1>2. TypeOK /\ Facts
  BY DEF Inv
<1>3. /\ n \in Snaps /\ n.at = "merge" /\ n.seen = index
      /\ n.cleared = snap[h].cleared /\ n.quiet = snap[h].quiet
  <2>1. snap[h] \in Snaps /\ index \in [Channels -> Left]
    BY <1>2, Fields
  <2> QED
    BY <2>1 DEF Snaps
<1> HIDE DEF n
<1>4. snap'[h] = n /\ \A r \in Replicas \ {h} : snap'[r] = snap[r]
  BY <1>1, <1>2 DEF TypeOK
<1>5. TypeOK'
  BY <1>1, <1>2, <1>3 DEF TypeOK
<1>6. /\ \A c \in Channels : Still(c) => Still(c)'
      /\ \A x \in Clearers : clear'[x].at # "idle" /\ Sole(x) => Sole(x)'
  BY <1>1, StillKept
<1>7. ASSUME NEW r \in Replicas, NEW c \in Channels
      PROVE  AloneOK(r, c)' /\ QuietOK(r, c)' /\ CaughtUpOK(r, c)' /\ LiftedOK(r, c)'
  <2>1. AloneOK(r, c) /\ QuietOK(r, c) /\ CaughtUpOK(r, c) /\ LiftedOK(r, c)
    BY <1>2 DEF Facts
  <2>2. \/ r # h /\ snap'[r] = snap[r]
        \/ r = h /\ snap[r].at = "read" /\ snap'[r] = n
    BY <1>1, <1>4
  <2>3. AloneOK(r, c)'
    BY <1>1, <2>1 DEF AloneOK
  <2>4. QuietOK(r, c)'
    BY <1>1, <1>3, <1>6, <2>1, <2>2 DEF QuietOK
  <2>5. CaughtUpOK(r, c)'
    BY <1>1, <1>3, <1>6, <2>1, <2>2 DEF CaughtUpOK
  <2>6. LiftedOK(r, c)'
    BY <1>1, <1>3, <1>6, <2>1, <2>2 DEF LiftedOK
  <2> QED
    BY <2>3, <2>4, <2>5, <2>6
<1>8. ASSUME NEW x \in Clearers
      PROVE  ClearOK(x)'
  BY <1>1, <1>2, <1>6 DEF Facts, ClearOK
<1> QED
  BY <1>5, <1>7, <1>8 DEF Inv, Facts

LEMMA SnapFailsInv ==
  ASSUME Inv, NEW h \in Replicas, SnapFails(h)
  PROVE  Inv'
<1>1. /\ snap' = [snap EXCEPT ![h] = NoSnap] /\ Aged(h)
      /\ spent.faults < MaxFaults /\ spent' = [spent EXCEPT !.faults = spent.faults + 1]
      /\ UNCHANGED <<index, local, remote, synced, due, clear, lifted, slipped, caughtUp,
                     alone>>
  BY DEF SnapFails, Fault, ghosts
<1>2. TypeOK /\ Facts
  BY DEF Inv
<1>3. snap'[h] = NoSnap /\ \A r \in Replicas \ {h} : snap'[r] = snap[r]
  BY <1>1, <1>2 DEF TypeOK
<1>4. /\ young' \in [Replicas -> SUBSET Channels]
      /\ \A s \in Replicas : young'[s] \subseteq young[s]
      /\ mark' \in [Markers -> Marks]
      /\ \A p \in Markers : mark'[p].at = mark[p].at /\ mark'[p].chan = mark[p].chan
  BY <1>1, <1>2, AgedKept
<1>5. TypeOK'
  <2>1. spent' \in [marks : 0..MaxMarks, clears : 0..MaxClears, faults : 0..MaxFaults]
    BY <1>1, <1>2, SpentTyped DEF TypeOK
  <2> QED
    BY <1>1, <1>2, <1>4, <2>1, IdleTyped DEF TypeOK
<1>6. /\ \A c \in Channels : Still(c) => Still(c)'
      /\ \A x \in Clearers : clear'[x].at # "idle" /\ Sole(x) => Sole(x)'
  BY <1>1, <1>4, StillKept
<1>7. ASSUME NEW r \in Replicas, NEW c \in Channels
      PROVE  AloneOK(r, c)' /\ QuietOK(r, c)' /\ CaughtUpOK(r, c)' /\ LiftedOK(r, c)'
  <2>1. AloneOK(r, c) /\ QuietOK(r, c) /\ CaughtUpOK(r, c) /\ LiftedOK(r, c)
    BY <1>2 DEF Facts
  <2>2. /\ snap'[r].at = "idle" \/ snap'[r] = snap[r]
        /\ c \in young'[r] => c \in young[r]
    BY <1>3, <1>4, IdleTyped
  <2>3. AloneOK(r, c)'
    BY <1>1, <2>1 DEF AloneOK
  <2>4. QuietOK(r, c)'
    BY <1>1, <1>6, <2>1, <2>2 DEF QuietOK
  <2>5. CaughtUpOK(r, c)'
    BY <1>1, <1>6, <2>1, <2>2 DEF CaughtUpOK
  <2>6. LiftedOK(r, c)'
    BY <1>1, <1>6, <2>1, <2>2 DEF LiftedOK
  <2> QED
    BY <2>3, <2>4, <2>5, <2>6
<1>8. ASSUME NEW x \in Clearers
      PROVE  ClearOK(x)'
  BY <1>1, <1>2, <1>6 DEF Facts, ClearOK
<1> QED
  BY <1>5, <1>7, <1>8 DEF Inv, Facts

\* The merge: what it leaves is what Redis says, unless the channel was lifted meanwhile.
LEMMA SnapMergeInv ==
  ASSUME Inv, NEW h \in Replicas, SnapMerge(h)
  PROVE  Inv'
<1> DEFINE seen == Merged(snap[h])
           drop == Dropped(h, seen)
           at == {clear[p].chan : p \in {x \in Clearers : clear[x].at # "idle" /\ Home[x] = h}}
<1>1. /\ snap[h].at = "merge"
      /\ remote' = [remote EXCEPT ![h] = seen]
      /\ local' = [local EXCEPT ![h] = [c \in Channels |-> IF c \in drop THEN 0
                                                           ELSE local[h][c]]]
      /\ synced' = [synced EXCEPT ![h] = synced[h] \ drop]
      /\ snap' = [snap EXCEPT ![h] = NoSnap]
      /\ caughtUp' = [caughtUp EXCEPT ![h] = caughtUp[h] \cup snap[h].quiet]
      /\ slipped' = [slipped EXCEPT ![h] = slipped[h] \cup at]
      /\ Aged(h)
      /\ UNCHANGED <<index, due, clear, lifted, alone, spent>>
  BY DEF SnapMerge, Inv, TypeOK
<1>2. TypeOK /\ Facts
  BY DEF Inv
<1>3. /\ snap[h].seen \in [Channels -> Left] /\ snap[h].cleared \subseteq Channels
      /\ snap[h].quiet \subseteq Channels
      /\ local[h] \in [Channels -> Left] /\ synced[h] \subseteq Channels
  BY <1>2, Fields
<1>4. /\ seen \in [Channels -> Left]
      /\ \A c \in Channels : seen[c] = IF c \in snap[h].cleared THEN 0 ELSE snap[h].seen[c]
  BY <1>3, LeftTyped DEF Merged
<1>5. \A c \in Channels : c \in drop <=>
        c \in synced[h] /\ c \notin young[h] /\ seen[c] < local[h][c]
  BY <1>3 DEF Dropped
<1>6. at \subseteq Channels
      /\ \A x \in Clearers : clear[x].at # "idle" /\ Home[x] = h => clear[x].chan \in at
  BY <1>2, Fields
<1> HIDE DEF seen, drop, at
<1>7. /\ remote'[h] = seen /\ snap'[h] = NoSnap
      /\ \A c \in Channels : local'[h][c] = IF c \in drop THEN 0 ELSE local[h][c]
      /\ \A c \in Channels : c \in synced'[h] <=> c \in synced[h] /\ c \notin drop
      /\ caughtUp'[h] = caughtUp[h] \cup snap[h].quiet
      /\ slipped'[h] = slipped[h] \cup at
      /\ \A r \in Replicas \ {h} :
           /\ remote'[r] = remote[r] /\ snap'[r] = snap[r] /\ local'[r] = local[r]
           /\ synced'[r] = synced[r] /\ caughtUp'[r] = caughtUp[r] /\ slipped'[r] = slipped[r]
  BY <1>1, <1>2 DEF TypeOK
<1>8. /\ young' \in [Replicas -> SUBSET Channels]
      /\ \A s \in Replicas : young'[s] \subseteq young[s]
      /\ mark' \in [Markers -> Marks]
      /\ \A p \in Markers : mark'[p].at = mark[p].at /\ mark'[p].chan = mark[p].chan
  BY <1>1, <1>2, AgedKept
<1>9. TypeOK'
  <2>1. /\ remote' \in [Replicas -> [Channels -> Left]]
        /\ local' \in [Replicas -> [Channels -> Left]]
    BY <1>1, <1>2, <1>3, <1>4, LeftTyped DEF TypeOK
  <2>2. /\ synced' \in [Replicas -> SUBSET Channels]
        /\ caughtUp' \in [Replicas -> SUBSET Channels]
        /\ slipped' \in [Replicas -> SUBSET Channels]
        /\ snap' \in [Replicas -> Snaps]
    BY <1>1, <1>2, <1>3, <1>6, IdleTyped DEF TypeOK
  <2> QED
    BY <1>1, <1>2, <1>8, <2>1, <2>2 DEF TypeOK
<1>10. /\ \A c \in Channels : Still(c) => Still(c)'
       /\ \A x \in Clearers : clear'[x].at # "idle" /\ Sole(x) => Sole(x)'
  BY <1>1, <1>8, StillKept
<1>11. ASSUME NEW r \in Replicas, NEW c \in Channels
       PROVE  AloneOK(r, c)' /\ QuietOK(r, c)' /\ CaughtUpOK(r, c)' /\ LiftedOK(r, c)'
  <2>1. AloneOK(r, c) /\ QuietOK(r, c) /\ CaughtUpOK(r, c) /\ LiftedOK(r, c)
    BY <1>2 DEF Facts
  <2>2. CASE r = h
    <3>1. AloneOK(r, c)'
      <4>1. alone[r][c] \in Left /\ local[r][c] \in Left /\ alone'[r][c] = alone[r][c]
        BY <1>1, <1>2, Fields
      <4> QED
        BY <1>5, <1>7, <2>1, <2>2, <4>1, LeftTyped DEF AloneOK
    <3>2. QuietOK(r, c)'
      BY <1>7, <2>2, IdleTyped DEF QuietOK
    <3>3. CaughtUpOK(r, c)'
      <4>1. SUFFICES ASSUME c \in caughtUp'[r]
                     PROVE  CaughtUpOK(r, c)'
        BY DEF CaughtUpOK
      <4>2. c \in snap[r].quiet
        BY <1>1, <1>7, <2>1, <2>2, <4>1 DEF CaughtUpOK
      <4>3. Still(c) /\ c \notin snap[r].cleared /\ c \notin young[r]
            /\ snap[r].seen[c] = index[c]
        BY <1>1, <2>1, <2>2, <4>2 DEF QuietOK
      <4>4. seen[c] = index[c]
        BY <1>4, <2>2, <4>3
      <4>5. c \in synced'[r] => local'[r][c] <= index[c]
        <5>1. seen[c] \in Nat /\ local[r][c] \in Nat
          BY <1>3, <1>4, <2>2, LeftTyped
        <5> QED
          BY <1>5, <1>7, <2>2, <4>3, <4>4, <5>1
      <4> QED
        BY <1>1, <1>7, <1>10, <2>2, <4>3, <4>4, <4>5, IdleTyped DEF CaughtUpOK
    <3>4. LiftedOK(r, c)'
      <4>1. SUFFICES ASSUME <<r, c>> \in lifted'
                     PROVE  LiftedOK(r, c)'
        BY DEF LiftedOK
      <4>2. Still(c) /\ index[c] = 0 /\ local[r][c] = 0
            /\ (c \in snap[r].cleared \/ snap[r].seen[c] = 0)
        BY <1>1, <2>1, <2>2, <4>1 DEF LiftedOK
      <4>3. seen[c] = 0
        BY <1>4, <2>2, <4>2
      <4> QED
        BY <1>1, <1>7, <1>10, <2>2, <4>2, <4>3, IdleTyped DEF LiftedOK
    <3> QED
      BY <3>1, <3>2, <3>3, <3>4
  <2>3. CASE r # h
    <3>1. /\ remote'[r] = remote[r] /\ snap'[r] = snap[r] /\ local'[r] = local[r]
          /\ synced'[r] = synced[r] /\ caughtUp'[r] = caughtUp[r] /\ slipped'[r] = slipped[r]
          /\ c \in young'[r] => c \in young[r]
      BY <1>7, <1>8, <2>3
    <3>2. AloneOK(r, c)'
      BY <1>1, <2>1, <3>1 DEF AloneOK
    <3>3. QuietOK(r, c)'
      BY <1>1, <1>10, <2>1, <3>1 DEF QuietOK
    <3>4. CaughtUpOK(r, c)'
      BY <1>1, <1>10, <2>1, <3>1 DEF CaughtUpOK
    <3>5. LiftedOK(r, c)'
      BY <1>1, <1>10, <2>1, <3>1 DEF LiftedOK
    <3> QED
      BY <3>2, <3>3, <3>4, <3>5
  <2> QED
    BY <2>2, <2>3
<1>12. ASSUME NEW x \in Clearers
       PROVE  ClearOK(x)'
  <2> DEFINE e == clear[x].chan
             r == Home[x]
  <2>1. ClearOK(x) /\ e \in Channels /\ r \in Replicas
    BY <1>2, Fields, HomeTyped DEF Facts
  <2>2. CASE r = h
    <3>1. clear[x].at # "idle" => e \in slipped'[r]
      BY <1>6, <1>7, <2>2
    <3>2. local[r][e] = 0 => local'[r][e] = 0
      BY <1>7, <2>1, <2>2
    <3> QED
      BY <1>1, <1>10, <2>1, <3>1, <3>2 DEF ClearOK
  <2>3. CASE r # h
    <3>1. remote'[r] = remote[r] /\ local'[r] = local[r] /\ slipped'[r] = slipped[r]
      BY <1>7, <2>1, <2>3
    <3> QED
      BY <1>1, <1>10, <2>1, <3>1 DEF ClearOK
  <2> QED
    BY <2>2, <2>3
<1> QED
  BY <1>9, <1>11, <1>12 DEF Inv, Facts

\* Stamping a lift only adds the channel to what the snapshot in flight must skip.
LEMMA StampKept ==
  ASSUME NEW h \in Replicas, NEW d \in Channels, NEW r \in Replicas,
         snap \in [Replicas -> Snaps]
  PROVE  LET s == Stamp(h, d)
         IN  /\ s \in [Replicas -> Snaps] /\ s[r] \in Snaps
             /\ s[r].at = snap[r].at /\ s[r].seen = snap[r].seen /\ s[r].quiet = snap[r].quiet
             /\ snap[r].cleared \subseteq s[r].cleared
             /\ r = h /\ snap[r].at # "idle" => d \in s[r].cleared
             /\ \A c \in Channels \ {d} : c \in s[r].cleared <=> c \in snap[r].cleared
<1> DEFINE k == IF snap[h].at = "idle" THEN snap[h].cleared ELSE snap[h].cleared \cup {d}
           n == [snap[h] EXCEPT !.cleared = k]
           s == Stamp(h, d)
<1>1. s = [snap EXCEPT ![h] = n]
  BY DEF Stamp
<1>2. snap[h] \in Snaps /\ k \subseteq Channels /\ snap[h].cleared \subseteq k
  BY DEF Snaps
<1>3. /\ snap[h].at # "idle" => d \in k
      /\ \A c \in Channels \ {d} : c \in k <=> c \in snap[h].cleared
  OBVIOUS
<1> HIDE DEF k
<1>4. /\ n \in Snaps /\ n.at = snap[h].at /\ n.seen = snap[h].seen /\ n.quiet = snap[h].quiet
      /\ n.cleared = k
  BY <1>2 DEF Snaps
<1> HIDE DEF n
<1>5. s \in [Replicas -> Snaps] /\ s[h] = n /\ (r # h => s[r] = snap[r])
  BY <1>1, <1>4
<1> HIDE DEF s
<1>6. CASE r = h
  <2>1. /\ s[r] \in Snaps /\ s[r].at = snap[r].at /\ s[r].seen = snap[r].seen
        /\ s[r].quiet = snap[r].quiet /\ s[r].cleared = k
    BY <1>4, <1>5, <1>6
  <2> QED
    BY <1>2, <1>3, <1>5, <1>6, <2>1 DEF s
<1>7. CASE r # h
  <2>1. s[r] = snap[r] /\ snap[r] \in Snaps
    BY <1>5, <1>7
  <2> QED
    BY <1>5, <1>7, <2>1 DEF s
<1> QED
  BY <1>6, <1>7

-----------------------------------------------------------------------------
\* Lifts

LEMMA ClearBeginInv ==
  ASSUME Inv, NEW p \in Clearers, NEW d \in Channels, ClearBegin(p, d)
  PROVE  Inv'
<1> DEFINE h == Home[p]
           n == [at |-> "drop", chan |-> d, members |-> {}, pure |-> Still(d)]
<1>1. /\ clear[p].at = "idle" /\ spent.clears < MaxClears
      /\ spent' = [spent EXCEPT !.clears = spent.clears + 1]
      /\ clear' = [Impure(d) EXCEPT ![p] = n]
      /\ snap' = Unquiet(Stamp(h, d), d)
      /\ caughtUp' = [r \in Replicas |-> caughtUp[r] \ {d}]
      /\ lifted' = {x \in lifted : x[2] # d}
      /\ slipped' = [r \in Replicas |-> slipped[r] \ {d}]
      /\ UNCHANGED <<index, local, remote, synced, young, due, mark, alone>>
  BY DEF ClearBegin, Disturb, views
<1>2. TypeOK /\ Facts /\ h \in Replicas
  BY HomeTyped DEF Inv
<1>3. n \in Clears /\ n.at = "drop" /\ n.chan = d /\ n.members = {} /\ n.pure = Still(d)
  <2>1. Still(d) \in BOOLEAN
    BY DEF Still
  <2> QED
    BY <2>1 DEF Clears
<1> HIDE DEF n, h
<1>4. \A r \in Replicas : /\ snap'[r] \in Snaps /\ snap'[r].at = snap[r].at
                          /\ snap'[r].seen = snap[r].seen
                          /\ snap'[r].quiet = snap[r].quiet \ {d}
                          /\ \A c \in Channels \ {d} :
                               c \in snap'[r].cleared <=> c \in snap[r].cleared
  <2> SUFFICES ASSUME NEW r \in Replicas
               PROVE  /\ snap'[r] \in Snaps /\ snap'[r].at = snap[r].at
                      /\ snap'[r].seen = snap[r].seen
                      /\ snap'[r].quiet = snap[r].quiet \ {d}
                      /\ \A c \in Channels \ {d} :
                           c \in snap'[r].cleared <=> c \in snap[r].cleared
    OBVIOUS
  <2> DEFINE s == Stamp(h, d)
  <2>1. snap'[r] = [s[r] EXCEPT !.quiet = s[r].quiet \ {d}]
    BY <1>1 DEF Unquiet
  <2>2. snap[r] \in Snaps /\ snap[h] \in Snaps /\ snap \in [Replicas -> Snaps]
    BY <1>2 DEF TypeOK
  <2>3. /\ s[r] \in Snaps /\ s[r].at = snap[r].at /\ s[r].seen = snap[r].seen
        /\ s[r].quiet = snap[r].quiet
        /\ \A c \in Channels \ {d} : c \in s[r].cleared <=> c \in snap[r].cleared
    BY <1>2, <2>2, StampKept
  <2> HIDE DEF s
  <2> QED
    BY <2>1, <2>3 DEF Snaps
<1>5. \A x \in Clearers \ {p} : /\ clear'[x] \in Clears /\ clear'[x].at = clear[x].at
                                /\ clear'[x].chan = clear[x].chan
                                /\ clear'[x].members = clear[x].members
                                /\ clear'[x].pure = (clear[x].pure /\ clear[x].chan # d)
  <2> SUFFICES ASSUME NEW x \in Clearers \ {p}
               PROVE  /\ clear'[x] \in Clears /\ clear'[x].at = clear[x].at
                      /\ clear'[x].chan = clear[x].chan
                      /\ clear'[x].members = clear[x].members
                      /\ clear'[x].pure = (clear[x].pure /\ clear[x].chan # d)
    OBVIOUS
  <2>1. clear[x] \in Clears /\ clear[x].pure \in BOOLEAN
    BY <1>2, Fields
  <2>2. CASE clear[x].chan = d
    <3>1. clear'[x] = [clear[x] EXCEPT !.pure = FALSE]
      BY <1>1, <2>2 DEF Impure
    <3> QED
      BY <2>1, <2>2, <3>1 DEF Clears
  <2>3. CASE clear[x].chan # d
    <3>1. clear'[x] = clear[x]
      BY <1>1, <2>3 DEF Impure
    <3> QED
      BY <2>1, <2>3, <3>1
  <2> QED
    BY <2>2, <2>3
<1>6. clear'[p] = n /\ clear' = [x \in Clearers |-> clear'[x]]
  BY <1>1 DEF Impure
<1>7. snap' = [r \in Replicas |-> snap'[r]]
  BY <1>1 DEF Unquiet
<1>8. TypeOK'
  <2>1. /\ slipped' \in [Replicas -> SUBSET Channels]
        /\ caughtUp' \in [Replicas -> SUBSET Channels]
        /\ lifted' \subseteq Replicas \X Channels
    BY <1>1, <1>2 DEF TypeOK
  <2>2. \A x \in Clearers : clear'[x] \in Clears
    BY <1>3, <1>5, <1>6
  <2>3. snap' \in [Replicas -> Snaps] /\ clear' \in [Clearers -> Clears]
    BY <1>4, <1>6, <1>7, <2>2
  <2>4. spent' \in [marks : 0..MaxMarks, clears : 0..MaxClears, faults : 0..MaxFaults]
    BY <1>1, <1>2, SpentTyped DEF TypeOK
  <2> QED
    BY <1>1, <1>2, <2>1, <2>3, <2>4 DEF TypeOK
<1>9. \A c \in Channels \ {d} : Still(c) => Still(c)'
  BY <1>1, <1>3, <1>5, <1>6 DEF Still
<1>10. ASSUME NEW r \in Replicas, NEW c \in Channels
       PROVE  AloneOK(r, c)' /\ QuietOK(r, c)' /\ CaughtUpOK(r, c)' /\ LiftedOK(r, c)'
  <2>1. AloneOK(r, c) /\ QuietOK(r, c) /\ CaughtUpOK(r, c) /\ LiftedOK(r, c)
    BY <1>2 DEF Facts
  <2>2. AloneOK(r, c)'
    BY <1>1, <2>1 DEF AloneOK
  <2>3. CASE c # d
    <3>1. /\ c \in caughtUp'[r] <=> c \in caughtUp[r]
          /\ c \in slipped'[r] <=> c \in slipped[r]
          /\ <<r, c>> \in lifted' <=> <<r, c>> \in lifted
      BY <1>1, <2>3
    <3>2. QuietOK(r, c)'
      BY <1>1, <1>4, <1>9, <2>1, <2>3 DEF QuietOK
    <3>3. CaughtUpOK(r, c)'
      BY <1>1, <1>4, <1>9, <2>1, <2>3, <3>1 DEF CaughtUpOK
    <3>4. LiftedOK(r, c)'
      BY <1>1, <1>4, <1>9, <2>1, <2>3, <3>1 DEF LiftedOK
    <3> QED
      BY <2>2, <3>2, <3>3, <3>4
  <2>4. CASE c = d
    <3>1. d \notin snap'[r].quiet /\ d \notin caughtUp'[r] /\ <<r, d>> \notin lifted'
      BY <1>1, <1>4
    <3> QED
      BY <2>2, <2>4, <3>1 DEF QuietOK, CaughtUpOK, LiftedOK
  <2> QED
    BY <2>3, <2>4
<1>11. ASSUME NEW x \in Clearers
       PROVE  ClearOK(x)'
  <2>1. CASE x = p
    <3>1. Still(d) => Sole(p)'
      BY <1>1, <1>3, <1>5, <1>6 DEF Still, Sole
    <3> QED
      BY <1>3, <1>6, <2>1, <3>1 DEF ClearOK
  <2>2. CASE x # p
    <3> DEFINE e == clear[x].chan
               r == Home[x]
    <3>1. ClearOK(x) /\ e \in Channels /\ r \in Replicas
      BY <1>2, Fields, HomeTyped DEF Facts
    <3>2. ASSUME clear'[x].at # "idle", clear'[x].pure
          PROVE  /\ e # d /\ clear[x].pure
                 /\ Sole(x) => Sole(x)'
                 /\ e \in slipped'[r] <=> e \in slipped[r]
      <4>1. e # d /\ clear[x].pure
        BY <1>5, <2>2, <3>2
      <4>2. Sole(x) => Sole(x)'
        BY <1>1, <1>3, <1>5, <1>6, <2>2, <4>1 DEF Sole
      <4>3. e \in slipped'[r] <=> e \in slipped[r]
        BY <1>1, <3>1, <4>1
      <4> QED
        BY <4>1, <4>2, <4>3
    <3> QED
      BY <1>1, <1>5, <2>2, <3>1, <3>2 DEF ClearOK
  <2> QED
    BY <2>1, <2>2
<1> QED
  BY <1>8, <1>10, <1>11 DEF Inv, Facts

LEMMA ClearLocalInv ==
  ASSUME Inv, NEW p \in Clearers, ClearLocal(p)
  PROVE  Inv'
<1> DEFINE d == clear[p].chan
           h == Home[p]
           n == [clear[p] EXCEPT !.at = "list"]
<1>1. /\ clear[p].at = "drop"
      /\ local' = [local EXCEPT ![h] = [local[h] EXCEPT ![d] = 0]]
      /\ remote' = [remote EXCEPT ![h] = [remote[h] EXCEPT ![d] = 0]]
      /\ synced' = [synced EXCEPT ![h] = synced[h] \ {d}]
      /\ alone' = [alone EXCEPT ![h] = [alone[h] EXCEPT ![d] = 0]]
      /\ clear' = [clear EXCEPT ![p] = n]
      /\ UNCHANGED <<index, young, due, snap, mark, lifted, slipped, caughtUp, spent>>
  BY DEF ClearLocal, Inv, TypeOK
<1>2. TypeOK /\ Facts /\ h \in Replicas /\ d \in Channels
  BY HomeTyped, Fields DEF Inv
<1>3. /\ n \in Clears /\ n.at = "list" /\ n.chan = d /\ n.members = clear[p].members
      /\ n.pure = clear[p].pure
  BY <1>2, Fields DEF Clears
<1>4. /\ ~Still(d)
      /\ \A x \in Clearers \ {p} : clear[x].at # "idle" /\ clear[x].pure => clear[x].chan # d
  BY <1>1, Busy
<1> HIDE DEF n, h, d
<1>5. clear'[p] = n /\ \A x \in Clearers \ {p} : clear'[x] = clear[x]
  BY <1>1, <1>2 DEF TypeOK
<1>6. /\ local'[h][d] = 0 /\ remote'[h][d] = 0 /\ alone'[h][d] = 0 /\ d \notin synced'[h]
      /\ \A r \in Replicas, c \in Channels : c # d \/ r # h =>
           /\ local'[r][c] = local[r][c] /\ remote'[r][c] = remote[r][c]
           /\ alone'[r][c] = alone[r][c] /\ (c \in synced'[r] <=> c \in synced[r])
  BY <1>1, <1>2 DEF TypeOK
<1>7. TypeOK'
  <2>1. /\ local' \in [Replicas -> [Channels -> Left]]
        /\ remote' \in [Replicas -> [Channels -> Left]]
        /\ alone' \in [Replicas -> [Channels -> Left]]
        /\ synced' \in [Replicas -> SUBSET Channels]
        /\ clear' \in [Clearers -> Clears]
    BY <1>1, <1>2, <1>3, LeftTyped DEF TypeOK
  <2> QED
    BY <1>1, <1>2, <2>1 DEF TypeOK
<1>8. /\ \A c \in Channels : Still(c) => Still(c)'
      /\ \A x \in Clearers : clear'[x].at # "idle" /\ Sole(x) => Sole(x)'
  <2>1. \A x \in Clearers : clear'[x].at # "idle" =>
          clear[x].at # "idle" /\ clear'[x].chan = clear[x].chan
    BY <1>1, <1>3, <1>5 DEF d
  <2> QED
    BY <1>1, <2>1, StillKept
<1>9. ASSUME NEW r \in Replicas, NEW c \in Channels
      PROVE  AloneOK(r, c)' /\ QuietOK(r, c)' /\ CaughtUpOK(r, c)' /\ LiftedOK(r, c)'
  <2>1. AloneOK(r, c) /\ QuietOK(r, c) /\ CaughtUpOK(r, c) /\ LiftedOK(r, c)
    BY <1>2 DEF Facts
  <2>2. Still(c) => /\ Still(c)' /\ local'[r][c] = local[r][c] /\ remote'[r][c] = remote[r][c]
                    /\ c \in synced'[r] <=> c \in synced[r]
    BY <1>4, <1>6, <1>8
  <2>3. AloneOK(r, c)'
    BY <1>6, <2>1 DEF AloneOK
  <2>4. QuietOK(r, c)'
    BY <1>1, <2>1, <2>2 DEF QuietOK
  <2>5. CaughtUpOK(r, c)'
    BY <1>1, <2>1, <2>2 DEF CaughtUpOK
  <2>6. LiftedOK(r, c)'
    BY <1>1, <2>1, <2>2 DEF LiftedOK
  <2> QED
    BY <2>3, <2>4, <2>5, <2>6
<1>10. ASSUME NEW x \in Clearers
       PROVE  ClearOK(x)'
  <2>1. ClearOK(x) /\ clear[x].chan \in Channels /\ Home[x] \in Replicas
    BY <1>2, Fields, HomeTyped DEF Facts
  <2>2. CASE x = p
    BY <1>1, <1>3, <1>5, <1>6, <1>8, <2>1, <2>2 DEF ClearOK, d, h
  <2>3. CASE x # p
    <3>1. clear'[x] = clear[x]
      BY <1>5, <2>3
    <3>2. clear[x].at # "idle" /\ clear[x].pure =>
            /\ local'[Home[x]][clear[x].chan] = local[Home[x]][clear[x].chan]
            /\ remote'[Home[x]][clear[x].chan] = remote[Home[x]][clear[x].chan]
      BY <1>4, <1>6, <2>1, <2>3
    <3> QED
      BY <1>1, <1>8, <2>1, <3>1, <3>2 DEF ClearOK
  <2> QED
    BY <2>2, <2>3
<1> QED
  BY <1>7, <1>9, <1>10 DEF Inv, Facts

\* Listing the members, removing them, or failing to: the lift stays at its channel.
LEMMA ClearRedisInv ==
  ASSUME Inv, NEW p \in Clearers, ClearList(p) \/ ClearRem(p) \/ ClearFails(p)
  PROVE  Inv'
<1> DEFINE d == clear[p].chan
<1>1. /\ clear[p].at \in {"list", "rem"}
      /\ UNCHANGED <<local, remote, synced, young, due, snap, mark, lifted, slipped, caughtUp,
                     alone>>
  BY DEF ClearList, ClearRem, ClearFails, views, ghosts
<1>2. TypeOK /\ Facts /\ d \in Channels /\ ClearOK(p)
  BY Fields DEF Inv, Facts
<1>3. /\ ~Still(d)
      /\ \A x \in Clearers \ {p} : clear[x].at # "idle" /\ clear[x].pure => clear[x].chan # d
  BY <1>1, Busy
<1>4. \E n \in Clears :
        /\ clear' = [clear EXCEPT ![p] = n]
        /\ n.at \in {"rem", "stamp"} /\ n.chan = d /\ n.members \subseteq {d}
        /\ n.pure => /\ clear[p].pure
                     /\ n.at = "rem" /\ d \notin n.members => index'[d] = 0
                     /\ n.at = "stamp" => index'[d] = 0
  <2>1. clear[p] \in Clears /\ index \in [Channels -> Left] /\ clear[p].members \subseteq {d}
        /\ clear[p].pure \in BOOLEAN
    BY <1>2, Fields DEF ClearOK
  <2>2. CASE ClearList(p)
    <3> DEFINE m == {c \in {d} : index[c] > 0}
               n == [clear[p] EXCEPT !.at = "rem", !.members = m]
    <3>1. clear' = [clear EXCEPT ![p] = n] /\ index' = index
      BY <2>2 DEF ClearList, Inv, TypeOK
    <3>2. m \subseteq {d} /\ m \subseteq Channels /\ (d \notin m => index[d] = 0)
      <4>1. index[d] \in Nat
        BY <1>2, <2>1, LeftTyped
      <4> QED
        BY <1>2, <4>1
    <3> HIDE DEF m
    <3>3. n \in Clears /\ n.at = "rem" /\ n.chan = d /\ n.members = m /\ n.pure = clear[p].pure
      BY <2>1, <3>2 DEF Clears
    <3> HIDE DEF n
    <3> QED
      BY <3>1, <3>2, <3>3
  <2>3. CASE ClearRem(p)
    <3> DEFINE n == [clear[p] EXCEPT !.at = "stamp"]
    <3>1. /\ clear[p].at = "rem" /\ clear' = [clear EXCEPT ![p] = n]
          /\ index' = [c \in Channels |-> IF c \in clear[p].members THEN 0 ELSE index[c]]
      BY <2>3 DEF ClearRem, Inv, TypeOK
    <3>2. /\ n \in Clears /\ n.at = "stamp" /\ n.chan = d /\ n.members = clear[p].members
          /\ n.pure = clear[p].pure
      BY <2>1 DEF Clears
    <3> HIDE DEF n
    <3>3. clear[p].pure => index'[d] = 0
      <4>1. clear[p].pure /\ d \notin clear[p].members => index[d] = 0
        BY <1>2, <3>1 DEF ClearOK
      <4> QED
        BY <1>2, <3>1, <4>1
    <3> QED
      BY <2>1, <3>1, <3>2, <3>3
  <2>4. CASE ClearFails(p)
    <3> DEFINE n == [clear[p] EXCEPT !.at = "stamp", !.pure = FALSE]
    <3>1. clear' = [clear EXCEPT ![p] = n]
      BY <2>4 DEF ClearFails, Inv, TypeOK
    <3>2. /\ n \in Clears /\ n.at = "stamp" /\ n.chan = d /\ n.members = clear[p].members
          /\ n.pure = FALSE
      BY <2>1 DEF Clears
    <3> HIDE DEF n
    <3> QED
      BY <2>1, <3>1, <3>2
  <2> QED
    BY <2>2, <2>3, <2>4
<1>5. index' \in [Channels -> Left] /\ \A c \in Channels \ {d} : index'[c] = index[c]
  <2>1. index \in [Channels -> Left] /\ clear[p].members \subseteq {d}
    BY <1>2, Fields DEF ClearOK
  <2>2. CASE ClearList(p) \/ ClearFails(p)
    BY <2>1, <2>2 DEF ClearList, ClearFails
  <2>3. CASE ClearRem(p)
    <3>1. index' = [c \in Channels |-> IF c \in clear[p].members THEN 0 ELSE index[c]]
      BY <2>3 DEF ClearRem
    <3> QED
      BY <2>1, <3>1, LeftTyped
  <2> QED
    BY <2>2, <2>3
<1>6. spent' \in [marks : 0..MaxMarks, clears : 0..MaxClears, faults : 0..MaxFaults]
  <2>1. CASE ClearList(p) \/ ClearRem(p)
    BY <1>2, <2>1 DEF ClearList, ClearRem, TypeOK
  <2>2. CASE ClearFails(p)
    <3>1. spent.faults < MaxFaults /\ spent' = [spent EXCEPT !.faults = spent.faults + 1]
      BY <2>2 DEF ClearFails, Fault
    <3> QED
      BY <1>2, <3>1, SpentTyped DEF TypeOK
  <2> QED
    BY <2>1, <2>2
<1>7. PICK n \in Clears :
        /\ clear' = [clear EXCEPT ![p] = n]
        /\ n.at \in {"rem", "stamp"} /\ n.chan = d /\ n.members \subseteq {d}
        /\ n.pure => /\ clear[p].pure
                     /\ n.at = "rem" /\ d \notin n.members => index'[d] = 0
                     /\ n.at = "stamp" => index'[d] = 0
  BY <1>4
<1> HIDE DEF d
<1>8. clear'[p] = n /\ \A x \in Clearers \ {p} : clear'[x] = clear[x]
  BY <1>2, <1>7 DEF TypeOK
<1>9. TypeOK'
  BY <1>1, <1>2, <1>5, <1>6, <1>7 DEF TypeOK
<1>10. /\ \A c \in Channels : Still(c) => Still(c)'
       /\ \A x \in Clearers : clear'[x].at # "idle" /\ Sole(x) => Sole(x)'
  <2>1. \A x \in Clearers : clear'[x].at # "idle" =>
          clear[x].at # "idle" /\ clear'[x].chan = clear[x].chan
    BY <1>1, <1>7, <1>8 DEF d
  <2> QED
    BY <1>1, <2>1, StillKept
<1>11. ASSUME NEW r \in Replicas, NEW c \in Channels
       PROVE  AloneOK(r, c)' /\ QuietOK(r, c)' /\ CaughtUpOK(r, c)' /\ LiftedOK(r, c)'
  <2>1. AloneOK(r, c) /\ QuietOK(r, c) /\ CaughtUpOK(r, c) /\ LiftedOK(r, c)
    BY <1>2 DEF Facts
  <2>2. Still(c) => Still(c)' /\ index'[c] = index[c]
    BY <1>3, <1>5, <1>10
  <2>3. AloneOK(r, c)'
    BY <1>1, <2>1 DEF AloneOK
  <2>4. QuietOK(r, c)'
    BY <1>1, <2>1, <2>2 DEF QuietOK
  <2>5. CaughtUpOK(r, c)'
    BY <1>1, <2>1, <2>2 DEF CaughtUpOK
  <2>6. LiftedOK(r, c)'
    BY <1>1, <2>1, <2>2 DEF LiftedOK
  <2> QED
    BY <2>3, <2>4, <2>5, <2>6
<1>12. ASSUME NEW x \in Clearers
       PROVE  ClearOK(x)'
  <2>1. ClearOK(x) /\ clear[x].chan \in Channels
    BY <1>2, Fields DEF Facts
  <2>2. CASE x = p
    BY <1>1, <1>7, <1>8, <1>10, <2>1, <2>2 DEF ClearOK, d
  <2>3. CASE x # p
    <3>1. clear'[x] = clear[x]
      BY <1>8, <2>3
    <3>2. clear[x].at # "idle" /\ clear[x].pure => index'[clear[x].chan] = index[clear[x].chan]
      BY <1>3, <1>5, <2>1, <2>3
    <3> QED
      BY <1>1, <1>10, <2>1, <3>1, <3>2 DEF ClearOK
  <2> QED
    BY <2>2, <2>3
<1> QED
  BY <1>9, <1>11, <1>12 DEF Inv, Facts

\* The deferred stamp.
LEMMA ClearEndInv ==
  ASSUME Inv, NEW p \in Clearers, ClearEnd(p)
  PROVE  Inv'
<1> DEFINE h == Home[p]
<1>0. PICK d \in Channels : d = clear[p].chan
  BY Fields DEF Inv
<1>1. /\ clear[p].at = "stamp" /\ snap' = Stamp(h, d)
      /\ clear' = [clear EXCEPT ![p] = NoClear]
      /\ UNCHANGED <<index, local, remote, synced, young, due, mark, caughtUp, alone, spent>>
  BY <1>0 DEF ClearEnd, LastStamp, views
<1>2. TypeOK /\ Facts /\ h \in Replicas /\ ClearOK(p)
  BY HomeTyped DEF Inv, Facts
<1>3. /\ ~Still(d)
      /\ \A x \in Clearers \ {p} : clear[x].at # "idle" /\ clear[x].pure => clear[x].chan # d
  BY <1>0, <1>1, Busy
<1>4. \/ clear[p].pure /\ lifted' = lifted \cup {<<h, d>>} /\ slipped' = slipped
      \/ lifted' = lifted /\ slipped' = [slipped EXCEPT ![h] = slipped[h] \ {d}]
  BY <1>0 DEF ClearEnd
<1>5. clear[p].pure => /\ Sole(p) /\ index[d] = 0 /\ local[h][d] = 0
                       /\ d \notin slipped[h] => remote[h][d] = 0
  BY <1>0, <1>1, <1>2 DEF ClearOK
<1>6. clear'[p] = NoClear /\ \A x \in Clearers \ {p} : clear'[x] = clear[x]
  BY <1>1, <1>2 DEF TypeOK
<1>7. clear[p].pure => Still(d)'
  BY <1>0, <1>1, <1>5, <1>6, IdleTyped DEF Sole, Still
<1> HIDE DEF h
<1>8. /\ snap' \in [Replicas -> Snaps]
      /\ \A r \in Replicas :
           /\ snap'[r].at = snap[r].at /\ snap'[r].seen = snap[r].seen
           /\ snap'[r].quiet = snap[r].quiet
           /\ snap[r].cleared \subseteq snap'[r].cleared
           /\ r = h /\ snap[r].at # "idle" => d \in snap'[r].cleared
           /\ \A c \in Channels \ {d} : c \in snap'[r].cleared <=> c \in snap[r].cleared
  <2>1. snap \in [Replicas -> Snaps]
    BY <1>2 DEF TypeOK
  <2>2. Stamp(h, d) \in [Replicas -> Snaps]
    BY <1>2, <2>1, StampKept
  <2> QED
    BY <1>1, <1>2, <2>1, <2>2, StampKept
<1>9. \A r \in Replicas, c \in Channels :
        /\ <<r, c>> \in lifted' =>
             <<r, c>> \in lifted \/ (clear[p].pure /\ r = h /\ c = d /\ slipped' = slipped)
        /\ c # d => (c \in slipped'[r] <=> c \in slipped[r])
  <2>1. slipped \in [Replicas -> SUBSET Channels]
    BY <1>2, Fields
  <2> QED
    BY <1>2, <1>4, <2>1
<1>10. TypeOK'
  <2>1. clear' \in [Clearers -> Clears]
    BY <1>1, <1>2, IdleTyped DEF TypeOK
  <2>2. slipped' \in [Replicas -> SUBSET Channels] /\ lifted' \subseteq Replicas \X Channels
    <3>1. slipped \in [Replicas -> SUBSET Channels] /\ lifted \subseteq Replicas \X Channels
      BY <1>2 DEF TypeOK
    <3>2. slipped[h] \ {d} \subseteq Channels /\ lifted \cup {<<h, d>>} \subseteq Replicas \X Channels
      BY <1>2, <3>1
    <3>3. slipped' \in [Replicas -> SUBSET Channels]
      BY <1>2, <1>4, <3>1, <3>2
    <3>4. lifted' \subseteq Replicas \X Channels
      BY <1>4, <3>1, <3>2
    <3> QED
      BY <3>3, <3>4
  <2> QED
    BY <1>1, <1>2, <1>8, <2>1, <2>2 DEF TypeOK
<1>11. /\ \A c \in Channels : Still(c) => Still(c)'
       /\ \A x \in Clearers : clear'[x].at # "idle" /\ Sole(x) => Sole(x)'
  <2>1. \A x \in Clearers : clear'[x].at # "idle" =>
          clear[x].at # "idle" /\ clear'[x].chan = clear[x].chan
    BY <1>6, IdleTyped
  <2> QED
    BY <1>1, <2>1, StillKept
<1>12. ASSUME NEW r \in Replicas, NEW c \in Channels
       PROVE  AloneOK(r, c)' /\ QuietOK(r, c)' /\ CaughtUpOK(r, c)' /\ LiftedOK(r, c)'
  <2>1. AloneOK(r, c) /\ QuietOK(r, c) /\ CaughtUpOK(r, c) /\ LiftedOK(r, c)
    BY <1>2 DEF Facts
  <2>2. Still(c) => Still(c)' /\ c # d
    BY <1>3, <1>11
  <2>3. AloneOK(r, c)'
    BY <1>1, <2>1 DEF AloneOK
  <2>4. QuietOK(r, c)'
    BY <1>1, <1>8, <2>1, <2>2 DEF QuietOK
  <2>5. CaughtUpOK(r, c)'
    BY <1>1, <1>8, <2>1, <2>2 DEF CaughtUpOK
  <2>6. LiftedOK(r, c)'
    <3>1. CASE <<r, c>> \in lifted
      <4>1. Still(c) /\ c # d /\ index[c] = 0 /\ local[r][c] = 0
            /\ (c \notin slipped[r] => remote[r][c] = 0)
            /\ (snap[r].at = "merge" => c \in snap[r].cleared \/ snap[r].seen[c] = 0)
        BY <2>1, <2>2, <3>1 DEF LiftedOK
      <4>2. c \in slipped'[r] <=> c \in slipped[r]
        BY <1>9, <4>1
      <4>3. snap'[r].at = "merge" => c \in snap'[r].cleared \/ snap'[r].seen[c] = 0
        BY <1>8, <4>1
      <4> QED
        BY <1>1, <1>11, <4>1, <4>2, <4>3 DEF LiftedOK
    <3>2. CASE clear[p].pure /\ r = h /\ c = d /\ slipped' = slipped
      <4>1. snap'[r].at = "merge" => c \in snap'[r].cleared
        BY <1>8, <3>2
      <4> QED
        BY <1>1, <1>5, <1>7, <3>2, <4>1 DEF LiftedOK
    <3>3. CASE <<r, c>> \notin lifted'
      BY <3>3 DEF LiftedOK
    <3> QED
      BY <1>9, <3>1, <3>2, <3>3
  <2> QED
    BY <2>3, <2>4, <2>5, <2>6
<1>13. ASSUME NEW x \in Clearers
       PROVE  ClearOK(x)'
  <2>1. ClearOK(x) /\ clear[x].chan \in Channels /\ Home[x] \in Replicas
    BY <1>2, Fields, HomeTyped DEF Facts
  <2>2. CASE x = p
    BY <1>6, <2>2, IdleTyped DEF ClearOK
  <2>3. CASE x # p
    <3>1. clear'[x] = clear[x]
      BY <1>6, <2>3
    <3>2. clear[x].at # "idle" /\ clear[x].pure =>
            (clear[x].chan \in slipped'[Home[x]] <=> clear[x].chan \in slipped[Home[x]])
      BY <1>3, <1>9, <2>1, <2>3
    <3> QED
      BY <1>1, <1>11, <2>1, <3>1, <3>2 DEF ClearOK
  <2> QED
    BY <2>2, <2>3
<1> QED
  BY <1>10, <1>12, <1>13 DEF Inv, Facts

-----------------------------------------------------------------------------
\* Time

\* A second less, of every deadline alike.
LEMMA DownTyped ==
  ASSUME NEW f \in [Channels -> Left]
  PROVE  /\ Down(f) \in [Channels -> Left]
         /\ \A c \in Channels : /\ Down(f)[c] = IF f[c] > 0 THEN f[c] - 1 ELSE 0
                                /\ f[c] = 0 => Down(f)[c] = 0
<1>1. \A x \in Left : (IF x > 0 THEN x - 1 ELSE 0) \in Left
  BY CooldownAssumption DEF Left
<1>2. \A c \in Channels : f[c] \in Left
  OBVIOUS
<1>3. Down(f) \in [Channels -> Left]
  BY <1>1, <1>2 DEF Down
<1>4. ASSUME NEW c \in Channels
      PROVE  /\ Down(f)[c] = IF f[c] > 0 THEN f[c] - 1 ELSE 0
             /\ f[c] = 0 => Down(f)[c] = 0
  <2>1. Down(f)[c] = IF f[c] > 0 THEN f[c] - 1 ELSE 0
    BY DEF Down
  <2> QED
    BY <2>1
<1> QED
  BY <1>3, <1>4

\* ... so what is compared with what comes out as before.
LEMMA DownOrder ==
  ASSUME NEW f \in [Channels -> Left], NEW g \in [Channels -> Left], NEW c \in Channels
  PROVE  /\ f[c] = g[c] => Down(f)[c] = Down(g)[c]
         /\ f[c] <= g[c] => Down(f)[c] <= Down(g)[c]
         /\ Down(f)[c] > 0 => f[c] > 0
<1>1. f[c] \in Nat /\ g[c] \in Nat
  BY LeftTyped
<1> QED
  BY <1>1, DownTyped

LEMMA TickInv ==
  ASSUME Inv, Tick
  PROVE  Inv'
<1>1. /\ index' = Down(index)
      /\ local' = [r \in Replicas |-> Down(local[r])]
      /\ remote' = [r \in Replicas |-> Down(remote[r])]
      /\ alone' = [r \in Replicas |-> Down(alone[r])]
      /\ snap' = [r \in Replicas |-> [snap[r] EXCEPT !.seen = Down(snap[r].seen)]]
      /\ mark' = [p \in Markers |-> [mark[p] EXCEPT !.left =
                                       IF mark[p].left > 0 THEN mark[p].left - 1 ELSE 0]]
      /\ due' = [r \in Replicas |-> TRUE]
      /\ UNCHANGED <<synced, young, clear, lifted, slipped, caughtUp, spent>>
  BY DEF Tick
<1>2. TypeOK /\ Facts
  BY DEF Inv
<1>3. \A p \in Markers : /\ mark'[p] \in Marks /\ mark'[p].at = mark[p].at
                         /\ mark'[p].chan = mark[p].chan
  <2> SUFFICES ASSUME NEW p \in Markers
               PROVE  /\ mark'[p] \in Marks /\ mark'[p].at = mark[p].at
                      /\ mark'[p].chan = mark[p].chan
    OBVIOUS
  <2> DEFINE l == IF mark[p].left > 0 THEN mark[p].left - 1 ELSE 0
  <2>1. mark[p] \in Marks /\ mark[p].left \in Left
    BY <1>2, Fields
  <2>2. l \in Left
    BY <2>1, CooldownAssumption DEF Left
  <2>3. mark'[p] = [mark[p] EXCEPT !.left = l]
    BY <1>1
  <2> HIDE DEF l
  <2> QED
    BY <2>1, <2>2, <2>3 DEF Marks
<1>4. \A r \in Replicas : /\ snap'[r] \in Snaps /\ snap'[r].at = snap[r].at
                          /\ snap'[r].seen = Down(snap[r].seen)
                          /\ snap'[r].cleared = snap[r].cleared
                          /\ snap'[r].quiet = snap[r].quiet
  <2> SUFFICES ASSUME NEW r \in Replicas
               PROVE  /\ snap'[r] \in Snaps /\ snap'[r].at = snap[r].at
                      /\ snap'[r].seen = Down(snap[r].seen)
                      /\ snap'[r].cleared = snap[r].cleared
                      /\ snap'[r].quiet = snap[r].quiet
    OBVIOUS
  <2>1. snap[r] \in Snaps /\ snap[r].seen \in [Channels -> Left]
    BY <1>2, Fields
  <2>2. Down(snap[r].seen) \in [Channels -> Left]
    BY <2>1, DownTyped
  <2>3. snap'[r] = [snap[r] EXCEPT !.seen = Down(snap[r].seen)]
    BY <1>1
  <2> QED
    BY <2>1, <2>2, <2>3 DEF Snaps
<1>5. \A r \in Replicas : /\ local[r] \in [Channels -> Left] /\ remote[r] \in [Channels -> Left]
                          /\ alone[r] \in [Channels -> Left] /\ snap[r].seen \in [Channels -> Left]
                          /\ index \in [Channels -> Left]
                          /\ local'[r] = Down(local[r]) /\ remote'[r] = Down(remote[r])
                          /\ alone'[r] = Down(alone[r])
  BY <1>1, <1>2, Fields
<1>6. TypeOK'
  <2>1. \A f \in [Channels -> Left] : Down(f) \in [Channels -> Left]
    BY DownTyped
  <2>2. /\ index' \in [Channels -> Left] /\ local' \in [Replicas -> [Channels -> Left]]
        /\ remote' \in [Replicas -> [Channels -> Left]]
        /\ alone' \in [Replicas -> [Channels -> Left]]
    BY <1>1, <1>2, <2>1 DEF TypeOK
  <2>3. snap' \in [Replicas -> Snaps] /\ mark' \in [Markers -> Marks]
        /\ due' \in [Replicas -> BOOLEAN]
    BY <1>1, <1>3, <1>4
  <2> QED
    BY <1>1, <1>2, <2>2, <2>3 DEF TypeOK
<1>7. /\ \A c \in Channels : Still(c) => Still(c)'
      /\ \A x \in Clearers : clear'[x].at # "idle" /\ Sole(x) => Sole(x)'
  BY <1>1, <1>3, StillKept
<1>8. ASSUME NEW r \in Replicas, NEW c \in Channels
      PROVE  AloneOK(r, c)' /\ QuietOK(r, c)' /\ CaughtUpOK(r, c)' /\ LiftedOK(r, c)'
  <2>1. AloneOK(r, c) /\ QuietOK(r, c) /\ CaughtUpOK(r, c) /\ LiftedOK(r, c)
    BY <1>2 DEF Facts
  <2>0. /\ local[r] \in [Channels -> Left] /\ remote[r] \in [Channels -> Left]
        /\ alone[r] \in [Channels -> Left] /\ snap[r].seen \in [Channels -> Left]
        /\ index \in [Channels -> Left]
        /\ local'[r] = Down(local[r]) /\ remote'[r] = Down(remote[r])
        /\ alone'[r] = Down(alone[r]) /\ snap'[r].seen = Down(snap[r].seen)
        /\ index' = Down(index)
    BY <1>1, <1>4, <1>5
  <2>2. /\ alone[r][c] <= local[r][c] => alone'[r][c] <= local'[r][c]
        /\ alone'[r][c] > 0 => alone[r][c] > 0
    BY <2>0, DownOrder
  <2>3. /\ snap[r].seen[c] = index[c] => snap'[r].seen[c] = index'[c]
        /\ remote[r][c] = index[c] => remote'[r][c] = index'[c]
        /\ local[r][c] <= index[c] => local'[r][c] <= index'[c]
    BY <2>0, DownOrder
  <2>4. /\ index[c] = 0 => index'[c] = 0
        /\ local[r][c] = 0 => local'[r][c] = 0
        /\ remote[r][c] = 0 => remote'[r][c] = 0
        /\ snap[r].seen[c] = 0 => snap'[r].seen[c] = 0
    BY <2>0, DownTyped
  <2>5. AloneOK(r, c)'
    BY <1>1, <2>1, <2>2 DEF AloneOK
  <2>6. QuietOK(r, c)'
    BY <1>1, <1>4, <1>7, <2>1, <2>3 DEF QuietOK
  <2>7. CaughtUpOK(r, c)'
    BY <1>1, <1>4, <1>7, <2>1, <2>3 DEF CaughtUpOK
  <2>8. LiftedOK(r, c)'
    BY <1>1, <1>4, <1>7, <2>1, <2>4 DEF LiftedOK
  <2> QED
    BY <2>5, <2>6, <2>7, <2>8
<1>9. ASSUME NEW x \in Clearers
      PROVE  ClearOK(x)'
  <2> DEFINE e == clear[x].chan
             r == Home[x]
  <2>1. ClearOK(x) /\ e \in Channels /\ r \in Replicas
    BY <1>2, Fields, HomeTyped DEF Facts
  <2>2. /\ index[e] = 0 => index'[e] = 0
        /\ local[r][e] = 0 => local'[r][e] = 0
        /\ remote[r][e] = 0 => remote'[r][e] = 0
    BY <1>1, <1>5, <2>1, DownTyped
  <2> QED
    BY <1>1, <1>7, <2>1, <2>2 DEF ClearOK
<1> QED
  BY <1>6, <1>8, <1>9 DEF Inv, Facts

-----------------------------------------------------------------------------

LEMMA InitInv ==
  ASSUME Init
  PROVE  Inv
<1>1. \A r \in Replicas : /\ alone[r] = None /\ local[r] = None /\ synced[r] = {}
                          /\ snap[r] = NoSnap /\ caughtUp[r] = {}
  BY DEF Init
<1>2. \A p \in Clearers : clear[p] = NoClear
  BY DEF Init
<1>3. lifted = {}
  BY DEF Init
<1>4. TypeOK
  <2>1. /\ index \in [Channels -> Left] /\ local \in [Replicas -> [Channels -> Left]]
        /\ remote \in [Replicas -> [Channels -> Left]]
        /\ alone \in [Replicas -> [Channels -> Left]]
    BY LeftTyped DEF Init
  <2>2. /\ synced \in [Replicas -> SUBSET Channels] /\ young \in [Replicas -> SUBSET Channels]
        /\ slipped \in [Replicas -> SUBSET Channels]
        /\ caughtUp \in [Replicas -> SUBSET Channels]
        /\ due \in [Replicas -> BOOLEAN] /\ lifted \subseteq Replicas \X Channels
    BY DEF Init
  <2>3. /\ snap \in [Replicas -> Snaps] /\ mark \in [Markers -> Marks]
        /\ clear \in [Clearers -> Clears]
    BY IdleTyped DEF Init
  <2>4. spent \in [marks : 0..MaxMarks, clears : 0..MaxClears, faults : 0..MaxFaults]
    BY CooldownAssumption DEF Init
  <2> QED
    BY <2>1, <2>2, <2>3, <2>4 DEF TypeOK
<1>5. ASSUME NEW r \in Replicas, NEW c \in Channels
      PROVE  AloneOK(r, c) /\ QuietOK(r, c) /\ CaughtUpOK(r, c) /\ LiftedOK(r, c)
  BY <1>1, <1>3, LeftTyped, IdleTyped DEF AloneOK, QuietOK, CaughtUpOK, LiftedOK
<1>6. ASSUME NEW p \in Clearers
      PROVE  ClearOK(p)
  BY <1>2, IdleTyped DEF ClearOK
<1> QED
  BY <1>4, <1>5, <1>6 DEF Inv, Facts

LEMMA NextInv ==
  ASSUME Inv, [Next]_vars
  PROVE  Inv'
<1>1. CASE UNCHANGED vars
  BY <1>1 DEF vars, views, ghosts, Inv, Facts, TypeOK, AloneOK, QuietOK, CaughtUpOK, LiftedOK,
              ClearOK, Still, Sole
<1>2. CASE \E p \in Markers : \/ \E c \in Channels, left \in -1..CoolFor : MarkLocal(p, c, left)
                              \/ MarkRedis(p) \/ MarkDone(p) \/ MarkFails(p)
  BY <1>2, MarkLocalInv, MarkRedisInv, MarkEndInv
<1>3. CASE \E r \in Replicas : SnapBegin(r) \/ SnapRead(r) \/ SnapFails(r) \/ SnapMerge(r)
  BY <1>3, SnapBeginInv, SnapReadInv, SnapFailsInv, SnapMergeInv
<1>4. CASE \E p \in Clearers : \/ \E c \in Channels : ClearBegin(p, c)
                               \/ ClearLocal(p) \/ ClearList(p) \/ ClearRem(p)
                               \/ ClearFails(p) \/ ClearEnd(p)
  BY <1>4, ClearBeginInv, ClearLocalInv, ClearRedisInv, ClearEndInv
<1>5. CASE Tick
  BY <1>5, TickInv
<1> QED
  BY <1>1, <1>2, <1>3, <1>4, <1>5 DEF Next

\* The inductive invariant.
THEOREM InvCorrect == Spec => []Inv
  BY InitInv, NextInv, PTL DEF Spec

\* Every state is well typed.
THEOREM TypeCorrect == Spec => []TypeOK
<1>1. Inv => TypeOK
  BY DEF Inv
<1> QED
  BY <1>1, InvCorrect, PTL

(* ClearChannelCooldown: a lift that nobody interfered with holds on its     *)
(* replica against every snapshot that was in flight, however many lifts,    *)
(* marks and snapshots run at once on however many replicas.                 *)
THEOREM LiftSticksCorrect == Spec => []LiftSticks
<1>1. Inv => LiftSticks
  <2> SUFFICES ASSUME Inv, NEW x \in lifted, x[2] \notin slipped[x[1]]
               PROVE  CoolingUntil(x[1], x[2]) = 0
    BY DEF LiftSticks
  <2>1. x[1] \in Replicas /\ x[2] \in Channels /\ <<x[1], x[2]>> \in lifted
    <3>1. x \in Replicas \X Channels
      BY DEF Inv, TypeOK
    <3>2. x = <<x[1], x[2]>>
      BY <3>1
    <3> QED
      BY <3>1, <3>2
  <2>2. LiftedOK(x[1], x[2])
    BY <2>1 DEF Inv, Facts
  <2>3. local[x[1]][x[2]] = 0 /\ remote[x[1]][x[2]] = 0
    BY <2>1, <2>2 DEF LiftedOK
  <2> QED
    BY <2>3 DEF CoolingUntil, Larger
<1> QED
  BY <1>1, InvCorrect, PTL

(* refreshCooldownSnapshot: a replica that has taken a snapshot since the    *)
(* last mark or clear of a channel routes as Redis says.                     *)
THEOREM SnapshotAgreesCorrect == Spec => []SnapshotAgrees
<1>1. Inv => SnapshotAgrees
  <2> SUFFICES ASSUME Inv, NEW r \in Replicas, NEW c \in caughtUp[r]
               PROVE  IF local[r][c] > 0 /\ c \notin synced[r]
                      THEN CoolingUntil(r, c) >= index[c]
                      ELSE CoolingUntil(r, c) = index[c]
    BY DEF SnapshotAgrees
  <2>1. c \in Channels
    BY DEF Inv, TypeOK
  <2>2. local[r][c] \in Nat /\ remote[r][c] \in Nat /\ index[c] \in Nat
    BY <2>1, LeftTyped DEF Inv, TypeOK
  <2>3. remote[r][c] = index[c] /\ (c \in synced[r] => local[r][c] <= index[c])
    BY <2>1 DEF Inv, Facts, CaughtUpOK
  <2> QED
    BY <2>2, <2>3 DEF CoolingUntil, Larger
<1> QED
  BY <1>1, InvCorrect, PTL

(* MarkChannelCooldown: a mark whose write to Redis failed is honoured by    *)
(* the replica that made it until its deadline.                              *)
THEOREM AloneKeptCorrect == Spec => []AloneKept
<1>1. Inv => AloneKept
  <2> SUFFICES ASSUME Inv, NEW r \in Replicas, NEW c \in Channels
               PROVE  CoolingUntil(r, c) >= alone[r][c]
    BY DEF AloneKept
  <2>1. local[r][c] \in Nat /\ remote[r][c] \in Nat /\ alone[r][c] \in Nat
    BY LeftTyped DEF Inv, TypeOK
  <2>2. alone[r][c] <= local[r][c]
    BY DEF Inv, Facts, AloneOK
  <2> QED
    BY <2>1, <2>2 DEF CoolingUntil, Larger
<1> QED
  BY <1>1, InvCorrect, PTL
=============================================================================
