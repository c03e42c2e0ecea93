--------------------------- MODULE ChannelCooldown ---------------------------
(***************************************************************************)
(* The cooldown of a rate-limited channel, across replicas                 *)
(* (app/channel_cooldown.go, channel_cooldown_clear.go).  Redis holds the  *)
(* index of cooling channels; each replica keeps the marks it made itself  *)
(* and a snapshot of the index, and routes by the later of the two.        *)
(* Marking, taking a snapshot and lifting a cooldown by hand each release  *)
(* cooldownMu around their Redis calls, so their legs interleave.          *)
(*                                                                         *)
(* A deadline is kept as the time left until it, 0 once it has passed; the *)
(* slot of a channel is its slot of key 0, the one selection asks about.   *)
(* Two orders of clock readings that the code compares are kept as sets:   *)
(* the channels cleared since a snapshot began (cooldownClearedGen against *)
(* startGen), and those marked since it began (writtenAt against now).     *)
(***************************************************************************)
EXTENDS Integers, FiniteSets

CONSTANTS Replicas, Channels,
          Markers,   \* goroutines that record an upstream's 429
          Clearers,  \* requests that re-enable a channel
          Home,      \* [Markers \cup Clearers -> Replicas]
          CoolFor,   \* the longest cooldown
          MaxMarks, MaxClears, MaxFaults \* bounds

ASSUME CooldownAssumption ==
  /\ Channels # {} /\ Home \in [Markers \cup Clearers -> Replicas]
  /\ CoolFor \in Nat /\ MaxMarks \in Nat /\ MaxClears \in Nat /\ MaxFaults \in Nat

VARIABLES
  index,    \* Redis: chan_cd_idx
  local,    \* cooldownLocal, per replica
  remote,   \* cooldownRemote
  synced,   \* the channels in cooldownSynced
  young,    \* those of them marked since the snapshot in flight began
  due,      \* cooldownRemoteAt is zero or cooldownSnapshotEvery ago
  snap,     \* the snapshot in flight, per replica
  mark,     \* the marker goroutines
  clear,    \* the clear requests
  lifted,   \* ghost: <<replica, channel>> it lifted, with no mark since
  slipped,  \* ghost: lifted channels a snapshot took up again meanwhile
  caughtUp, \* ghost: who has taken a snapshot since the last mark or clear
  alone,    \* ghost: marks that Redis does not have
  spent     \* [marks, clears, faults] so far

views == <<local, remote, synced, young>>
ghosts == <<lifted, slipped, caughtUp, alone>>
vars == <<index, views, due, snap, mark, clear, ghosts, spent>>

Left == 0..CoolFor
None == [c \in Channels |-> 0]

NoSnap == [at |-> "idle", seen |-> None, cleared |-> {}, quiet |-> {}]
NoMark == [at |-> "idle", chan |-> CHOOSE c \in Channels : TRUE, left |-> 0,
           young |-> FALSE]
NoClear == [at |-> "idle", chan |-> CHOOSE c \in Channels : TRUE,
            members |-> {}, pure |-> FALSE]

Init == /\ index = None
        /\ local = [r \in Replicas |-> None]
        /\ remote = [r \in Replicas |-> None]
        /\ synced = [r \in Replicas |-> {}]
        /\ young = [r \in Replicas |-> {}]
        /\ due = [r \in Replicas |-> TRUE]
        /\ snap = [r \in Replicas |-> NoSnap]
        /\ mark = [p \in Markers |-> NoMark]
        /\ clear = [p \in Clearers |-> NoClear]
        /\ lifted = {}
        /\ slipped = [r \in Replicas |-> {}]
        /\ caughtUp = [r \in Replicas |-> {}]
        /\ alone = [r \in Replicas |-> None]
        /\ spent = [marks |-> 0, clears |-> 0, faults |-> 0]

Larger(a, b) == IF a > b THEN a ELSE b

\* coolingUntil, as the time left.
CoolingUntil(r, c) == Larger(local[r][c], remote[r][c])

Fault == /\ spent.faults < MaxFaults
         /\ spent' = [spent EXCEPT !.faults = @ + 1]

\* Nobody is marking or clearing channel c.
Still(c) == /\ \A p \in Markers : mark[p].at # "idle" => mark[p].chan # c
            /\ \A p \in Clearers : clear[p].at # "idle" => clear[p].chan # c

\* A mark or a clear of c begins: no snapshot under way covers it.
Disturb(c) ==
  /\ caughtUp' = [r \in Replicas |-> caughtUp[r] \ {c}]
  /\ lifted' = {x \in lifted : x[2] # c}
  /\ slipped' = [r \in Replicas |-> slipped[r] \ {c}]

\* A lift of c that is under way has company.
Impure(c) == [x \in Clearers |-> IF clear[x].chan = c
                                 THEN [clear[x] EXCEPT !.pure = FALSE]
                                 ELSE clear[x]]

-----------------------------------------------------------------------------

\* A deadline that has passed already is not recorded.
Records(left) == left > 0

\* MarkChannelCooldown: the local entry.
MarkLocal(p, c, left) ==
  LET r == Home[p]
  IN  /\ mark[p].at = "idle" /\ Records(left)
      /\ spent.marks < MaxMarks
      /\ spent' = [spent EXCEPT !.marks = @ + 1]
      /\ mark' = [mark EXCEPT ![p] = [at |-> "write", chan |-> c, left |-> left,
                                      young |-> snap[r].at # "idle"]]
      /\ local' = [local EXCEPT ![r][c] = left]
      /\ synced' = [synced EXCEPT ![r] = @ \ {c}]
      /\ Disturb(c)
      /\ snap' = [s \in Replicas |-> [snap[s] EXCEPT !.quiet = @ \ {c}]]
      /\ clear' = Impure(c)
      /\ alone' = [alone EXCEPT ![r][c] = 0]
      /\ UNCHANGED <<index, remote, young, due>>

\* Its pipeline: ZADD.  (An entry that has expired is written all the same.)
MarkRedis(p) ==
  /\ mark[p].at = "write"
  /\ index' = [index EXCEPT ![mark[p].chan] = mark[p].left]
  /\ mark' = [mark EXCEPT ![p].at = "sync"]
  /\ UNCHANGED <<views, due, snap, clear, ghosts, spent>>

MarkSynced(r, c, left) == local[r][c] = left

\* The pipeline has answered: Redis is the authority for this entry now.
MarkDone(p) ==
  LET r == Home[p]
      m == mark[p]
      sync == MarkSynced(r, m.chan, m.left)
  IN  /\ m.at = "sync"
      /\ synced' = [synced EXCEPT ![r] = IF sync THEN @ \cup {m.chan} ELSE @]
      /\ young' = [young EXCEPT ![r] =
                     IF sync /\ m.young THEN @ \cup {m.chan}
                     ELSE IF sync THEN @ \ {m.chan} ELSE @]
      /\ mark' = [mark EXCEPT ![p] = NoMark]
      /\ alone' = [alone EXCEPT ![r][m.chan] = IF sync THEN 0 ELSE @]
      /\ UNCHANGED <<index, local, remote, due, snap, clear, lifted, slipped,
                     caughtUp, spent>>

\* The pipeline fails, or only its answer is lost.
MarkFails(p) ==
  LET r == Home[p]
      m == mark[p]
  IN  /\ m.at \in {"write", "sync"}
      /\ Fault
      /\ mark' = [mark EXCEPT ![p] = NoMark]
      /\ alone' = [alone EXCEPT ![r][m.chan] =
                     IF m.at = "write" /\ local[r][m.chan] = m.left
                          /\ m.chan \notin synced[r]
                     THEN m.left ELSE @]
      /\ UNCHANGED <<index, views, due, snap, clear, lifted, slipped, caughtUp>>

-----------------------------------------------------------------------------

\* refreshCooldownSnapshot: stamp, read, merge.
\* Which marks are younger than the snapshot matters while there is one.
Aged(r) == /\ young' = [young EXCEPT ![r] = {}]
           /\ mark' = [p \in Markers |-> IF Home[p] = r
                                         THEN [mark[p] EXCEPT !.young = FALSE]
                                         ELSE mark[p]]

SnapBegin(r) ==
  /\ due[r] /\ snap[r].at = "idle"
  /\ due' = [due EXCEPT ![r] = FALSE]
  /\ snap' = [snap EXCEPT ![r] = [NoSnap EXCEPT !.at = "read",
                                                !.quiet = {c \in Channels : Still(c)}]]
  /\ Aged(r)
  /\ UNCHANGED <<index, local, remote, synced, clear, ghosts, spent>>

SnapRead(r) ==
  /\ snap[r].at = "read"
  /\ snap' = [snap EXCEPT ![r].at = "merge", ![r].seen = index]
  /\ UNCHANGED <<index, views, due, mark, clear, ghosts, spent>>

SnapFails(r) ==
  /\ snap[r].at = "read"
  /\ Fault
  /\ snap' = [snap EXCEPT ![r] = NoSnap]
  /\ Aged(r)
  /\ UNCHANGED <<index, local, remote, synced, due, clear, ghosts>>

\* The entries of a snapshot that are merged.
Merged(s) == [c \in Channels |-> IF c \in s.cleared THEN 0 ELSE s.seen[c]]

\* Mutants: Redis is believed about nothing, or about every mark.
DroppedNone(r, seen) == {}
DroppedAll(r, seen) == {c \in Channels \ young[r] : seen[c] < local[r][c]}

\* The local entries a snapshot drops: Redis has them no longer.
Dropped(r, seen) == {c \in synced[r] \ young[r] : seen[c] < local[r][c]}

SnapMerge(r) ==
  LET seen == Merged(snap[r])
      drop == Dropped(r, seen)
  IN  /\ snap[r].at = "merge"
      /\ remote' = [remote EXCEPT ![r] = seen]
      /\ local' = [local EXCEPT ![r] =
                     [c \in Channels |-> IF c \in drop THEN 0 ELSE @[c]]]
      /\ synced' = [synced EXCEPT ![r] = @ \ drop]
      /\ snap' = [snap EXCEPT ![r] = NoSnap]
      /\ caughtUp' = [caughtUp EXCEPT ![r] = @ \cup snap[r].quiet]
      /\ slipped' = [slipped EXCEPT ![r] =
                       @ \cup {clear[p].chan : p \in {x \in Clearers :
                                 clear[x].at # "idle" /\ Home[x] = r}}]
      /\ Aged(r)
      /\ UNCHANGED <<index, due, clear, lifted, alone, spent>>

-----------------------------------------------------------------------------

\* markCooldownCleared: a snapshot that began before is stale for c.
Stamp(r, c) == [snap EXCEPT ![r].cleared = IF snap[r].at = "idle" THEN @
                                           ELSE @ \cup {c}]

Unquiet(s, c) == [r \in Replicas |-> [s[r] EXCEPT !.quiet = @ \ {c}]]

\* ClearChannelCooldown: the first stamp ...
ClearBegin(p, c) ==
  LET r == Home[p]
  IN  /\ clear[p].at = "idle"
      /\ spent.clears < MaxClears
      /\ spent' = [spent EXCEPT !.clears = @ + 1]
      /\ clear' = [Impure(c) EXCEPT ![p] = [at |-> "drop", chan |-> c,
                                            members |-> {}, pure |-> Still(c)]]
      /\ snap' = Unquiet(Stamp(r, c), c)
      /\ Disturb(c)
      /\ UNCHANGED <<index, views, due, mark, alone>>

\* ... the local entries ...
ClearLocal(p) ==
  LET r == Home[p]
      c == clear[p].chan
  IN  /\ clear[p].at = "drop"
      /\ local' = [local EXCEPT ![r][c] = 0]
      /\ remote' = [remote EXCEPT ![r][c] = 0]
      /\ synced' = [synced EXCEPT ![r] = @ \ {c}]
      /\ alone' = [alone EXCEPT ![r][c] = 0]
      /\ clear' = [clear EXCEPT ![p].at = "list"]
      /\ UNCHANGED <<index, young, due, snap, mark, lifted, slipped, caughtUp, spent>>

\* ... the members of the index, and their removal ...
ClearList(p) ==
  /\ clear[p].at = "list"
  /\ clear' = [clear EXCEPT ![p].at = "rem",
                            ![p].members = {c \in {clear[p].chan} : index[c] > 0}]
  /\ UNCHANGED <<index, views, due, snap, mark, ghosts, spent>>

ClearRem(p) ==
  /\ clear[p].at = "rem"
  /\ index' = [c \in Channels |-> IF c \in clear[p].members THEN 0 ELSE index[c]]
  /\ clear' = [clear EXCEPT ![p].at = "stamp"]
  /\ UNCHANGED <<views, due, snap, mark, ghosts, spent>>

ClearFails(p) ==
  /\ clear[p].at \in {"list", "rem"}
  /\ Fault
  /\ clear' = [clear EXCEPT ![p].at = "stamp", ![p].pure = FALSE]
  /\ UNCHANGED <<index, views, due, snap, mark, ghosts>>

\* Mutant: the clear is stamped once.
LastStampMissing(r, c) == snap

LastStamp(r, c) == Stamp(r, c)

\* ... and the deferred stamp.
ClearEnd(p) ==
  LET c == clear[p].chan
  IN  /\ clear[p].at = "stamp"
      /\ snap' = LastStamp(Home[p], c)
      /\ clear' = [clear EXCEPT ![p] = NoClear]
      /\ IF clear[p].pure
         THEN lifted' = lifted \cup {<<Home[p], c>>} /\ UNCHANGED slipped
         ELSE slipped' = [slipped EXCEPT ![Home[p]] = @ \ {c}] /\ UNCHANGED lifted
      /\ UNCHANGED <<index, views, due, mark, caughtUp, alone, spent>>

-----------------------------------------------------------------------------

Down(f) == [c \in Channels |-> IF f[c] > 0 THEN f[c] - 1 ELSE 0]

\* A second passes.
Tick ==
  /\ index' = Down(index)
  /\ local' = [r \in Replicas |-> Down(local[r])]
  /\ remote' = [r \in Replicas |-> Down(remote[r])]
  /\ alone' = [r \in Replicas |-> Down(alone[r])]
  /\ snap' = [r \in Replicas |-> [snap[r] EXCEPT !.seen = Down(@)]]
  /\ mark' = [p \in Markers |-> [mark[p] EXCEPT !.left = IF @ > 0 THEN @ - 1 ELSE 0]]
  /\ due' = [r \in Replicas |-> TRUE]
  /\ UNCHANGED <<synced, young, clear, lifted, slipped, caughtUp, spent>>

Next == \/ \E p \in Markers :
             \/ \E c \in Channels, left \in -1..CoolFor : MarkLocal(p, c, left)
             \/ MarkRedis(p) \/ MarkDone(p) \/ MarkFails(p)
        \/ \E r \in Replicas :
             SnapBegin(r) \/ SnapRead(r) \/ SnapFails(r) \/ SnapMerge(r)
        \/ \E p \in Clearers :
             \/ \E c \in Channels : ClearBegin(p, c)
             \/ ClearLocal(p) \/ ClearList(p) \/ ClearRem(p) \/ ClearFails(p)
             \/ ClearEnd(p)
        \/ Tick

Spec == Init /\ [][Next]_vars

-----------------------------------------------------------------------------

Snaps == [at : {"idle", "read", "merge"}, seen : [Channels -> Left],
          cleared : SUBSET Channels, quiet : SUBSET Channels]
Marks == [at : {"idle", "write", "sync"}, chan : Channels, left : Left,
          young : BOOLEAN]
Clears == [at : {"idle", "drop", "list", "rem", "stamp"}, chan : Channels,
           members : SUBSET Channels, pure : BOOLEAN]

TypeOK ==
  /\ index \in [Channels -> Left]
  /\ local \in [Replicas -> [Channels -> Left]]
  /\ remote \in [Replicas -> [Channels -> Left]]
  /\ alone \in [Replicas -> [Channels -> Left]]
  /\ synced \in [Replicas -> SUBSET Channels]
  /\ young \in [Replicas -> SUBSET Channels]
  /\ slipped \in [Replicas -> SUBSET Channels]
  /\ caughtUp \in [Replicas -> SUBSET Channels]
  /\ due \in [Replicas -> BOOLEAN]
  /\ snap \in [Replicas -> Snaps]
  /\ mark \in [Markers -> Marks]
  /\ clear \in [Clearers -> Clears]
  /\ lifted \subseteq Replicas \X Channels
  /\ spent \in [marks : 0..MaxMarks, clears : 0..MaxClears, faults : 0..MaxFaults]

(* An operator's lift sticks on the replica that served it: once the channel *)
(* is out of Redis and nobody has marked it since, no snapshot that was      *)
(* under way brings the cooldown back, whether it was read before or after   *)
(* the removal.  (A snapshot merged between the two stamps can: slipped.)    *)
LiftSticks ==
  \A x \in lifted : x[2] \notin slipped[x[1]] => CoolingUntil(x[1], x[2]) = 0

(* A replica that has taken a snapshot since the last mark or clear of a     *)
(* channel routes as Redis says: it honours the marks of the others and has  *)
(* dropped its own copy of what another replica lifted, whatever was lost,   *)
(* stale or in flight before; only a mark whose write failed stays its own.  *)
SnapshotAgrees ==
  \A r \in Replicas : \A c \in caughtUp[r] :
    IF local[r][c] > 0 /\ c \notin synced[r]
    THEN CoolingUntil(r, c) >= index[c]
    ELSE CoolingUntil(r, c) = index[c]

(* A mark that never reached Redis is honoured by the replica that made it   *)
(* until its deadline: no snapshot, which cannot know of it, drops it.       *)
AloneKept ==
  \A r \in Replicas, c \in Channels : CoolingUntil(r, c) >= alone[r][c]

=============================================================================
