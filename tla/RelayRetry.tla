----------------------------- MODULE RelayRetry -----------------------------
(***************************************************************************)
(* The relay loop of handler.Relay: which channel each attempt of a        *)
(* request goes to, and what the client is told at the end.  Requests of   *)
(* one replica share its circuit breakers, its view of the cooling         *)
(* channels, the channels' status and one conversation's affinity binding. *)
(*                                                                         *)
(* A request asks for one model: its candidates are the channels of its    *)
(* group, or of the user's auto groups in order.  The tenant filter, the   *)
(* provider filter and the modality filter are folded into these sets.     *)
(***************************************************************************)
EXTENDS ChannelBreaker, Sequences, FiniteSets, FiniteSetsExt, Functions

CONSTANTS
  Requests, Channels, NoChannel,
  Groups,     \* the auto groups: a sequence of sets of channels
  Priority,   \* [Channels -> Int], a smaller number is tried later
  TokenGroup, \* [Requests -> a group's index, or 0 for "auto"]
  CrossGroup, \* the requests whose token sets cross_group_retry
  Affine,     \* the requests of the conversation that carries an affinity key
  Bindings,   \* what an earlier turn of the conversation may have bound it to
  Specific,   \* [Requests -> the channels the key may name, or NoChannel]
  MultiKey,   \* channels with a pool of keys
  Recovering, \* channels whose keys come back after a pause, once disabled
  RetryTimes, \* common.RetryTimes
  CoolFor,    \* how long an upstream 429 parks a channel
  Errors,     \* the kinds of upstream error that happen
  MaxBans,    \* bound: errors that disable a channel
  MaxHangUps  \* bound: clients that leave

ASSUME RetryAssumption ==
  /\ NoChannel \notin Channels /\ IsFiniteSet(Channels)
  /\ Groups \in Seq(SUBSET Channels)
  /\ Priority \in [Channels -> Int]
  /\ TokenGroup \in [Requests -> 0..Len(Groups)]
  /\ CrossGroup \subseteq Requests /\ Affine \subseteq Requests
  /\ Bindings \subseteq Channels \cup {NoChannel}
  /\ Specific \in [Requests -> SUBSET (Channels \cup {NoChannel})]
  /\ RetryTimes \in Nat /\ CoolFor \in Nat
  /\ MaxBans \in Nat /\ MaxHangUps \in Nat

VARIABLES
  req,     \* one record per request, see Fresh
  breaker, \* channelBreakers
  prober,  \* ghost: who took the probe slot of a half-open breaker last
  enabled, \* the channels whose status is enabled
  cool,    \* how much longer a channel is cooling
  async,   \* what processChannelError has handed to a goroutine
  pin,     \* the affinity binding
  blame,   \* ghost: failures an upstream is to blame for since its last success
  bans, hangUps

channels == <<breaker, prober, enabled, cool, async, blame, bans>>
vars == <<req, pin, channels, hangUps>>

-----------------------------------------------------------------------------

\* The errors of an attempt, by what the code tells apart: any other 5xx; a
\* 504, 524 or 408; a rate limit; a 429 that the request itself causes; a 400;
\* a key the upstream rejects; a "channel:" error; an error that the gateway
\* raises itself, before the upstream is called.
UpstreamErrors == {"5xx", "timeout", "429", "429req", "400", "401", "channel"}
OwnErrors == {"gateway"}

\* What selection can answer instead of a channel.
SelectErrors == {"noChannel", "allCooling", "filterMiss", "noKey"}

Answers == UpstreamErrors \cup OwnErrors \cup SelectErrors
             \cup {"none", "ok", "breakersOpen"}

ASSUME ErrorsAssumption == Errors \subseteq UpstreamErrors \cup OwnErrors

IsUpstreamFailure(e) == e \in {"5xx", "timeout", "channel"}
IsChannelError(e) == e \in {"channel", "noKey"}
IsSkipRetry(e) == e \in {"gateway", "noChannel", "allCooling", "filterMiss"}
ShouldDisable(e) == e = "401"
Cools(e) == e = "429"
RetriesStatus(e) == e \in {"5xx", "429", "401"}

\* Mutant: no streaming gate.
ShouldRetryUngated(q, e) ==
  \/ IsChannelError(e)
  \/ /\ ~IsSkipRetry(e)
     /\ RetryTimes - q.retry > 0
     /\ q.specific = NoChannel
     /\ RetriesStatus(e)

\* shouldRetry, of which the streaming gate must come first.
ShouldRetry(q, e) ==
  /\ ~q.written
  /\ \/ IsChannelError(e)
     \/ /\ ~IsSkipRetry(e)
        /\ RetryTimes - q.retry > 0
        /\ q.specific = NoChannel
        /\ RetriesStatus(e)

-----------------------------------------------------------------------------

\* GetRandomSatisfiedChannelWhere: the channels of the retry-th priority tier.
Tier(S, retry) ==
  LET tiers == {Priority[c] : c \in S}
      rank(p) == Cardinality({t \in tiers : t > p})
      k == IF retry >= Cardinality(tiers) THEN Cardinality(tiers) - 1 ELSE retry
  IN  {c \in S : rank(Priority[c]) = k}

Cooling(c) == cool[c] > 0
Enabled(g) == Groups[g] \cap enabled

\* selectChannelOnce: the channels it may draw, or why there are none
\* (EarliestMultiKeyRecovery: a disabled pool that has a recovery time counts as
\* cooling).
Once(g, retry, used) ==
  LET free == Enabled(g) \ used
      usable == {c \in free : ~Cooling(c)}
  IN  CASE Enabled(g) = {} ->
             [from |-> {}, miss |-> IF Groups[g] \cap Recovering = {} THEN "noChannel"
                                    ELSE "allCooling"]
        [] Enabled(g) # {} /\ free = {} -> [from |-> {}, miss |-> "filterMiss"]
        [] free # {} /\ usable = {} -> [from |-> {}, miss |-> "allCooling"]
        [] OTHER -> [from |-> Tier(usable, IF used = {} THEN retry ELSE 0),
                     miss |-> "none"]

\* selectChannelWhere: used channels are excluded softly.
Where(g, retry, used) ==
  LET strict == Once(g, retry, used)
  IN  IF used # {} /\ strict.miss \in {"filterMiss", "allCooling"}
      THEN Once(g, retry, {}) ELSE strict

\* One pass of runGroups over the auto groups.  It stops at the first group
\* with a channel; every group it leaves behind resets the retry counter.
RunGroups(r, q, strict) ==
  LET tryAt(i) == IF strict THEN Once(i, 0, q.used)
                  ELSE Where(i, IF i = q.group THEN q.retry ELSE 0, q.used)
      hits == {i \in q.group..Len(Groups) : tryAt(i).from # {}}
      misses == {tryAt(i).miss : i \in q.group..Len(Groups)}
      here == Min(hits)
      retry == IF here = q.group THEN q.retry ELSE 0
      spent == r \in CrossGroup /\ retry >= RetryTimes
  IN  IF hits = {}
      THEN [from |-> {}, retry |-> q.retry, reset |-> q.reset, group |-> q.group,
            miss |-> CASE "allCooling" \in misses -> "allCooling"
                       [] "allCooling" \notin misses /\ "filterMiss" \in misses
                            -> "filterMiss"
                       [] OTHER -> "noChannel"]
      ELSE [from |-> tryAt(here).from, miss |-> "none",
            retry |-> IF spent THEN 0 ELSE retry,
            reset |-> q.reset \/ spent,
            group |-> IF spent THEN here + 1 ELSE here]

\* Mutant: groups in order, used channels and all.
WalkGroupsSoft(r, q) == RunGroups(r, q, FALSE)

\* The walk of an "auto" token: nothing already used, in any group that is
\* left, before anything used in the first of them.
WalkGroups(r, q) ==
  LET strict == RunGroups(r, q, TRUE)
  IN  IF q.used # {} /\ strict.from # {} THEN strict ELSE RunGroups(r, q, FALSE)

\* lookupAffinityChannel, asked on retry 0 only.
Bound(r, q) == r \in Affine /\ q.specific = NoChannel
PinHolds(r, q) == /\ Bound(r, q) /\ q.retry = 0
                  /\ pin \in enabled /\ ~Cooling(pin)

\* CacheGetRandomSatisfiedChannel.
Select(r, q) ==
  LET stay(s) == [from |-> s.from, miss |-> s.miss, retry |-> q.retry,
                  reset |-> q.reset, group |-> q.group]
  IN  IF PinHolds(r, q) THEN stay([from |-> {pin}, miss |-> "none"])
      ELSE IF TokenGroup[r] = 0 THEN WalkGroups(r, q)
      ELSE stay(Where(TokenGroup[r], q.retry, q.used))

-----------------------------------------------------------------------------

\* A request that has not arrived.  specific: specific_channel_id; meta:
\* ChannelMeta is set; group: the AutoGroupIndex of the context; written:
\* c.Writer.Written(); streams and calls count the attempts that wrote to the
\* client and that reached an upstream; heard: an upstream answered an error.
Fresh == [pc |-> "idle", specific |-> NoChannel, chan |-> NoChannel,
          meta |-> FALSE, retry |-> 0,
          reset |-> FALSE, group |-> 1, used |-> {}, err |-> "none",
          attempted |-> FALSE, gone |-> FALSE, written |-> FALSE,
          streams |-> 0, calls |-> 0, heard |-> FALSE]

Init == /\ req = [r \in Requests |-> Fresh]
        /\ breaker = [c \in Channels |-> NewBreaker]
        /\ prober = [c \in Channels |-> NoChannel]
        /\ enabled = Channels
        /\ cool = [c \in Channels |-> 0]
        /\ async = {}
        /\ pin \in Bindings
        /\ blame = [c \in Channels |-> 0]
        /\ bans = 0 /\ hangUps = 0

\* The request ends with answer a; what only the loop reads is forgotten.
Answer(q, a) ==
  [Fresh EXCEPT !.pc = "done", !.err = a, !.written = q.written,
                !.streams = q.streams, !.calls = q.calls, !.heard = q.heard]

\* The end of Relay: an untried request with no error found every breaker open.
Leave(q) == Answer(q, IF ~q.attempted /\ q.err = "none" THEN "breakersOpen"
                      ELSE q.err)

\* Mutant: the reset flag stays up.
AgainStuckReset(q) ==
  LET n == IF q.reset THEN q ELSE [q EXCEPT !.retry = @ + 1]
  IN  IF n.retry <= RetryTimes THEN [n EXCEPT !.pc = "select"] ELSE Leave(n)

\* IncreaseRetry and the test at the head of the loop.
Again(q) ==
  LET n == IF q.reset THEN [q EXCEPT !.reset = FALSE]
           ELSE [q EXCEPT !.retry = @ + 1]
  IN  IF n.retry <= RetryTimes THEN [n EXCEPT !.pc = "select"] ELSE Leave(n)

\* What a selection leaves in the context and in the affinity store.
Take(q, s, c) == [q EXCEPT !.chan = c, !.retry = s.retry, !.reset = s.reset,
                           !.group = s.group]
Pin(r, q, c) == IF Bound(r, q) /\ ~PinHolds(r, q) THEN c ELSE pin

\* Distribute with a key that names its channel.
ArriveSpecific(r) ==
  /\ req[r].pc = "idle"
  /\ \E c \in Specific[r] \ {NoChannel} :
       req' = [req EXCEPT ![r] =
                 IF c \in enabled
                 THEN [@ EXCEPT !.pc = "select", !.chan = c, !.specific = c]
                 ELSE Answer(@, "noChannel")]
  /\ UNCHANGED <<pin, channels, hangUps>>

\* Distribute: the first selection.  Its RetryParam, the reset flag included,
\* is not the loop's; only the group index outlives it.
Arrive(r) ==
  LET q == req[r]
      s == Select(r, q)
  IN  /\ q.pc = "idle" /\ NoChannel \in Specific[r]
      /\ \/ /\ s.from = {}
            /\ req' = [req EXCEPT ![r] = Answer(@, s.miss)]
            /\ UNCHANGED pin
         \/ \E c \in s.from :
              /\ pin' = Pin(r, q, c)
              /\ \/ req' = [req EXCEPT ![r] =
                              [Take(q, s, c) EXCEPT !.pc = "select",
                                                    !.retry = 0, !.reset = FALSE]]
                 \/ /\ c \in MultiKey
                    /\ req' = [req EXCEPT ![r] = Answer(@, "noKey")]
      /\ UNCHANGED <<channels, hangUps>>

\* getChannel before any helper has set ChannelMeta: the context's channel.
Reuse(r) ==
  /\ req[r].pc = "select" /\ ~req[r].meta
  /\ req' = [req EXCEPT ![r].pc = "admit", ![r].used = @ \cup {req[r].chan}]
  /\ UNCHANGED <<pin, channels, hangUps>>

\* getChannel and the loop's handling of a failed selection.
Pick(r) ==
  LET q == req[r]
      s == Select(r, q)
  IN  /\ q.pc = "select" /\ q.meta
      /\ \/ /\ s.from = {}
            /\ req' = [req EXCEPT ![r] =
                         IF s.miss = "allCooling" /\ q.err # "none"
                         THEN Leave(@) ELSE Answer(@, s.miss)]
            /\ UNCHANGED pin
         \/ \E c \in s.from :
              /\ pin' = Pin(r, q, c)
              /\ req' = [req EXCEPT ![r] =
                           [Take(q, s, c) EXCEPT !.pc = "admit",
                                                 !.used = @ \cup {c}]]
      /\ UNCHANGED <<channels, hangUps>>

\* getChannel found a channel none of whose keys is usable.
PickKeyless(r) ==
  LET q == req[r]
      s == Select(r, q)
  IN  /\ q.pc = "select" /\ q.meta
      /\ \E c \in s.from \cap MultiKey :
           /\ pin' = Pin(r, q, c)
           /\ LET t == [Take(q, s, c) EXCEPT !.err = "noKey"]
              IN  req' = [req EXCEPT ![r] =
                            IF RetryTimes - t.retry > 0 /\ ShouldRetry(t, "noKey")
                            THEN Again([t EXCEPT !.used = @ \cup {c}])
                            ELSE Leave(t)]
      /\ UNCHANGED <<channels, hangUps>>

\* channelBreakers.Allow.
Skip(r) ==
  /\ req[r].pc = "admit" /\ ~Admits(breaker[req[r].chan])
  /\ req' = [req EXCEPT ![r] = Again(@)]
  /\ UNCHANGED <<pin, channels, hangUps>>

Call(r) ==
  LET c == req[r].chan
  IN  /\ req[r].pc = "admit" /\ Admits(breaker[c])
      /\ breaker' = [breaker EXCEPT ![c] = Admitted(@)]
      /\ prober' = [prober EXCEPT ![c] =
                      IF breaker[c].state = "closed" THEN @ ELSE r]
      /\ req' = [req EXCEPT ![r].pc = "call", ![r].attempted = TRUE]
      /\ UNCHANGED <<enabled, cool, async, pin, blame, bans, hangUps>>

-----------------------------------------------------------------------------

\* Mutant: without the request context.
ReportNoWitness(b, gone, e) == CASE e = "none" -> RecordSuccess(b)
                                 [] IsUpstreamFailure(e) -> RecordFailure(b)
                                 [] OTHER -> RecordInconclusive(b)

\* reportBreakerOutcomeCtx: what a breaker makes of the attempt it admitted.
Report(b, gone, e) == CASE gone -> RecordInconclusive(b)
                        [] ~gone /\ e = "none" -> RecordSuccess(b)
                        [] ~gone /\ IsUpstreamFailure(e) -> RecordFailure(b)
                        [] OTHER -> RecordInconclusive(b)

\* The ghosts after a report.
Released(c) ==
  prober' = [prober EXCEPT ![c] =
               IF breaker'[c].state = "halfOpen" THEN @ ELSE NoChannel]

Blamed(c, gone, e) ==
  blame' = [blame EXCEPT ![c] =
              CASE gone -> @
                [] ~gone /\ e = "none" -> 0
                [] ~gone /\ e \in {"5xx", "timeout", "channel"} ->
                     IF @ < Threshold THEN @ + 1 ELSE @
                [] OTHER -> @]

\* The upstream answers, and the client has the answer unless it hung up, which
\* the handler need not have noticed (StreamEndClientGone).
Serve(r) ==
  LET q == req[r]
  IN  /\ q.pc = "call"
      /\ \E gone \in {FALSE, q.gone} :
           /\ breaker' = [breaker EXCEPT ![q.chan] = Report(@, gone, "none")]
           /\ Released(q.chan) /\ Blamed(q.chan, gone, "none")
      /\ req' = [req EXCEPT ![r] =
                   [Answer(q, "ok") EXCEPT !.written = TRUE,
                      !.streams = @ + 1, !.calls = @ + 1]]
      /\ UNCHANGED <<enabled, cool, async, pin, bans, hangUps>>

\* The attempt fails.  A stream that is cut has already reached the client.
Fail(r, e, cut) ==
  LET q == req[r]
      t == [q EXCEPT !.err = e, !.meta = TRUE, !.written = @ \/ cut,
                     !.streams = IF cut THEN @ + 1 ELSE @,
                     !.calls = IF e \in UpstreamErrors THEN @ + 1 ELSE @,
                     !.heard = @ \/ e \in UpstreamErrors]
  IN  /\ q.pc = "call"
      /\ cut => IsUpstreamFailure(e)
      /\ bans' = IF ShouldDisable(e) THEN bans + 1 ELSE bans
      /\ bans' <= MaxBans
      /\ breaker' = [breaker EXCEPT ![q.chan] = Report(@, q.gone, e)]
      /\ Released(q.chan) /\ Blamed(q.chan, q.gone, e)
      /\ async' = async \cup {<<"ban", c>> : c \in {x \in {q.chan} : ShouldDisable(e)}}
                        \cup {<<"cool", c>> : c \in {x \in {q.chan} : Cools(e)}}
      /\ req' = [req EXCEPT ![r] =
                   IF ShouldRetry(t, e) THEN Again(t) ELSE Leave(t)]
      /\ UNCHANGED <<enabled, cool, pin, hangUps>>

\* The client hangs up; the attempt goes on until its handler notices.
HangUp(r) ==
  /\ req[r].pc \in {"select", "admit", "call"} /\ ~req[r].gone
  /\ hangUps < MaxHangUps
  /\ hangUps' = hangUps + 1
  /\ req' = [req EXCEPT ![r].gone = TRUE]
  /\ UNCHANGED <<pin, channels>>

-----------------------------------------------------------------------------

\* The goroutines of processChannelError.
DisableChannel(c) ==
  /\ <<"ban", c>> \in async
  /\ async' = async \ {<<"ban", c>>}
  /\ enabled' = enabled \ {c}
  /\ UNCHANGED <<req, breaker, prober, cool, pin, blame, bans, hangUps>>

MaybeMarkCooldown(c) ==
  /\ <<"cool", c>> \in async
  /\ async' = async \ {<<"cool", c>>}
  /\ cool' = [cool EXCEPT ![c] = CoolFor]
  /\ UNCHANGED <<req, breaker, prober, enabled, pin, blame, bans, hangUps>>

\* Time passes.
Tick ==
  /\ breaker' = [c \in Channels |-> Elapse(breaker[c], 1)]
  /\ cool' = [c \in Channels |-> IF cool[c] > 0 THEN cool[c] - 1 ELSE 0]
  /\ <<breaker, cool>>' # <<breaker, cool>>
  /\ UNCHANGED <<req, prober, enabled, async, pin, blame, bans, hangUps>>

Step(r) == \/ Reuse(r) \/ Pick(r) \/ PickKeyless(r) \/ Skip(r) \/ Call(r)
           \/ Serve(r)
           \/ \E e \in Errors, cut \in BOOLEAN : Fail(r, e, cut)

Next == \/ \E r \in Requests : ArriveSpecific(r) \/ Arrive(r) \/ Step(r) \/ HangUp(r)
        \/ \E c \in Channels : DisableChannel(c) \/ MaybeMarkCooldown(c)
        \/ Tick

Spec == Init /\ [][Next]_vars

-----------------------------------------------------------------------------

States == {"idle", "select", "admit", "call", "done"}

RequestState ==
  [pc : States, specific : Channels \cup {NoChannel},
   chan : Channels \cup {NoChannel}, meta : BOOLEAN, retry : 0..RetryTimes,
   reset : BOOLEAN, group : 1..Len(Groups) + 1, used : SUBSET Channels,
   err : Answers, attempted : BOOLEAN, gone : BOOLEAN, written : BOOLEAN,
   streams : Nat, calls : Nat, heard : BOOLEAN]

TypeOK ==
  /\ req \in [Requests -> RequestState]
  /\ breaker \in [Channels -> Breakers]
  /\ prober \in [Channels -> Requests \cup {NoChannel}]
  /\ enabled \subseteq Channels /\ cool \in [Channels -> 0..CoolFor]
  /\ async \subseteq {"ban", "cool"} \X Channels
  /\ pin \in Channels \cup {NoChannel}
  /\ blame \in [Channels -> 0..Threshold] /\ bans \in 0..MaxBans
  /\ hangUps \in 0..MaxHangUps

(* The client is never sent the output of two attempts: once a byte of one   *)
(* attempt is out, a stream that breaks is not failed over, whatever kind of *)
(* error broke it (the streaming gate of shouldRetry).                       *)
OneStream == \A r \in Requests : req[r].streams <= 1

(* Every request is answered with what became of it: "ok" only when an       *)
(* attempt was served, never nothing at all (the empty 200 of the all-open   *)
(* case), and once an upstream has refused it, its refusal is not replaced   *)
(* by the all-cooling 503 that this very refusal may have brought about, nor *)
(* by the all-breakers-open one.                                             *)
VerdictKept ==
  \A r \in Requests : LET q == req[r] IN
    q.pc = "done" =>
      /\ q.err # "none"
      /\ q.err = "ok" => q.streams = 1
      /\ q.heard => q.err \notin {"allCooling", "breakersOpen"}

(* The client has one answer, and the right one.                             *)
OneAnswer == OneStream /\ VerdictKept

(* A breaker leaves Closed only after Threshold failures in a row that the   *)
(* upstream is to blame for: users' bad requests, rate limits, clients that  *)
(* hang up and the gateway's own errors do not take a channel from everyone, *)
(* however their reports interleave with those of a probe.                   *)
TripMeansFailures ==
  \A c \in Channels : breaker[c].state # "closed" => blame[c] = Threshold

(* A half-open breaker, which refuses everyone, has its probe in flight: the *)
(* request admitted last is still calling this channel and will report.  No  *)
(* path of the loop leaves the slot taken behind it, and a late report of an *)
(* earlier request does not either.                                          *)
HalfOpenHasProbe ==
  \A c \in Channels : breaker[c].state = "halfOpen" =>
    \E r \in Requests : prober[c] = r /\ req[r].pc = "call" /\ req[r].chan = c

(* A breaker is open for a reason, and half open only while it waits.        *)
BreakerSound == TripMeansFailures /\ HalfOpenHasProbe

(* The retry counter is reset whenever an auto token moves to another group, *)
(* and still no request calls upstreams more often than RetryTimes + 1 times *)
(* per group, plus once for the affinity binding it consults after the last. *)
AttemptsBounded ==
  \A r \in Requests :
    LET walked == IF TokenGroup[r] = 0 THEN Len(Groups) ELSE 1
    IN  req[r].calls <= walked * (RetryTimes + 1) + Cardinality({r} \cap Affine)

\* The channels a request may still be sent to.
Reachable(r) == IF TokenGroup[r] = 0
                THEN UNION {Groups[i] : i \in req[r].group..Len(Groups)}
                ELSE Groups[TokenGroup[r]]

\* A step that sends request r to a channel it has already been through,
\* although one that it has not is enabled, not cooling and within reach.
TurnsBack(r) ==
  /\ req[r].pc = "select" /\ req[r]'.pc = "admit"
  /\ req[r]'.chan \in req[r].used
  /\ \E c \in Reachable(r) \cap enabled : ~Cooling(c) /\ c \notin req[r].used

(* A retry goes to a channel that the request has been through only when no  *)
(* other one is left: not in its group, and for an auto token in no group it *)
(* has yet to walk.  (Once a first call has set ChannelMeta; an affinity     *)
(* binding of a token that crosses groups is consulted again at each group.) *)
FreshFirst == [][\A r \in Requests \ (Affine \cap CrossGroup) :
                   req[r].meta => ~TurnsBack(r)]_vars

\* What is left of a request: groups, then retries, then steps of an attempt.
Rank(q) ==
  LET steps == CASE q.pc = "select" -> 3 [] q.pc = "admit" -> 2
                 [] q.pc = "call" -> 1 [] OTHER -> 0
  IN  IF q.pc = "done" THEN 0
      ELSE 4 * ((Len(Groups) + 1 - q.group) * (RetryTimes + 3)
                  + RetryTimes + 1 - q.retry + (IF q.reset THEN 1 ELSE 0))
             + steps

(* Every step of a request that the distributor let in brings its answer     *)
(* closer, though the walk over the groups resets the retry counter: with    *)
(* the breakers, the cooldowns and the status of the channels changing under *)
(* it, a request cannot go round for ever, and keeps to its attempts.        *)
WalkEnds ==
  /\ []AttemptsBounded
  /\ [][\A r \in {i \in Requests : req[i].pc \notin {"idle", "done"}} :
          req[r]' # req[r] /\ req[r]'.gone = req[r].gone =>
            0 <= Rank(req[r]') /\ Rank(req[r]') < Rank(req[r])]_vars

-----------------------------------------------------------------------------

(* "Recorded as used first so a skipped sibling is not re-selected": a       *)
(* request goes back to a channel whose breaker refused it only when there   *)
(* is no other one.                                                          *)
SkippedNotReselected ==
  [][\A r \in Requests : req[r].specific = NoChannel => ~TurnsBack(r)]_vars

=============================================================================
