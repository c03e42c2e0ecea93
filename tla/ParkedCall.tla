----------------------------- MODULE ParkedCall -----------------------------
(***************************************************************************)
(* What the outbox promises for a wallet call it has taken over, whatever  *)
(* retries, timeouts, crashes and late deliveries it takes to get there:   *)
(* the platform carries the call out at most once, or the hold is closed   *)
(* to it for good; the outbox says done only of a call carried out and     *)
(* raises the alarm only for one that never will be; its word is final.    *)
(***************************************************************************)
CONSTANT Calls

VARIABLES
  effect, \* "open", then "carried" or "barred"
  word,   \* "none", "parked", then "done" or "failed"
  alarm   \* the calls given up for lost

Init ==
  /\ effect = [c \in Calls |-> "open"] /\ word = [c \in Calls |-> "none"]
  /\ alarm = {}

TakeOver(c) ==
  /\ word[c] = "none" /\ word' = [word EXCEPT ![c] = "parked"]
  /\ UNCHANGED <<effect, alarm>>

\* Also after the outbox has given up on the call.
Carry(c) ==
  /\ effect[c] = "open" /\ word[c] # "none"
  /\ effect' = [effect EXCEPT ![c] = "carried"]
  /\ UNCHANGED <<word, alarm>>

\* Holds expire on their own, several at a time.
Bar(S) ==
  /\ \A c \in S : effect[c] = "open"
  /\ effect' = [c \in Calls |-> IF c \in S THEN "barred" ELSE effect[c]]
  /\ UNCHANGED <<word, alarm>>

Done(c) ==
  /\ word[c] = "parked" /\ effect[c] = "carried"
  /\ word' = [word EXCEPT ![c] = "done"]
  /\ UNCHANGED <<effect, alarm>>

\* The alarm may come before the last word.
Lose(c) ==
  /\ word[c] = "parked" /\ effect[c] = "barred"
  /\ alarm' = alarm \cup {c}
  /\ UNCHANGED <<effect, word>>

Fail(c) ==
  /\ word[c] = "parked" /\ word' = [word EXCEPT ![c] = "failed"]
  /\ \/ UNCHANGED alarm
     \/ effect[c] = "barred" /\ alarm' = alarm \cup {c}
  /\ UNCHANGED effect

Next ==
  \/ \E c \in Calls : TakeOver(c) \/ Carry(c) \/ Done(c) \/ Lose(c) \/ Fail(c)
  \/ \E S \in SUBSET Calls : Bar(S)

Spec == Init /\ [][Next]_<<effect, word, alarm>>
=============================================================================
