--------------------------- MODULE ChannelBreaker ---------------------------
(***************************************************************************)
(* The per-channel circuit breaker of pkg/resilience/circuitbreaker.go, as *)
(* operators on one breaker's record; every method of the code runs under  *)
(* the breaker's mutex, so each is one step of the modules that use it.    *)
(*                                                                         *)
(* Timestamps are kept as ages: lastFail and halfOpen are the time since   *)
(* lastFailTime and halfOpenSince, which Elapse advances up to MaxAge, the *)
(* largest age any test of the code can tell apart.                        *)
(***************************************************************************)
EXTENDS Integers, FiniteSetsExt

CONSTANTS Threshold,       \* CB_THRESHOLD
          Timeout,         \* CB_TIMEOUT_SEC, how long Open refuses
          HalfOpenTimeout, \* CB_HALF_OPEN_TIMEOUT_SEC, the probe's lifetime
          FailureWindow    \* CB_FAILURE_WINDOW_SEC, 0 = off

ASSUME BreakerAssumption ==
    /\ Threshold \in Nat \ {0}
    /\ Timeout \in Nat \ {0}
    /\ HalfOpenTimeout \in Nat \ {0}
    /\ FailureWindow \in Nat

MaxAge == Max({Timeout, HalfOpenTimeout, FailureWindow + 1})

Ages == 0..MaxAge

\* Fails is capped at Threshold: a longer run is told apart by no test.
Breakers == [state : {"closed", "open", "halfOpen"}, fails : 0..Threshold,
             lastFail : Ages, halfOpen : Ages]

NewBreaker ==
    [state |-> "closed", fails |-> 0, lastFail |-> MaxAge, halfOpen |-> MaxAge]

Older(age, by) == IF age + by > MaxAge THEN MaxAge ELSE age + by

Elapse(b, by) == [b EXCEPT !.lastFail = Older(@, by), !.halfOpen = Older(@, by)]

-----------------------------------------------------------------------------

\* admitsIn: would allow() let a request through now?
Admits(b) == \/ b.state = "closed"
             \/ b.state = "open" /\ b.lastFail >= Timeout
             \/ b.state = "halfOpen" /\ b.halfOpen >= HalfOpenTimeout

\* The breaker after allow() has admitted a request: outside Closed the
\* admission takes the probe slot.
Admitted(b) == IF b.state = "closed" THEN b
               ELSE [b EXCEPT !.state = "halfOpen", !.halfOpen = 0]

RecordSuccess(b) ==
    [b EXCEPT !.state = "closed", !.fails = 0, !.halfOpen = MaxAge]

\* The run of failures that recordFailure extends: empty when the window is on
\* and the last failure of a closed breaker has aged out of it.
Run(b) == IF /\ b.state = "closed"
             /\ FailureWindow > 0
             /\ b.lastFail > FailureWindow
          THEN 0 ELSE b.fails

RecordFailure(b) ==
    LET run == Run(b) + 1
    IN  [b EXCEPT !.fails = IF run > Threshold THEN Threshold ELSE run,
                  !.lastFail = 0,
                  !.halfOpen = IF b.state = "halfOpen" THEN MaxAge ELSE @,
                  !.state = IF b.state = "closed" /\ run < Threshold
                            THEN "closed" ELSE "open"]

\* Nothing was learned: the probe slot is given back and the cooldown restarts.
RecordInconclusive(b) ==
    IF b.state = "halfOpen"
    THEN [b EXCEPT !.state = "open", !.lastFail = 0, !.halfOpen = MaxAge]
    ELSE b

=============================================================================
