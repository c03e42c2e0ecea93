---------------------------- MODULE DegradedSpend ----------------------------
(***************************************************************************)
(* The rolling cap on unsecured spend (reserveDegradedSpend,               *)
(* pkg/common/billing_cache.go): while the platform is out, requests of    *)
(* one tenant reserve their estimate on a Redis counter shared by every    *)
(* replica.  The reservation is a GET, an INCRBYFLOAT and, for the first   *)
(* one of a window, an EXPIRE: three round trips.  (The names start with   *)
(* Spend where BillingBreaker, which the proofs extend too, has them.)     *)
(***************************************************************************)
EXTENDS Integers, FiniteSets

CONSTANTS
  Slots,      \* relay handlers that may be in TryDegradedPreAuth at once
  Estimates,  \* estimated costs of a request
  MaxEstimate,
  Cap,        \* BillingDegradedSpendCapLB
  MaxFaults   \* bound on Redis errors and on handlers killed between round trips

ASSUME DegradedAssumption ==
  /\ IsFiniteSet(Slots) /\ MaxEstimate \in Nat /\ Estimates \subseteq 1 .. MaxEstimate
  /\ Cap \in Nat \ {0} /\ MaxFaults \in Nat

VARIABLES
  spend,    \* the counter; 0 when the key is absent
  stamped,  \* whether the key carries a TTL
  trip,     \* the next round trip of each handler
  estimate, \* the estimate it reserves
  faults

spendVars == <<spend, stamped, trip, estimate, faults>>

SpendTypeOK ==
  /\ spend \in Nat
  /\ stamped \in BOOLEAN
  /\ trip \in [Slots -> {"get", "incr", "expire"}]
  /\ estimate \in [Slots -> Estimates]
  /\ faults \in 0 .. MaxFaults

SpendInit ==
  /\ spend = 0 /\ stamped = FALSE
  /\ trip = [s \in Slots |-> "get"]
  /\ estimate \in [Slots -> Estimates]
  /\ faults = 0

-----------------------------------------------------------------------------
\* Handler s is through, and serves its next request.
NextRequest(s) ==
  /\ trip' = [trip EXCEPT ![s] = "get"]
  /\ estimate' \in {[estimate EXCEPT ![s] = e] : e \in Estimates}

\* Mutant: the counter is not consulted.
GetUncapped(s) ==
  /\ trip[s] = "get"
  /\ trip' = [trip EXCEPT ![s] = "incr"]
  /\ UNCHANGED <<spend, stamped, estimate, faults>>

\* RDB.Get finds room under the cap.
Get(s) ==
  /\ trip[s] = "get" /\ spend < Cap
  /\ trip' = [trip EXCEPT ![s] = "incr"]
  /\ UNCHANGED <<spend, stamped, estimate, faults>>

\* RDB.Get finds the cap reached: the request is refused.
GetRefuses(s) ==
  /\ trip[s] = "get" /\ spend >= Cap
  /\ NextRequest(s)
  /\ UNCHANGED <<spend, stamped, faults>>

\* RDB.Get fails: its error is dropped and the counter reads as 0.
GetFails(s) ==
  /\ trip[s] = "get" /\ faults < MaxFaults
  /\ trip' = [trip EXCEPT ![s] = "incr"]
  /\ faults' = faults + 1
  /\ UNCHANGED <<spend, stamped, estimate>>

\* RDB.IncrByFloat; the first write of a window goes on to stamp it.
Incr(s) ==
  /\ trip[s] = "incr"
  /\ spend' = spend + estimate[s]
  /\ IF spend' = estimate[s]
     THEN trip' = [trip EXCEPT ![s] = "expire"] /\ UNCHANGED estimate
     ELSE NextRequest(s)
  /\ UNCHANGED <<stamped, faults>>

\* RDB.IncrByFloat returns an error, applied or not: the request is refused.
IncrFails(s) ==
  /\ trip[s] = "incr" /\ faults < MaxFaults
  /\ spend' \in {spend, spend + estimate[s]}
  /\ NextRequest(s)
  /\ faults' = faults + 1
  /\ UNCHANGED stamped

\* Mutant: the window is never stamped.
ExpireForgotten(s) ==
  /\ trip[s] = "expire"
  /\ NextRequest(s)
  /\ UNCHANGED <<spend, stamped, faults>>

\* RDB.Expire; on an absent key it does nothing.
Expire(s) ==
  /\ trip[s] = "expire"
  /\ NextRequest(s)
  /\ stamped' = (spend > 0)
  /\ UNCHANGED <<spend, faults>>

\* The process is killed; its successor starts over.
Crash(s) ==
  /\ trip[s] # "get" /\ faults < MaxFaults
  /\ faults' = faults + 1
  /\ NextRequest(s)
  /\ UNCHANGED <<spend, stamped>>

\* Redis drops a stamped key at the end of its window.
WindowEnds ==
  /\ stamped
  /\ spend' = 0 /\ stamped' = FALSE
  /\ UNCHANGED <<trip, estimate, faults>>

SpendNext ==
  \/ \E s \in Slots : \/ Get(s) \/ GetRefuses(s) \/ GetFails(s)
                       \/ Incr(s) \/ IncrFails(s) \/ Expire(s) \/ Crash(s)
  \/ WindowEnds

SpendSpec == SpendInit /\ [][SpendNext]_spendVars

\* Handlers that have started finish, and windows end.
SpendLiveSpec ==
  /\ SpendSpec /\ WF_spendVars(WindowEnds)
  /\ \A s \in Slots : WF_spendVars(Incr(s) \/ IncrFails(s) \/ Expire(s))

-----------------------------------------------------------------------------
\* The cap holds up to one estimate per handler that was already past the check,
\* and one per Redis error that was read as an empty counter.
OvershootBounded ==
  spend < Cap + (Cardinality(Slots) + faults) * MaxEstimate

\* A tenant at its cap is admitted again when the window rolls, as long as no
\* Redis error and no kill hit a reservation.
WindowReopens == spend >= Cap ~> spend = 0 \/ faults > 0

\* A tenant at its cap is refused "until the window rolls" (constants.go), and
\* the window does roll.
WindowRolls == spend >= Cap ~> spend = 0
=============================================================================
