-------------------------- MODULE MCBillingBreaker --------------------------
(***************************************************************************)
(* Instances of BillingBreaker for TLC.                                    *)
(***************************************************************************)
EXTENDS BillingBreaker

\* A reply of every kind billing_client.go tells apart, and refusals it does not: a
\* 402 without the balance code, a 403.  A 5xx is met like a call that got no reply.
PlatformReplies ==
  {[op |-> o, status |-> s, balance |-> FALSE] : o \in Ops, s \in {200, 400}}
  \cup {[op |-> "preauth", status |-> 402, balance |-> b] : b \in BOOLEAN}
  \cup {[op |-> "settle", status |-> 404, balance |-> FALSE],
        [op |-> "release", status |-> 409, balance |-> FALSE]}
  \cup {[op |-> "settle", status |-> 403, balance |-> FALSE]}

\* A pre-authorization refused without the balance code.
SuspendedAccount == {[op |-> "preauth", status |-> 403, balance |-> FALSE]}
=============================================================================
