---------------------------- MODULE MCLeaderLease ----------------------------
(* Two replicas; a call may hang for longer than the lease lasts.            *)
EXTENDS LeaderLease

CONSTANTS n1, n2
=============================================================================
