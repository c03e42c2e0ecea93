---------------------------- MODULE MCRelayRetry ----------------------------
(* An auto token that crosses groups and a token of the first group share   *)
(* three channels: two tiers in the first group and one channel in the next. *)
EXTENDS RelayRetry, TLC

CONSTANTS r1, r2, c1, c2, c3

MCGroups == <<{c1, c2}, {c3}>>
MCPriority == c1 :> 1 @@ c2 :> 0 @@ c3 :> 0
MCTokenGroup == r1 :> 0 @@ r2 :> 1
MCSpecific == r1 :> {NoChannel} @@ r2 :> {NoChannel, c1}
=============================================================================
