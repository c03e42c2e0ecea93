-------------------------- MODULE MCChannelCooldown --------------------------
(* Two replicas and one channel: marks on either, lifts on the first. *)
EXTENDS ChannelCooldown, TLC

CONSTANTS a, b, m1, m2, x1

MCHome == m1 :> a @@ m2 :> b @@ x1 :> a
=============================================================================
