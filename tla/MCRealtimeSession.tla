-------------------------- MODULE MCRealtimeSession --------------------------
(* A session of a few messages each way, with a ratio that rounds. *)
EXTENDS RealtimeSession
=============================================================================
