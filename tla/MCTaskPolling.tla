---------------------------- MODULE MCTaskPolling ----------------------------
(* Two pollers and two tasks with the same estimate: a video, and a task of  *)
(* any kind, of the same key or another, which the upstream may not name.    *)
EXTENDS TaskPolling, TLC

CONSTANTS p1, p2, t1, t2, h

Offer(kind, key, cost) ==
  [kind |-> kind, key |-> key, est |-> 2, cost |-> cost, id |-> TRUE,
   chan |-> "c1", via |-> "c1"]

MCOffers ==
  t1 :> {Offer("video", "k1", 1)}
  @@ t2 :> {Offer("video", "k1", 3), Offer("suno", "k2", 2), [Offer("mj", "k2", 2) EXCEPT !.via = "c2"],
            [Offer("video", "k1", 2) EXCEPT !.id = FALSE]}
MCLoop == p1 :> "task" @@ p2 :> "midjourney"
TwoLeaders == p1 :> "task" @@ p2 :> "task"
=============================================================================
