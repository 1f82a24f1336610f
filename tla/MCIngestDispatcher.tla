------------------------- MODULE MCIngestDispatcher -------------------------
(* Instances of IngestDispatcher for TLC: three keys on two shards, so that *)
(* two keys share a queue.                                                  *)
EXTENDS IngestDispatcher, TLC

CONSTANTS k1, k2, k3

MCKeys == {k1, k2, k3}
MCShards == {0, 1}
MCShardIndexFor == k1 :> 0 @@ k2 :> 0 @@ k3 :> 1
=============================================================================
