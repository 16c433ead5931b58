----------------------------- MODULE MCLruCache -----------------------------
(* Four plans of which two share a hash, room for two that live for two   *)
(* ticks; caches of two names with room for one and for none.              *)
EXTENDS LruCache

MCNormalize == [t \in {"ask", " ask", "select", "describe", "construct"} |->
                  IF t = " ask" THEN "ask" ELSE t]
MCHash == [n \in {"ask", "select", "describe", "construct"} |->
             CASE n = "ask" -> 1 [] n = "construct" -> 3 [] OTHER -> 2]
MCCapacity == [plans |-> 2, expansions |-> 1, contractions |-> 0]
MCTimeToLive == [plans |-> 2, expansions |-> Forever, contractions |-> Forever]
=============================================================================
