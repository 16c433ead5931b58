---------------------------- MODULE BatchedLoad ----------------------------
(***************************************************************************)
(* What loading a file in batches promises: the lines to load are handed   *)
(* to the graph in order, each once, in batches of the size asked for (the *)
(* last one may be smaller); a batch takes effect as a whole or not at     *)
(* all; a load that is not abandoned has handed over every line.           *)
(***************************************************************************)
EXTENDS Naturals, FiniteSets

CONSTANT Items  \* what the graph holds

VARIABLES
    todo,   \* the lines still to hand over, each with its item
    size,   \* the size of a batch, 0 when no load runs
    graph,  \* the items in the graph
    busy    \* a load is running

vars == <<todo, size, graph, busy>>

Init ==
    /\ todo = << >> /\ size = 0 /\ graph = {} /\ busy = FALSE

Begin ==
    /\ ~busy /\ busy' = TRUE
    /\ size' \in Nat \ {0}
    /\ \A n \in DOMAIN todo' : n \in Nat \ {0} /\ todo'[n] \in Items
    /\ UNCHANGED graph

IsNext(b) ==
    /\ b \subseteq DOMAIN todo /\ b # {}
    /\ \A n \in b, m \in DOMAIN todo \ b : n < m
    /\ Cardinality(b) = size \/ (b = DOMAIN todo /\ Cardinality(b) < size)

HandOver ==
    /\ busy
    /\ \E b \in SUBSET DOMAIN todo :
          /\ IsNext(b)
          /\ todo' = [n \in DOMAIN todo \ b |-> todo[n]]
          /\ graph' \in {graph, graph \cup {todo[n] : n \in b}}
    /\ UNCHANGED <<size, busy>>

Finish ==
    /\ busy /\ DOMAIN todo = {}
    /\ busy' = FALSE /\ size' = 0
    /\ UNCHANGED <<todo, graph>>

(* A line that cannot be read ends the load.                               *)
Abandon ==
    /\ busy /\ busy' = FALSE
    /\ todo' = << >> /\ size' = 0
    /\ UNCHANGED graph

Next == Begin \/ HandOver \/ Finish \/ Abandon

Spec == Init /\ [][Next]_vars
=============================================================================
