--------------------------- MODULE MCGraphRegistry --------------------------
(* Small instances of GraphRegistry.                                       *)
EXTENDS GraphRegistry

CONSTANTS ga, gb, gc

(* ga stands for a graph "a" and gb for "a:b", which the name check lets   *)
(* through; the pattern rdf:ns:a:* matches the keys rdf:ns:a:b:p.  gc has  *)
(* a name the check refuses ("my graph"), which RDF.INSERT takes.          *)
MCNames == {ga, gb, gc}
MCValid == {ga, gb}
MCCovers == [g \in MCNames |-> IF g = ga THEN {ga, gb} ELSE {g}]
=============================================================================
