---------------------------- MODULE RecencyOrder -----------------------------
(***************************************************************************)
(* What a cache of the least-recently-used kind promises: keys and values  *)
(* in the order of their last use.  When there is no room for another key, *)
(* the one goes that has not been used for the longest time.               *)
(***************************************************************************)
EXTENDS Naturals, FiniteSets, Functions

CONSTANTS Keys, Values, Room

VARIABLES
    content,  \* from keys to values
    order     \* the pairs <<j, k>> where j was used after k

(* The order among keys that were there, and with k before all others.     *)
Among(ks) == order \cap (ks \X ks)
First(k, ks) == {<<k, j>> : j \in ks \ {k}} \cup Among(ks \ {k})

LeastUsed == {k \in DOMAIN content : \A j \in DOMAIN content \ {k} : <<j, k>> \in order}

Init == content = << >> /\ order = {}

(* A key is found, and comes first.                                        *)
Use(k) ==
    /\ order' = First(k, DOMAIN content)
    /\ content' = content

(* A value is stored: it comes first, and only the last may go for it.     *)
Store(k, v) ==
    LET full == Cardinality(DOMAIN content \cup {k}) > Room
        stay == IF full THEN DOMAIN content \ LeastUsed ELSE DOMAIN content
    IN /\ content' = [x \in stay \cup {k} |-> IF x = k THEN v ELSE content[x]]
       /\ order' = First(k, stay \cup {k})

(* Keys are taken out, or got too old.                                     *)
Drop(ks) ==
    /\ content' = Restrict(content, DOMAIN content \ ks)
    /\ order' = Among(DOMAIN content \ ks)

Next ==
    \/ \E k \in DOMAIN content : Use(k)
    \/ \E k \in Keys, v \in Values : Store(k, v)
    \/ \E ks \in SUBSET Keys : Drop(ks)

Spec == Init /\ [][Next]_<<content, order>>
=============================================================================
