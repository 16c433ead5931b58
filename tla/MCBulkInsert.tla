---------------------------- MODULE MCBulkInsert ----------------------------
(* Small instances of BulkInsert.                                          *)
EXTENDS BulkInsert

CONSTANTS ta1, ta2, tb, listHead, listFirst, listEnd, listBack, a, b, Nil, x, one

MCTriples == {ta1, ta2, tb, listHead, listFirst, listEnd, listBack}
MCPredicates == {"p", "type", "first", "rest"}

(* Two triples of one subject and one of another; a list of one cell, and  *)
(* a rest that makes it come back to that cell.                            *)
MCTripleOf ==
    LET T(s, p, o) == [s |-> s, p |-> p, o |-> o] IN
    [t \in MCTriples |->
        CASE t = ta1 -> T(a, "p", b)
          [] t = ta2 -> T(a, "p", one)
          [] t = tb -> T(b, "p", one)
          [] t = listHead -> T(a, "p", x)
          [] t = listFirst -> T(x, "first", one)
          [] t = listEnd -> T(x, "rest", Nil)
          [] t = listBack -> T(x, "rest", x)]

MCLocalName == [p \in MCPredicates |-> p]
MCTypeLabel == [i \in {a, b, Nil} |-> i]

(* Batches that end in the middle, at the last line and before trailing    *)
(* lines that hold no triple; repeated triples; every kind of line; lists  *)
(* that are in one batch or cut by its end.                                *)
MCFiles == {<<ta1, ta2, tb>>, <<ta1, "blank", tb, ta1, "blank">>,
            <<"bad", ta1, ta2, tb>>, <<tb, ta1, "unreadable", ta2>>,
            <<ta1, "bad", "blank">>, << >>,
            <<listHead, listFirst, listEnd, tb>>, <<listHead, listFirst, listBack, tb>>}
=============================================================================
