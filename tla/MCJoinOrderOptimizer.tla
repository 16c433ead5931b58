------------------------ MODULE MCJoinOrderOptimizer ------------------------
(* Two triples, added once or twice, and patterns that form a chain, a     *)
(* star, a pair apart and a triangle.                                      *)
EXTENDS JoinOrderOptimizer, TLC

CONSTANTS knows, likes, typed, person, t1, t2

Id == [i \in {knows, likes, typed, person} |->
         CASE i = knows -> 11 [] i = likes -> 12 [] i = typed -> 13 [] i = person -> 14]

Triple(s, p, o) == [s |-> s, p |-> p, o |-> o]
MCTriples == {Triple(1, 11, 2), Triple(2, 12, 2)}
MCSymmetry == Permutations(Threads)

Pattern(s, p, o) == [s |-> s, p |-> p, o |-> o]
V(name) == Variable(name)
KnowsAB == Pattern(V("a"), Named(knows), V("b"))
LikesBC == Pattern(V("b"), Named(likes), V("c"))
KnowsCD == Pattern(V("c"), Named(knows), V("d"))
LikesXY == Pattern(V("x"), Named(likes), V("y"))
PersonA == Pattern(V("a"), Named(typed), Named(person))
TypeOfC == Pattern(V("c"), Named(typed), V("t"))
OneKnows == Pattern(Named(person), Named(knows), V("b"))
AnyAD == Pattern(V("a"), V("q"), V("d"))
Fact == Pattern(Named(person), Named(likes), Named(person))

MCBgps == {<< >>, <<KnowsAB, KnowsCD, LikesBC>>, <<KnowsAB, LikesXY>>,
           <<KnowsAB, LikesBC, PersonA>>, <<AnyAD, TypeOfC, OneKnows>>,
           <<KnowsAB, LikesXY, LikesBC, AnyAD>>, <<Fact, KnowsAB, LikesXY>>,
           <<KnowsCD, KnowsAB, LikesBC, AnyAD>>}

MCIndexed == {[i \in {11, 12, 13, 14} |-> IF i = 11 THEN <<1, 2>> ELSE <<1, 3>>]}
=============================================================================
