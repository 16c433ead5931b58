--------------------------- MODULE LruCacheProofs ---------------------------
(***************************************************************************)
(* Proofs about LruCache, for any texts and names, any normalization and   *)
(* hash, any capacities and times to live.                                 *)
(***************************************************************************)
EXTENDS LruCache, FiniteSetTheorems, WellFoundedInduction, TLAPS

(* An entry is what was stored last under the text it is for, at the time  *)
(* it says.                                                                *)
IsCurrent(last, c, k, e) ==
    /\ e = [of |-> e.of, value |-> e.value, last_access |-> e.last_access, created |-> e.created]
    /\ e.of \in Asked(c) /\ Key(c, e.of) = k
    /\ e.value = e.created /\ e.created \in Nat /\ e.last_access \in Nat
    /\ last[c][e.of] = e.value

TypeOK ==
    /\ now \in Nat
    /\ DOMAIN entries = Caches
    /\ DOMAIN latest = Caches
    /\ \A c \in Caches : DOMAIN latest[c] = Asked(c)

EntriesAreCurrent ==
    \A c \in Caches : \A k \in DOMAIN entries[c] : IsCurrent(latest, c, k, entries[c][k])

IInv == TypeOK /\ EntriesAreCurrent
-----------------------------------------------------------------------------
(* Operations on one cache *)

(* m has no entry that n has not. *)
Within(m, n) == DOMAIN m \subseteq DOMAIN n /\ \A k \in DOMAIN m : m[k] = n[k]

LEMMA DropDrops ==
  ASSUME NEW m, NEW ks
  PROVE  Within(Drop(m, ks), m) /\ DOMAIN Drop(m, ks) = DOMAIN m \ ks
BY DEF Within, Drop, Restrict

LEMMA EvictDrops ==
  ASSUME NEW m
  PROVE  Within(EvictLru(m), m)
<1>1. CASE DOMAIN m = {}
  BY <1>1 DEF EvictLru, Within
<1>2. CASE DOMAIN m # {}
  <2> DEFINE k == CHOOSE k \in DOMAIN m : \A j \in DOMAIN m : m[k].last_access <= m[j].last_access
  <2>1. EvictLru(m) = Drop(m, {k})
    BY <1>2 DEF EvictLru
  <2> HIDE DEF k
  <2> QED BY <2>1, DropDrops
<1> QED BY <1>1, <1>2

(* What Insert has is the new entry or was there before. *)
LEMMA InsertAdds ==
  ASSUME NEW m, NEW c, NEW k, NEW e
  PROVE  /\ k \in DOMAIN Insert(m, c, k, e)
         /\ Insert(m, c, k, e)[k] = e
         /\ \A j \in DOMAIN Insert(m, c, k, e) \ {k} :
              j \in DOMAIN m /\ Insert(m, c, k, e)[j] = m[j]
<1> DEFINE kept == IF Cardinality(DOMAIN m) >= Capacity[c] /\ k \notin DOMAIN m
                   THEN EvictLru(m) ELSE m
<1>1. Within(kept, m)
  BY EvictDrops DEF Within
<1>2. Insert(m, c, k, e) = Put(kept, k, e)
  BY DEF Insert
<1> HIDE DEF kept
<1> QED BY <1>1, <1>2 DEF Put, Within

(* Entries that stay and of which no other text was stored stay current.   *)
LEMMA StillCurrent ==
  ASSUME NEW c, NEW k, NEW e, IsCurrent(latest, c, k, e), latest'[c][e.of] = latest[c][e.of]
  PROVE  IsCurrent(latest', c, k, e)
BY DEF IsCurrent

(* A step that only takes entries away or touches their last_access. *)
LEMMA CurrentAfter ==
  ASSUME EntriesAreCurrent, TypeOK, NEW c \in Caches, NEW m, Step(c, m),
         \A k \in DOMAIN m : IsCurrent(latest', c, k, m[k]),
         \A d \in Caches \ {c} : latest'[d] = latest[d]
  PROVE  EntriesAreCurrent'
<1> SUFFICES ASSUME NEW d \in Caches, NEW k \in DOMAIN entries'[d]
             PROVE  IsCurrent(latest', d, k, entries'[d][k])
  BY DEF EntriesAreCurrent
<1>1. CASE d = c
  BY <1>1 DEF Step, TypeOK
<1>2. CASE d # c
  BY <1>2, StillCurrent DEF Step, TypeOK, EntriesAreCurrent
<1> QED BY <1>1, <1>2
-----------------------------------------------------------------------------
(* Steps *)

LEMMA LookupStep ==
  ASSUME IInv, NEW c \in Caches, NEW x \in Asked(c), Lookup(c, x)
  PROVE  IInv' /\ AnswersAreCurrent'
<1> DEFINE m == entries[c]
           k == Key(c, x)
<1> USE DEF IInv
<1>1. TypeOK'
  BY DEF Lookup, Step, TypeOK
<1>2. ASSUME NEW j \in DOMAIN Get(m, c, k)
      PROVE  IsCurrent(latest', c, j, Get(m, c, k)[j])
  <2>1. j \in DOMAIN m /\ IsCurrent(latest, c, j, m[j])
    BY DropDrops DEF Get, Within, EntriesAreCurrent
  <2>2. IsCurrent(latest', c, j, m[j])
    BY <2>1, StillCurrent DEF Lookup
  <2>3. CASE Get(m, c, k)[j] = m[j]
    BY <2>2, <2>3
  <2>4. CASE k = j /\ Get(m, c, k) = [m EXCEPT ![k].last_access = now]
    <3>1. Get(m, c, k)[j] = [m[k] EXCEPT !.last_access = now]
      BY <2>1, <2>4
    <3> HIDE DEF m
    <3> QED BY <2>2, <2>4, <3>1 DEF IsCurrent, TypeOK
  <2>5. Within(Drop(m, {k}), m)
    BY DropDrops
  <2>6. \/ Get(m, c, k) = m
        \/ Get(m, c, k) = Drop(m, {k})
        \/ Get(m, c, k) = [m EXCEPT ![k].last_access = now]
    BY DEF Get
  <2> HIDE DEF m, k
  <2> QED BY <2>1, <2>3, <2>4, <2>5, <2>6 DEF Within
<1>3. EntriesAreCurrent'
  BY <1>2, CurrentAfter DEF Lookup
<1>4. AnswersAreCurrent'
  <2> SUFFICES ASSUME answer'.value # None
               PROVE  AnswersAreCurrent'
    BY DEF AnswersAreCurrent
  <2> DEFINE e == m[k]
  <2>1. /\ k \in DOMAIN m /\ ~Expired(c, e) /\ e.of = x
        /\ answer' = [cache |-> c, key |-> x, value |-> e.value]
    BY DEF Lookup, Answer, Found
  <2>2. IsCurrent(latest, c, k, e)
    BY <2>1 DEF EntriesAreCurrent
  <2>3. latest'[c][x] = e.value
    BY <2>1, <2>2 DEF IsCurrent, Lookup
  <2>4. TimeToLive[c] # Forever => now' - 1 - e.value <= TimeToLive[c]
    BY <2>1, <2>2, LimitsAssumption DEF IsCurrent, Expired, Lookup, Step, TypeOK
  <2> QED BY <2>1, <2>3, <2>4 DEF AnswersAreCurrent
<1> QED BY <1>1, <1>3, <1>4

LEMMA StoreStep ==
  ASSUME IInv, NEW c \in Caches, NEW x \in Asked(c), Store(c, x)
  PROVE  IInv'
<1> DEFINE k == Key(c, x)
           e == [of |-> x, value |-> now, last_access |-> now, created |-> now]
           m == Insert(entries[c], c, k, e)
<1> USE DEF IInv
<1>1. TypeOK'
  BY DEF Store, Step, Remember, TypeOK
<1>2. /\ latest'[c][x] = now
      /\ \A y \in Asked(c) \ {x} : latest'[c][y] = latest[c][y]
      /\ \A d \in Caches \ {c} : latest'[d] = latest[d]
  BY DEF Store, Remember, TypeOK
<1>3. ASSUME NEW j \in DOMAIN m
      PROVE  IsCurrent(latest', c, j, m[j])
  <2>1. CASE j = k
    <3>1. m[j] = e
      BY <2>1, InsertAdds
    <3> QED BY <2>1, <3>1, <1>2 DEF IsCurrent, Asked, Key, NormalForms, TypeOK
  <2>2. CASE j # k
    <3>1. m[j] = entries[c][j] /\ j \in DOMAIN entries[c]
      BY <2>2, InsertAdds
    <3>2. IsCurrent(latest, c, j, m[j])
      BY <3>1 DEF EntriesAreCurrent
    <3>3. m[j].of \in Asked(c) \ {x}
      BY <2>2, <3>2 DEF IsCurrent
    <3> QED BY <3>2, <3>3, <1>2, StillCurrent
  <2> QED BY <2>1, <2>2
<1>4. EntriesAreCurrent'
  BY <1>2, <1>3, CurrentAfter DEF Store
<1> QED BY <1>1, <1>4

LEMMA InvalidateStep ==
  ASSUME IInv, NEW x \in Asked("plans"), Invalidate(x)
  PROVE  IInv'
<1> DEFINE k == Key("plans", x)
           m == Drop(entries["plans"], {k})
<1> USE DEF IInv, Caches
<1>1. TypeOK'
  BY DEF Invalidate, Step, Remember, TypeOK
<1>2. /\ \A y \in Asked("plans") \ {x} : latest'["plans"][y] = latest["plans"][y]
      /\ \A d \in Caches \ {"plans"} : latest'[d] = latest[d]
  BY DEF Invalidate, Remember, TypeOK
<1>3. ASSUME NEW j \in DOMAIN m
      PROVE  IsCurrent(latest', "plans", j, m[j])
  <2>1. m[j] = entries["plans"][j] /\ j \in DOMAIN entries["plans"] \ {k}
    <3>1. Within(m, entries["plans"]) /\ DOMAIN m = DOMAIN entries["plans"] \ {k}
      BY DropDrops
    <3> QED BY <3>1 DEF Within
  <2>2. IsCurrent(latest, "plans", j, m[j])
    BY <2>1 DEF EntriesAreCurrent
  <2>3. m[j].of \in Asked("plans") \ {x}
    BY <2>1, <2>2 DEF IsCurrent
  <2> QED BY <2>2, <2>3, <1>2, StillCurrent
<1>4. EntriesAreCurrent'
  BY <1>2, <1>3, CurrentAfter DEF Invalidate
<1> QED BY <1>1, <1>4

LEMMA EvictExpiredStep ==
  ASSUME IInv, EvictExpired
  PROVE  IInv'
<1> DEFINE ks == {k \in DOMAIN entries["plans"] : Expired("plans", entries["plans"][k])}
           m == Drop(entries["plans"], ks)
<1> USE DEF IInv, Caches
<1>1. TypeOK'
  BY DEF EvictExpired, Step, TypeOK
<1>2. ASSUME NEW j \in DOMAIN m
      PROVE  IsCurrent(latest', "plans", j, m[j])
  <2>1. m[j] = entries["plans"][j] /\ j \in DOMAIN entries["plans"]
    <3>1. Within(m, entries["plans"])
      BY DropDrops
    <3> HIDE DEF m
    <3> QED BY <3>1 DEF Within
  <2> QED BY <2>1, StillCurrent DEF EntriesAreCurrent, EvictExpired
<1>3. EntriesAreCurrent'
  BY <1>2, CurrentAfter DEF EvictExpired
<1> QED BY <1>1, <1>3

LEMMA EmptiedStep ==
  ASSUME IInv, NEW c \in Caches, Emptied(c)
  PROVE  IInv'
<1> USE DEF IInv
<1>1. TypeOK'
  BY DEF Emptied, Step, TypeOK
<1>2. \A d \in Caches \ {c} : latest'[d] = latest[d]
  BY DEF Emptied, TypeOK
<1>3. EntriesAreCurrent'
  BY <1>2, CurrentAfter DEF Emptied
<1> QED BY <1>1, <1>3
-----------------------------------------------------------------------------
LEMMA Start == Init => IInv /\ AnswersAreCurrent
BY DEF Init, IInv, TypeOK, EntriesAreCurrent, AnswersAreCurrent, NoAnswer, Asked, NormalForms

LEMMA Preserved ==
  ASSUME IInv, AnswersAreCurrent, [Next]_vars
  PROVE  IInv' /\ AnswersAreCurrent'
<1>1. \A t \in Texts : Normalize[t] \in Asked("plans")
  BY DEF Asked, NormalForms
<1>2. \A c \in NameCaches : c \in Caches /\ Asked(c) = Names
  BY DEF Asked, NameCaches
<1>3. answer' = NoAnswer => AnswersAreCurrent'
  BY DEF NoAnswer, AnswersAreCurrent
<1>4. CASE \E t \in Texts : Lookup("plans", Normalize[t]) \/ Store("plans", Normalize[t])
                            \/ Invalidate(Normalize[t])
  BY <1>1, <1>3, <1>4, LookupStep, StoreStep, InvalidateStep DEF Store, Invalidate, Caches
<1>5. CASE \E c \in NameCaches, x \in Names : Lookup(c, x) \/ Store(c, x)
  BY <1>2, <1>3, <1>5, LookupStep, StoreStep DEF Store
<1>6. CASE EvictExpired
  BY <1>3, <1>6, EvictExpiredStep DEF EvictExpired
<1>7. CASE ClearPlans \/ ClearNames
  BY <1>3, <1>7, EmptiedStep DEF ClearPlans, ClearNames, Emptied, Caches
<1>8. CASE UNCHANGED vars
  BY <1>8 DEF vars, IInv, TypeOK, EntriesAreCurrent, IsCurrent, AnswersAreCurrent,
              Asked, NormalForms, Key
<1> QED BY <1>4, <1>5, <1>6, <1>7, <1>8 DEF Next

(* Whatever hashes collide and whatever is evicted, stored again or        *)
(* cleared, what is answered is what was stored last under these words     *)
(* and not too old.                                                        *)
THEOREM AnswersCurrent == Spec => []AnswersAreCurrent
<1> QED BY Start, Preserved, PTL DEF Spec
-----------------------------------------------------------------------------
(* Room *)

Fits(c, m) == IsFiniteSet(DOMAIN m) /\ Cardinality(DOMAIN m) <= RoomOf(c)

CachesFit == \A c \in Caches : Fits(c, entries[c])

(* Natural numbers have a least one, and so does what is ranked by them. *)
LEMMA LeastRank ==
  ASSUME NEW K, K # {}, NEW rank \in [K -> Nat]
  PROVE  \E k \in K : \A j \in K : rank[k] <= rank[j]
<1> DEFINE ranks == {rank[k] : k \in K}
<1>1. ranks \subseteq Nat /\ ranks # {}
  OBVIOUS
<1>2. PICK n \in ranks : \A i \in ranks : ~(<<i, n>> \in OpToRel(<, Nat))
  BY <1>1, NatLessThanWellFounded, WFMin
<1>3. ASSUME NEW i \in ranks
      PROVE  n <= i
  <2>1. i \in Nat /\ n \in Nat
    BY <1>1
  <2> HIDE DEF ranks
  <2>2. ~(i < n)
    BY <1>2, <2>1 DEF OpToRel
  <2> QED BY <2>1, <2>2
<1> QED BY <1>2, <1>3

(* A cache that is not empty has a least recently used entry, and          *)
(* evict_lru makes room for one.                                           *)
LEMMA EvictMakesRoom ==
  ASSUME NEW m, IsFiniteSet(DOMAIN m), DOMAIN m # {},
         \A k \in DOMAIN m : m[k].last_access \in Nat
  PROVE  /\ IsFiniteSet(DOMAIN EvictLru(m))
         /\ Cardinality(DOMAIN EvictLru(m)) = Cardinality(DOMAIN m) - 1
<1> DEFINE rank == [k \in DOMAIN m |-> m[k].last_access]
           least(k) == \A j \in DOMAIN m : m[k].last_access <= m[j].last_access
           victim == CHOOSE k \in DOMAIN m : least(k)
<1>1. rank \in [DOMAIN m -> Nat]
  OBVIOUS
<1>2. \E k \in DOMAIN m : \A j \in DOMAIN m : rank[k] <= rank[j]
  BY <1>1, LeastRank
<1>3. victim \in DOMAIN m
  BY <1>2
<1>4. EvictLru(m) = Drop(m, {victim})
  BY DEF EvictLru
<1> HIDE DEF victim
<1>5. DOMAIN EvictLru(m) = DOMAIN m \ {victim}
  BY <1>4, DropDrops
<1> QED BY <1>3, <1>5, FS_RemoveElement

LEMMA RoomForOne ==
  \A c \in Caches : RoomOf(c) \in Nat /\ RoomOf(c) >= 1 /\ RoomOf(c) >= Capacity[c]
BY LimitsAssumption DEF RoomOf

LEMMA InsertFits ==
  ASSUME NEW c \in Caches, NEW m, Fits(c, m), NEW k, NEW e,
         \A j \in DOMAIN m : m[j].last_access \in Nat
  PROVE  Fits(c, Insert(m, c, k, e))
<1> DEFINE full == Cardinality(DOMAIN m) >= Capacity[c] /\ k \notin DOMAIN m
           kept == IF full THEN EvictLru(m) ELSE m
<1>1. DOMAIN Insert(m, c, k, e) = DOMAIN kept \cup {k}
  BY DEF Insert, Put
<1>2. Cardinality(DOMAIN m) \in Nat /\ Capacity[c] \in Nat
  BY FS_CardinalityType, LimitsAssumption DEF Fits
<1>3. CASE k \in DOMAIN m
  <2>1. DOMAIN kept \cup {k} = DOMAIN m
    BY <1>3
  <2> QED BY <1>1, <2>1 DEF Fits
<1>4. CASE k \notin DOMAIN m /\ ~full
  <2>1. /\ IsFiniteSet(DOMAIN m \cup {k})
        /\ Cardinality(DOMAIN m \cup {k}) = Cardinality(DOMAIN m) + 1
    BY <1>4, FS_AddElement DEF Fits
  <2>2. Cardinality(DOMAIN m) < Capacity[c]
    BY <1>2, <1>4
  <2> QED BY <1>1, <1>2, <1>4, <2>1, <2>2, RoomForOne DEF Fits
<1>5. CASE full /\ DOMAIN m = {}
  <2>1. EvictLru(m) = m
    BY <1>5 DEF EvictLru
  <2>2. DOMAIN kept \cup {k} = {k}
    BY <1>5, <2>1
  <2>3. IsFiniteSet({k}) /\ Cardinality({k}) = 1
    BY FS_Singleton
  <2> QED BY <1>1, <2>2, <2>3, RoomForOne DEF Fits
<1>6. CASE full /\ DOMAIN m # {}
  <2>1. /\ IsFiniteSet(DOMAIN EvictLru(m))
        /\ Cardinality(DOMAIN EvictLru(m)) = Cardinality(DOMAIN m) - 1
    BY <1>6, EvictMakesRoom DEF Fits
  <2>2. k \notin DOMAIN EvictLru(m)
    BY <1>6, EvictDrops DEF Within
  <2>3. /\ IsFiniteSet(DOMAIN EvictLru(m) \cup {k})
        /\ Cardinality(DOMAIN EvictLru(m) \cup {k}) = Cardinality(DOMAIN m)
    <3> DEFINE rest == DOMAIN EvictLru(m)
    <3>1. IsFiniteSet(rest) /\ k \notin rest /\ Cardinality(rest) = Cardinality(DOMAIN m) - 1
      BY <2>1, <2>2
    <3> HIDE DEF rest
    <3>2. Cardinality(rest \cup {k}) = Cardinality(rest) + 1 /\ IsFiniteSet(rest \cup {k})
      BY <3>1, FS_AddElement
    <3>3. Cardinality(rest \cup {k}) = Cardinality(DOMAIN m)
      BY <1>2, <3>1, <3>2
    <3> QED BY <3>2, <3>3 DEF rest
  <2> QED BY <1>1, <1>6, <2>3 DEF Fits
<1> QED BY <1>3, <1>4, <1>5, <1>6

LEMMA SmallerFits ==
  ASSUME NEW c \in Caches, NEW m, NEW n, Fits(c, m), DOMAIN n \subseteq DOMAIN m
  PROVE  Fits(c, n)
BY FS_Subset, FS_CardinalityType, RoomForOne DEF Fits

LEMMA FitsAfter ==
  ASSUME IInv, CachesFit, NEW c \in Caches, NEW m, Step(c, m), Fits(c, m)
  PROVE  CachesFit'
BY DEF IInv, TypeOK, CachesFit, Step, Fits, RoomOf

LEMMA StillFit ==
  ASSUME IInv, CachesFit, [Next]_vars
  PROVE  CachesFit'
<1> USE DEF IInv, Caches, NameCaches
<1>1. \A c \in Caches : Fits(c, entries[c])
  BY DEF CachesFit
<1>2. \A c \in Caches : Fits(c, << >>)
  BY FS_EmptySet, RoomForOne DEF Fits
<1>3. ASSUME NEW c \in Caches, NEW x, Lookup(c, x)
      PROVE  CachesFit'
  <2>1. DOMAIN Get(entries[c], c, Key(c, x)) \subseteq DOMAIN entries[c]
    BY DropDrops DEF Get, Within
  <2> QED BY <1>1, <1>3, <2>1, SmallerFits, FitsAfter DEF Lookup
<1>4. ASSUME NEW c \in Caches, NEW x, Store(c, x)
      PROVE  CachesFit'
  <2>1. \A j \in DOMAIN entries[c] : entries[c][j].last_access \in Nat
    BY DEF EntriesAreCurrent, IsCurrent
  <2> QED BY <1>1, <1>4, <2>1, InsertFits, FitsAfter DEF Store
<1>5. ASSUME NEW c \in Caches, NEW ks, Step(c, Drop(entries[c], ks))
      PROVE  CachesFit'
  <2>1. DOMAIN Drop(entries[c], ks) \subseteq DOMAIN entries[c]
    BY DropDrops
  <2> QED BY <1>1, <1>5, <2>1, SmallerFits, FitsAfter
<1>6. ASSUME NEW c \in Caches, Emptied(c)
      PROVE  CachesFit'
  BY <1>2, <1>6, FitsAfter DEF Emptied
<1>7. CASE UNCHANGED vars
  BY <1>7 DEF vars, CachesFit, Fits, RoomOf
<1> QED BY <1>3, <1>4, <1>5, <1>6, <1>7
        DEF Next, Invalidate, EvictExpired, ClearPlans, ClearNames

(* No cache ever holds more than its capacity, or one entry if that is 0,  *)
(* whatever comes in: evict_lru always finds an entry to take out.         *)
THEOREM CapacityKept == Spec => []CachesFit
<1>1. Init => CachesFit
  BY FS_EmptySet, RoomForOne DEF Init, CachesFit, Fits, Caches
<1> QED BY <1>1, Start, Preserved, StillFit, PTL DEF Spec
-----------------------------------------------------------------------------
(* The order of last use *)

(* The steps of RecencyOrder, as relations between its states.             *)
FirstIn(k, ks, order) ==
    {<<k, j>> : j \in ks \ {k}} \cup (order \cap ((ks \ {k}) \X (ks \ {k})))

LastIn(content, order) ==
    {k \in DOMAIN content : \A j \in DOMAIN content \ {k} : <<j, k>> \in order}

UseOf(content, order, content2, order2, k) ==
    order2 = FirstIn(k, DOMAIN content, order) /\ content2 = content

StayFor(content, order, k, room) ==
    IF Cardinality(DOMAIN content \cup {k}) > room
    THEN DOMAIN content \ LastIn(content, order) ELSE DOMAIN content

StoreOf(content, order, content2, order2, k, v, room) ==
    LET stay == StayFor(content, order, k, room) IN
    /\ content2 = [x \in stay \cup {k} |-> IF x = k THEN v ELSE content[x]]
    /\ order2 = FirstIn(k, stay \cup {k}, order)

DropOf(content, order, content2, order2, ks) ==
    /\ content2 = Restrict(content, DOMAIN content \ ks)
    /\ order2 = order \cap ((DOMAIN content \ ks) \X (DOMAIN content \ ks))

KeysOf(c) == IF c = "plans" THEN {Hash[x] : x \in NormalForms} ELSE Names

(* What may become of cache m of kind c in one step.                       *)
Becomes(c, m, n) ==
    \/ \E k \in DOMAIN ContentOf(m) :
         UseOf(ContentOf(m), OrderOf(m), ContentOf(n), OrderOf(n), k)
    \/ \E k \in KeysOf(c), v \in 0 .. MaxTime :
         StoreOf(ContentOf(m), OrderOf(m), ContentOf(n), OrderOf(n), k, v, RoomOf(c))
    \/ \E ks \in SUBSET KeysOf(c) :
         DropOf(ContentOf(m), OrderOf(m), ContentOf(n), OrderOf(n), ks)
    \/ ContentOf(n) = ContentOf(m) /\ OrderOf(n) = OrderOf(m)

(* No two entries of a cache were used last at the same time.              *)
Ranked(m, t) ==
    /\ \A k \in DOMAIN m : m[k].last_access \in Nat /\ m[k].last_access < t
    /\ \A j, k \in DOMAIN m : m[j].last_access = m[k].last_access => j = k

RankInv == \A c \in Caches : Ranked(entries[c], now)

OrderInv == IInv /\ CachesFit /\ RankInv

LEMMA InOrder ==
  ASSUME NEW m, NEW j, NEW k
  PROVE  <<j, k>> \in OrderOf(m) <=>
           j \in DOMAIN m /\ k \in DOMAIN m /\ m[j].last_access > m[k].last_access
BY DEF OrderOf

LEMMA OrderIsPairs ==
  ASSUME NEW m, NEW p \in OrderOf(m)
  PROVE  p = <<p[1], p[2]>>
BY DEF OrderOf

LEMMA DropOrders ==
  ASSUME NEW m, NEW ks, NEW t \in Nat, Ranked(m, t), NEW n, n = Drop(m, ks)
  PROVE  /\ DropOf(ContentOf(m), OrderOf(m), ContentOf(n), OrderOf(n), ks)
         /\ Ranked(n, t + 1)
<1>1. /\ DOMAIN n = DOMAIN m \ ks
      /\ \A k \in DOMAIN n : n[k] = m[k]
  BY DEF Drop, Restrict
<1>2. Ranked(n, t + 1)
  BY <1>1 DEF Ranked
<1>3. ContentOf(n) = Restrict(ContentOf(m), DOMAIN ContentOf(m) \ ks)
  BY <1>1 DEF ContentOf, Restrict
<1>4. OrderOf(n) = OrderOf(m) \cap ((DOMAIN m \ ks) \X (DOMAIN m \ ks))
  BY <1>1 DEF OrderOf
<1>5. DOMAIN ContentOf(m) = DOMAIN m
  BY DEF ContentOf
<1> QED BY <1>2, <1>3, <1>4, <1>5 DEF DropOf

LEMMA UseOrders ==
  ASSUME NEW m, NEW k \in DOMAIN m, NEW t \in Nat, Ranked(m, t), NEW n,
         DOMAIN n = DOMAIN m, \A j \in DOMAIN m \ {k} : n[j] = m[j],
         n[k].value = m[k].value, n[k].last_access = t
  PROVE  /\ UseOf(ContentOf(m), OrderOf(m), ContentOf(n), OrderOf(n), k)
         /\ Ranked(n, t + 1)
<1>1. Ranked(n, t + 1)
  <2>1. \A j \in DOMAIN m \ {k} : n[j].last_access \in Nat /\ n[j].last_access < t
    BY DEF Ranked
  <2>2. \A j \in DOMAIN n : n[j].last_access \in Nat /\ n[j].last_access < t + 1
    BY <2>1
  <2>3. \A j, i \in DOMAIN n : n[j].last_access = n[i].last_access => j = i
    BY <2>1 DEF Ranked
  <2> QED BY <2>2, <2>3 DEF Ranked
<1>2. ContentOf(n) = ContentOf(m) /\ DOMAIN ContentOf(m) = DOMAIN m
  BY DEF ContentOf
<1>3. OrderOf(n) = FirstIn(k, DOMAIN m, OrderOf(m))
  <2>1. ASSUME NEW i, NEW j
        PROVE  <<i, j>> \in OrderOf(n) <=> <<i, j>> \in FirstIn(k, DOMAIN m, OrderOf(m))
    <3>1. <<i, j>> \in FirstIn(k, DOMAIN m, OrderOf(m)) <=>
            \/ i = k /\ j \in DOMAIN m \ {k}
            \/ <<i, j>> \in OrderOf(m) /\ i # k /\ j # k
      BY DEF FirstIn, OrderOf
    <3>2. <<i, j>> \in OrderOf(n) <=>
            i \in DOMAIN m /\ j \in DOMAIN m /\ n[i].last_access > n[j].last_access
      BY InOrder
    <3>3. <<i, j>> \in OrderOf(m) <=>
            i \in DOMAIN m /\ j \in DOMAIN m /\ m[i].last_access > m[j].last_access
      BY InOrder
    <3> QED BY <3>1, <3>2, <3>3 DEF Ranked
  <2>2. \A p \in FirstIn(k, DOMAIN m, OrderOf(m)) : p = <<p[1], p[2]>>
    BY DEF FirstIn
  <2>3. \A p \in OrderOf(n) : p = <<p[1], p[2]>>
    BY OrderIsPairs
  <2> QED BY <2>1, <2>2, <2>3
<1> QED BY <1>1, <1>2, <1>3 DEF UseOf

(* Who is last in the order is who evict_lru finds.                        *)
LEMMA EvictOrders ==
  ASSUME NEW m, NEW t \in Nat, Ranked(m, t), DOMAIN m # {}
  PROVE  DOMAIN EvictLru(m) = DOMAIN m \ LastIn(ContentOf(m), OrderOf(m))
<1> DEFINE rank == [k \in DOMAIN m |-> m[k].last_access]
           least(k) == \A j \in DOMAIN m : m[k].last_access <= m[j].last_access
           victim == CHOOSE k \in DOMAIN m : least(k)
<1>1. rank \in [DOMAIN m -> Nat]
  BY DEF Ranked
<1>2. \E k \in DOMAIN m : \A j \in DOMAIN m : rank[k] <= rank[j]
  BY <1>1, LeastRank
<1>3. victim \in DOMAIN m /\ least(victim)
  BY <1>2
<1>4. EvictLru(m) = Drop(m, {victim})
  BY DEF EvictLru
<1> HIDE DEF victim
<1>5. DOMAIN EvictLru(m) = DOMAIN m \ {victim}
  BY <1>4, DropDrops
<1>6. LastIn(ContentOf(m), OrderOf(m)) = {victim}
  <2>1. DOMAIN ContentOf(m) = DOMAIN m
    BY DEF ContentOf
  <2>2. ASSUME NEW k \in DOMAIN m
        PROVE  (\A j \in DOMAIN m \ {k} : <<j, k>> \in OrderOf(m)) <=> k = victim
    <3>1. \A j \in DOMAIN m : <<j, k>> \in OrderOf(m) <=>
                                m[j].last_access > m[k].last_access
      BY InOrder
    <3>2. \A j \in DOMAIN m : m[j].last_access \in Nat
      BY DEF Ranked
    <3>3. \A i, j \in DOMAIN m : m[i].last_access = m[j].last_access => i = j
      BY DEF Ranked
    <3>4. \A j \in DOMAIN m : m[victim].last_access <= m[j].last_access
      BY <1>3
    <3>5. CASE k = victim
      <4>1. ASSUME NEW j \in DOMAIN m \ {k} PROVE m[j].last_access > m[k].last_access
        <5>1. /\ m[k].last_access <= m[j].last_access /\ m[k].last_access # m[j].last_access
              /\ m[k].last_access \in Nat /\ m[j].last_access \in Nat
          BY <1>3, <3>2, <3>3, <3>4, <3>5, <4>1
        <5> QED BY <5>1
      <4> QED BY <3>1, <3>5, <4>1
    <3>6. CASE k # victim
      <4>1. ~(m[victim].last_access > m[k].last_access)
        BY <1>3, <3>2, <3>4
      <4> QED BY <1>3, <3>1, <3>6, <4>1
    <3> QED BY <3>5, <3>6
  <2> QED BY <1>3, <2>1, <2>2 DEF LastIn
<1> QED BY <1>5, <1>6

LEMMA InsertOrders ==
  ASSUME NEW c \in Caches, NEW m, NEW t \in Nat, Ranked(m, t), Fits(c, m),
         NEW k, NEW e, e.last_access = t, NEW n, n = Insert(m, c, k, e)
  PROVE  /\ StoreOf(ContentOf(m), OrderOf(m), ContentOf(n), OrderOf(n), k, e.value, RoomOf(c))
         /\ Ranked(n, t + 1)
<1> DEFINE full == Cardinality(DOMAIN m) >= Capacity[c] /\ k \notin DOMAIN m
           kept == IF full THEN EvictLru(m) ELSE m
           stay == StayFor(ContentOf(m), OrderOf(m), k, RoomOf(c))
<1>1. DOMAIN ContentOf(m) = DOMAIN m
  BY DEF ContentOf
<1>2. DOMAIN kept = stay
  <2>1. Cardinality(DOMAIN m) \in Nat /\ Capacity[c] \in Nat
    BY FS_CardinalityType, LimitsAssumption DEF Fits
  <2>2. CASE k \in DOMAIN m
    <3>1. DOMAIN m \cup {k} = DOMAIN m
      BY <2>2
    <3>2. ~(Cardinality(DOMAIN m \cup {k}) > RoomOf(c))
      BY <2>1, <3>1, RoomForOne DEF Fits
    <3> QED BY <1>1, <2>2, <3>2 DEF StayFor
  <2>3. CASE k \notin DOMAIN m
    <3>1. Cardinality(DOMAIN m \cup {k}) = Cardinality(DOMAIN m) + 1
      BY <2>3, FS_AddElement DEF Fits
    <3>2. CASE DOMAIN m = {}
      <4>1. Cardinality(DOMAIN m) = 0
        BY <3>2, FS_EmptySet
      <4>2. ~(Cardinality(DOMAIN m \cup {k}) > RoomOf(c))
        BY <3>1, <4>1, RoomForOne
      <4>3. EvictLru(m) = m
        BY <3>2 DEF EvictLru
      <4> QED BY <1>1, <4>2, <4>3 DEF StayFor
    <3>3. CASE DOMAIN m # {}
      <4>1. Cardinality(DOMAIN m) # 0
        BY <3>3, FS_EmptySet DEF Fits
      <4>2. full <=> Cardinality(DOMAIN m \cup {k}) > RoomOf(c)
        BY <2>1, <2>3, <3>1, <4>1 DEF RoomOf, Fits
      <4>3. DOMAIN EvictLru(m) = DOMAIN m \ LastIn(ContentOf(m), OrderOf(m))
        BY <3>3, EvictOrders
      <4> QED BY <1>1, <4>2, <4>3 DEF StayFor
    <3> QED BY <3>2, <3>3
  <2> QED BY <2>2, <2>3
<1>3. Within(kept, m)
  BY EvictDrops DEF Within
<1>4. n = Put(kept, k, e)
  BY DEF Insert
<1> HIDE DEF kept, stay
<1>5. /\ DOMAIN n = stay \cup {k} /\ n[k] = e
      /\ \A j \in stay \ {k} : j \in DOMAIN m /\ n[j] = m[j]
  BY <1>2, <1>3, <1>4 DEF Put, Within
<1>6. Ranked(n, t + 1)
  <2>1. \A j \in stay \ {k} : n[j].last_access \in Nat /\ n[j].last_access < t
    BY <1>5 DEF Ranked
  <2>2. \A j \in DOMAIN n : n[j].last_access \in Nat /\ n[j].last_access < t + 1
    BY <1>5, <2>1
  <2>3. \A j, i \in DOMAIN n : n[j].last_access = n[i].last_access => j = i
    BY <1>5, <2>1 DEF Ranked
  <2> QED BY <2>2, <2>3 DEF Ranked
<1>7. ContentOf(n) = [x \in stay \cup {k} |-> IF x = k THEN e.value ELSE ContentOf(m)[x]]
  <2>1. ASSUME NEW x \in stay \cup {k}
        PROVE  n[x].value = IF x = k THEN e.value ELSE ContentOf(m)[x]
    BY <1>5 DEF ContentOf
  <2> QED BY <1>5, <2>1 DEF ContentOf
<1>8. OrderOf(n) = FirstIn(k, stay \cup {k}, OrderOf(m))
  <2>1. ASSUME NEW i, NEW j
        PROVE  <<i, j>> \in OrderOf(n) <=> <<i, j>> \in FirstIn(k, stay \cup {k}, OrderOf(m))
    <3>1. <<i, j>> \in FirstIn(k, stay \cup {k}, OrderOf(m)) <=>
            \/ i = k /\ j \in stay \ {k}
            \/ <<i, j>> \in OrderOf(m) /\ i \in stay \ {k} /\ j \in stay \ {k}
      BY DEF FirstIn, OrderOf
    <3>2. <<i, j>> \in OrderOf(n) <=>
            i \in DOMAIN n /\ j \in DOMAIN n /\ n[i].last_access > n[j].last_access
      BY InOrder
    <3>3. <<i, j>> \in OrderOf(m) <=>
            i \in DOMAIN m /\ j \in DOMAIN m /\ m[i].last_access > m[j].last_access
      BY InOrder
    <3>4. \A x \in stay \ {k} : m[x].last_access \in Nat /\ m[x].last_access < t
      BY <1>5 DEF Ranked
    <3> QED BY <1>5, <3>1, <3>2, <3>3, <3>4
  <2>2. \A p \in FirstIn(k, stay \cup {k}, OrderOf(m)) : p = <<p[1], p[2]>>
    BY DEF FirstIn
  <2>3. \A p \in OrderOf(n) : p = <<p[1], p[2]>>
    BY OrderIsPairs
  <2> QED BY <2>1, <2>2, <2>3
<1> QED BY <1>6, <1>7, <1>8 DEF StoreOf, stay
-----------------------------------------------------------------------------
(* Every step is one of RecencyOrder *)

LEMMA OneCacheSteps ==
  ASSUME OrderInv, NEW c \in Caches, NEW m, Step(c, m),
         Becomes(c, entries[c], m), Ranked(m, now + 1)
  PROVE  RankInv' /\ \A d \in Caches : Becomes(d, entries[d], entries'[d])
<1>1. DOMAIN entries = Caches /\ now \in Nat
  BY DEF OrderInv, IInv, TypeOK
<1>2. now' = now + 1 /\ entries' = [entries EXCEPT ![c] = m]
  BY DEF Step
<1>3. entries'[c] = m /\ \A d \in Caches \ {c} : entries'[d] = entries[d]
  BY <1>1, <1>2
<1>4. \A d \in Caches \ {c} : Becomes(d, entries[d], entries'[d])
  BY <1>3 DEF Becomes
<1>5. ASSUME NEW d \in Caches PROVE Ranked(entries'[d], now')
  <2>1. CASE d = c
    BY <1>2, <1>3, <2>1
  <2>2. CASE d # c
    <3>1. Ranked(entries[d], now)
      BY DEF OrderInv, RankInv
    <3> QED BY <1>1, <1>2, <1>3, <2>2, <3>1 DEF Ranked
  <2> QED BY <2>1, <2>2
<1>6. Becomes(c, entries[c], entries'[c])
  BY <1>3
<1> QED BY <1>4, <1>5, <1>6 DEF RankInv

(* Keys are taken out of a cache.                                          *)
LEMMA DropSteps ==
  ASSUME OrderInv, NEW c \in Caches, NEW ks \in SUBSET KeysOf(c),
         NEW m, m = Drop(entries[c], ks), Step(c, m)
  PROVE  RankInv' /\ \A d \in Caches : Becomes(d, entries[d], entries'[d])
<1>1. Ranked(entries[c], now) /\ now \in Nat
  BY DEF OrderInv, RankInv, IInv, TypeOK
<1>2. /\ DropOf(ContentOf(entries[c]), OrderOf(entries[c]), ContentOf(m), OrderOf(m), ks)
      /\ Ranked(m, now + 1)
  BY <1>1, DropOrders
<1>3. Becomes(c, entries[c], m)
  BY <1>2 DEF Becomes
<1> QED BY <1>2, <1>3, OneCacheSteps

LEMMA KeysAreKnown ==
  ASSUME OrderInv, NEW c \in Caches, NEW k \in DOMAIN entries[c]
  PROVE  k \in KeysOf(c)
<1>1. IsCurrent(latest, c, k, entries[c][k])
  BY DEF OrderInv, IInv, EntriesAreCurrent
<1> QED BY <1>1 DEF IsCurrent, KeysOf, Key, Asked

LEMMA LookupSteps ==
  ASSUME OrderInv, NEW c \in Caches, NEW x \in Asked(c), Lookup(c, x)
  PROVE  RankInv' /\ \A d \in Caches : Becomes(d, entries[d], entries'[d])
<1> DEFINE m == entries[c]
           k == Key(c, x)
           n == Get(m, c, k)
<1>1. Step(c, n)
  BY DEF Lookup
<1>2. Ranked(m, now) /\ now \in Nat
  BY DEF OrderInv, RankInv, IInv, TypeOK
<1>3. k \in KeysOf(c)
  BY DEF Key, KeysOf, Asked
<1>4. CASE k \notin DOMAIN m
  <2>1. n = m
    BY <1>4 DEF Get
  <2>2. Becomes(c, m, n)
    BY <2>1 DEF Becomes
  <2>3. Ranked(n, now + 1)
    BY <1>2, <2>1 DEF Ranked
  <2> QED BY <1>1, <2>2, <2>3, OneCacheSteps
<1>5. CASE k \in DOMAIN m /\ Expired(c, m[k])
  <2>1. n = Drop(m, {k})
    BY <1>5 DEF Get
  <2> QED BY <1>1, <1>3, <2>1, DropSteps
<1>6. CASE k \in DOMAIN m /\ ~Expired(c, m[k])
  <2>1. n = [m EXCEPT ![k].last_access = now]
    BY <1>6 DEF Get
  <2>2. PICK e : e = m[k]
    OBVIOUS
  <2>3. e = [of |-> e.of, value |-> e.value, last_access |-> e.last_access,
             created |-> e.created]
    BY <1>6, <2>2 DEF OrderInv, IInv, EntriesAreCurrent, IsCurrent
  <2>4. n = [m EXCEPT ![k] = [e EXCEPT !.last_access = now]]
    BY <2>1, <2>2
  <2>5. [e EXCEPT !.last_access = now].value = e.value
        /\ [e EXCEPT !.last_access = now].last_access = now
    BY <2>3
  <2> HIDE DEF n, k, m
  <2>6. /\ DOMAIN n = DOMAIN m /\ \A j \in DOMAIN m \ {k} : n[j] = m[j]
        /\ n[k].value = m[k].value /\ n[k].last_access = now
    BY <1>6, <2>2, <2>4, <2>5
  <2>7. /\ UseOf(ContentOf(m), OrderOf(m), ContentOf(n), OrderOf(n), k)
        /\ Ranked(n, now + 1)
    BY <1>2, <1>6, <2>6, UseOrders
  <2>8. k \in DOMAIN ContentOf(m)
    BY <1>6 DEF ContentOf
  <2>9. Becomes(c, m, n)
    BY <2>7, <2>8 DEF Becomes
  <2> QED BY <1>1, <2>7, <2>9, OneCacheSteps DEF m
<1> QED BY <1>4, <1>5, <1>6

LEMMA StoreSteps ==
  ASSUME OrderInv, NEW c \in Caches, NEW x \in Asked(c), Store(c, x)
  PROVE  RankInv' /\ \A d \in Caches : Becomes(d, entries[d], entries'[d])
<1> DEFINE e == [of |-> x, value |-> now, last_access |-> now, created |-> now]
           k == Key(c, x)
           m == entries[c]
           n == Insert(m, c, k, e)
<1>1. Step(c, n)
  BY DEF Store
<1>2. Ranked(m, now) /\ Fits(c, m) /\ now \in Nat
  BY DEF OrderInv, RankInv, CachesFit, IInv, TypeOK
<1>3. k \in KeysOf(c)
  BY DEF Key, KeysOf, Asked
<1>4. now \in 0 .. MaxTime
  BY <1>1, <1>2, LimitsAssumption DEF Step
<1>5. e.value = now /\ e.last_access = now
  OBVIOUS
<1> HIDE DEF e, k, m
<1>6. /\ StoreOf(ContentOf(m), OrderOf(m), ContentOf(n), OrderOf(n), k, e.value, RoomOf(c))
      /\ Ranked(n, now + 1)
  BY <1>2, <1>5, InsertOrders
<1>7. Becomes(c, m, n)
  BY <1>3, <1>4, <1>5, <1>6 DEF Becomes
<1> QED BY <1>1, <1>6, <1>7, OneCacheSteps DEF m

LEMMA EmptiedSteps ==
  ASSUME OrderInv, NEW c \in Caches, Emptied(c)
  PROVE  RankInv' /\ \A d \in Caches : Becomes(d, entries[d], entries'[d])
<1>1. PICK ks : ks = DOMAIN entries[c]
  OBVIOUS
<1>2. Step(c, << >>)
  BY DEF Emptied
<1>3. ks \in SUBSET KeysOf(c)
  BY <1>1, KeysAreKnown
<1>4. Drop(entries[c], ks) = << >>
  BY <1>1 DEF Drop, Restrict
<1> QED BY <1>2, <1>3, <1>4, DropSteps

LEMMA CachesStep ==
  ASSUME OrderInv, [Next]_vars
  PROVE  RankInv' /\ \A d \in Caches : Becomes(d, entries[d], entries'[d])
<1> DEFINE Goal == RankInv' /\ \A d \in Caches : Becomes(d, entries[d], entries'[d])
<1>1. \A t \in Texts : Normalize[t] \in Asked("plans")
  BY DEF Asked, NormalForms
<1>2. \A c \in NameCaches : c \in Caches /\ Asked(c) = Names
  BY DEF Asked, NameCaches
<1>3. \A c \in Caches : \A x \in Asked(c) : Lookup(c, x) \/ Store(c, x) => Goal
  BY LookupSteps, StoreSteps
<1>4. ASSUME NEW x \in Asked("plans"), Invalidate(x) PROVE Goal
  <2>1. Key("plans", x) \in KeysOf("plans")
    BY DEF Key, KeysOf, Asked
  <2> QED BY <1>4, <2>1, DropSteps DEF Invalidate, Caches
<1>5. ASSUME EvictExpired PROVE Goal
  <2>1. PICK ks : ks = {k \in DOMAIN entries["plans"] : Expired("plans", entries["plans"][k])}
    OBVIOUS
  <2>2. ks \in SUBSET KeysOf("plans")
    BY <2>1, KeysAreKnown DEF Caches
  <2> QED BY <1>5, <2>1, <2>2, DropSteps DEF EvictExpired, Caches
<1>6. ASSUME ClearPlans \/ ClearNames PROVE Goal
  BY <1>6, EmptiedSteps DEF ClearPlans, ClearNames, Caches
<1>7. ASSUME UNCHANGED vars PROVE Goal
  BY <1>7 DEF vars, OrderInv, RankInv, Ranked, Becomes
<1> HIDE DEF Goal
<1>8. \A c \in NameCaches : \A x \in Names : Lookup(c, x) \/ Store(c, x) => Goal
  BY <1>2, <1>3
<1>9. \A t \in Texts : Lookup("plans", Normalize[t]) \/ Store("plans", Normalize[t])
                          \/ Invalidate(Normalize[t]) => Goal
  BY <1>1, <1>3, <1>4 DEF Caches
<1>10. Next => Goal
  BY <1>5, <1>6, <1>8, <1>9 DEF Next
<1>11. Goal
  BY <1>7, <1>10
<1> QED BY <1>11 DEF Goal

LEMMA OrderStarts == Init => OrderInv
<1>1. Init => CachesFit
  BY FS_EmptySet, RoomForOne DEF Init, CachesFit, Fits, Caches
<1>2. Init => RankInv
  BY DEF Init, RankInv, Ranked
<1> QED BY <1>1, <1>2, Start DEF OrderInv

LEMMA OrderKept == OrderInv /\ AnswersAreCurrent /\ [Next]_vars => OrderInv'
BY Preserved, StillFit, CachesStep DEF OrderInv

LEMMA OrderAlways == Spec => []OrderInv
BY OrderStarts, OrderKept, AnswersCurrent, PTL DEF Spec

(* Each of the three caches keeps its entries in the order of their last   *)
(* use, and makes room by the one used least recently, however capacities, *)
(* times to live and hashes are.                                           *)
THEOREM RecencyOrdered == Spec => ImplementsRecencyOrder
<1>1. ASSUME Init PROVE Plans!Init /\ Expansions!Init /\ Contractions!Init
  <2>1. ContentOf(<< >>) = << >> /\ OrderOf(<< >>) = {}
    BY DEF ContentOf, OrderOf
  <2> QED BY <1>1, <2>1 DEF Init, Caches, Plans!Init, Expansions!Init, Contractions!Init
<1>2. ASSUME OrderInv, [Next]_vars
      PROVE  /\ [Plans!Next]_<<ContentOf(entries["plans"]), OrderOf(entries["plans"])>>
             /\ [Expansions!Next]_<<ContentOf(entries["expansions"]),
                                    OrderOf(entries["expansions"])>>
             /\ [Contractions!Next]_<<ContentOf(entries["contractions"]),
                                      OrderOf(entries["contractions"])>>
  <2>1. \A d \in Caches : Becomes(d, entries[d], entries'[d])
    BY <1>2, CachesStep
  <2>2. KeysOf("plans") = {Hash[x] : x \in NormalForms}
        /\ KeysOf("expansions") = Names /\ KeysOf("contractions") = Names
    BY DEF KeysOf
  <2>3. [Plans!Next]_<<ContentOf(entries["plans"]), OrderOf(entries["plans"])>>
    <3>1. Becomes("plans", entries["plans"], entries'["plans"])
      BY <2>1 DEF Caches
    <3>2. PICK C, O, C2, O2 : C = ContentOf(entries["plans"]) /\ O = OrderOf(entries["plans"])
                              /\ C2 = ContentOf(entries'["plans"])
                              /\ O2 = OrderOf(entries'["plans"])
      OBVIOUS
    <3>3. C2 = ContentOf(entries["plans"])' /\ O2 = OrderOf(entries["plans"])'
      BY <3>2 DEF ContentOf, OrderOf
    <3>4. ASSUME NEW k, UseOf(C, O, C2, O2, k) PROVE Plans!Use(k)
      BY <3>2, <3>3, <3>4 DEF UseOf, FirstIn, Plans!Use, Plans!First, Plans!Among
    <3>5. ASSUME NEW k, NEW v, StoreOf(C, O, C2, O2, k, v, RoomOf("plans")) PROVE Plans!Store(k, v)
      BY <3>2, <3>3, <3>5 DEF StoreOf, StayFor, LastIn, FirstIn, Plans!Store, Plans!First,
                              Plans!Among, Plans!LeastUsed,
                              Plans!Cardinality, Cardinality
    <3>6. ASSUME NEW ks, DropOf(C, O, C2, O2, ks) PROVE Plans!Drop(ks)
      BY <3>2, <3>3, <3>6 DEF DropOf, Plans!Drop, Plans!Among, Plans!Restrict, Restrict
    <3> QED BY <2>2, <3>1, <3>2, <3>3, <3>4, <3>5, <3>6 DEF Becomes, Plans!Next
  <2>4. [Expansions!Next]_<<ContentOf(entries["expansions"]), OrderOf(entries["expansions"])>>
    <3>1. Becomes("expansions", entries["expansions"], entries'["expansions"])
      BY <2>1 DEF Caches
    <3>2. PICK C, O, C2, O2 : C = ContentOf(entries["expansions"])
                              /\ O = OrderOf(entries["expansions"])
                              /\ C2 = ContentOf(entries'["expansions"])
                              /\ O2 = OrderOf(entries'["expansions"])
      OBVIOUS
    <3>3. C2 = ContentOf(entries["expansions"])' /\ O2 = OrderOf(entries["expansions"])'
      BY <3>2 DEF ContentOf, OrderOf
    <3>4. ASSUME NEW k, UseOf(C, O, C2, O2, k) PROVE Expansions!Use(k)
      BY <3>2, <3>3, <3>4 DEF UseOf, FirstIn, Expansions!Use, Expansions!First, Expansions!Among
    <3>5. ASSUME NEW k, NEW v, StoreOf(C, O, C2, O2, k, v, RoomOf("expansions"))
          PROVE Expansions!Store(k, v)
      BY <3>2, <3>3, <3>5 DEF StoreOf, StayFor, LastIn, FirstIn, Expansions!Store,
                              Expansions!First, Expansions!Among, Expansions!LeastUsed,
                              Expansions!Cardinality, Cardinality
    <3>6. ASSUME NEW ks, DropOf(C, O, C2, O2, ks) PROVE Expansions!Drop(ks)
      BY <3>2, <3>3, <3>6 DEF DropOf, Expansions!Drop, Expansions!Among, Expansions!Restrict,
                              Restrict
    <3> QED BY <2>2, <3>1, <3>2, <3>3, <3>4, <3>5, <3>6 DEF Becomes, Expansions!Next
  <2>5. [Contractions!Next]_<<ContentOf(entries["contractions"]),
                              OrderOf(entries["contractions"])>>
    <3>1. Becomes("contractions", entries["contractions"], entries'["contractions"])
      BY <2>1 DEF Caches
    <3>2. PICK C, O, C2, O2 : C = ContentOf(entries["contractions"])
                              /\ O = OrderOf(entries["contractions"])
                              /\ C2 = ContentOf(entries'["contractions"])
                              /\ O2 = OrderOf(entries'["contractions"])
      OBVIOUS
    <3>3. C2 = ContentOf(entries["contractions"])' /\ O2 = OrderOf(entries["contractions"])'
      BY <3>2 DEF ContentOf, OrderOf
    <3>4. ASSUME NEW k, UseOf(C, O, C2, O2, k) PROVE Contractions!Use(k)
      BY <3>2, <3>3, <3>4 DEF UseOf, FirstIn, Contractions!Use, Contractions!First,
                              Contractions!Among
    <3>5. ASSUME NEW k, NEW v, StoreOf(C, O, C2, O2, k, v, RoomOf("contractions"))
          PROVE Contractions!Store(k, v)
      BY <3>2, <3>3, <3>5 DEF StoreOf, StayFor, LastIn, FirstIn, Contractions!Store,
                              Contractions!First, Contractions!Among, Contractions!LeastUsed,
                              Contractions!Cardinality, Cardinality
    <3>6. ASSUME NEW ks, DropOf(C, O, C2, O2, ks) PROVE Contractions!Drop(ks)
      BY <3>2, <3>3, <3>6 DEF DropOf, Contractions!Drop, Contractions!Among,
                              Contractions!Restrict, Restrict
    <3> QED BY <2>2, <3>1, <3>2, <3>3, <3>4, <3>5, <3>6 DEF Becomes, Contractions!Next
  <2> QED BY <2>3, <2>4, <2>5
<1> QED BY <1>1, <1>2, OrderAlways, PTL
        DEF Spec, ImplementsRecencyOrder, Plans!Spec, Expansions!Spec, Contractions!Spec
=============================================================================
