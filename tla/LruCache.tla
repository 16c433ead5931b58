------------------------------ MODULE LruCache ------------------------------
(***************************************************************************)
(* LruCache, QueryPlanCache and NamespaceCache of src/storage/src/cache.rs.*)
(* An operation holds the write lock of its cache from its beginning to    *)
(* its end, so that threads see it as one step.                            *)
(*                                                                         *)
(* One cache maps the hash of a query to its plan, two map prefixes to     *)
(* namespaces and back.  What is stored is the time it was stored at: two  *)
(* stores never store the same.                                            *)
(***************************************************************************)
EXTENDS Naturals, FiniteSets, Functions

CONSTANTS
    Texts,      \* the texts of queries
    Normalize,  \* normalize_query: from Texts to what their words are
    Hash,       \* hash_query of a normalized text
    Names,      \* prefixes and namespaces
    Capacity,   \* per cache
    TimeToLive, \* per cache; Forever for None
    Forever,
    None,       \* no answer
    MaxTime     \* bound on the clock, and so on the number of operations

Caches == {"plans", "expansions", "contractions"}
NameCaches == Caches \ {"plans"}

ASSUME LimitsAssumption ==
    /\ MaxTime \in Nat
    /\ \A c \in Caches : Capacity[c] \in Nat /\ TimeToLive[c] \in Nat \cup {Forever}

VARIABLES
    entries,    \* per cache, from keys to entries
    now,        \* the clock
    clearing,   \* a call of NamespaceCache::clear is between its two sections
    answer,     \* of the last get: [cache, key, value]
    latest      \* history: what was stored last, per cache, under a text or name

vars == <<entries, now, clearing, answer, latest>>

(* What a caller asks for, and the key it is kept under.                   *)
NormalForms == {Normalize[t] : t \in Texts}
Asked(c) == IF c = "plans" THEN NormalForms ELSE Names
Key(c, x) == IF c = "plans" THEN Hash[x] ELSE x

NoAnswer == [cache |-> None, key |-> None, value |-> None]

Init ==
    /\ entries = [c \in Caches |-> << >>]
    /\ now = 0 /\ clearing = FALSE
    /\ answer = NoAnswer
    /\ latest = [c \in Caches |-> [x \in Asked(c) |-> None]]
-----------------------------------------------------------------------------
(* A cache m is a function from keys to entries. *)

Drop(m, ks) == Restrict(m, DOMAIN m \ ks)
Put(m, k, e) == [x \in DOMAIN m \cup {k} |-> IF x = k THEN e ELSE m[x]]

(* An entry is kept for as long as the cache's time to live.               *)
Expired(c, e) == TimeToLive[c] # Forever /\ now - e.created > TimeToLive[c]

EvictOldest(m) ==
    IF DOMAIN m = {} THEN m
    ELSE Drop(m, {CHOOSE k \in DOMAIN m : \A j \in DOMAIN m : m[k].created <= m[j].created})

EvictLru(m) ==
    IF DOMAIN m = {} THEN m
    ELSE Drop(m, {CHOOSE k \in DOMAIN m :
                        \A j \in DOMAIN m : m[k].last_access <= m[j].last_access})

(* A cache of capacity 0 holds one entry.                                  *)
Insert(m, c, k, e) ==
    Put(IF Cardinality(DOMAIN m) >= Capacity[c] /\ k \notin DOMAIN m THEN EvictLru(m) ELSE m,
        k, e)

(* The entry's value is answered and the entry used, unless it is too old: *)
(* then it goes.                                                           *)
Get(m, c, k) ==
    IF k \notin DOMAIN m THEN m
    ELSE IF Expired(c, m[k]) THEN Drop(m, {k})
    ELSE [m EXCEPT ![k].last_access = now]

Found(m, c, k) == IF k \in DOMAIN m /\ ~Expired(c, m[k]) THEN m[k] ELSE None
-----------------------------------------------------------------------------
(* Every operation sees a later Instant than the one before.               *)
Step(c, m) ==
    /\ now < MaxTime /\ now' = now + 1
    /\ entries' = [entries EXCEPT ![c] = m]

Remember(c, x, value) == latest' = [latest EXCEPT ![c][x] = value]

AnswerUnchecked(c, x, entry) ==
    answer' = [cache |-> c, key |-> x, value |-> IF entry = None THEN None ELSE entry.value]

Answer(c, x, entry) ==
    answer' = [cache |-> c, key |-> x,
               value |-> IF entry = None \/ entry.of # x THEN None ELSE entry.value]

(* QueryPlanCache::get, get_expansion and get_contraction.  A plan has its *)
(* query with it and is not answered for another one of the same hash,     *)
(* though it has been used then.                                           *)
Lookup(c, x) ==
    LET k == Key(c, x) IN
    /\ Step(c, Get(entries[c], c, k))
    /\ Answer(c, x, Found(entries[c], c, k))
    /\ UNCHANGED <<clearing, latest>>

(* QueryPlanCache::insert, cache_expansion and cache_contraction.          *)
Store(c, x) ==
    /\ Step(c, Insert(entries[c], c, Key(c, x),
                      [of |-> x, value |-> now, last_access |-> now, created |-> now]))
    /\ Remember(c, x, now)
    /\ answer' = NoAnswer /\ UNCHANGED clearing

(* QueryPlanCache::invalidate.                                             *)
Invalidate(x) ==
    /\ Step("plans", Drop(entries["plans"], {Key("plans", x)}))
    /\ Remember("plans", x, None)
    /\ answer' = NoAnswer /\ UNCHANGED clearing

EvictExpired ==
    /\ Step("plans", Drop(entries["plans"], {k \in DOMAIN entries["plans"] :
                                                  Expired("plans", entries["plans"][k])}))
    /\ answer' = NoAnswer
    /\ UNCHANGED <<clearing, latest>>

Emptied(c) ==
    /\ Step(c, << >>)
    /\ latest' = [latest EXCEPT ![c] = [x \in DOMAIN @ |-> None]]
    /\ answer' = NoAnswer

(* QueryPlanCache::clear.                                                  *)
ClearPlans == Emptied("plans") /\ UNCHANGED clearing

(* NamespaceCache::clear empties one cache and then the other, each under  *)
(* its own lock.                                                           *)
ClearNames ==
    \/ ~clearing /\ Emptied("expansions") /\ clearing' = TRUE
    \/ clearing /\ Emptied("contractions") /\ clearing' = FALSE

Next ==
    \/ \E t \in Texts : Lookup("plans", Normalize[t]) \/ Store("plans", Normalize[t])
                        \/ Invalidate(Normalize[t])
    \/ \E c \in NameCaches, x \in Names : Lookup(c, x) \/ Store(c, x)
    \/ EvictExpired \/ ClearPlans \/ ClearNames

Spec == Init /\ [][Next]_vars
-----------------------------------------------------------------------------
(* Properties *)

(* A cached answer is what was stored last under a text of the same words, *)
(* not invalidated or cleared since, and not too old, whatever other       *)
(* queries share its hash.                                                 *)
AnswersAreCurrent ==
    answer.value # None =>
        /\ latest[answer.cache][answer.key] = answer.value
        /\ TimeToLive[answer.cache] # Forever =>
             now - 1 - answer.value <= TimeToLive[answer.cache]

(* The values of a cache, and which of its keys was used after which.      *)
ContentOf(m) == [k \in DOMAIN m |-> m[k].value]
OrderOf(m) == {p \in (DOMAIN m) \X (DOMAIN m) : m[p[1]].last_access > m[p[2]].last_access}

RoomOf(c) == IF Capacity[c] = 0 THEN 1 ELSE Capacity[c]

Plans ==
    INSTANCE RecencyOrder WITH
        content <- ContentOf(entries["plans"]), order <- OrderOf(entries["plans"]),
        Keys <- {Hash[x] : x \in NormalForms}, Values <- 0 .. MaxTime, Room <- RoomOf("plans")
Expansions ==
    INSTANCE RecencyOrder WITH
        content <- ContentOf(entries["expansions"]), order <- OrderOf(entries["expansions"]),
        Keys <- Names, Values <- 0 .. MaxTime, Room <- RoomOf("expansions")
Contractions ==
    INSTANCE RecencyOrder WITH
        content <- ContentOf(entries["contractions"]), order <- OrderOf(entries["contractions"]),
        Keys <- Names, Values <- 0 .. MaxTime, Room <- RoomOf("contractions")

(* Every cache keeps its entries in the order of their last use, and       *)
(* nothing goes but what is too old, is taken out, or is the least         *)
(* recently used of a full cache.                                          *)
ImplementsRecencyOrder == Plans!Spec /\ Expansions!Spec /\ Contractions!Spec
=============================================================================
