--------------------------- MODULE IriDictionary ---------------------------
(***************************************************************************)
(* The IRI dictionary of src/storage/src/dictionary.rs: two hash maps,     *)
(* each behind its own RwLock, and an atomic counter, shared by threads    *)
(* that call get_or_insert (double-checked locking), the one-lock lookups, *)
(* import and clear.                                                       *)
(*                                                                         *)
(* One action is one step between two lock operations.  The lookups that   *)
(* only report what one map holds (contains, contains_id, len, all_iris,   *)
(* all_ids, export) take one read lock exactly as get_id and get_iri do    *)
(* and change nothing: get_id stands for the readers of iri_to_id, get_iri *)
(* for the readers of id_to_iri.                                           *)
(***************************************************************************)
EXTENDS Naturals, Sequences

CONSTANTS
    Threads,     \* the threads that share the dictionary
    Iris,        \* the IRIs they use
    Ops,         \* the operations they call
    Imports,     \* the lists they pass to import ...
    Entries,     \* ... and what is on each: a sequence of <<id, iri>>
    RestoreOnly, \* TRUE: import is only called on an empty, unshared dictionary
    MaxId,       \* u64::MAX: the bound of ids, where id + 1 wraps to 0
    MaxCalls,    \* bound on the number of calls made
    None         \* Option::None, and "no thread" for a lock's writer

Ids == 0 .. MaxId
Reserved == 0    \* UNKNOWN_IRI_ID
AllOps == {"get_or_insert", "get_id", "get_iri", "import", "clear"}

ASSUME BoundsAssumption == MaxId \in Nat \ {0} /\ MaxCalls \in Nat
ASSUME NoneAssumption == None \notin Iris \cup Threads \cup Nat
ASSUME OpsAssumption == Ops \subseteq AllOps /\ RestoreOnly \in BOOLEAN
ASSUME ImportsAssumption == Entries \in [Imports -> Seq(Ids \X Iris)]

(* A list to restore is an export: no id and no IRI occurs twice, and no   *)
(* id is 0 or u64::MAX.                                                    *)
ASSUME RestoreAssumption ==
    RestoreOnly =>
        \A m \in Imports : LET b == Entries[m] IN
            /\ \A k \in DOMAIN b : b[k][1] \in 1 .. MaxId - 1
            /\ \A j, k \in DOMAIN b :
                  j # k => b[j][1] # b[k][1] /\ b[j][2] # b[k][2]

VARIABLES
    iri_to_id, id_to_iri,  \* the two maps, None where a key is absent
    next_id,
    writer, readers,       \* per lock: the thread that writes, those that read
    pc, op, arg, ret,      \* per thread: where it is, its call, its answer
    calls                  \* calls made so far

maps == <<iri_to_id, id_to_iri, next_id>>
locks == <<writer, readers>>
vars == <<maps, locks, pc, op, arg, ret, calls>>

Locks == {"iri_to_id", "id_to_iri"}
ArgsOf(o) == IF o = "get_iri" THEN Ids
             ELSE IF o = "import" THEN Imports
             ELSE IF o = "clear" THEN {None} ELSE Iris
Phases == {"idle", "fast", "fast_held", "read", "read_held", "drop",
           "lock_fwd", "lock_rev", "body", "insert_rev",
           "unlock_rev", "unlock_fwd"}
-----------------------------------------------------------------------------
Init ==
    /\ iri_to_id = [i \in Iris |-> None]
    /\ id_to_iri = [d \in Ids |-> None]
    /\ next_id = 1
    /\ writer = [l \in Locks |-> None]
    /\ readers = [l \in Locks |-> {}]
    /\ pc = [t \in Threads |-> "idle"]
    /\ op = [t \in Threads |-> "clear"]
    /\ arg = [t \in Threads |-> None]
    /\ ret = [t \in Threads |-> None]
    /\ calls = 0

Goto(t, p) == pc' = [pc EXCEPT ![t] = p]

Importing == \E u \in Threads : pc[u] # "idle" /\ op[u] = "import"

Call(t, o, a, start) ==
    /\ pc[t] = "idle" /\ calls < MaxCalls /\ o \in Ops
    /\ RestoreOnly => ~Importing
    /\ Goto(t, start)
    /\ op' = [op EXCEPT ![t] = o]
    /\ arg' = [arg EXCEPT ![t] = a]
    /\ ret' = [ret EXCEPT ![t] = None]
    /\ calls' = calls + 1
    /\ UNCHANGED <<maps, locks>>

CallGetOrInsert(t, i) == Call(t, "get_or_insert", i, "fast")
CallGetId(t, i) == Call(t, "get_id", i, "read")
CallGetIri(t, d) == Call(t, "get_iri", d, "read")
CallClear(t) == Call(t, "clear", None, "lock_fwd")
CallImport(t, m) ==
    /\ RestoreOnly => /\ \A u \in Threads : pc[u] = "idle"
                      /\ iri_to_id = [i \in Iris |-> None]
    /\ Call(t, "import", m, "lock_fwd")
-----------------------------------------------------------------------------
(* RwLock: a reader waits for the writer, a writer for everybody.          *)
AcquireRead(t, l) ==
    /\ writer[l] = None
    /\ readers' = [readers EXCEPT ![l] = @ \cup {t}]
    /\ UNCHANGED writer

ReleaseRead(t, l) ==
    /\ readers' = [readers EXCEPT ![l] = @ \ {t}]
    /\ UNCHANGED writer

AcquireWrite(t, l) ==
    /\ writer[l] = None /\ readers[l] = {}
    /\ writer' = [writer EXCEPT ![l] = t]
    /\ UNCHANGED readers

ReleaseWrite(t, l) ==
    /\ writer' = [writer EXCEPT ![l] = None]
    /\ UNCHANGED readers

ReadLockOf(o) == IF o = "get_iri" THEN "id_to_iri" ELSE "iri_to_id"

(* The one-lock lookups.                                                   *)
ReadLock(t) ==
    /\ pc[t] = "read"
    /\ AcquireRead(t, ReadLockOf(op[t]))
    /\ Goto(t, "read_held")
    /\ UNCHANGED <<maps, op, arg, ret, calls>>

Lookup(t) ==
    /\ pc[t] = "read_held"
    /\ ret' = [ret EXCEPT ![t] = IF op[t] = "get_iri" THEN id_to_iri[arg[t]]
                                                      ELSE iri_to_id[arg[t]]]
    /\ Goto(t, "drop")
    /\ UNCHANGED <<maps, locks, op, arg, calls>>

(* The read guard goes out of scope and the call returns.                  *)
ReadReturn(t) ==
    /\ pc[t] = "drop"
    /\ ReleaseRead(t, ReadLockOf(op[t]))
    /\ Goto(t, "idle")
    /\ UNCHANGED <<maps, op, arg, ret, calls>>
-----------------------------------------------------------------------------
(* get_or_insert: the fast path under the read lock ...                    *)
FastLock(t) ==
    /\ pc[t] = "fast"
    /\ AcquireRead(t, "iri_to_id")
    /\ Goto(t, "fast_held")
    /\ UNCHANGED <<maps, op, arg, ret, calls>>

FastHit(t) ==
    /\ pc[t] = "fast_held"
    /\ iri_to_id[arg[t]] # None
    /\ ret' = [ret EXCEPT ![t] = iri_to_id[arg[t]]]
    /\ Goto(t, "drop")
    /\ UNCHANGED <<maps, locks, op, arg, calls>>

(* Faulty: the read guard lives on while the write lock is awaited.        *)
FastMissGuardKept(t) ==
    /\ pc[t] = "fast_held"
    /\ iri_to_id[arg[t]] = None
    /\ Goto(t, "lock_fwd")
    /\ UNCHANGED <<maps, locks, op, arg, ret, calls>>

FastMiss(t) ==
    /\ pc[t] = "fast_held"
    /\ iri_to_id[arg[t]] = None
    /\ ReleaseRead(t, "iri_to_id")
    /\ Goto(t, "lock_fwd")
    /\ UNCHANGED <<maps, op, arg, ret, calls>>

(* ... then both write locks, in the order every writer uses.              *)
LockForward(t) ==
    /\ pc[t] = "lock_fwd"
    /\ AcquireWrite(t, "iri_to_id")
    /\ Goto(t, "lock_rev")
    /\ UNCHANGED <<maps, op, arg, ret, calls>>

(* Faulty: writers rely on the forward lock alone.                         *)
ReverseNotLocked(t) ==
    /\ pc[t] = "lock_rev"
    /\ Goto(t, "body")
    /\ UNCHANGED <<maps, locks, op, arg, ret, calls>>

LockReverse(t) ==
    /\ pc[t] = "lock_rev"
    /\ AcquireWrite(t, "id_to_iri")
    /\ Goto(t, "body")
    /\ UNCHANGED <<maps, op, arg, ret, calls>>

DoubleCheckHit(t) ==
    /\ pc[t] = "body" /\ op[t] = "get_or_insert"
    /\ iri_to_id[arg[t]] # None
    /\ ret' = [ret EXCEPT ![t] = iri_to_id[arg[t]]]
    /\ Goto(t, "unlock_rev")
    /\ UNCHANGED <<maps, locks, op, arg, calls>>

(* id + 1 and fetch_add(1) in u64: both wrap in a release build.           *)
Succ(d) == IF d = MaxId THEN 0 ELSE d + 1

(* Faulty: the counter is read but not advanced.                           *)
AssignNoAdvance(t) ==
    /\ pc[t] = "body" /\ op[t] = "get_or_insert"
    /\ iri_to_id[arg[t]] = None
    /\ iri_to_id' = [iri_to_id EXCEPT ![arg[t]] = next_id]
    /\ ret' = [ret EXCEPT ![t] = next_id]
    /\ Goto(t, "insert_rev")
    /\ UNCHANGED <<id_to_iri, next_id, locks, op, arg, calls>>

(* next_id.fetch_add and forward.insert; MaxId is out of reach of          *)
(* fetch_add, so the guard next_id < MaxId only bounds the model.          *)
Assign(t) ==
    /\ pc[t] = "body" /\ op[t] = "get_or_insert"
    /\ iri_to_id[arg[t]] = None
    /\ next_id < MaxId
    /\ next_id' = Succ(next_id)
    /\ iri_to_id' = [iri_to_id EXCEPT ![arg[t]] = next_id]
    /\ ret' = [ret EXCEPT ![t] = next_id]
    /\ Goto(t, "insert_rev")
    /\ UNCHANGED <<id_to_iri, locks, op, arg, calls>>

InsertReverse(t) ==
    /\ pc[t] = "insert_rev"
    /\ id_to_iri' = [id_to_iri EXCEPT ![ret[t]] = arg[t]]
    /\ Goto(t, "unlock_rev")
    /\ UNCHANGED <<iri_to_id, next_id, locks, op, arg, ret, calls>>
-----------------------------------------------------------------------------
(* What the entries of a list leave in a map: the last entry for a key     *)
(* wins, a key without an entry keeps its value.                           *)
Latest(K) == CHOOSE k \in K : \A j \in K : j <= k

(* The loop's max_id, started from n, ends at the least value that is past *)
(* n and past every id of the list ...                                     *)
IsPast(m, b, n) == n <= m /\ \A k \in DOMAIN b : b[k][1] < m

Least(S) == CHOOSE m \in S : \A k \in S : m <= k

(* ... unless an entry has the id u64::MAX: there id + 1 wraps to 0 and    *)
(* the loop starts over from 0 with the entries behind the last such one.  *)
BehindTop(b) == LET top == Latest({k \in DOMAIN b : b[k][1] = MaxId})
                IN [k \in 1 .. Len(b) - top |-> b[top + k]]

NextAfter(b, n) ==
    IF \A k \in DOMAIN b : b[k][1] # MaxId
    THEN Least({m \in Ids : IsPast(m, b, n)})
    ELSE Least({m \in Ids : IsPast(m, BehindTop(b), 0)})

ForIri(b, i) == {k \in DOMAIN b : b[k][2] = i}
ForId(b, d) == {k \in DOMAIN b : b[k][1] = d}

(* Faulty: the counter is not moved past the imported ids.                 *)
ImportKeepsCounter(t) ==
    /\ pc[t] = "body" /\ op[t] = "import"
    /\ LET b == Entries[arg[t]] IN
       /\ iri_to_id' = [i \in Iris |->
             IF ForIri(b, i) = {} THEN iri_to_id[i] ELSE b[Latest(ForIri(b, i))][1]]
       /\ id_to_iri' = [d \in Ids |->
             IF ForId(b, d) = {} THEN id_to_iri[d] ELSE b[Latest(ForId(b, d))][2]]
    /\ Goto(t, "unlock_rev")
    /\ UNCHANGED <<next_id, locks, op, arg, ret, calls>>

ImportEntries(t) ==
    /\ pc[t] = "body" /\ op[t] = "import"
    /\ LET b == Entries[arg[t]] IN
       /\ iri_to_id' = [i \in Iris |->
             IF ForIri(b, i) = {} THEN iri_to_id[i] ELSE b[Latest(ForIri(b, i))][1]]
       /\ id_to_iri' = [d \in Ids |->
             IF ForId(b, d) = {} THEN id_to_iri[d] ELSE b[Latest(ForId(b, d))][2]]
       /\ next_id' = NextAfter(b, next_id)
    /\ Goto(t, "unlock_rev")
    /\ UNCHANGED <<locks, op, arg, ret, calls>>

(* Faulty: the reverse map survives.                                       *)
ClearForwardOnly(t) ==
    /\ pc[t] = "body" /\ op[t] = "clear"
    /\ next_id' = 1
    /\ iri_to_id' = [i \in Iris |-> None]
    /\ Goto(t, "unlock_rev")
    /\ UNCHANGED <<id_to_iri, locks, op, arg, ret, calls>>

ClearMaps(t) ==
    /\ pc[t] = "body" /\ op[t] = "clear"
    /\ next_id' = 1
    /\ iri_to_id' = [i \in Iris |-> None]
    /\ id_to_iri' = [d \in Ids |-> None]
    /\ Goto(t, "unlock_rev")
    /\ UNCHANGED <<locks, op, arg, ret, calls>>

(* The guards drop in reverse order of declaration and the call returns.   *)
UnlockReverse(t) ==
    /\ pc[t] = "unlock_rev"
    /\ ReleaseWrite(t, "id_to_iri")
    /\ Goto(t, "unlock_fwd")
    /\ UNCHANGED <<maps, op, arg, ret, calls>>

UnlockForward(t) ==
    /\ pc[t] = "unlock_fwd"
    /\ ReleaseWrite(t, "iri_to_id")
    /\ Goto(t, "idle")
    /\ UNCHANGED <<maps, op, arg, ret, calls>>
-----------------------------------------------------------------------------
Calls(t) ==
    \/ \E i \in Iris : CallGetOrInsert(t, i) \/ CallGetId(t, i)
    \/ \E d \in Ids : CallGetIri(t, d)
    \/ \E m \in Imports : CallImport(t, m)
    \/ CallClear(t)

Step(t) ==
    \/ ReadLock(t) \/ Lookup(t) \/ ReadReturn(t)
    \/ FastLock(t) \/ FastHit(t) \/ FastMiss(t)
    \/ LockForward(t) \/ LockReverse(t)
    \/ DoubleCheckHit(t) \/ Assign(t) \/ InsertReverse(t)
    \/ ImportEntries(t) \/ ClearMaps(t)
    \/ UnlockReverse(t) \/ UnlockForward(t)

(* All calls made and returned: not a deadlock.                            *)
Finished ==
    /\ calls = MaxCalls /\ \A t \in Threads : pc[t] = "idle"
    /\ UNCHANGED vars

Next == (\E t \in Threads : Calls(t) \/ Step(t)) \/ Finished

(* A thread inside a call keeps running; it need not make another call.    *)
Fairness == \A t \in Threads : WF_vars(Step(t))

Spec == Init /\ [][Next]_vars /\ Fairness
-----------------------------------------------------------------------------
(* Every variable keeps its type: the maps are partial functions between   *)
(* IRIs and ids, the lock words name threads.                              *)
TypeOK ==
    /\ iri_to_id \in [Iris -> Ids \cup {None}]
    /\ id_to_iri \in [Ids -> Iris \cup {None}]
    /\ next_id \in Ids
    /\ writer \in [Locks -> Threads \cup {None}]
    /\ readers \in [Locks -> SUBSET Threads]
    /\ pc \in [Threads -> Phases]
    /\ op \in [Threads -> AllOps]
    /\ arg = [t \in Threads |-> arg[t]] /\ \A t \in Threads : arg[t] \in ArgsOf(op[t])
    /\ ret \in [Threads -> Ids \cup Iris \cup {None}]
    /\ calls \in 0 .. MaxCalls

MapsInverse ==
    \A i \in Iris, d \in Ids : iri_to_id[i] = d <=> id_to_iri[d] = i

(* get_or_insert's comment: "both forward and reverse mappings are updated *)
(* atomically while holding both write locks to prevent inconsistency".    *)
(* Whoever holds a read lock on either map, and whoever enters a writer's  *)
(* body, finds the two maps inverse to each other: the moment between the  *)
(* two inserts is covered by both locks.  Imports into a shared dictionary *)
(* are excluded (see EveryIriHasItsOwnId).                                 *)
MapsAgreeWhenObserved ==
    RestoreOnly /\ (\E t \in Threads : pc[t] \in {"read_held", "fast_held", "body"})
      => MapsInverse

(* dictionary.rs: "Each unique IRI is assigned a numeric ID".  No id names *)
(* two IRIs, whatever the interleaving.                                    *)
EveryIriHasItsOwnId ==
    \A i, j \in Iris :
        i # j /\ iri_to_id[i] # None => iri_to_id[i] # iri_to_id[j]

(* The counter stays ahead of every id in use, imported ones included, so  *)
(* the next fetch_add cannot hand out an id that already has a meaning.    *)
NextIdIsFresh ==
    \A d \in Ids : id_to_iri[d] # None => d < next_id

(* Every call returns: the two locks are always taken in the same order    *)
(* and no guard is held while waiting for a lock behind it.                *)
EveryCallReturns == \A t \in Threads : pc[t] # "idle" ~> pc[t] = "idle"
-----------------------------------------------------------------------------
(* The abstraction: the forward map is the assignment, and a call has      *)
(* taken effect once its answer is fixed.                                  *)
Loaded(b) ==
    [i \in Iris |->
       IF \E k \in DOMAIN b : b[k][2] = i
       THEN b[CHOOSE k \in DOMAIN b : b[k][2] = i][1] ELSE None]

AbstractCall(t) ==
    IF pc[t] = "idle"
    THEN [phase |-> "idle", op |-> "none", arg |-> None, ret |-> None]
    ELSE [phase |-> IF pc[t] \in {"drop", "insert_rev", "unlock_rev", "unlock_fwd"}
                    THEN "answered" ELSE "asked",
          op |-> op[t],
          arg |-> IF op[t] = "import" THEN Loaded(Entries[arg[t]]) ELSE arg[t],
          ret |-> ret[t]]

Atomic == INSTANCE AtomicDictionary WITH
    Restores <- {Loaded(Entries[m]) : m \in Imports},
    assigned <- iri_to_id,
    call <- [t \in Threads |-> AbstractCall(t)]

(* The dictionary is linearizable: it implements the atomic map of         *)
(* AtomicDictionary, as long as imports only restore an unshared one.      *)
ImplementsAtomicMap == Atomic!Spec
=============================================================================
