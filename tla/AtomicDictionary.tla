-------------------------- MODULE AtomicDictionary --------------------------
(***************************************************************************)
(* What the IRI dictionary promises its callers: every call takes effect   *)
(* at one instant between its invocation and its return, on ONE injective  *)
(* partial map from IRIs to ids.  There are no locks and no reverse map    *)
(* here; IriDictionary is shown to implement this module.                  *)
(***************************************************************************)
EXTENDS Naturals

CONSTANTS
    Threads,  \* the callers
    Iris,     \* the IRIs that can be interned
    Ids,      \* the identifiers
    Reserved, \* the identifier that stands for "unknown" and is never assigned
    Restores, \* the maps that import may load into an empty dictionary
    None

VARIABLES
    assigned, \* assigned[i]: the identifier of IRI i, or None
    call      \* call[t]: what thread t has asked for and what it was told

vars == <<assigned, call>>

Idle == [phase |-> "idle", op |-> "none", arg |-> None, ret |-> None]

Invoke(t, o, a) ==
    /\ call[t].phase = "idle"
    /\ call' = [call EXCEPT
                  ![t] = [phase |-> "asked", op |-> o, arg |-> a, ret |-> None]]
    /\ UNCHANGED assigned

Answer(t, r) ==
    call' = [call EXCEPT ![t].phase = "answered", ![t].ret = r]

(* A known IRI answers with its identifier, an unknown one gets an unused  *)
(* identifier.                                                             *)
Intern(t) ==
    /\ call[t].phase = "asked" /\ call[t].op = "get_or_insert"
    /\ LET i == call[t].arg IN
       \/ /\ assigned[i] # None
          /\ Answer(t, assigned[i])
          /\ UNCHANGED assigned
       \/ /\ assigned[i] = None
          /\ \E d \in Ids \ {Reserved} :
               /\ \A j \in Iris : assigned[j] # d
               /\ assigned' = [assigned EXCEPT ![i] = d]
               /\ Answer(t, d)

LookupId(t) ==
    /\ call[t].phase = "asked" /\ call[t].op = "get_id"
    /\ Answer(t, assigned[call[t].arg])
    /\ UNCHANGED assigned

LookupIri(t) ==
    /\ call[t].phase = "asked" /\ call[t].op = "get_iri"
    /\ \E r \in Iris \cup {None} :
         /\ IF r = None THEN \A i \in Iris : assigned[i] # call[t].arg
                        ELSE assigned[r] = call[t].arg
         /\ Answer(t, r)
    /\ UNCHANGED assigned

Forget(t) ==
    /\ call[t].phase = "asked" /\ call[t].op = "clear"
    /\ assigned' = [i \in Iris |-> None]
    /\ Answer(t, None)

Restore(t) ==
    /\ call[t].phase = "asked" /\ call[t].op = "import"
    /\ assigned = [i \in Iris |-> None]
    /\ assigned' = call[t].arg
    /\ Answer(t, None)

Return(t) ==
    /\ call[t].phase = "answered"
    /\ call' = [call EXCEPT ![t] = Idle]
    /\ UNCHANGED assigned

Init ==
    /\ assigned = [i \in Iris |-> None]
    /\ call = [t \in Threads |-> Idle]

Next ==
    \E t \in Threads :
        \/ \E i \in Iris : Invoke(t, "get_or_insert", i) \/ Invoke(t, "get_id", i)
        \/ \E d \in Ids : Invoke(t, "get_iri", d)
        \/ Invoke(t, "clear", None)
        \/ \E m \in Restores : Invoke(t, "import", m)
        \/ Intern(t) \/ LookupId(t) \/ LookupIri(t)
        \/ Forget(t) \/ Restore(t)
        \/ Return(t)

Spec == Init /\ [][Next]_vars
=============================================================================
