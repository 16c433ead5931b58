-------------------------- MODULE MCIriDictionary --------------------------
(* Small instances of IriDictionary.                                       *)
EXTENDS IriDictionary, SequencesExt

CONSTANTS ia, ib, short, long

(* Restores of an exported dictionary: consistent lists, with a gap in the *)
(* ids as left by the numbering of another dictionary.                     *)
ExportedLists == short :> << <<1, ib>> >> @@ long :> << <<3, ia>>, <<1, ib>> >>

(* import's loop, entry by entry, computes what NextAfter says: compared   *)
(* on every list of at most three ids.                                     *)
LoopMaxId(ids, n) ==
    FoldLeft(LAMBDA max, id : IF id >= max THEN Succ(id) ELSE max, n, ids)

ASSUME NextAfterIsTheLoop ==
    \A ids \in BoundedSeq(Ids, 3), n \in Ids :
        NextAfter([k \in DOMAIN ids |-> <<ids[k], ia>>], n) = LoopMaxId(ids, n)
=============================================================================
