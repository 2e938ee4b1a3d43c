---------------------------- MODULE MCFlatCache ----------------------------
(***************************************************************************)
(* FlatCache on a chain of three blocks: the first writes both keys, the   *)
(* second writes one key twice and deletes it in its tail, the third       *)
(* writes the other.                                                       *)
(***************************************************************************)
EXTENDS FlatCache, TLC

CONSTANTS k1, k2, empty, v1, v2

MCKeys    == {k1, k2}
MCVals    == {empty, v1, v2}
MCLast    == 0 :> 0 @@ 1 :> 2 @@ 2 :> 4 @@ 3 :> 5
MCRowKey  == <<k1, k2, k1, k1, k2>>
MCRowVal  == <<v1, v1, v2, empty, v2>>
MCSize    == [k \in MCKeys |-> [e \in MCVals \cup {NotFound} |->
                IF e \in {empty, NotFound} THEN 1 ELSE 2]]
Symmetry  == Permutations(Readers)
=============================================================================
