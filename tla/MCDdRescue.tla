----------------------------- MODULE MCDdRescue -----------------------------
(***************************************************************************)
(* Instances of DdRescue: a partition of nine units, soft blocks of four   *)
(* and hard ones of two, so that neither divides it, one soft block ends   *)
(* at an fsync, and three errors already make the status go round.  The    *)
(* weak places are none, one in the first soft block, one in the last      *)
(* piece, which no fsync of copyfile follows, and two.                     *)
(***************************************************************************)
EXTENDS DdRescue

MCDefects == { D \in SUBSET (0..8) : Cardinality(D) <= 1 } \cup {{1, 4}, {2, 3}, {0, 7, 8}}
MCLens == {5, 8, 9}
MCOutLens == {6, 9}
MCWeakSets == {{}, {2}, {8}, {0, 5}}
=============================================================================
