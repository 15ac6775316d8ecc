----------------------------- MODULE MCApplications -----------------------------
(***************************************************************************)
(* Applications on small instances.  Workers and application ids are       *)
(* interchangeable in every safety and action property, so those runs      *)
(* explore one behaviour per permutation of them; the runs of liveness     *)
(* properties do not use the symmetry.                                     *)
(***************************************************************************)
EXTENDS Applications, TLC

Alike == Permutations(Workers) \cup Permutations(Jobs) \cup Permutations(AppIds)
================================================================================
