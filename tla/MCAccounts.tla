------------------------------- MODULE MCAccounts --------------------------------
(***************************************************************************)
(* Accounts on a small instance.  Workers, ids and values are              *)
(* interchangeable.                                                        *)
(***************************************************************************)
EXTENDS Accounts, TLC

Symmetry == Permutations(Workers) \cup Permutations(Ids) \cup Permutations(Values)
================================================================================
