------------------------------- MODULE MCCompanies -------------------------------
(***************************************************************************)
(* Companies on a small instance.  Workers and users are interchangeable.  *)
(***************************************************************************)
EXTENDS Companies, TLC

Symmetry == Permutations(Workers) \cup Permutations(Users)
================================================================================
