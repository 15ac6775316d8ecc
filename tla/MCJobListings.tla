------------------------------ MODULE MCJobListings ------------------------------
(***************************************************************************)
(* JobListings on small instances.                                         *)
(***************************************************************************)
EXTENDS JobListings
================================================================================
