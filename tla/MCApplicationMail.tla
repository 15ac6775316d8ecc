---------------------------- MODULE MCApplicationMail ----------------------------
(***************************************************************************)
(* ApplicationMail on small instances.                                     *)
(***************************************************************************)
EXTENDS ApplicationMail, TLC
================================================================================
