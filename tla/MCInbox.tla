--------------------------------- MODULE MCInbox ---------------------------------
(***************************************************************************)
(* Inbox, and with it ApiClient, on a small instance.                      *)
(***************************************************************************)
EXTENDS Inbox
================================================================================
