-------------------------- MODULE MCLanceConsumer --------------------------
(***************************************************************************)
(* Small instances of LanceConsumer for TLC; see the .cfg files.           *)
(***************************************************************************)
EXTENDS LanceConsumer
=============================================================================
