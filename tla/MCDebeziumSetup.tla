--------------------------- MODULE MCDebeziumSetup ---------------------------
(***************************************************************************)
(* Small instances of DebeziumSetup for TLC.                               *)
(***************************************************************************)
EXTENDS DebeziumSetup
=============================================================================
