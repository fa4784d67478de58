----------------------- MODULE MCDebeziumDisklessTest -----------------------
(***************************************************************************)
(* Small instances of DebeziumDisklessTest for TLC; see the .cfg files.    *)
(***************************************************************************)
EXTENDS DebeziumDisklessTest
=============================================================================
