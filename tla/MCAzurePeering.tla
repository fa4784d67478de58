--------------------------- MODULE MCAzurePeering ---------------------------
(***************************************************************************)
(* Small instances of AzurePeering for TLC; see the .cfg files.            *)
(***************************************************************************)
EXTENDS AzurePeering
=============================================================================
