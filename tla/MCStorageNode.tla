--------------------------- MODULE MCStorageNode ---------------------------
(***************************************************************************)
(* Instances of StorageNode for TLC: one key in ticks of half a second.    *)
(***************************************************************************)
EXTENDS StorageNode

=============================================================================
