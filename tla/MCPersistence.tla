--------------------------- MODULE MCPersistence ----------------------------
(* Three stores, at most three generations and three faults. *)
EXTENDS Persistence
=============================================================================
