---------------------------- MODULE StoreLocksMC ----------------------------
(***************************************************************************)
(* Two writes of one author with swapped endpoints, at the locks of the    *)
(* store.                                                                  *)
(***************************************************************************)
EXTENDS StoreLocks, StoreCommands

CONSTANTS p, q

TwoSessions == {p, q}
=============================================================================
