----------------------------- MODULE ReleasesMC -----------------------------
(***************************************************************************)
(* The installer with three releases, one more than it keeps, five runs,   *)
(* and two of them killed.                                                 *)
(***************************************************************************)
EXTENDS Releases, TLC

CONSTANTS r1, r2, r3

AnyOrder == Permutations({r1, r2, r3})
=============================================================================
