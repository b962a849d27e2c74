----------------------------- MODULE ExtractorMC -----------------------------
(***************************************************************************)
(* Instances of Extractor: sessions that are deleted, that grow, one with  *)
(* nothing to say and one that no run can extract, in a window of two.     *)
(***************************************************************************)
EXTENDS Extractor

CONSTANTS a, b, c

ThreeSessions == {a, b, c}
OneQuiet == {b}
OneBad == {c}
OneSession == {a}
None == {}
TwoItems == {1, 2}
=============================================================================
