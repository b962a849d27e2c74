----------------------------- MODULE McpServerMC -----------------------------
(***************************************************************************)
(* Instances of McpServer: two requests with one id and a third with       *)
(* another, and fewer pids than children.                                  *)
(***************************************************************************)
EXTENDS McpServer, TLC

CONSTANTS r1, r2, r3, a, b, g1, g2

TwoRequests == {r1, r2}
ThreeRequests == {r1, r2, r3}
TwoIds == {a, b}
SameIds == (r1 :> a) @@ (r2 :> a)
OwnIds == (r1 :> a) @@ (r2 :> b)
MixedIds == (r1 :> a) @@ (r2 :> a) @@ (r3 :> b)
OnePid == {g1}
TwoPids == {g1, g2}
=============================================================================
