----------------------------- MODULE ProgressMC -----------------------------
(***************************************************************************)
(* What must happen in the end, where something waits for something else:  *)
(* two runs at a pid lock, the tray and its worker, and a question to the  *)
(* store.  A behaviour draws one of these parts and keeps to it; the       *)
(* others rest where they begin.                                           *)
(***************************************************************************)
EXTENDS PidLock, Sequences, TLC

CONSTANTS p1, p2, i0, i1, i2, j1, Unreadable

VARIABLE part
VARIABLES app, cmds, ups, worker, world, view, pressed, moved
VARIABLES pc, query, stdin, child, helper, out, err, status, result

TwoRuns == {p1, p2}
ThreeInodes == {i0, i1, i2}

T == INSTANCE Tray WITH
  Jobs <- <<j1>>, RefreshEvery <- 1, Patience <- 1, MaxQueue <- 1, MaxPresses <- 1, MaxOdd <- 0,
  MayHang <- FALSE

Q == INSTANCE StoreQuery WITH
  Pipe <- 1, MaxOutput <- 1, MaxQuery <- 2, MaxSaid <- 2

tVars == <<app, cmds, ups, worker, world, view, pressed, moved>>
qVars == <<pc, query, stdin, child, helper, out, err, status, result>>

ProgressInit ==
  /\ part \in {"lock", "tray", "query"}
  /\ Init /\ T!Init /\ Q!Init
  /\ used = {i0}                                            \* inodes are alike
  /\ part # "lock" => path = NoFile /\ alive = Procs /\ file[i0] = [pid |-> NoPid, age |-> 0]

ProgressNext ==
  /\ UNCHANGED part
  /\ IF part = "lock" THEN Next ELSE UNCHANGED vars
  /\ IF part = "tray" THEN T!Next ELSE UNCHANGED tVars
  /\ IF part = "query" THEN Q!Next ELSE UNCHANGED qVars

\* Each part's own fairness, while it is the part that runs.
ProgressSpec ==
  /\ ProgressInit /\ [][ProgressNext]_<<part, vars, tVars, qVars>>
  /\ \A p \in Procs : WF_vars(part = "lock" /\ Attempt(p))
  /\ WF_tVars(part = "tray" /\ T!MainStep)
  /\ SF_tVars(part = "tray" /\ T!TickWhileClosed)
  /\ WF_tVars(part = "tray" /\ T!WorkerStep)
  /\ WF_tVars(part = "tray" /\ T!CloseMenu)
  /\ WF_tVars(part = "tray" /\ T!Elapse)
  /\ WF_qVars(part = "query" /\ Q!CallerStep)
-----------------------------------------------------------------------------
\* A lock that is contended for is given to somebody, and a stale one is recovered.
LockMovesOn == part = "lock" => LockIsGiven

\* What a button of the tray started is reported.
PressAnswered == T!PressAnswered

\* A question to the store comes back, whatever the person's command does.
Returns == Q!Returns
=============================================================================
