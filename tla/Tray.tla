-------------------------------- MODULE Tray --------------------------------
(***************************************************************************)
(* The tray: a main thread that never waits and a worker that does all the *)
(* waiting, joined by two channels (console/src/bin/tray.rs).              *)
(*                                                                         *)
(* cmds carries what the main thread asks, ups what the worker answers.    *)
(* The main thread runs one tick every 200 ms; a tick is a chain of        *)
(* functions over the App record, in the order the code runs them.  Time   *)
(* passes in units of a minute: both cadences of the job poll are below    *)
(* one unit, so a poll is due whenever time has passed.  A menu is drawn   *)
(* whole; the person may still be looking at an older copy, and press a    *)
(* button there.  Setting a schedule and arming a trigger take the same    *)
(* path, Change, to one of two settings.                                   *)
(***************************************************************************)
EXTENDS Integers, Sequences, Functions

CONSTANTS
  Jobs,          \* the labels of the jobs, in the order a menu shows them
  Unreadable,    \* what a listing that failed gives
  RefreshEvery,  \* REFRESH, in units of time
  Patience,      \* WORKER_PATIENCE, in units of time
  MaxQueue,      \* bound: commands waiting before time stops passing
  MaxPresses,    \* bound: presses of a job's button
  MaxOdd,        \* bound: readings that fail and changes somebody else makes to the jobs
  MayHang        \* may a call the worker makes never return

VARIABLES app, cmds, ups, worker, world, view, pressed, moved

vars == <<app, cmds, ups, worker, world, view, pressed, moved>>

Labels == Range(Jobs)
NoCmd == [do |-> "nothing"]
Refresh == [do |-> "refresh"]
RefreshJobs == [do |-> "jobs"]
RunJob(l) == [do |-> "run", job |-> l]
Change(l, to) == [do |-> "change", job |-> l, to |-> to]
Writes == UNION {{RunJob(l), Change(l, TRUE), Change(l, FALSE)} : l \in Labels}
Never == -1                                     \* nothing is awaited
NoNote == NoCmd
StaleNote == Refresh                            \* "that button was from an older copy of the menu"
NoPress == [meant |-> NoCmd, sent |-> NoCmd]
Gone == {"stuck", "dead"}

\* The buttons of a menu, in their order.  Without a reading of the store there is only
\* "Refresh now" (and Quit).
Buttons(a) ==
  LET listed == IF a.jobs = Unreadable THEN <<>> ELSE SelectSeq(Jobs, LAMBDA l : l \in DOMAIN a.jobs)
      job(k) == listed[(k + 1) \div 2]
  IN <<Refresh>> \o (IF ~a.data THEN <<>> ELSE
       [k \in 1..(2 * Len(listed)) |-> IF k % 2 = 1 THEN RunJob(job(k)) ELSE Change(job(k), ~a.jobs[job(k)])])

Content(a) == [status |-> a.status, note |-> a.note, data |-> a.data, jobs |-> a.jobs]

Init ==
  /\ app = [status |-> "asking", note |-> NoNote, data |-> FALSE, jobs |-> <<>>, awaiting |-> 0,
            refreshed |-> 0, inFlight |-> FALSE, pollDue |-> FALSE, pending |-> FALSE,
            dead |-> FALSE, ticked |-> FALSE, drawn |-> <<>>]
  /\ cmds = <<Refresh>>
  /\ ups = <<>>
  /\ worker = [doing |-> NoCmd, at |-> "idle"]
  /\ world = [l \in Labels |-> TRUE]
  /\ view = [items |-> <<>>, current |-> FALSE, open |-> FALSE]
  /\ pressed = NoPress
  /\ moved = [presses |-> 0, odd |-> 0]
-----------------------------------------------------------------------------
(* One tick of the main thread. *)

Absorb(a, u) ==
  CASE u.kind = "data"   -> [a EXCEPT !.awaiting = Never, !.status = "", !.data = TRUE, !.pending = TRUE]
    [] u.kind = "failed" -> [a EXCEPT !.awaiting = Never, !.status = "notUpdated", !.pending = TRUE]
    [] u.kind = "note"   -> [a EXCEPT !.awaiting = Never, !.note = u.note, !.pending = TRUE]
    [] u.kind = "jobs"   -> [a EXCEPT !.inFlight = FALSE, !.jobs = u.jobs, !.pending = TRUE]

Drained(a) ==
  LET read[i \in 0..Len(ups)] == IF i = 0 THEN a ELSE Absorb(read[i - 1], ups[i])
      b == read[Len(ups)]
  IN IF worker.at = "dead" /\ ~b.dead
     THEN [b EXCEPT !.dead = TRUE, !.status = "workerDead", !.pending = TRUE] ELSE b

Watched(a) ==
  IF a.awaiting > Patience THEN [a EXCEPT !.status = "noAnswer", !.pending = TRUE] ELSE a

\* Mutant of Asking: a new question clears what the last answer said.
AskingAfresh(a, status) == [a EXCEPT !.status = status, !.awaiting = 0, !.note = NoNote]

\* App::ask, without the command itself.
Asking(a, status) == [a EXCEPT !.status = status, !.awaiting = 0]

\* Mutant of Matched: a press is looked up by its place in the menu as it is now.
MatchedByPlace(k) ==
  IF k # 0 /\ k <= Len(Buttons(app.drawn)) THEN Buttons(app.drawn)[k] ELSE NoCmd

\* What a press on button k of the copy in view posts, if anything: the ids of a copy that has been
\* replaced match no button any more.
Matched(k) == IF k # 0 /\ view.current THEN Buttons(app.drawn)[k] ELSE NoCmd

AfterPress(a, k) ==
  IF k = 0 THEN a
  ELSE IF Matched(k) = NoCmd THEN [a EXCEPT !.note = StaleNote, !.pending = TRUE]
  ELSE [Asking(a, "asking") EXCEPT !.pending = TRUE]

RefreshDue(a) == a.refreshed >= RefreshEvery
Refreshed(a) == IF RefreshDue(a) THEN [Asking(a, a.status) EXCEPT !.refreshed = 0] ELSE a

PollDue(a) == ~a.inFlight /\ a.pollDue
Polled(a) == IF PollDue(a) THEN [a EXCEPT !.inFlight = TRUE, !.pollDue = FALSE] ELSE a

Redraws(a) == (a.drawn = <<>> \/ (a.pending /\ ~view.open)) /\ a.drawn # Content(a)
Rebuilt(a) == [a EXCEPT !.drawn = IF Redraws(a) THEN Content(a) ELSE @,
                        !.pending = @ /\ view.open, !.ticked = TRUE]

\* Commands for a worker that is gone are left out: nobody will take them.
Tick(k) ==
  LET a == Refreshed(AfterPress(Watched(Drained(app)), k))
      sent == <<Matched(k), IF RefreshDue(app) THEN Refresh ELSE NoCmd,
                IF PollDue(a) THEN RefreshJobs ELSE NoCmd>>
  IN /\ app' = Rebuilt(Polled(a))
     /\ cmds' = IF worker.at \in Gone THEN <<>> ELSE cmds \o SelectSeq(sent, LAMBDA c : c # NoCmd)
     /\ ups' = <<>>
     /\ view' = [view EXCEPT !.current = @ /\ ~Redraws(Polled(a))]
     /\ pressed' = IF k = 0 THEN NoPress ELSE [meant |-> view.items[k], sent |-> Matched(k)]
     /\ UNCHANGED <<worker, world>>

\* A tick that has something to do.
MainStep ==
  /\ ~app.ticked \/ ups # <<>> \/ (app.pending /\ ~view.open) \/ (worker.at = "dead" /\ ~app.dead)
  /\ Tick(0)
  /\ UNCHANGED moved

\* One button pressed in the copy in view.
Press ==
  /\ moved.presses < MaxPresses
  /\ \E k \in 1..Len(view.items) : Tick(k)
  /\ moved' = [moved EXCEPT !.presses = @ + 1]

\* The person opens the menu and sees it as it stands, or closes it.
OpenMenu ==
  /\ app.drawn # <<>>
  /\ ~view.open \/ ~view.current
  /\ view' = [items |-> Buttons(app.drawn), current |-> TRUE, open |-> TRUE]
  /\ pressed' = NoPress
  /\ UNCHANGED <<app, cmds, ups, worker, world, moved>>

CloseMenu ==
  /\ view.open
  /\ view' = [view EXCEPT !.open = FALSE]
  /\ pressed' = NoPress
  /\ UNCHANGED <<app, cmds, ups, worker, world, moved>>

Elapse ==
  /\ app.ticked
  /\ Len(cmds) < MaxQueue
  /\ app' = [app EXCEPT !.awaiting = IF @ \in {Never, Patience + 1} THEN @ ELSE @ + 1,
                        !.refreshed = @ + 1, !.pollDue = TRUE, !.ticked = FALSE]
  /\ pressed' = NoPress
  /\ UNCHANGED <<cmds, ups, worker, world, view, moved>>
-----------------------------------------------------------------------------
(* The worker thread: one command at a time, every answer through ups. *)

Odd == moved.odd < MaxOdd /\ moved' = [moved EXCEPT !.odd = @ + 1]

Say(u) == ups' = Append(ups, u) /\ pressed' = NoPress

Take ==
  /\ worker.at = "idle" /\ cmds # <<>>
  /\ worker' = [doing |-> Head(cmds), at |-> IF Head(cmds) \in Writes THEN "act" ELSE "list"]
  /\ cmds' = Tail(cmds)
  /\ pressed' = NoPress
  /\ UNCHANGED <<app, ups, world, view, moved>>

\* run_now, set_schedule, set_enabled: done, or refused with a reason.  The job is looked up again
\* before it is changed.
Act ==
  /\ worker.at = "act"
  /\ LET c == worker.doing IN
     /\ Say([kind |-> "note", note |-> c])
     /\ world' \in IF c.do = "change" /\ c.job \in DOMAIN world
                   THEN {world, [world EXCEPT ![c.job] = c.to]} ELSE {world}
  /\ worker' = [worker EXCEPT !.at = "list"]
  /\ UNCHANGED <<app, cmds, view, moved>>

ReadJobs ==
  /\ worker.at = "list"
  /\ \/ Say([kind |-> "jobs", jobs |-> world]) /\ UNCHANGED moved
     \/ Say([kind |-> "jobs", jobs |-> Unreadable]) /\ Odd
  /\ worker' = IF worker.doing = Refresh THEN [worker EXCEPT !.at = "store"]
               ELSE [doing |-> NoCmd, at |-> "idle"]
  /\ UNCHANGED <<app, cmds, world, view>>

ReadStore ==
  /\ worker.at = "store"
  /\ \/ Say([kind |-> "data"]) /\ UNCHANGED moved
     \/ Say([kind |-> "failed"]) /\ Odd
  /\ worker' = [doing |-> NoCmd, at |-> "idle"]
  /\ UNCHANGED <<app, cmds, world, view>>

\* A call that never returns, or a panic that ends the thread.
Fails ==
  /\ MayHang
  /\ worker.at \in {"act", "list", "store"}
  /\ \E how \in Gone : worker' = [worker EXCEPT !.at = how]
  /\ cmds' = <<>>
  /\ pressed' = NoPress
  /\ UNCHANGED <<app, ups, world, view, moved>>

\* Somebody else installs a job or removes one, or changes its setting.
WorldMoves ==
  /\ Odd
  /\ \/ \E l \in DOMAIN world : world' = [world EXCEPT ![l] = ~@]
     \/ \E S \in SUBSET Labels : S # DOMAIN world /\ world' = [l \in S |-> TRUE]
  /\ pressed' = NoPress
  /\ UNCHANGED <<app, cmds, ups, worker, view>>

WorkerStep == Take \/ Act \/ ReadJobs \/ ReadStore
Next == MainStep \/ Press \/ OpenMenu \/ CloseMenu \/ Elapse \/ WorkerStep \/ Fails \/ WorldMoves

Spec == Init /\ [][Next]_vars
\* Ticks come by the clock: a menu that is closed again and again is closed at some tick.
TickWhileClosed == ~view.open /\ MainStep
FairSpec ==
  /\ Spec
  /\ WF_vars(MainStep) /\ SF_vars(TickWhileClosed)
  /\ WF_vars(WorkerStep) /\ WF_vars(CloseMenu) /\ WF_vars(Elapse)
-----------------------------------------------------------------------------
TypeOK ==
  /\ app.status \in {"", "asking", "notUpdated", "noAnswer", "workerDead"}
  /\ app.note \in Writes \union {NoNote, StaleNote}
  /\ app.awaiting \in Never..(Patience + 1)
  /\ cmds \in Seq(Writes \union {Refresh, RefreshJobs})
  /\ worker.at \in {"idle", "act", "list", "store"} \union Gone
  /\ DOMAIN world \subseteq Labels

\* A press posts what the button it landed on said, or nothing: never the command of a button that
\* has since taken its place in a rebuilt menu.
PressHitsWhatWasShown == pressed.sent \in {NoCmd, pressed.meant}

\* Whatever a button started, its outcome reaches the screen, as long as the calls return, nobody
\* presses another button and the menu is closed at last.
PressAnswered == (worker.at = "act") ~> (app.drawn # <<>> /\ app.drawn.note \in Writes)

\* What WORKER_PATIENCE is for: a worker that has stopped answering is said to have stopped.
SilenceIsSaid == (worker.at = "stuck") ~> (app.status = "noAnswer")
=============================================================================
