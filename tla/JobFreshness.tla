---------------------------- MODULE JobFreshness ----------------------------
(***************************************************************************)
(* Is a scheduled job alive?  What the console concludes from the traces a *)
(* job leaves (console/src/jobs/mod.rs, read_unit in jobs/systemd.rs,      *)
(* read_plist in jobs/launchd.rs) and how it draws them                    *)
(* (console/src/view.rs), against what really happened to the job.         *)
(*                                                                         *)
(* The traces: the log's time stamp, systemd's record of the timer's last  *)
(* firing, launchd's count of runs since the login (here only whether it   *)
(* is zero, all the console asks of it), the last exit code.               *)
(* ran is the truth: when the job last ran, whoever started it.            *)
(***************************************************************************)
EXTENDS Integers, FiniteSets

CONSTANTS Period,   \* how long between two firings
          MaxTime   \* bound: how long the story is

VARIABLES job, now, ran, firing

vars == <<job, now, ran, firing>>

Systemd == job.platform = "systemd"
Never == -1      \* no such moment
Unknown == -2    \* a log that cannot be dated, a number nobody keeps
NoLog == -3      \* no log is configured
Newer(a, b) == IF a > b THEN a ELSE b

Init ==
  /\ job = [platform |-> "none", log |-> NoLog, trigger |-> Never, runs |-> Unknown, exit |-> Unknown,
            pid |-> FALSE, installed |-> 0, armed |-> TRUE, readable |-> TRUE]
  /\ now = 0 /\ ran = Never /\ firing = TRUE

InstallUnit(l) == job' = [job EXCEPT !.platform = "systemd", !.log = l, !.runs = Unknown, !.exit = Unknown]
InstallAgent(l) == job' = [job EXCEPT !.platform = "launchd", !.log = l, !.runs = 0, !.exit = 0]

\* A job is installed, with a log or without, and read for the first time.  launchd loads it and
\* counts from zero; systemd keeps no count and no exit status of a run that never was.
Install ==
  /\ job.platform = "none"
  /\ \E l \in {NoLog, Never} : InstallUnit(l) \/ InstallAgent(l)
  /\ UNCHANGED <<now, ran, firing>>

\* Started by its timer or by hand: it writes its log, if it has one.
Starts(byTimer) ==
  /\ job.platform # "none" /\ ~job.pid
  /\ byTimer => job.armed /\ job.readable /\ firing
  /\ job' = [job EXCEPT !.pid = TRUE, !.log = IF @ = NoLog THEN NoLog ELSE now,
                        !.trigger = IF Systemd /\ byTimer THEN now ELSE @,
                        !.runs = IF Systemd THEN @ ELSE 1]
  /\ ran' = now
  /\ UNCHANGED <<now, firing>>

Ends ==
  /\ job.pid
  /\ \E code \in {0, 1} : job' = [job EXCEPT !.pid = FALSE, !.exit = code]
  /\ UNCHANGED <<now, ran, firing>>

\* Time passes only when a job that fires has run in its period, or is running.
Due == now - Newer(ran, job.installed) >= Period
Elapse ==
  /\ job.platform # "none" /\ now < MaxTime
  /\ firing /\ job.armed /\ job.readable => job.pid \/ ~Due
  /\ now' = now + 1
  /\ UNCHANGED <<job, ran, firing>>

\* What happens to a job: it silently stops firing, is disarmed or spoiled, its log is rotated away
\* or stamped by a clock that moved, the person logs in again, it is installed anew.
StopsFiring == firing /\ firing' = FALSE /\ UNCHANGED <<job, now, ran>>
Befalls ==
  /\ job.platform # "none"
  /\ \/ Systemd /\ job' = [job EXCEPT !.armed = FALSE]
     \/ job' = [job EXCEPT !.readable = FALSE]
     \/ job.log \notin {NoLog, Never} /\ \E l \in {Never, Unknown} : job' = [job EXCEPT !.log = l]
     \/ ~Systemd /\ ~job.pid /\ job' = [job EXCEPT !.runs = 0, !.exit = 0]
     \/ job' = [job EXCEPT !.installed = now]
  /\ UNCHANGED <<now, ran, firing>>

Next == Install \/ (\E t \in BOOLEAN : Starts(t)) \/ Ends \/ Elapse \/ StopsFiring \/ Befalls
Spec == Init /\ [][Next]_vars
-----------------------------------------------------------------------------
(* What the console concludes. *)

Broken == ~job.readable \/ (Systemd /\ ~job.armed)
LogAfterInstall == job.log >= 0 /\ job.log >= job.installed
TimerNever == Systemd /\ job.trigger = Never

\* Mutant of NeverRan: a log newer than the unit is no proof of a run.
NeverRanByCount ==
  /\ ~Broken
  /\ ~(Systemd /\ job.trigger >= 0)
  /\ IF TimerNever THEN job.exit = Unknown /\ ~job.pid
     ELSE IF job.runs # Unknown THEN job.runs = 0
     ELSE job.log = Never

NeverRan ==
  /\ ~Broken
  /\ ~(Systemd /\ job.trigger >= 0)
  /\ ~LogAfterInstall
  /\ IF TimerNever THEN job.exit = Unknown /\ ~job.pid
     ELSE IF job.runs # Unknown THEN job.runs = 0
     ELSE job.log = Never

LastOutput == IF Systemd /\ job.trigger >= 0 THEN job.trigger ELSE job.log
Slack == Period + Period \div 2

\* A unit that cannot be read has no schedule, so it has no period; one that is not armed has.
Overdue ==
  /\ job.readable
  /\ IF NeverRan THEN now - job.installed > Slack
     ELSE LastOutput >= 0 /\ now - Newer(LastOutput, job.installed) > Slack

FreshnessUnknown ==
  /\ ~Broken /\ ~Systemd
  /\ job.log = Unknown \/ (job.log \in {Never, NoLog} /\ job.runs > 0)

\* job_line, as one of what a person tells apart.
Line ==
  IF Broken THEN "fault"
  ELSE IF job.pid THEN "running"
  ELSE IF Overdue THEN "overdue"
  ELSE IF NeverRan THEN "neverRun"
  ELSE IF FreshnessUnknown THEN "undated"
  ELSE IF job.exit = Unknown THEN "notLoaded"
  ELSE IF job.runs = 0 THEN "noneSinceLogin"
  ELSE IF job.exit # 0 THEN "failed"
  ELSE "ran"

\* warned, of the one job there is; the store's own lines raise it as well.
Warned == Broken \/ Overdue
Marked == Line \in {"fault", "overdue", "failed"}
-----------------------------------------------------------------------------
TypeOK ==
  /\ now \in 0..MaxTime /\ ran \in Never..MaxTime
  /\ job.log \in NoLog..MaxTime /\ job.trigger \in Never..MaxTime

\* What the job has done lately, by its own doing: since when it has given no sign of life.
Quiet == now - Newer(ran, job.installed)
Traced == job.log >= 0 \/ (Systemd /\ job.trigger >= 0)

\* "The signal must fire on a whole period has passed and nothing happened, otherwise people learn to
\* scroll past it": a job that has left a trace and has run within the threshold is not overdue.  A
\* timer that fell silent is overdue whoever ran the job by hand.
NoFalseAlarm == Overdue /\ ~Systemd /\ Traced => Quiet > Slack

\* "An open question must not be drawn as health": a job that has been dead for longer than the
\* threshold is drawn neither as one that ran nor as one that is yet to run.  (Not so of a job whose
\* timer never fired and whose log cannot date it, once somebody has run it by hand.)
DeadIsDrawn ==
  Quiet > Slack /\ ~job.pid /\ ~(TimerNever /\ job.log < 0 /\ job.exit # Unknown) => Line \notin {"ran", "neverRun"}

\* "a title mark that disagrees with the menu under it": the mark is raised when a line is marked.
MarkFollowsLines == Marked => Warned
=============================================================================
