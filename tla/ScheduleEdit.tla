---------------------------- MODULE ScheduleEdit ----------------------------
(***************************************************************************)
(* Changing when a job runs: set_schedule and set_enabled in               *)
(* console/src/jobs/systemd.rs and console/src/jobs/launchd.rs.            *)
(*                                                                         *)
(* The unit (or plist) is copied to .bak, edited, checked, and loaded into *)
(* the service manager, which holds a schedule of its own from then on;    *)
(* any failure copies .bak back.  A schedule is a number; Broken is a file *)
(* or a copy cut short, Nothing what the manager holds for a timer it does *)
(* not run.  Every call that can fail may fail, MaxFaults times in all,    *)
(* and the console may die between two calls.                              *)
(***************************************************************************)
EXTENDS Integers

CONSTANTS
  MaxEdits,         \* bound: edits begun
  MaxFaults,        \* bound: calls that fail
  LastCopyMayFail   \* may the copy whose result set_schedule does not look at fail too

VARIABLES platform, file, bak, held, pc, wanted, before, result, faults

vars == <<platform, file, bak, held, pc, wanted, before, result, faults>>

Broken == -1
None == -2
Nothing == -3
First == 0

Init ==
  /\ platform = "none"
  /\ file = First /\ bak = None /\ held = First
  /\ pc = "idle" /\ wanted = First /\ before = First
  /\ result = "none"
  /\ faults = 0

Choose ==
  /\ platform = "none"
  /\ platform' \in {"systemd", "reloadingSystemd", "launchd"}
  /\ UNCHANGED <<file, bak, held, pc, wanted, before, result, faults>>
-----------------------------------------------------------------------------
Launchd == platform = "launchd"
Reloads == platform = "reloadingSystemd"
Works == UNCHANGED faults
Fault == faults < MaxFaults /\ faults' = faults + 1
Fixed == <<platform, wanted, before>>
Goto(at) == pc' = at /\ UNCHANGED result
Answer(text) == pc' = "idle" /\ result' = text

\* Mutant of Begin: the .bak of an earlier edit is not looked for.
BeginAnyway ==
  /\ platform # "none" /\ pc = "idle" /\ wanted < MaxEdits
  /\ wanted' = wanted + 1
  /\ before' = file /\ pc' = "copy" /\ result' = "none"
  /\ Works
  /\ UNCHANGED <<platform, file, bak, held>>

\* An earlier .bak is the leftover of an edit that did not finish: it is not overwritten.
Begin ==
  /\ platform # "none" /\ pc = "idle" /\ wanted < MaxEdits
  /\ wanted' = wanted + 1
  /\ IF bak = None
     THEN before' = file /\ pc' = "copy" /\ result' = "none"
     ELSE UNCHANGED before /\ Answer("refused")
  /\ Works
  /\ UNCHANGED <<platform, file, bak, held>>

Copy ==
  /\ pc = "copy"
  /\ \/ Works /\ bak' = file /\ Goto("edit")
     \/ Fault /\ bak' \in {None, Broken} /\ Answer("refused")
  /\ UNCHANGED <<Fixed, file, held>>

\* edit_schedule removes both schedule keys before it inserts one, so an edit that fails may leave a
\* plist without a schedule; a write that fails may leave half a unit.
HalfEdited == {file, Broken}

\* rewrite_timer, which may refuse before anything is written, and the write; or edit_schedule.
Edit ==
  /\ pc = "edit"
  /\ \/ Works /\ file' = wanted /\ Goto("check") /\ UNCHANGED bak
     \/ Fault /\ ~Launchd /\ bak' = None /\ Answer("refused") /\ UNCHANGED file
     \/ Fault /\ file' \in HalfEdited /\ Goto("putBack") /\ UNCHANGED bak
  /\ UNCHANGED <<Fixed, held>>

\* plutil -lint, systemd-analyze verify, or a daemon-reload and the LoadState after it.
Check ==
  /\ pc = "check"
  /\ \/ Works /\ Goto("load") /\ held' = IF Reloads THEN file ELSE held
     \/ Fault /\ Goto("putBack") /\ held' = IF Reloads THEN Nothing ELSE held
  /\ UNCHANGED <<Fixed, file, bak>>

\* The file is the edited one after a failed check, and not after a failed edit, after which
\* launchd.rs keeps the copy even when it has put it back.
PutBack ==
  /\ pc = "putBack"
  /\ \/ Works /\ file' = bak /\ Answer(IF file = wanted THEN "notChanged" ELSE "restored")
        /\ bak' = IF Launchd /\ file # wanted THEN bak ELSE None
     \/ Fault /\ file' \in {file, Broken} /\ UNCHANGED bak /\ Answer("copyKept")
  /\ UNCHANGED <<Fixed, held>>

\* reload_and_restart, reload.  bootout comes first: a bootstrap that fails leaves the old job if the
\* bootout did not take, and no job if it did.
Loads(ok) ==
  \/ Works /\ held' = file /\ ok
  \/ Fault /\ held' \in (IF Launchd THEN {held, Nothing} ELSE {held, file, Nothing}) /\ ~ok

Load ==
  /\ pc = "load"
  /\ \/ Loads(TRUE) /\ IF Launchd THEN bak' = None /\ Answer("changed") ELSE Goto("readBack") /\ UNCHANGED bak
     \/ Loads(FALSE) /\ Goto("putBackLoaded") /\ UNCHANGED bak
  /\ UNCHANGED <<Fixed, file>>

PutBackLoaded ==
  /\ pc = "putBackLoaded"
  /\ \/ Works /\ file' = bak /\ Goto("loadAgain")
     \/ Fault /\ file' \in {file, Broken} /\ Answer("copyKept")
  /\ UNCHANGED <<Fixed, bak, held>>

\* Once the file is back; launchd.rs asks whether the job is loaded before it says that it is not.
LoadAgain ==
  /\ pc = "loadAgain"
  /\ bak' = None
  /\ \/ Loads(TRUE) /\ Answer("rearmed")
     \/ Loads(FALSE) /\ Answer(IF Launchd /\ held' # Nothing THEN "rearmed" ELSE "notArmed")
  /\ UNCHANGED <<Fixed, file>>

\* What systemd reports, compared with what was asked for; a reading that fails counts as different.
ReadBack ==
  /\ pc = "readBack"
  /\ \/ Works /\ held = wanted /\ bak' = None /\ Answer("changed")
     \/ Fault /\ Goto("putBackSilently") /\ UNCHANGED bak
  /\ UNCHANGED <<Fixed, file, held>>

\* Neither the copy's result nor the reload's is looked at.
PutBackSilently ==
  /\ pc = "putBackSilently"
  /\ \/ Works /\ file' = bak
     \/ LastCopyMayFail /\ Fault /\ file' \in {file, Broken}
  /\ held' \in {file', held, Nothing}
  /\ bak' = None
  /\ Answer("restored")
  /\ UNCHANGED Fixed

\* set_enabled, which launchd.rs refuses: systemctl enable or disable, and the state read afterwards.
SetEnabled(on) ==
  LET asked == IF on /\ held = Nothing THEN file ELSE IF on THEN held ELSE Nothing IN
  /\ platform \notin {"none", "launchd"} /\ pc = "idle" /\ file # Broken
  /\ \/ Works /\ held' = asked /\ Answer(IF on THEN "armed" ELSE "disarmed")
     \/ Fault /\ held' \in {held, asked} /\ Answer("refused")
  /\ UNCHANGED <<Fixed, file, bak>>

\* The console, or the machine, goes down between two calls.
Dies ==
  /\ pc # "idle"
  /\ pc' = "idle" /\ result' = "died"
  /\ Works
  /\ UNCHANGED <<Fixed, file, bak, held>>

\* Whoever is told that an earlier edit did not finish compares the two files and keeps the good one.
PersonRepairs ==
  /\ pc = "idle" /\ bak # None
  /\ file' = IF bak = Broken THEN file ELSE bak
  /\ bak' = None /\ held' = file' /\ result' = "repaired"
  /\ Works
  /\ UNCHANGED <<Fixed, pc>>

Call == Copy \/ Edit \/ Check \/ PutBack \/ Load \/ PutBackLoaded \/ LoadAgain \/ ReadBack \/ PutBackSilently
Next == Choose \/ Begin \/ Call \/ (\E on \in BOOLEAN : SetEnabled(on)) \/ Dies \/ PersonRepairs

Spec == Init /\ [][Next]_vars
-----------------------------------------------------------------------------
TypeOK ==
  /\ file \in Broken..MaxEdits /\ bak \in None..MaxEdits /\ held \in {Nothing} \union (0..MaxEdits)
  /\ wanted \in 0..MaxEdits /\ before \in 0..MaxEdits /\ faults \in 0..MaxFaults

\* Whatever fails or dies, a whole copy of a schedule is left: the edit's own file, or the .bak.
GoodCopyKept ==
  /\ file = Broken => bak \in 0..MaxEdits
  /\ pc \notin {"idle", "copy"} => before \in {file, bak}

\* What the person is told is so: the file is what it was wherever it is said to be restored, the
\* manager runs the schedule that is said to be armed, and a job that runs by no schedule is named.
ToldTheTruth ==
  /\ result = "changed" => file = wanted /\ held = wanted /\ bak = None
  /\ result \in {"restored", "notChanged", "rearmed", "notArmed"} => file = before
  /\ result \in {"rearmed", "armed"} => held # Nothing
  /\ result = "copyKept" => bak = before

\* An edit loses no schedule and says what became of it.
EditIsSafe == GoodCopyKept /\ ToldTheTruth

\* "the file was restored from the backup copy, the schedule was not changed": what systemd runs by is
\* what it ran by before.
NotChangedIsSo == result = "notChanged" => held = before
=============================================================================
