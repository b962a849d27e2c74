------------------------------ MODULE Console ------------------------------
(***************************************************************************)
(* The console and what it runs from, part by part: the tray, its question *)
(* to the store and the reading of the answer, the files it saves, the     *)
(* jobs it shows, starts and schedules, the settings it shares with the    *)
(* hooks and the server, its entry in autostart and the releases it is     *)
(* installed in.  A behaviour draws one part and keeps to it; the others   *)
(* rest where they begin.                                                  *)
(***************************************************************************)
EXTENDS Integers, Sequences, FiniteSets

\* The constants of the parts, with their own names and comments.
CONSTANTS Jobs, Unreadable, RefreshEvery, Patience, MaxQueue, MaxPresses, MaxOdd, MayHang  \* Tray
CONSTANTS Pipe, MaxOutput, MaxQuery, MaxSaid                                               \* StoreQuery
CONSTANTS Keys, MaxDepth, MaxCount, Models, MaxLength, MaxRows                             \* Reading
CONSTANTS Writers, MaxSaves, MayLose                                                       \* ConsoleFiles
CONSTANTS MaxEdits, MaxFaults, LastCopyMayFail                                             \* ScheduleEdit
CONSTANT  MaxRuns                                                                          \* RunNow
CONSTANTS Period, MaxTime                                                                  \* JobFreshness
CONSTANTS Good, MaxLines, MaxMoves                                                         \* SettingsFile, with Keys
CONSTANTS Shas, NoRelease, Stable, MayShrink                                               \* Autostart
CONSTANTS Keep, PruneAge, MaxInstalls, MaxDeaths                                           \* Releases, with Shas

ASSUME NumberAssumption ==
  {MaxOutput, MaxQuery, MaxCount, MaxRows, MaxSaves, MaxEdits, Period, PruneAge} \subseteq Nat
ASSUME NamesDiffer == NoRelease \notin Shas /\ Stable \notin Shas /\ NoRelease # Stable

VARIABLE part
VARIABLES app, cmds, ups, worker, world, view, pressed, moved
VARIABLES pc, query, stdin, child, helper, out, err, status, result
VARIABLES text, stack, at, answer, shown
VARIABLES kind, live, tmp, halves, synced, writer, reader, saves
VARIABLES manager, file, bak, held, edit, wanted, before, told, faults
VARIABLES starter, step, runs, running, exitOf, runsBefore, base, list, said
VARIABLES job, now, ran, firing
VARIABLES settings, env, last, moves
VARIABLES login, there, newest, exe, entry, armed, reply
VARIABLES platform, current, previous, built, retired, left, installer, session, installs

T == INSTANCE Tray
Q == INSTANCE StoreQuery
V == INSTANCE Reading
F == INSTANCE ConsoleFiles WITH text <- halves
E == INSTANCE ScheduleEdit WITH platform <- manager, pc <- edit, result <- told
N == INSTANCE RunNow WITH platform <- starter, pc <- step, before <- runsBefore
J == INSTANCE JobFreshness
S == INSTANCE SettingsFile WITH file <- settings
A == INSTANCE Autostart WITH None <- NoRelease, platform <- login, current <- newest, answer <- reply
L == INSTANCE Releases WITH None <- NoRelease, runs <- installs

\* A value a reader can parse is neither empty nor what stands for none.
ASSUME KnobAssumption ==
  /\ IsFiniteSet(Keys) /\ S!Comment \notin Keys
  /\ Good \cap {S!Empty, S!Bad, S!Default, S!Crash} = {}
-----------------------------------------------------------------------------
tray == <<app, cmds, ups, worker, world, view, pressed, moved>>
question == <<pc, query, stdin, child, helper, out, err, status, result>>
reading == <<text, stack, at, answer, shown>>
files == <<kind, live, tmp, halves, synced, writer, reader, saves>>
schedule == <<manager, file, bak, held, edit, wanted, before, told, faults>>
runNow == <<starter, step, runs, running, exitOf, runsBefore, base, list, said>>
freshness == <<job, now, ran, firing>>
knobs == <<settings, env, last, moves>>
autostart == <<login, there, newest, exe, entry, armed, reply>>
releases == <<platform, current, previous, built, retired, left, installer, session, installs>>
vars == <<part, tray, question, reading, files, schedule, runNow, freshness, knobs, autostart, releases>>

Parts == {"tray", "question", "reading", "files", "schedule", "runNow", "freshness", "settings",
          "autostart", "releases"}

ConsoleInit ==
  /\ part \in Parts
  /\ T!Init /\ Q!Init /\ V!Init /\ F!Init /\ E!Init /\ N!Init /\ J!Init /\ S!Init /\ A!Init /\ L!Init

ConsoleNext ==
  /\ UNCHANGED part
  /\ IF part = "tray" THEN T!Next ELSE UNCHANGED tray
  /\ IF part = "question" THEN Q!Next ELSE UNCHANGED question
  /\ IF part = "reading" THEN V!Next ELSE UNCHANGED reading
  /\ IF part = "files" THEN F!Next ELSE UNCHANGED files
  /\ IF part = "schedule" THEN E!Next ELSE UNCHANGED schedule
  /\ IF part = "runNow" THEN N!Next ELSE UNCHANGED runNow
  /\ IF part = "freshness" THEN J!Next ELSE UNCHANGED freshness
  /\ IF part = "settings" THEN S!Next ELSE UNCHANGED knobs
  /\ IF part = "autostart" THEN A!Next ELSE UNCHANGED autostart
  /\ IF part = "releases" THEN L!Next ELSE UNCHANGED releases

ConsoleSpec == ConsoleInit /\ [][ConsoleNext]_vars
-----------------------------------------------------------------------------
\* A press in the tray posts what the button it landed on said, or nothing.
PressHitsWhatWasShown == T!PressHitsWhatWasShown

\* What a person's command printed is taken for an answer only if it is whole.
AnswerIsSound == part = "question" => Q!AnswerIsSound

\* What the store's command printed is read exactly if it is JSON.
TakesJson == part = "reading" => V!TakesJson

\* The figures on the screen are those of the answer.
FiguresAreTheAnswer == part = "reading" => V!ShownIsTheAnswer

\* A save of the config or of the settings is seen whole or not at all.
SavesAreWhole == part = "files" => F!SavesAreWhole

\* An edit of a schedule loses none and says what became of it.
EditIsSafe == part = "schedule" => E!EditIsSafe

\* A job is drawn as what it is, and an exit code is of the run it is said to be of.
JobsAreAsDrawn == J!NoFalseAlarm /\ J!DeadIsDrawn /\ N!OneReadingTells

\* The console, the hooks and the server read one settings file alike.
OneFile == part = "settings" => S!OneFile

\* Setting one knob leaves the others as they were.
OthersKept == S!OthersKept

\* The tray's entry in autostart works, or the tray says that it does not.
EntryIsSound == A!EntryIsSound

\* No release that a session runs on, or that a link names, is removed.
ReleasesStay == L!ReleasesStay
=============================================================================
