--------------------------- MODULE ConsoleProofs ---------------------------
(***************************************************************************)
(* Proofs about the parts of the console, each from an invariant of its    *)
(* own: the question to the store, the edit of a schedule, the entry in    *)
(* autostart, the run that is asked for and what is concluded about a job, *)
(* the files that are saved, the releases, the tray, the settings, the     *)
(* figures of an answer.                                                   *)
(***************************************************************************)
EXTENDS Console, TLAPS, WellFoundedInduction, FiniteSetTheorems, FunctionTheorems, SequenceTheorems

(* The question to the store and its answer *)

QuestionShape ==
  /\ pc \in {"start", "wait", "out", "err", "write", "done"}
  /\ stdin \in [left : Nat, inPipe : Nat, taken : Nat, at : {"writing", "written", "broken"}]
  /\ child \in [at : {"none", "running", "exit0", "exit1", "signalled"}, said : Nat]
  /\ helper \in [alive : BOOLEAN, holds : SUBSET Q!Ends]
  /\ out \in [inPipe : Nat, got : Nat, at : {"reading", "whole", "notText", "tooMuch"}]
  /\ err \in {"reading", "whole"}

\* What each of the three threads knows: a text read to its end is held open by nobody any more, and
\* a text that was cut short is one too long.
Threads ==
  /\ child.at = "none" => out.at = "reading" /\ err = "reading" /\ stdin.at = "writing"
  /\ out.got + out.inPipe = child.said
  /\ out.at = "reading" => out.got <= MaxOutput
  /\ out.at \in {"whole", "notText"} => out.got <= MaxOutput /\ out.inPipe = 0 /\ ~Q!Holds("stdout")
  /\ err = "whole" => ~Q!Holds("stderr")
  /\ stdin.at = "written" => stdin.left = 0

\* How far the caller has got.  A command ends by a signal for two reasons only: nobody reads what
\* it prints any more, or its time was over.
Caller ==
  /\ pc = "start" <=> child.at = "none" /\ pc # "done"
  /\ pc \in {"start", "wait", "out"} => result = "none"
  /\ pc \in {"err", "write"} => result \in {"none", "tooMuch", "notText", "heldOpen"}
  /\ pc \in {"out", "err", "write"} => status = child.at /\ ~Q!Running
  /\ pc \in {"err", "write"} /\ result = "none" => out.at = "whole"
  /\ pc = "write" => ~Q!Holds("stderr")
  /\ child.at = "signalled" => out.at = "tooMuch" \/ (pc = "done" /\ result = "noAnswer")
  /\ result \in {"failed", "notAsked", "ok"} => ~Q!Running /\ child.at # "none"

QuestionInv == QuestionShape /\ Threads /\ Caller /\ Q!AnswerIsSound

LEMMA QuestionInit ==
  ASSUME Q!Init
  PROVE  QuestionInv
  BY NumberAssumption DEF Q!Init,
         QuestionInv, QuestionShape, Threads, Caller, Q!AnswerIsSound, Q!OkIsWhole, Q!CauseBeforeSymptom,
         Q!Holds, Q!Running, Q!Ends

LEMMA StartStep ==
  ASSUME QuestionInv, Q!Start
  PROVE  QuestionInv'
  BY NumberAssumption DEF Q!Start,
         QuestionInv, QuestionShape, Threads, Caller, Q!AnswerIsSound, Q!OkIsWhole, Q!CauseBeforeSymptom,
         Q!Holds, Q!Running, Q!Ends

\* The command and its helper.
LEMMA ReadsStdinStep ==
  ASSUME QuestionInv, Q!ReadsStdin
  PROVE  QuestionInv'
  <1>1. /\ stdin' \in [left : Nat, inPipe : Nat, taken : Nat, at : {"writing", "written", "broken"}]
        /\ stdin'.left = stdin.left /\ stdin'.at = stdin.at
    <2>1. stdin.inPipe - 1 \in Nat /\ stdin.taken + 1 \in Nat
      BY NumberAssumption DEF Q!ReadsStdin, QuestionInv, QuestionShape
    <2> QED
      BY <2>1, NumberAssumption DEF Q!ReadsStdin, QuestionInv, QuestionShape
  <1>2. Q!Running /\ UNCHANGED <<Q!World, child, helper, out, err>>
    BY NumberAssumption DEF Q!ReadsStdin
  <1> QED
    BY <1>1, <1>2, NumberAssumption DEF Q!World,
           QuestionInv, QuestionShape, Threads, Caller, Q!AnswerIsSound, Q!OkIsWhole, Q!CauseBeforeSymptom,
           Q!Holds, Q!Running, Q!Ends

LEMMA PrintsStep ==
  ASSUME QuestionInv, Q!Prints
  PROVE  QuestionInv'
  BY NumberAssumption DEF Q!Prints, Q!World,
         QuestionInv, QuestionShape, Threads, Caller, Q!AnswerIsSound, Q!OkIsWhole, Q!CauseBeforeSymptom,
         Q!Holds, Q!Running, Q!Ends

LEMMA HelperStep ==
  ASSUME QuestionInv, Q!LeavesBehind \/ Q!HelperExits
  PROVE  QuestionInv'
  <1>1. CASE Q!LeavesBehind
    <2>1. Q!Running /\ UNCHANGED <<Q!World, stdin, child, out, err>>
      BY <1>1, NumberAssumption DEF Q!LeavesBehind
    <2>2. helper' \in [alive : BOOLEAN, holds : SUBSET Q!Ends]
      BY <1>1, NumberAssumption DEF Q!LeavesBehind
    <2> QED
      BY <2>1, <2>2, NumberAssumption DEF Q!World,
             QuestionInv, QuestionShape, Threads, Caller, Q!AnswerIsSound, Q!OkIsWhole, Q!CauseBeforeSymptom,
             Q!Holds, Q!Running, Q!Ends
  <1>2. CASE Q!HelperExits
    <2>1. UNCHANGED <<Q!World, stdin, child, out, err>>
      BY <1>2, NumberAssumption DEF Q!HelperExits
    <2>2. helper' \in [alive : BOOLEAN, holds : SUBSET Q!Ends] /\ ~helper'.alive
      BY <1>2, NumberAssumption DEF Q!HelperExits, Q!Killed, QuestionInv, QuestionShape
    <2> QED
      BY <2>1, <2>2, NumberAssumption DEF Q!World,
             QuestionInv, QuestionShape, Threads, Caller, Q!AnswerIsSound, Q!OkIsWhole, Q!CauseBeforeSymptom,
             Q!Holds, Q!Running, Q!Ends
  <1> QED
    BY <1>1, <1>2

LEMMA ExitsStep ==
  ASSUME QuestionInv, Q!Exits
  PROVE  QuestionInv'
  <1>1. /\ Q!Running /\ UNCHANGED <<Q!World, stdin, helper, out, err>>
        /\ child' \in [at : {"exit0", "exit1"}, said : Nat] /\ child'.said = child.said
    BY NumberAssumption DEF Q!Exits, QuestionInv, QuestionShape
  <1> QED
    BY <1>1, NumberAssumption DEF Q!World,
           QuestionInv, QuestionShape, Threads, Caller, Q!AnswerIsSound, Q!OkIsWhole, Q!CauseBeforeSymptom,
           Q!Holds, Q!Running, Q!Ends

\* The three threads.
LEMMA WritesStep ==
  ASSUME QuestionInv, Q!Writes
  PROVE  QuestionInv'
  <1>1. /\ stdin' \in [left : Nat, inPipe : Nat, taken : Nat, at : {"writing", "written", "broken"}]
        /\ stdin'.at = "written" \/ stdin.left = 0 => stdin'.left = 0
    <2>1. CASE stdin.left = 0
      BY <2>1, NumberAssumption DEF Q!Writes, QuestionInv, QuestionShape
    <2>2. CASE stdin.left # 0
      <3>1. stdin.left - 1 \in Nat /\ stdin.inPipe + 1 \in Nat
        BY <2>2, NumberAssumption DEF QuestionInv, QuestionShape
      <3> QED
        BY <2>2, <3>1, NumberAssumption DEF Q!Writes, QuestionInv, QuestionShape
    <2> QED
      BY <2>1, <2>2
  <1>2. stdin.at = "writing" /\ child.at # "none" /\ UNCHANGED <<Q!World, child, helper, out, err>>
    BY NumberAssumption DEF Q!Writes, Q!Started
  <1> QED
    BY <1>1, <1>2, NumberAssumption DEF Q!World,
           QuestionInv, QuestionShape, Threads, Caller, Q!AnswerIsSound, Q!OkIsWhole, Q!CauseBeforeSymptom,
           Q!Holds, Q!Running, Q!Ends

LEMMA ReadsStep ==
  ASSUME QuestionInv, Q!ReadsOut \/ Q!ReadsErr
  PROVE  QuestionInv'
  BY NumberAssumption DEF Q!ReadsOut, Q!ReadsErr, Q!Started, Q!World,
         QuestionInv, QuestionShape, Threads, Caller, Q!AnswerIsSound, Q!OkIsWhole, Q!CauseBeforeSymptom,
         Q!Holds, Q!Running, Q!Ends

\* The caller.
LEMMA WaitForChildStep ==
  ASSUME QuestionInv, Q!WaitForChild
  PROVE  QuestionInv'
  BY NumberAssumption DEF Q!WaitForChild, Q!Started, Q!Killed,
         QuestionInv, QuestionShape, Threads, Caller, Q!AnswerIsSound, Q!OkIsWhole, Q!CauseBeforeSymptom,
         Q!Holds, Q!Running, Q!Ends

LEMMA CollectOutStep ==
  ASSUME QuestionInv, Q!CollectOut
  PROVE  QuestionInv'
  BY NumberAssumption DEF Q!CollectOut, Q!Killed,
         QuestionInv, QuestionShape, Threads, Caller, Q!AnswerIsSound, Q!OkIsWhole, Q!CauseBeforeSymptom,
         Q!Holds, Q!Running, Q!Ends

LEMMA CollectErrStep ==
  ASSUME QuestionInv, Q!CollectErr
  PROVE  QuestionInv'
  BY NumberAssumption DEF Q!CollectErr, Q!Killed,
         QuestionInv, QuestionShape, Threads, Caller, Q!AnswerIsSound, Q!OkIsWhole, Q!CauseBeforeSymptom,
         Q!Holds, Q!Running, Q!Ends

LEMMA ConcludeStep ==
  ASSUME QuestionInv, Q!Conclude
  PROVE  QuestionInv'
  BY NumberAssumption DEF Q!Conclude,
         QuestionInv, QuestionShape, Threads, Caller, Q!AnswerIsSound, Q!OkIsWhole, Q!CauseBeforeSymptom,
         Q!Holds, Q!Running, Q!Ends

LEMMA QuestionNext ==
  ASSUME QuestionInv, [Q!Next]_(Q!vars)
  PROVE  QuestionInv'
  <1>1. CASE UNCHANGED Q!vars
    BY <1>1, NumberAssumption DEF Q!vars,
           QuestionInv, QuestionShape, Threads, Caller, Q!AnswerIsSound, Q!OkIsWhole, Q!CauseBeforeSymptom,
           Q!Holds, Q!Running
  <1> QED
    BY <1>1, StartStep, ReadsStdinStep, PrintsStep, HelperStep, ExitsStep, WritesStep, ReadsStep,
       WaitForChildStep, CollectOutStep, CollectErrStep, ConcludeStep
    DEF Q!Next, Q!CallerStep, Q!ThreadStep, Q!CommandStep

LEMMA QuestionGoesOn ==
  ASSUME [ConsoleNext]_vars
  PROVE  [Q!Next]_(Q!vars)
  BY DEF ConsoleNext, vars, question, Q!vars

\* What run_with_timeout makes of a command's end is what happened: a reading it shows is whole and
\* of a command that ended well, and its own cutting short is not reported as the command's failure.
THEOREM AnswerIsSoundCorrect == ConsoleSpec => []AnswerIsSound
  <1>1. ConsoleInit => QuestionInv
    BY QuestionInit DEF ConsoleInit
  <1>2. QuestionInv /\ [ConsoleNext]_vars => QuestionInv'
    BY QuestionGoesOn, QuestionNext
  <1>3. QuestionInv => AnswerIsSound
    BY DEF QuestionInv, AnswerIsSound
  <1> QED
    BY <1>1, <1>2, <1>3, PTL DEF ConsoleSpec

-----------------------------------------------------------------------------
(* The edit of a schedule *)

Schedules == 0..MaxEdits

\* What is left where at each call of an edit: the file is the old one, the new one or cut short,
\* and the old one is in .bak from the copy on.
Stage ==
  /\ edit \in {"idle", "copy", "edit", "check", "putBack", "load", "putBackLoaded", "loadAgain",
             "readBack", "putBackSilently"}
  /\ edit = "idle" /\ file = E!Broken => bak \in Schedules
  /\ edit = "copy" => bak = E!None
  /\ edit \notin {"idle", "copy"} => bak = before
  /\ edit \in {"copy", "edit", "loadAgain"} => file = before
  /\ edit \in {"check", "load", "putBackLoaded", "readBack", "putBackSilently"} => file = wanted
  /\ edit = "readBack" => held = wanted
  \* An answer is on the screen only between two edits.
  /\ edit # "idle" => told = "none"

ScheduleInv ==
  /\ file \in Schedules \union {E!Broken}
  /\ bak \in Schedules \union {E!Broken, E!None}
  /\ held \in Schedules \union {E!Nothing}
  /\ wanted \in Schedules
  /\ before \in Schedules
  /\ Stage
  /\ E!ToldTheTruth

LEMMA ScheduleInit ==
  ASSUME E!Init
  PROVE  ScheduleInv
  BY NumberAssumption DEF E!Init, ScheduleInv, Stage, E!ToldTheTruth, Schedules, E!First, E!Broken, E!None,
     E!Nothing

\* An edit up to the call that loads it.
LEMMA BeginStep ==
  ASSUME ScheduleInv, E!Begin
  PROVE  ScheduleInv'
  BY NumberAssumption DEF E!Begin, E!Answer, E!Works, ScheduleInv, Stage, E!ToldTheTruth, Schedules, E!Broken,
     E!None, E!Nothing

LEMMA CopyStep ==
  ASSUME ScheduleInv, E!Copy
  PROVE  ScheduleInv'
  BY NumberAssumption DEF E!Copy, E!Answer, E!Goto, E!Fixed, E!Works, E!Fault,
         ScheduleInv, Stage, E!ToldTheTruth, Schedules, E!Broken, E!None, E!Nothing

LEMMA EditStep ==
  ASSUME ScheduleInv, E!Edit
  PROVE  ScheduleInv'
  BY NumberAssumption DEF E!Edit, E!HalfEdited, E!Answer, E!Goto, E!Fixed, E!Works, E!Fault,
         ScheduleInv, Stage, E!ToldTheTruth, Schedules, E!Broken, E!None, E!Nothing

LEMMA CheckStep ==
  ASSUME ScheduleInv, E!Check
  PROVE  ScheduleInv'
  BY NumberAssumption DEF E!Check, E!Reloads, E!Goto, E!Fixed, E!Works, E!Fault,
         ScheduleInv, Stage, E!ToldTheTruth, Schedules, E!Broken, E!None, E!Nothing

LEMMA PutBackStep ==
  ASSUME ScheduleInv, E!PutBack
  PROVE  ScheduleInv'
  BY NumberAssumption DEF E!PutBack, E!Answer, E!Fixed, E!Works, E!Fault, ScheduleInv, Stage, E!ToldTheTruth,
     Schedules, E!Broken, E!None, E!Nothing

\* The calls that load it, and what follows when they fail.
LEMMA LoadStep ==
  ASSUME ScheduleInv, E!Load
  PROVE  ScheduleInv'
  BY NumberAssumption DEF E!Load, E!Loads, E!Answer, E!Goto, E!Fixed, E!Works, E!Fault,
         ScheduleInv, Stage, E!ToldTheTruth, Schedules, E!Broken, E!None, E!Nothing

LEMMA PutBackLoadedStep ==
  ASSUME ScheduleInv, E!PutBackLoaded
  PROVE  ScheduleInv'
  BY NumberAssumption DEF E!PutBackLoaded, E!Answer, E!Goto, E!Fixed, E!Works, E!Fault,
         ScheduleInv, Stage, E!ToldTheTruth, Schedules, E!Broken, E!None, E!Nothing

LEMMA LoadAgainStep ==
  ASSUME ScheduleInv, E!LoadAgain
  PROVE  ScheduleInv'
  BY NumberAssumption DEF E!LoadAgain, E!Loads, E!Answer, E!Fixed, E!Works, E!Fault,
         ScheduleInv, Stage, E!ToldTheTruth, Schedules, E!Broken, E!None, E!Nothing

LEMMA ReadBackStep ==
  ASSUME ScheduleInv, E!ReadBack
  PROVE  ScheduleInv'
  BY NumberAssumption DEF E!ReadBack, E!Answer, E!Goto, E!Fixed, E!Works, E!Fault,
         ScheduleInv, Stage, E!ToldTheTruth, Schedules, E!Broken, E!None, E!Nothing

\* Here the answer is given without a look at the copy, so it is the copy that must not fail.
LEMMA PutBackSilentlyStep ==
  ASSUME ~LastCopyMayFail, ScheduleInv, E!PutBackSilently
  PROVE  ScheduleInv'
  BY NumberAssumption DEF E!PutBackSilently, E!Answer, E!Fixed, E!Works, ScheduleInv, Stage, E!ToldTheTruth,
     Schedules, E!Broken, E!None, E!Nothing

\* What happens between two edits or instead of their next call.
LEMMA ScheduleOtherStep ==
  ASSUME ScheduleInv,
         E!Choose \/ (\E on \in BOOLEAN : E!SetEnabled(on)) \/ E!Dies \/ E!PersonRepairs \/ UNCHANGED E!vars
  PROVE  ScheduleInv'
  <1>1. CASE \E on \in BOOLEAN : E!SetEnabled(on)
    <2>1. PICK on \in BOOLEAN : E!SetEnabled(on)
      BY <1>1
    <2> QED
      BY <2>1, NumberAssumption DEF E!SetEnabled, E!Answer, E!Fixed, E!Works, E!Fault,
             ScheduleInv, Stage, E!ToldTheTruth, Schedules, E!Broken, E!None, E!Nothing
  <1>2. CASE E!PersonRepairs
    BY <1>2, NumberAssumption DEF E!PersonRepairs, E!Fixed, E!Works, ScheduleInv, Stage, E!ToldTheTruth,
       Schedules, E!Broken, E!None, E!Nothing
  <1>3. CASE E!Dies
    BY <1>3, NumberAssumption DEF E!Dies, E!Fixed, E!Works, ScheduleInv, Stage, E!ToldTheTruth, Schedules,
       E!Broken, E!None, E!Nothing
  <1>4. CASE E!Choose \/ UNCHANGED E!vars
    BY <1>4, NumberAssumption DEF E!Choose, E!vars, ScheduleInv, Stage, E!ToldTheTruth, Schedules, E!Broken,
       E!None, E!Nothing
  <1> QED
    BY <1>1, <1>2, <1>3, <1>4

LEMMA ScheduleNext ==
  ASSUME ~LastCopyMayFail, ScheduleInv, [E!Next]_(E!vars)
  PROVE  ScheduleInv'
  BY BeginStep, CopyStep, EditStep, CheckStep, PutBackStep, LoadStep, PutBackLoadedStep, LoadAgainStep,
     ReadBackStep, PutBackSilentlyStep, ScheduleOtherStep
  DEF E!Next, E!Call

LEMMA ScheduleGoesOn ==
  ASSUME [ConsoleNext]_vars
  PROVE  [E!Next]_(E!vars)
  BY DEF ConsoleNext, vars, schedule, E!vars

\* As long as the copy whose result is not looked at does not fail, an edit (set_schedule in
\* systemd.rs and launchd.rs) loses no schedule and tells the person what became of it.
THEOREM EditIsSafeCorrect ==
  ASSUME ~LastCopyMayFail
  PROVE  ConsoleSpec => []EditIsSafe
  <1>1. ConsoleInit => ScheduleInv
    BY ScheduleInit DEF ConsoleInit
  <1>2. ScheduleInv /\ [ConsoleNext]_vars => ScheduleInv'
    BY ScheduleGoesOn, ScheduleNext
  <1>3. ScheduleInv => EditIsSafe
    BY DEF ScheduleInv, Stage, E!ToldTheTruth, EditIsSafe, E!EditIsSafe, E!GoodCopyKept, Schedules, E!Broken
  <1> QED
    BY <1>1, <1>2, <1>3, PTL DEF ConsoleSpec

-----------------------------------------------------------------------------
(* The entry in autostart *)

EntryShape ==
  /\ login \in {"none", "systemd", "launchd"}
  /\ there \subseteq Shas
  /\ {newest, exe} \subseteq Shas \union {NoRelease}
  /\ entry \in Shas \union {NoRelease, Stable}
  /\ armed \in BOOLEAN

\* A tray runs only once there is a current release, and only a tray makes an entry.
EntryOrder ==
  /\ newest = NoRelease => exe = NoRelease /\ entry = NoRelease /\ there = {}
  /\ login = "none" => newest = NoRelease

\* Where every release comes with the console the entry leads through current.
ThroughCurrent ==
  login \notin MayShrink =>
    /\ newest = NoRelease \/ newest \in there
    /\ entry \in {NoRelease, Stable}

EntryInv == EntryShape /\ EntryOrder /\ ThroughCurrent /\ (login = "launchd" /\ entry # NoRelease => armed)

LEMMA EntryInit ==
  ASSUME A!Init
  PROVE  EntryInv
  BY NamesDiffer DEF A!Init, EntryInv, EntryShape, EntryOrder, ThroughCurrent

LEMMA TrayStep ==
  ASSUME EntryInv, A!StartTray \/ A!Quit \/ A!UninstallSelf \/ A!Disable
  PROVE  EntryInv'
  BY NamesDiffer DEF A!StartTray, A!Quit, A!UninstallSelf, A!Disable, A!Systemd, EntryInv, EntryShape,
     EntryOrder, ThroughCurrent

LEMMA ReleaseStep ==
  ASSUME EntryInv, NEW r \in Shas, A!Release(r)
  PROVE  EntryInv'
  BY NamesDiffer DEF A!Release, EntryInv, EntryShape, EntryOrder, ThroughCurrent

LEMMA PruneStep ==
  ASSUME EntryInv, NEW r \in Shas, A!Prune(r)
  PROVE  EntryInv'
  BY NamesDiffer DEF A!Prune, EntryInv, EntryShape, EntryOrder, ThroughCurrent

LEMMA InstallSelfStep ==
  ASSUME EntryInv, A!InstallSelf
  PROVE  EntryInv'
  <1>1. exe # NoRelease /\ UNCHANGED <<login, there, newest, exe>>
    BY DEF A!InstallSelf
  <1>2. A!AutostartExe \in {Stable, exe} /\ (login \notin MayShrink => A!AutostartExe = Stable)
    BY <1>1, NamesDiffer DEF A!AutostartExe, A!Exists, A!Binary, EntryInv, EntryOrder, ThroughCurrent
  <1>3. /\ entry' \in {A!AutostartExe, NoRelease, entry} /\ armed' \in BOOLEAN
        /\ login = "launchd" /\ entry' # NoRelease => armed'
    <2>1. CASE A!InstallUnit
      BY <2>1 DEF A!InstallUnit, A!Written, A!Withdrawn, A!Systemd, EntryInv, EntryShape
    <2>2. CASE A!InstallAgent
      <3>1. \/ entry' = A!AutostartExe /\ armed' = TRUE
            \/ entry' = NoRelease /\ armed' = FALSE
            \/ UNCHANGED <<entry, armed>>
        BY <2>2 DEF A!InstallAgent, A!Written, A!Withdrawn
      <3> QED
        BY <3>1 DEF EntryInv, EntryShape
    <2> QED
      BY <2>1, <2>2 DEF A!InstallSelf
  <1> QED
    BY <1>1, <1>2, <1>3 DEF EntryInv, EntryShape, EntryOrder, ThroughCurrent

LEMMA EntryNext ==
  ASSUME EntryInv, [A!Next]_(A!vars)
  PROVE  EntryInv'
  <1>1. CASE UNCHANGED A!vars
    BY <1>1 DEF A!vars, EntryInv, EntryShape, EntryOrder, ThroughCurrent
  <1> QED
    BY <1>1, TrayStep, ReleaseStep, PruneStep, InstallSelfStep DEF A!Next

LEMMA EntryImplies ==
  ASSUME EntryInv
  PROVE  A!EntryIsSound
  <1>1. A!EntryLeadsOn
    BY NamesDiffer DEF EntryInv, EntryShape, EntryOrder, ThroughCurrent, A!EntryLeadsOn, A!Exists, A!Binary
  <1>2. A!NoFaultMeansStarts
    BY NamesDiffer DEF EntryInv, EntryShape, EntryOrder, A!NoFaultMeansStarts, A!WillStart, A!Fault,
       A!AutostartExe, A!Exists, A!Binary, A!Systemd
  <1> QED
    BY <1>1, <1>2 DEF A!EntryIsSound

LEMMA EntryGoesOn ==
  ASSUME [ConsoleNext]_vars
  PROVE  [A!Next]_(A!vars)
  BY DEF ConsoleNext, vars, autostart, A!vars

\* An entry install_self leaves in autostart outlives every release that is removed, and one that
\* autostart_fault finds no fault with starts the tray that runs, or the release after it.
THEOREM EntryIsSoundCorrect == ConsoleSpec => []EntryIsSound
  <1>1. ConsoleInit => EntryInv
    BY EntryInit DEF ConsoleInit
  <1>2. EntryInv /\ [ConsoleNext]_vars => EntryInv'
    BY EntryGoesOn, EntryNext
  <1>3. EntryInv => EntryIsSound
    BY EntryImplies DEF EntryIsSound
  <1> QED
    BY <1>1, <1>2, <1>3, PTL DEF ConsoleSpec

-----------------------------------------------------------------------------
(* The run that is asked for *)

\* The count only grows, and the manager's exit code is that of its newest run unless that one is
\* under way.
Counting ==
  /\ runs \in Nat /\ exitOf \in Nat /\ base \in Nat
  /\ runsBefore \in {N!Unread, base}
  /\ base <= runs
  /\ ~running => exitOf = runs

\* An exit code is only reported at the end, and then it is OneReadingTells that matters.
RunInv ==
  /\ Counting
  /\ said.text = "ran" => step = "done"
  /\ starter = "none" => step = "start"
  /\ step = "count" => starter = "launchd"
  /\ N!OneReadingTells

LEMMA RunInit ==
  ASSUME N!Init
  PROVE  RunInv
  BY DEF N!Init, RunInv, Counting, N!OneReadingTells, N!ExitIsOfThisRun, N!Unread, N!Silent

LEMMA ManagerStep ==
  ASSUME RunInv, N!Starts \/ N!Ends
  PROVE  RunInv'
  BY DEF N!Starts, N!Ends, RunInv, Counting, N!OneReadingTells, N!ExitIsOfThisRun, N!Unread

\* Up to the request.
LEMMA AskStep ==
  ASSUME RunInv, N!Choose \/ N!ReadBefore \/ N!Ask
  PROVE  RunInv'
  BY DEF N!Choose, N!ReadBefore, N!Ask, N!Manager, RunInv, Counting, N!OneReadingTells, N!ExitIsOfThisRun,
     N!Unread, N!Silent

\* Here the count and the exit code are of one moment: a count that moved without a run under way is
\* the count of a run that began after the first reading and has ended.
LEMMA LookSystemdStep ==
  ASSUME RunInv, N!LookSystemd
  PROVE  RunInv'
  BY DEF N!LookSystemd, N!Say, N!Moved, N!Manager, RunInv, Counting, N!OneReadingTells, N!ExitIsOfThisRun, N!Unread

LEMMA LookLaunchdStep ==
  ASSUME RunInv, N!LookAtList \/ N!LookAtCount
  PROVE  RunInv'
  BY DEF N!LookAtList, N!LookAtCount, N!Say, N!Manager, RunInv, Counting, N!OneReadingTells, N!ExitIsOfThisRun,
     N!Unread

LEMMA RunNext ==
  ASSUME RunInv, [N!Next]_(N!vars)
  PROVE  RunInv'
  <1>1. CASE UNCHANGED N!vars
    BY <1>1 DEF N!vars, N!Manager, RunInv, Counting, N!OneReadingTells, N!ExitIsOfThisRun
  <1> QED
    BY <1>1, ManagerStep, AskStep, LookSystemdStep, LookLaunchdStep DEF N!Next, N!Look

LEMMA RunGoesOn ==
  ASSUME [ConsoleNext]_vars
  PROVE  [N!Next]_(N!vars)
  BY DEF ConsoleNext, vars, runNow, N!vars

-----------------------------------------------------------------------------
(* What is concluded about a job *)

\* The log and the timer's record never lie about when the job ran last, and launchd counts whatever
\* it loads.
JobShape ==
  /\ job \in [platform : {"none", "systemd", "launchd"}, log : Nat \union {J!NoLog, J!Unknown, J!Never},
              trigger : Nat \union {J!Never}, runs : {J!Unknown, 0, 1}, exit : {J!Unknown, 0, 1},
              pid : BOOLEAN, installed : Nat, armed : BOOLEAN, readable : BOOLEAN]
  /\ now \in Nat /\ ran \in Nat \union {J!Never}

JobInv ==
  /\ JobShape
  /\ job.log >= 0 => job.log = ran
  /\ job.trigger <= ran /\ ran <= now
  /\ job.pid => job.platform # "none"
  /\ job.platform = "none" => job.exit = J!Unknown
  /\ job.platform = "launchd" => job.runs # J!Unknown

LEMMA JobInit ==
  ASSUME J!Init
  PROVE  JobInv
  BY DEF J!Init, JobInv, JobShape, J!Never, J!Unknown, J!NoLog

LEMMA InstallStep ==
  ASSUME JobInv, J!Install
  PROVE  JobInv'
  <1>1. PICK l \in {J!NoLog, J!Never} : J!InstallUnit(l) \/ J!InstallAgent(l)
    BY DEF J!Install
  <1>2. UNCHANGED <<now, ran>> /\ JobShape
    BY DEF J!Install, JobInv
  <1>3. CASE J!InstallUnit(l)
    <2>1. job' = [job EXCEPT !.platform = "systemd", !.log = l, !.runs = J!Unknown, !.exit = J!Unknown]
      BY <1>3 DEF J!InstallUnit
    <2>2. JobShape' /\ job'.platform = "systemd" /\ job'.log = l /\ job'.trigger = job.trigger
      BY <1>2, <2>1 DEF JobShape, J!Unknown, J!NoLog, J!Never
    <2> QED
      BY <1>2, <2>2 DEF JobInv, J!NoLog, J!Never
  <1>4. CASE J!InstallAgent(l)
    <2>1. job' = [job EXCEPT !.platform = "launchd", !.log = l, !.runs = 0, !.exit = 0]
      BY <1>4 DEF J!InstallAgent
    <2>2. JobShape' /\ job'.platform = "launchd" /\ job'.log = l /\ job'.trigger = job.trigger /\ job'.runs = 0
      BY <1>2, <2>1 DEF JobShape, J!Unknown, J!NoLog, J!Never
    <2> QED
      BY <1>2, <2>2 DEF JobInv, J!NoLog, J!Never, J!Unknown
  <1> QED
    BY <1>1, <1>3, <1>4

LEMMA StartsStep ==
  ASSUME JobInv, NEW t \in BOOLEAN, J!Starts(t)
  PROVE  JobInv'
  <1>1. JobShape /\ ran' = now /\ UNCHANGED now
    BY DEF J!Starts, JobInv
  <1>2. JobShape'
    BY DEF J!Starts, J!Systemd, JobInv, JobShape, J!Never, J!Unknown, J!NoLog
  <1>3. /\ job'.platform = job.platform /\ job.platform # "none"
        /\ job'.log = (IF job.log = J!NoLog THEN J!NoLog ELSE now)
        /\ job'.trigger \in {now, job.trigger}
        /\ job'.runs \in {job.runs, 1}
    BY <1>1 DEF J!Starts, JobShape
  <1>4. now >= ran
    BY DEF JobInv
  <1> QED
    BY <1>1, <1>2, <1>3, <1>4 DEF JobInv, JobShape, J!NoLog, J!Never, J!Unknown

LEMMA JobEndsStep ==
  ASSUME JobInv, J!Ends
  PROVE  JobInv'
  <1>1. JobShape'
    BY DEF J!Ends, JobInv, JobShape, J!Never, J!Unknown, J!NoLog
  <1>2. /\ UNCHANGED <<now, ran>>
        /\ job'.platform = job.platform /\ job'.log = job.log /\ job'.trigger = job.trigger /\ job'.runs = job.runs
    BY DEF J!Ends, JobInv, JobShape
  <1>3. job.pid => job.platform # "none"
    BY DEF JobInv
  <1> QED
    BY <1>1, <1>2, <1>3 DEF JobInv, J!Ends

LEMMA TimeStep ==
  ASSUME JobInv, J!Elapse \/ J!StopsFiring
  PROVE  JobInv'
  BY DEF J!Elapse, J!StopsFiring, JobInv, JobShape, J!Never, J!Unknown, J!NoLog

LEMMA BefallsStep ==
  ASSUME JobInv, J!Befalls
  PROVE  JobInv'
  <1>1. JobShape'
    BY DEF J!Befalls, J!Systemd, JobInv, JobShape, J!Never, J!Unknown, J!NoLog
  <1>2. /\ UNCHANGED <<now, ran>>
        /\ job'.platform = job.platform /\ job.platform # "none"
        /\ job'.log \in {job.log, J!Never, J!Unknown} /\ job'.trigger = job.trigger
        /\ job'.runs \in {job.runs, 0}
    BY DEF J!Befalls, JobInv, JobShape
  <1> QED
    BY <1>1, <1>2 DEF JobInv, J!Never, J!Unknown

LEMMA JobNext ==
  ASSUME JobInv, [J!Next]_(J!vars)
  PROVE  JobInv'
  <1>1. CASE UNCHANGED J!vars
    BY <1>1 DEF J!vars, JobInv, JobShape
  <1> QED
    BY <1>1, InstallStep, StartsStep, JobEndsStep, TimeStep, BefallsStep DEF J!Next

LEMMA SlackIsNumber == J!Slack \in Nat
  BY NumberAssumption DEF J!Slack

LEMMA AlarmIsTrue ==
  ASSUME JobInv
  PROVE  J!NoFalseAlarm
  <1> HIDE DEF J!Slack
  <1> QED
    BY SlackIsNumber DEF JobInv, JobShape, J!NoFalseAlarm, J!Overdue, J!NeverRan, J!LastOutput,
       J!LogAfterInstall, J!TimerNever,
       J!Traced, J!Quiet, J!Newer, J!Systemd, J!Broken, J!Never, J!Unknown, J!NoLog

LEMMA DeadIsNoticed ==
  ASSUME JobInv
  PROVE  J!DeadIsDrawn
  BY SlackIsNumber
  DEF JobInv, JobShape, J!DeadIsDrawn, J!Line, J!Overdue, J!NeverRan, J!FreshnessUnknown, J!LastOutput,
  J!LogAfterInstall,
      J!TimerNever, J!Quiet, J!Newer, J!Systemd, J!Broken, J!Never, J!Unknown, J!NoLog

LEMMA JobGoesOn ==
  ASSUME [ConsoleNext]_vars
  PROVE  [J!Next]_(J!vars)
  BY DEF ConsoleNext, vars, freshness, J!vars

\* A job that works raises no alarm and one that has been dead for longer than the threshold is not
\* drawn as one that works (is_overdue, never_ran and job_line over the traces a job leaves), whatever
\* its period; and the exit code run_now of systemd.rs reports, after it could read the unit before the
\* request too, is that of a run begun after the button was pressed.
THEOREM JobsAreAsDrawnCorrect == ConsoleSpec => []JobsAreAsDrawn
  <1>1. ConsoleInit => JobInv /\ RunInv
    BY JobInit, RunInit DEF ConsoleInit
  <1>2. JobInv /\ RunInv /\ [ConsoleNext]_vars => JobInv' /\ RunInv'
    BY JobGoesOn, JobNext, RunGoesOn, RunNext
  <1>3. JobInv /\ RunInv => JobsAreAsDrawn
    BY AlarmIsTrue, DeadIsNoticed DEF RunInv, JobsAreAsDrawn
  <1> QED
    BY <1>1, <1>2, <1>3, PTL DEF ConsoleSpec

-----------------------------------------------------------------------------
(* The files that are saved, by one writer *)

Writing == {"first", "second", "sync", "rename"}
Numbers == 0..(MaxSaves + 1)
Halves == [first : Numbers, second : Numbers]
Steps == {"idle", "clear", "open"} \union Writing
SaveState == [at : Steps, fd : Numbers, save : Numbers, before : Numbers,
              result : {"none", "saved", "refused"}]

FileShape ==
  /\ kind \in {"none", "config", "settings"}
  /\ saves \in 1..(MaxSaves + 1) /\ live \in 1..saves /\ tmp \in 0..saves
  /\ halves \in [F!Inodes -> Halves] /\ synced \subseteq F!Inodes
  /\ writer \in [Writers -> SaveState]
  /\ reader \in [at : {"idle", "first", "second"}, fd : Numbers, seen : Halves] /\ reader.fd <= saves

\* The file is whole, the neighbour is another inode, and nobody reads the neighbour.
FileSeen ==
  /\ F!Whole(halves[live]) /\ live # tmp
  /\ kind = "config" => live \in synced
  /\ kind = "none" => live = 1 /\ 1 \in synced
  /\ reader.at # "idle" => reader.fd # 0 /\ F!Whole(halves[reader.fd]) /\ reader.fd # tmp
  /\ reader.at = "second" => reader.seen.first = halves[reader.fd].first
  /\ reader.at = "idle" => F!Whole(reader.seen)

\* How far a save is: an inode it is about to create is in nobody's hands, and the one it writes is
\* the neighbour's.
Saver(w) ==
  /\ writer[w].at # "idle" => writer[w].save = saves /\ writer[w].before = live
  /\ writer[w].at \in {"clear", "open"} => live < saves /\ tmp < saves /\ reader.fd < saves
  /\ kind = "config" /\ writer[w].at = "open" => tmp = 0
  /\ writer[w].at \in Writing => writer[w].fd = tmp /\ tmp # 0
  /\ writer[w].at = "second" => halves[tmp].first = saves
  /\ writer[w].at \in {"sync", "rename"} => halves[tmp].first = saves /\ halves[tmp].second = saves
  /\ kind = "config" /\ writer[w].at = "rename" => tmp \in synced
  /\ kind = "settings" => writer[w].at \notin {"clear", "sync"}
  /\ kind = "none" => writer[w].at = "idle"
  /\ writer[w].result = "refused" /\ writer[w].at = "idle" => live = writer[w].before

FilesInv == FileShape /\ FileSeen /\ \A w \in Writers : Saver(w)

OneWriter == \A v, w \in Writers : v = w

LEMMA FilesInit ==
  ASSUME F!Init
  PROVE  FilesInv
  BY NumberAssumption DEF F!Init, F!Idle, F!NoText, Steps, Writing, SaveState, Numbers, Halves, FilesInv,
     FileShape, FileSeen, Saver, F!Inodes, F!Text, F!Whole, F!None, F!Blank

LEMMA ChooseStep ==
  ASSUME FilesInv, F!Choose
  PROVE  FilesInv'
  BY DEF F!Choose, Steps, Writing, SaveState, Numbers, Halves, FilesInv, FileShape, FileSeen, Saver, F!Inodes,
     F!Text, F!Whole, F!None, F!Blank

\* What a save's step does to its record.
LEMMA Moves ==
  ASSUME FileShape, NEW w \in Writers, NEW next \in Steps, F!Goto(w, next)
  PROVE  /\ writer' \in [Writers -> SaveState] /\ writer'[w].at = next /\ writer'[w].fd = writer[w].fd
         /\ writer'[w].save = writer[w].save /\ writer'[w].before = writer[w].before
         /\ writer'[w].result = writer[w].result
  <1>1. writer[w] \in SaveState
    BY DEF FileShape
  <1>2. [writer[w] EXCEPT !.at = next] \in SaveState
    BY <1>1 DEF SaveState
  <1> QED
    BY <1>1, <1>2 DEF FileShape, F!Goto, SaveState

LEMMA Sets ==
  ASSUME FileShape, NEW w \in Writers, NEW r \in SaveState, writer' = [writer EXCEPT ![w] = r]
  PROVE  writer' \in [Writers -> SaveState] /\ writer'[w] = r
  BY DEF FileShape

\* A record at the end of a save.
LEMMA Ended ==
  ASSUME NEW r \in SaveState, NEW b \in {"saved", "refused"}
  PROVE  LET s == [r EXCEPT !.at = "idle", !.fd = 0, !.result = b]
         IN  s \in SaveState /\ s.at = "idle" /\ s.save = r.save /\ s.before = r.before /\ s.result = b
  <1>1. 0 \in Numbers
    BY NumberAssumption DEF Numbers
  <1> DEFINE s == [r EXCEPT !.at = "idle", !.fd = 0, !.result = b]
  <1>2. s \in SaveState
    BY <1>1 DEF SaveState, Steps
  <1>3. s.at = "idle" /\ s.save = r.save /\ s.before = r.before /\ s.result = b
    BY DEF SaveState
  <1> QED
    BY <1>2, <1>3

LEMMA BeginSaveStep ==
  ASSUME FilesInv, OneWriter, NEW w \in Writers, F!Begin(w)
  PROVE  FilesInv'
  <1> DEFINE begun == [at |-> IF kind = "config" THEN "clear" ELSE "open", fd |-> 0, save |-> saves + 1,
  before |-> live,
                       result |-> "none"]
  <1>1. begun \in SaveState
    BY NumberAssumption DEF F!Begin, FilesInv, FileShape, SaveState, Steps, Writing, Numbers
  <1>2. writer' \in [Writers -> SaveState] /\ writer'[w] = begun
    BY <1>1, Sets DEF F!Begin, FilesInv, F!None
  <1>3. \A v \in Writers : v = w
    BY DEF OneWriter
  <1> QED
    BY <1>2, <1>3, NumberAssumption, SMTT(30) DEF F!Begin, FilesInv, FileShape, FileSeen, Saver, Writing,
       Halves, Numbers, F!Inodes, F!Text, F!NoText, F!Whole, F!None, F!Blank

LEMMA ClearStep ==
  ASSUME FilesInv, OneWriter, NEW w \in Writers, F!Clear(w)
  PROVE  FilesInv'
  <1>1. /\ writer' \in [Writers -> SaveState] /\ writer'[w].at = "open" /\ writer'[w].fd = writer[w].fd
        /\ writer'[w].save = writer[w].save /\ writer'[w].before = writer[w].before
        /\ writer'[w].result = writer[w].result
    BY Moves DEF F!Clear, FilesInv, Steps
  <1>2. \A v \in Writers : v = w
    BY DEF OneWriter
  <1> QED
    BY <1>1, <1>2, NumberAssumption, SMTT(30) DEF F!Clear, F!Rest, FilesInv, FileShape, FileSeen, Saver, Writing,
       Halves, Numbers, F!Inodes, F!Text, F!NoText, F!Whole, F!None, F!Blank

LEMMA CreateStep ==
  ASSUME FilesInv, OneWriter, NEW w \in Writers, F!Open(w)
  PROVE  FilesInv'
  <1>1. PICK t \in 1..saves : tmp' = t /\ (t = saves \/ t = tmp)
    BY DEF F!Open, FilesInv, FileShape, Saver, F!None
  <1>2. /\ writer[w].at = "open" /\ kind # "none"
        /\ saves \in 1..(MaxSaves + 1) /\ writer[w].save = saves /\ writer[w].before = live /\ live < saves
        /\ t # live
        /\ reader.fd < saves /\ (reader.at # "idle" => reader.fd # t) /\ t \in Numbers /\ t \in F!Inodes
    BY <1>1, NumberAssumption DEF F!Open, FilesInv, FileShape, FileSeen, Saver, Numbers, F!Inodes
  <1> DEFINE opened == [writer[w] EXCEPT !.at = "first", !.fd = t]
  <1>3. /\ opened \in SaveState /\ opened.at = "first" /\ opened.fd = t /\ opened.save = writer[w].save
        /\ opened.before = writer[w].before /\ opened.result = writer[w].result
    <2>1. writer[w] \in SaveState /\ "first" \in Steps
      BY DEF FilesInv, FileShape, Steps, Writing
    <2>2. t \in Numbers
      BY <1>2
    <2>3. opened \in SaveState
      BY <2>1, <2>2 DEF SaveState
    <2>4. /\ opened.at = "first" /\ opened.fd = t /\ opened.save = writer[w].save
          /\ opened.before = writer[w].before /\ opened.result = writer[w].result
      BY <2>1 DEF SaveState
    <2> QED
      BY <2>3, <2>4
  <1>4. writer' = [writer EXCEPT ![w] = opened]
    BY <1>1 DEF F!Open, FilesInv, FileShape
  <1> HIDE DEF opened
  <1>5. writer' \in [Writers -> SaveState] /\ writer'[w] = opened
    BY <1>3, <1>4, Sets DEF FilesInv
  <1>6. halves' \in [F!Inodes -> Halves] /\ \A i \in F!Inodes : i # t => halves'[i] = halves[i]
    BY <1>1, <1>2, NumberAssumption DEF F!Open, FilesInv, FileShape, Halves, Numbers, F!NoText, F!Text, F!Blank
  <1>7. UNCHANGED <<kind, live, reader, saves, synced>>
    BY DEF F!Open, F!Rest
  <1>8. FileShape'
    <2>1. tmp' \in 0..saves
      BY <1>1
    <2> QED
      BY <1>5, <1>6, <1>7, <2>1 DEF FilesInv, FileShape
  <1>9. FileSeen'
    <2>1. live \in F!Inodes /\ (reader.at # "idle" => reader.fd \in F!Inodes)
      BY <1>2, NumberAssumption DEF FilesInv, FileShape, FileSeen, F!Inodes, Numbers
    <2>2. halves'[live] = halves[live] /\ (reader.at # "idle" => halves'[reader.fd] = halves[reader.fd])
      BY <1>2, <1>6, <2>1
    <2> QED
      BY <1>1, <1>2, <1>7, <2>2 DEF FilesInv, FileSeen, F!Whole
  <1>10. \A v \in Writers : Saver(v)'
    <2>1. \A v \in Writers : v = w
      BY DEF OneWriter
    <2> QED
      BY <1>1, <1>2, <1>3, <1>5, <1>7, <2>1 DEF Saver, Writing
  <1> QED
    BY <1>8, <1>9, <1>10 DEF FilesInv

LEMMA WriteHalfStep ==
  ASSUME FilesInv, OneWriter, NEW w \in Writers, F!Write(w)
  PROVE  FilesInv'
  <1> DEFINE next == IF writer[w].at = "first" THEN "second" ELSE IF kind = "config" THEN "sync" ELSE "rename"
  <1>1. /\ writer' \in [Writers -> SaveState] /\ writer'[w].at = next /\ writer'[w].fd = writer[w].fd
        /\ writer'[w].save = writer[w].save /\ writer'[w].before = writer[w].before
        /\ writer'[w].result = writer[w].result
    BY Moves DEF F!Write, FilesInv, Steps, Writing
  <1>2. /\ writer[w].at \in {"first", "second"} /\ writer[w].fd = tmp /\ writer[w].save = saves /\ tmp \in 1..saves
        /\ tmp \in F!Inodes /\ saves \in Numbers
    BY NumberAssumption DEF F!Write, FilesInv, FileShape, Saver, Writing, F!Inodes, Numbers
  <1>3. UNCHANGED <<kind, live, tmp, reader, saves, synced>>
    BY DEF F!Write, F!Rest
  <1>4. /\ halves' \in [F!Inodes -> Halves] /\ \A i \in F!Inodes : i # tmp => halves'[i] = halves[i]
        /\ writer[w].at = "first" => halves'[tmp].first = saves
        /\ writer[w].at = "second" => halves'[tmp].first = halves[tmp].first /\ halves'[tmp].second = saves
    <2>1. halves \in [F!Inodes -> Halves] /\ halves[tmp] \in Halves
      BY <1>2 DEF FilesInv, FileShape
    <2>2. CASE writer[w].at = "first"
      <3>1. halves' = [halves EXCEPT ![tmp] = [@ EXCEPT !.first = saves]]
        BY <1>2, <2>2 DEF F!Write
      <3> QED
        BY <1>2, <2>1, <2>2, <3>1 DEF Halves
    <2>3. CASE writer[w].at = "second"
      <3>1. halves' = [halves EXCEPT ![tmp] = [@ EXCEPT !.second = saves]]
        BY <1>2, <2>3 DEF F!Write
      <3> QED
        BY <1>2, <2>1, <2>3, <3>1 DEF Halves
    <2> QED
      BY <1>2, <2>2, <2>3
  <1>5. \A v \in Writers : v = w
    BY DEF OneWriter
  <1>6. live \in F!Inodes /\ reader.fd \in Numbers
    BY NumberAssumption DEF FilesInv, FileShape, F!Inodes
  <1> QED
    BY <1>1, <1>2, <1>3, <1>4, <1>5, <1>6, NumberAssumption DEF FilesInv, FileShape, FileSeen, Saver, Writing,
       F!Inodes, Numbers,
       F!Whole

LEMMA SyncStep ==
  ASSUME FilesInv, OneWriter, NEW w \in Writers, F!Sync(w)
  PROVE  FilesInv'
  <1>1. /\ writer' \in [Writers -> SaveState] /\ writer'[w].at = "rename" /\ writer'[w].fd = writer[w].fd
        /\ writer'[w].save = writer[w].save /\ writer'[w].before = writer[w].before
        /\ writer'[w].result = writer[w].result
    BY Moves DEF F!Sync, FilesInv, Steps, Writing
  <1>2. /\ writer[w].at = "sync" /\ synced' = synced \union {tmp} /\ tmp \in 1..saves /\ tmp \in F!Inodes
        /\ UNCHANGED <<kind, live, tmp, halves, reader, saves>>
    BY NumberAssumption DEF F!Sync, F!Rest, FilesInv, FileShape, Saver, Writing, F!Inodes
  <1>3. \A v \in Writers : v = w
    BY DEF OneWriter
  <1> QED
    BY <1>1, <1>2, <1>3, NumberAssumption DEF FilesInv, FileShape, FileSeen, Saver, Writing, Halves, Numbers,
       F!Inodes, F!Text, F!NoText, F!Whole, F!None, F!Blank

LEMMA RenameStep ==
  ASSUME FilesInv, OneWriter, NEW w \in Writers, F!Rename(w)
  PROVE  FilesInv'
  <1> DEFINE ended == [writer[w] EXCEPT !.at = "idle", !.fd = 0, !.result = "saved"]
  <1>1. writer[w] \in SaveState
    BY DEF FilesInv, FileShape
  <1>2. /\ ended \in SaveState /\ ended.at = "idle" /\ ended.save = writer[w].save
        /\ ended.before = writer[w].before /\ ended.result = "saved"
    BY <1>1, Ended
  <1>3. writer' = [writer EXCEPT ![w] = ended]
    BY DEF F!Rename, FilesInv, FileShape, F!None
  <1> HIDE DEF ended
  <1>4. writer' \in [Writers -> SaveState] /\ writer'[w] = ended
    BY <1>2, <1>3, Sets DEF FilesInv
  <1>5. writer[w].at = "rename" /\ tmp # 0 /\ live' = tmp /\ tmp' = 0 /\ UNCHANGED <<kind, halves, reader,
  saves, synced>>
    BY DEF F!Rename, F!Rest, F!None
  <1>6. \A v \in Writers : v = w
    BY DEF OneWriter
  <1>7. live \in F!Inodes /\ tmp \in Numbers /\ reader.fd \in Numbers /\ saves \in Numbers
    BY NumberAssumption DEF FilesInv, FileShape, F!Inodes, Numbers
  <1>8. FileShape'
    BY <1>4, <1>5, <1>7, NumberAssumption DEF FilesInv, FileShape, Numbers, Halves
  <1>9. FileSeen'
    BY <1>5, <1>7 DEF FilesInv, FileShape, FileSeen, Saver, Writing, F!Whole, F!Blank
  <1>10. \A v \in Writers : Saver(v)'
    BY <1>2, <1>4, <1>5, <1>6 DEF FilesInv, Saver, Writing
  <1> QED
    BY <1>8, <1>9, <1>10 DEF FilesInv

LEMMA RefusedStep ==
  ASSUME FilesInv, OneWriter, NEW w \in Writers, F!Refused(w)
  PROVE  FilesInv'
  <1> DEFINE ended == [writer[w] EXCEPT !.at = "idle", !.fd = 0, !.result = "refused"]
  <1>1. writer[w] \in SaveState
    BY DEF FilesInv, FileShape
  <1>2. /\ ended \in SaveState /\ ended.at = "idle" /\ ended.save = writer[w].save
        /\ ended.before = writer[w].before /\ ended.result = "refused"
    BY <1>1, Ended
  <1>3. writer' = [writer EXCEPT ![w] = ended]
    BY DEF F!Refused, FilesInv, FileShape, F!None
  <1> HIDE DEF ended
  <1>4. writer' \in [Writers -> SaveState] /\ writer'[w] = ended
    BY <1>2, <1>3, Sets DEF FilesInv
  <1>5. writer[w].at # "idle" /\ tmp' \in {0, tmp} /\ UNCHANGED <<kind, live, halves, reader, saves, synced>>
    BY DEF F!Refused, F!Rest, F!None
  <1>6. \A v \in Writers : v = w
    BY DEF OneWriter
  <1>7. live \in F!Inodes /\ tmp \in Numbers /\ reader.fd \in Numbers /\ saves \in Numbers
    BY NumberAssumption DEF FilesInv, FileShape, F!Inodes, Numbers
  <1>8. FileShape'
    BY <1>4, <1>5, <1>7, NumberAssumption DEF FilesInv, FileShape, Numbers, Halves
  <1>9. FileSeen'
    BY <1>5, <1>7 DEF FilesInv, FileShape, FileSeen, Saver, Writing, F!Whole, F!Blank
  <1>10. \A v \in Writers : Saver(v)'
    BY <1>2, <1>4, <1>5, <1>6 DEF FilesInv, Saver, Writing
  <1> QED
    BY <1>8, <1>9, <1>10 DEF FilesInv

LEMMA DiesStep ==
  ASSUME FilesInv, OneWriter, NEW w \in Writers, F!Dies(w)
  PROVE  FilesInv'
  <1>1. F!Idle \in SaveState
    BY NumberAssumption DEF F!Idle, SaveState, Steps, Numbers, F!None
  <1>2. writer' \in [Writers -> SaveState] /\ writer'[w] = F!Idle
    BY <1>1, Sets DEF F!Dies, FilesInv
  <1>3. \A v \in Writers : v = w
    BY DEF OneWriter
  <1> QED
    BY <1>2, <1>3, NumberAssumption DEF F!Dies, F!Rest, F!Idle, FilesInv, FileShape, FileSeen, Saver, Writing,
       Halves, Numbers, F!Inodes, F!Text, F!NoText, F!Whole, F!None, F!Blank

LEMMA PowerStep ==
  ASSUME FilesInv, MayLose \subseteq {"config"}, F!PowerLost
  PROVE  FilesInv'
  <1>1. PICK lost \in SUBSET ({live, tmp} \ (synced \union {F!None})) :
          halves' = [i \in F!Inodes |-> IF i \in lost THEN F!NoText ELSE halves[i]]
    BY DEF F!PowerLost
  <1>2. kind = "config" /\ live \notin lost
    BY DEF F!PowerLost, FilesInv, FileSeen
  <1>3. /\ writer' = [w \in Writers |-> F!Idle] /\ F!Idle \in SaveState
        /\ reader' = [at |-> "idle", fd |-> 0, seen |-> F!Text(1, 1)] /\ F!Text(1, 1) \in Halves
        /\ UNCHANGED <<kind, live, tmp, synced, saves>>
    BY NumberAssumption DEF F!PowerLost, F!Idle, SaveState, Steps, F!Text, Halves, Numbers, F!None
  <1>4. halves' \in [F!Inodes -> Halves]
    BY <1>1, NumberAssumption DEF FilesInv, FileShape, Halves, Numbers, F!NoText, F!Text, F!Blank
  <1>5. FileShape'
    BY <1>3, <1>4, NumberAssumption DEF FilesInv, FileShape, Halves, Numbers
  <1>6. live \in F!Inodes
    BY NumberAssumption DEF FilesInv, FileShape, F!Inodes
  <1>7. FileSeen'
    BY <1>1, <1>2, <1>3, <1>6 DEF FilesInv, FileSeen, F!Text, F!Whole, F!Blank
  <1>8. \A w \in Writers : Saver(w)'
    BY <1>2, <1>3 DEF FilesInv, Saver, F!Idle, Writing
  <1> QED
    BY <1>5, <1>7, <1>8 DEF FilesInv

LEMMA ReaderStep ==
  ASSUME FilesInv, F!OpenToRead \/ F!Read
  PROVE  FilesInv'
  <1>1. UNCHANGED <<kind, live, tmp, halves, synced, writer, saves>>
    BY DEF F!OpenToRead, F!Read
  <1> DEFINE States == [at : {"idle", "first", "second"}, fd : Numbers, seen : Halves]
  <1>2. reader \in States /\ live \in Numbers /\ 0 \in Numbers
    BY NumberAssumption DEF FilesInv, FileShape, Numbers
  <1>3. reader.at # "idle" => halves[reader.fd] \in Halves /\ reader.seen \in Halves
    BY NumberAssumption DEF FilesInv, FileShape, FileSeen, F!Inodes, Numbers
  <1>4. /\ reader' \in States /\ reader'.fd \in {0, reader.fd, live}
        /\ reader'.at # "idle" => reader'.fd # 0 /\ F!Whole(halves[reader'.fd]) /\ reader'.fd # tmp
        /\ reader'.at = "second" => reader'.seen.first = halves[reader'.fd].first
        /\ reader'.at = "idle" => F!Whole(reader'.seen)
    <2>1. CASE F!OpenToRead
      <3>1. reader' = [reader EXCEPT !.at = "first", !.fd = live]
        BY <2>1 DEF F!OpenToRead
      <3>2. reader' \in States
        BY <1>2, <3>1
      <3>3. reader'.at = "first" /\ reader'.fd = live
        BY <1>2, <3>1
      <3>4. F!Whole(halves[live]) /\ live # tmp /\ live # 0
        BY DEF FilesInv, FileShape, FileSeen
      <3> QED
        BY <3>2, <3>3, <3>4
    <2>2. CASE F!Read /\ reader.at = "first"
      <3>1. reader' = [reader EXCEPT !.at = "second", !.seen = F!Text(halves[reader.fd].first, @.second)]
        BY <2>2 DEF F!Read
      <3>2. F!Text(halves[reader.fd].first, reader.seen.second) \in Halves
        BY <1>3, <2>2 DEF Halves, F!Text
      <3>3. reader' \in States
        BY <1>2, <3>1, <3>2
      <3>4. reader'.at = "second" /\ reader'.fd = reader.fd /\ reader'.seen.first = halves[reader.fd].first
        BY <1>2, <3>1 DEF F!Text
      <3> QED
        BY <2>2, <3>3, <3>4 DEF FilesInv, FileSeen
    <2>3. CASE F!Read /\ reader.at = "second"
      <3>1. reader' = [at |-> "idle", fd |-> 0, seen |-> F!Text(reader.seen.first, halves[reader.fd].second)]
        BY <2>3 DEF F!Read, F!None
      <3>2. F!Text(reader.seen.first, halves[reader.fd].second) \in Halves
        BY <1>3, <2>3 DEF Halves, F!Text
      <3> QED
        BY <1>2, <2>3, <3>1, <3>2 DEF FilesInv, FileSeen, F!Whole, F!Text
    <2> QED
      BY <2>1, <2>2, <2>3 DEF F!Read
  <1> HIDE DEF States
  <1>5. FileShape'
    BY <1>1, <1>4, NumberAssumption DEF FilesInv, FileShape, Halves, Numbers, States
  <1>6. FileSeen'
    BY <1>1, <1>4 DEF FilesInv, FileSeen
  <1>7. \A w \in Writers : Saver(w)'
    BY <1>1, <1>4 DEF FilesInv, FileShape, Saver
  <1> QED
    BY <1>5, <1>6, <1>7 DEF FilesInv

LEMMA FilesNext ==
  ASSUME FilesInv, OneWriter, MayLose \subseteq {"config"}, [F!Next]_(F!vars)
  PROVE  FilesInv'
  <1>1. CASE UNCHANGED F!vars
    BY <1>1 DEF F!vars, Steps, Writing, SaveState, Numbers, Halves, FilesInv, FileShape, FileSeen, Saver,
       F!Inodes, F!Text, F!Whole, F!None, F!Blank
  <1> QED
    BY <1>1, ChooseStep, BeginSaveStep, ClearStep, CreateStep, WriteHalfStep, SyncStep, RenameStep, RefusedStep,
       DiesStep,
       PowerStep, ReaderStep DEF F!Next, F!Save

LEMMA FilesGoOn ==
  ASSUME [ConsoleNext]_vars
  PROVE  [F!Next]_(F!vars)
  BY DEF ConsoleNext, vars, files, F!vars

\* A file that save_config or write_all saves is read whole at whatever moment of a save; a save that
\* ends in an error, or is killed, leaves the file as it was; and what it leaves behind does not stop
\* the next: for one writer at a time, and the config's file also where the machine loses power.
THEOREM SavesAreWholeCorrect ==
  ASSUME OneWriter, MayLose \subseteq {"config"}
  PROVE  ConsoleSpec => []SavesAreWhole
  <1>1. ConsoleInit => FilesInv
    BY FilesInit DEF ConsoleInit
  <1>2. FilesInv /\ [ConsoleNext]_vars => FilesInv'
    BY FilesGoOn, FilesNext
  <1>3. FilesInv => SavesAreWhole
    BY DEF SavesAreWhole, F!SavesAreWhole, F!WholeRead, F!UntouchedOnRefusal, F!NeverBlocked, Writing,
       FilesInv, FileShape, FileSeen, Saver, F!Inodes, F!Text, F!Whole, F!None, F!Blank
  <1> QED
    BY <1>1, <1>2, <1>3, PTL DEF ConsoleSpec

-----------------------------------------------------------------------------
(* The releases, of which one installer at most is killed *)

Releases == Shas \union {NoRelease}
Ages == -1..PruneAge
Installing == {"idle", "previous", "switch", "stamp", "unstamp", "prune"}
InstallerState == [at : Installing, sha : Releases, before : Releases]

ReleaseShape ==
  /\ platform \in {"none", "linux", "macos"} /\ current \in Releases /\ previous \in Releases
  /\ built \in [Shas -> Nat] /\ retired \in [Shas -> Ages] /\ left \in [Shas -> Ages]
  /\ installer \in InstallerState
  /\ session \in [at : {"none", "pin", "root", "running"}, binary : Releases, scripts : Releases, root : Releases]
  /\ installs \in [begun : Nat, died : {0, 1}]
  /\ platform = "none" => current = NoRelease /\ installer.at = "idle"

\* What an installer knows of the two releases it switches between.
InstallerInv ==
  /\ installer.at # "idle" => /\ installer.sha \in Shas /\ L!There(installer.sha)
                              /\ installer.before # NoRelease => L!There(installer.before)
  /\ installer.at \in {"previous", "switch"} => installer.before = current
  /\ installer.at \in {"previous", "switch", "stamp"} => installer.before # installer.sha
  /\ installer.at \in {"stamp", "unstamp", "prune"} => current = installer.sha

\* A stamp is never older than the release's retirement, but for the stamp of the current release,
\* which only an installer that was killed leaves behind.
StampsInv ==
  /\ \A r \in Shas : retired[r] # -1 =>
       \/ left[r] # -1 /\ retired[r] <= left[r]
       \/ r = current
       \/ installer.at = "stamp" /\ r = installer.before
  /\ current # NoRelease => retired[current] = -1 \/ installs.died = 1 \/ installer.at \in {"stamp", "unstamp"}
  /\ installer.at \in {"previous", "switch", "stamp"} /\ installer.before # NoRelease =>
       installs.died = 1 \/ retired[installer.before] = -1
  /\ installer.at = "stamp" /\ installer.before # NoRelease => left[installer.before] # -1

\* What is there, and what a session has of it.
ThereInv ==
  /\ \A r \in Shas : L!There(r) \/ left[r] \in {-1, PruneAge}
  /\ session.at # "none" => platform # "none" /\ current # NoRelease
  /\ session.at # "none" /\ L!Linux => session.binary \in Shas /\ L!There(session.binary)
  /\ session.at = "none" => session.scripts = NoRelease /\ session.root = NoRelease
  /\ L!LinksLead /\ L!PinnedStays

ReleasesInv == ReleaseShape /\ InstallerInv /\ StampsInv /\ ThereInv

LEMMA ReleasesInit ==
  ASSUME L!Init
  PROVE  ReleasesInv
  <1>1. ReleaseShape
    BY NumberAssumption DEF L!Init, L!Idle, L!NoSession, L!Never, ReleaseShape, Releases, Ages, Installing,
       InstallerState
  <1> QED
    BY <1>1 DEF L!Init, L!Idle, L!NoSession, L!Never, ReleasesInv, InstallerInv, StampsInv, ThereInv, L!There,
       L!LinksLead,
       L!PinnedStays

LEMMA PlatformStep ==
  ASSUME ReleasesInv, L!Choose
  PROVE  ReleasesInv'
  BY DEF L!Choose, ReleasesInv, ReleaseShape, InstallerInv, StampsInv, ThereInv, L!There, L!Linux, L!Never,
     L!Idle, L!LinksLead, L!PinnedStays

\* What a step of the installer does to its record.
LEMMA InstallerMoves ==
  ASSUME ReleaseShape, NEW a \in Installing, L!Goto(a)
  PROVE  /\ installer' \in InstallerState
         /\ installer'.at = a /\ installer'.sha = installer.sha /\ installer'.before = installer.before
  BY DEF ReleaseShape, L!Goto, InstallerState

LEMMA BuildStep ==
  ASSUME ReleasesInv, NEW r \in Shas, L!Build(r)
  PROVE  ReleasesInv'
  <1>1. /\ platform # "none" /\ installer.at = "idle"
        /\ UNCHANGED <<platform, current, previous, retired, left, session>>
    BY DEF L!Build
  <1>2. /\ built' \in [Shas -> Nat] /\ built'[r] # 0
        /\ \A q \in Shas : built[q] # 0 => built'[q] # 0
    BY DEF L!Build, L!There, ReleasesInv, ReleaseShape
  <1>3. /\ installer' \in InstallerState /\ installer'.sha = r /\ installer'.before = current
        /\ installer'.at = (IF current = r THEN "prune" ELSE "previous")
    BY DEF L!Build, ReleasesInv, ReleaseShape, Installing, InstallerState, Releases
  <1>4. installs' \in [begun : Nat, died : {0, 1}] /\ installs'.died = installs.died
    BY DEF L!Build, ReleasesInv, ReleaseShape
  <1>5. ReleaseShape'
    BY <1>1, <1>2, <1>3, <1>4 DEF ReleasesInv, ReleaseShape
  <1>6. InstallerInv'
    BY <1>1, <1>2, <1>3 DEF ReleasesInv, ReleaseShape, InstallerInv, ThereInv, L!LinksLead, L!There, Releases
  <1>7. StampsInv'
    BY <1>1, <1>3, <1>4 DEF ReleasesInv, ReleaseShape, StampsInv
  <1>8. ThereInv'
    BY <1>1, <1>2 DEF ReleasesInv, ReleaseShape, ThereInv, L!LinksLead, L!PinnedStays, L!There, L!Linux, Releases
  <1> QED
    BY <1>5, <1>6, <1>7, <1>8 DEF ReleasesInv

LEMMA PreviousStep ==
  ASSUME ReleasesInv, L!WritePrevious
  PROVE  ReleasesInv'
  <1>1. /\ installer' \in InstallerState
        /\ installer'.at = "switch" /\ installer'.sha = installer.sha /\ installer'.before = installer.before
    BY InstallerMoves DEF L!WritePrevious, ReleasesInv, Installing
  <1>2. /\ installer.at = "previous" /\ previous' \in {previous, installer.before}
        /\ UNCHANGED <<platform, current, built, retired, left, session, installs>>
    BY DEF L!WritePrevious
  <1> QED
    BY <1>1, <1>2 DEF ReleasesInv, ReleaseShape, InstallerInv, StampsInv, ThereInv, L!There, L!Linux, L!Never,
       L!Idle, L!LinksLead, L!PinnedStays, Releases, InstallerState

LEMMA SwitchStep ==
  ASSUME ReleasesInv, L!Switch
  PROVE  ReleasesInv'
  <1>1. /\ installer' \in InstallerState
        /\ installer'.at = "stamp" /\ installer'.sha = installer.sha /\ installer'.before = installer.before
    BY InstallerMoves DEF L!Switch, ReleasesInv, Installing
  <1>2. /\ installer.at = "switch" /\ current' = installer.sha /\ installer.sha \in Shas
        /\ L!There(installer.sha) /\ installer.before # installer.sha /\ installer.before = current
        /\ platform # "none"
        /\ UNCHANGED <<platform, previous, built, retired, session, installs>>
    BY DEF L!Switch, ReleasesInv, ReleaseShape, InstallerInv
  <1>3. /\ left' \in [Shas -> Ages] /\ left'[installer.sha] = -1
        /\ installer.before \in Shas => left'[installer.before] = 0
        /\ \A r \in Shas : r \notin {installer.sha, installer.before} => left'[r] = left[r]
    BY <1>2, NumberAssumption DEF L!Switch, L!Never, ReleasesInv, ReleaseShape, Ages
  <1>4. ReleaseShape'
    BY <1>1, <1>2, <1>3 DEF ReleasesInv, ReleaseShape, Releases
  <1>5. InstallerInv'
    BY <1>1, <1>2 DEF ReleasesInv, InstallerInv, L!There
  <1>6. StampsInv'
    BY <1>1, <1>2, <1>3, NamesDiffer DEF ReleasesInv, ReleaseShape, StampsInv, InstallerState, Releases
  <1>7. ThereInv'
    BY <1>1, <1>2, <1>3, NamesDiffer DEF ReleasesInv, ReleaseShape, InstallerInv, ThereInv, L!LinksLead,
       L!PinnedStays, L!There,
       L!Linux, Releases
  <1> QED
    BY <1>4, <1>5, <1>6, <1>7 DEF ReleasesInv

LEMMA StampStep ==
  ASSUME ReleasesInv, L!Stamp
  PROVE  ReleasesInv'
  <1>1. /\ installer' \in InstallerState
        /\ installer'.at = "unstamp" /\ installer'.sha = installer.sha /\ installer'.before = installer.before
    BY InstallerMoves DEF L!Stamp, ReleasesInv, Installing
  <1>2. installer.at = "stamp" /\ UNCHANGED <<platform, current, previous, built, left, session, installs>>
    BY DEF L!Stamp
  <1>3. /\ retired' \in [Shas -> Ages]
        /\ installer.before \in Shas => retired'[installer.before] = 0
        /\ \A r \in Shas : r # installer.before => retired'[r] = retired[r]
    BY <1>2, NumberAssumption, NamesDiffer DEF L!Stamp, L!There, ReleasesInv, ReleaseShape, InstallerInv, Ages
  <1>4. ReleaseShape' /\ InstallerInv' /\ ThereInv'
    BY <1>1, <1>2, <1>3 DEF ReleasesInv, ReleaseShape, InstallerInv, ThereInv, L!LinksLead, L!PinnedStays,
       L!There, L!Linux
  <1>5. \A r \in Shas : left[r] # -1 => left[r] >= 0
    BY NumberAssumption DEF ReleasesInv, ReleaseShape, Ages
  <1>6. StampsInv'
    BY <1>1, <1>2, <1>3, <1>5, NamesDiffer DEF ReleasesInv, ReleaseShape, InstallerInv, StampsInv,
       InstallerState, Releases
  <1> QED
    BY <1>4, <1>6 DEF ReleasesInv

LEMMA UnstampStep ==
  ASSUME ReleasesInv, L!Unstamp
  PROVE  ReleasesInv'
  <1>1. /\ installer' \in InstallerState
        /\ installer'.at = "prune" /\ installer'.sha = installer.sha /\ installer'.before = installer.before
    BY InstallerMoves DEF L!Unstamp, ReleasesInv, Installing
  <1>2. /\ installer.at = "unstamp" /\ current = installer.sha /\ current \in Shas
        /\ UNCHANGED <<platform, current, previous, built, left, session, installs>>
    BY DEF L!Unstamp, ReleasesInv, InstallerInv
  <1>3. /\ retired' \in [Shas -> Ages] /\ retired'[current] = -1
        /\ \A r \in Shas : r # current => retired'[r] = retired[r]
    BY <1>2, NumberAssumption DEF L!Unstamp, L!Never, ReleasesInv, ReleaseShape, Ages
  <1> QED
    BY <1>1, <1>2, <1>3 DEF ReleasesInv, ReleaseShape, InstallerInv, StampsInv, ThereInv, L!There, L!Linux,
       L!Never, L!Idle, L!LinksLead, L!PinnedStays

\* What is removed had left PruneAge ago.
LEMMA RemoveStep ==
  ASSUME ReleasesInv, L!Prune
  PROVE  ReleasesInv'
  <1> DEFINE Gone == {r \in Shas : L!Goes(r)}
  <1>1. /\ installer.at = "prune" /\ installer' = L!Idle /\ current = installer.sha
        /\ UNCHANGED <<platform, current, previous, left, session, installs>>
    BY DEF L!Prune, ReleasesInv, InstallerInv
  <1>2. \A r \in Gone : retired[r] = PruneAge /\ r # current /\ r # previous /\ (L!Linux => r # session.binary)
    BY <1>1 DEF L!Goes, L!Protected, L!Busy
  <1>3. /\ \A r \in Shas : r \in Gone => built'[r] = 0 /\ retired'[r] = -1
        /\ \A r \in Shas : r \notin Gone => built'[r] = built[r] /\ retired'[r] = retired[r]
        /\ built' \in [Shas -> Nat] /\ retired' \in [Shas -> Ages]
    <2> HIDE DEF L!Goes
    <2> QED
      BY NumberAssumption DEF L!Prune, L!Never, ReleasesInv, ReleaseShape, Ages
  <1>4. \A r \in Gone : left[r] = PruneAge
    BY <1>1, <1>2, NumberAssumption DEF ReleasesInv, ReleaseShape, StampsInv, Ages
  <1> HIDE DEF Gone
  <1>5. L!Idle \in InstallerState /\ L!Idle.at = "idle"
    BY DEF L!Idle, InstallerState, Installing, Releases
  <1>6. ReleaseShape' /\ InstallerInv'
    BY <1>1, <1>3, <1>5 DEF ReleasesInv, ReleaseShape, InstallerInv
  <1>7. StampsInv'
    BY <1>1, <1>3, <1>5 DEF ReleasesInv, ReleaseShape, InstallerInv, StampsInv, Releases
  <1>8. ThereInv'
    BY <1>1, <1>2, <1>3, <1>4 DEF ReleasesInv, ReleaseShape, ThereInv, L!LinksLead, L!PinnedStays, L!There,
       L!Linux, Releases
  <1> QED
    BY <1>6, <1>7, <1>8 DEF ReleasesInv

LEMMA InstallerDiesStep ==
  ASSUME ReleasesInv, MaxDeaths \in {0, 1}, L!Dies
  PROVE  ReleasesInv'
  <1>1. /\ installer.at # "idle" /\ installer' = L!Idle /\ installs.died = 0
        /\ UNCHANGED <<platform, current, previous, built, retired, left, session>>
    BY DEF L!Dies, ReleasesInv, ReleaseShape
  <1>2. installs' \in [begun : Nat, died : {0, 1}] /\ installs'.died = 1
    BY <1>1 DEF L!Dies, ReleasesInv, ReleaseShape
  <1>3. L!Idle \in InstallerState /\ L!Idle.at = "idle"
    BY DEF L!Idle, InstallerState, Installing, Releases
  <1>4. ReleaseShape' /\ InstallerInv'
    BY <1>1, <1>2, <1>3 DEF ReleasesInv, ReleaseShape, InstallerInv
  <1>5. StampsInv'
    BY <1>1, <1>2, <1>3, NamesDiffer DEF ReleasesInv, StampsInv
  <1>6. ThereInv'
    BY <1>1 DEF ReleasesInv, ThereInv, L!LinksLead, L!PinnedStays, L!There, L!Linux
  <1> QED
    BY <1>4, <1>5, <1>6 DEF ReleasesInv

LEMMA SessionStep ==
  ASSUME ReleasesInv, L!Launch \/ L!Pin \/ L!Root \/ L!Leave
  PROVE  ReleasesInv'
  <1>1. UNCHANGED <<platform, current, previous, built, retired, left, installer, installs>>
    BY DEF L!Launch, L!Pin, L!Root, L!Leave, L!Disk
  <1> DEFINE Sessions == [at : {"none", "pin", "root", "running"}, binary : Releases, scripts : Releases,
  root : Releases]
  <1>2. session' \in Sessions
    <2>1. session \in Sessions /\ current \in Releases /\ NoRelease \in Releases
      BY DEF ReleasesInv, ReleaseShape, Releases
    <2>2. CASE L!Launch
      BY <2>1, <2>2 DEF L!Launch, L!NoSession
    <2>3. CASE L!Pin
      BY <2>1, <2>3 DEF L!Pin
    <2>4. CASE L!Root
      BY <2>1, <2>4 DEF L!Root
    <2>5. CASE L!Leave
      BY <2>1, <2>5 DEF L!Leave, L!NoSession
    <2> QED
      BY <2>2, <2>3, <2>4, <2>5
  <1>3. ReleaseShape' /\ InstallerInv' /\ StampsInv'
    BY <1>1, <1>2 DEF ReleasesInv, ReleaseShape, InstallerInv, StampsInv, L!There
  <1>4. ThereInv'
    <2>1. CASE L!Launch
      <3>1. /\ session'.at = "pin" /\ session'.binary = current /\ session'.scripts = NoRelease
            /\ session'.root = NoRelease
            /\ current # NoRelease
        BY <2>1 DEF L!Launch, L!NoSession
      <3> QED
        BY <1>1, <3>1 DEF ReleasesInv, ReleaseShape, ThereInv, L!LinksLead, L!PinnedStays, L!There, L!Linux,
           Releases
    <2>2. CASE L!Pin
      <3>1. /\ session.at = "pin" /\ session'.at = "root" /\ session'.binary = session.binary
            /\ session'.scripts = current /\ session'.root = session.root
        BY <2>2 DEF L!Pin, ReleasesInv, ReleaseShape
      <3> QED
        BY <1>1, <3>1 DEF ReleasesInv, ReleaseShape, ThereInv, L!LinksLead, L!PinnedStays, L!There, L!Linux,
           Releases
    <2>3. CASE L!Root
      <3>1. /\ session.at = "root" /\ session'.at = "running" /\ session'.binary = session.binary
            /\ session'.scripts = session.scripts /\ session'.root = (IF L!Linux THEN session.binary ELSE current)
        BY <2>3 DEF L!Root, ReleasesInv, ReleaseShape
      <3> QED
        BY <1>1, <3>1 DEF ReleasesInv, ReleaseShape, ThereInv, L!LinksLead, L!PinnedStays, L!There, L!Linux,
           Releases
    <2>4. CASE L!Leave
      BY <1>1, <2>4 DEF L!Leave, L!NoSession, ReleasesInv, ThereInv, L!LinksLead, L!PinnedStays, L!There, L!Linux
    <2> QED
      BY <2>1, <2>2, <2>3, <2>4
  <1> QED
    BY <1>3, <1>4 DEF ReleasesInv

\* Ages grow together, up to PruneAge.
LEMMA OlderAges ==
  ASSUME NEW a \in Ages, NEW b \in Ages
  PROVE  /\ L!Older(a) \in Ages /\ (L!Older(a) = -1 <=> a = -1)
         /\ a <= b /\ a # -1 => L!Older(a) <= L!Older(b)
         /\ a = PruneAge => L!Older(a) = PruneAge
  BY NumberAssumption DEF L!Older, L!Never, Ages

LEMMA AgeStep ==
  ASSUME ReleasesInv, L!Elapse
  PROVE  ReleasesInv'
  <1>1. UNCHANGED <<platform, current, previous, built, installer, session, installs>>
    BY DEF L!Elapse
  <1>2. \A r \in Shas : retired[r] \in Ages /\ left[r] \in Ages
    BY DEF ReleasesInv, ReleaseShape
  <1>3. /\ retired' = [r \in Shas |-> L!Older(retired[r])] /\ left' = [r \in Shas |-> L!Older(left[r])]
    BY DEF L!Elapse
  <1>4. /\ retired' \in [Shas -> Ages] /\ left' \in [Shas -> Ages]
        /\ \A r \in Shas : (retired'[r] = -1 <=> retired[r] = -1) /\ (left'[r] = -1 <=> left[r] = -1)
        /\ \A r \in Shas : retired[r] <= left[r] /\ retired[r] # -1 => retired'[r] <= left'[r]
        /\ \A r \in Shas : left[r] = PruneAge => left'[r] = PruneAge
    BY <1>2, <1>3, OlderAges
  <1>5. ReleaseShape' /\ InstallerInv'
    BY <1>1, <1>4 DEF ReleasesInv, ReleaseShape, InstallerInv, L!There
  <1>6. StampsInv'
    BY <1>1, <1>4 DEF ReleasesInv, ReleaseShape, StampsInv, InstallerState, Releases
  <1>7. ThereInv'
    BY <1>1, <1>4 DEF ReleasesInv, ReleaseShape, ThereInv, L!LinksLead, L!PinnedStays, L!There, L!Linux, Releases
  <1> QED
    BY <1>5, <1>6, <1>7 DEF ReleasesInv

LEMMA ReleasesNext ==
  ASSUME ReleasesInv, MaxDeaths \in {0, 1}, [L!Next]_(L!vars)
  PROVE  ReleasesInv'
  <1>1. CASE UNCHANGED L!vars
    BY <1>1 DEF L!vars, ReleasesInv, ReleaseShape, InstallerInv, StampsInv, ThereInv, L!There, L!Linux,
       L!Never, L!Idle, L!LinksLead, L!PinnedStays
  <1> QED
    BY <1>1, PlatformStep, BuildStep, PreviousStep, SwitchStep, StampStep, UnstampStep, RemoveStep,
       InstallerDiesStep,
       SessionStep, AgeStep DEF L!Next, L!Install

LEMMA ReleasesGoOn ==
  ASSUME [ConsoleNext]_vars
  PROVE  [L!Next]_(L!vars)
  BY DEF ConsoleNext, vars, releases, L!vars

\* Where one installer at most is killed, a session finds the release it pinned until --prune-age
\* after another took its place (on Linux as long as it runs), current and the release to roll back
\* to are there, and so is whatever was current less than --prune-age ago (switch and prune).  Two that
\* are killed can break it: see releases_deaths.
THEOREM ReleasesStayCorrect ==
  ASSUME MaxDeaths \in {0, 1}
  PROVE  ConsoleSpec => [](ReleasesStay /\ L!LatelyCurrentStays)
  <1>1. ConsoleInit => ReleasesInv
    BY ReleasesInit DEF ConsoleInit
  <1>2. ReleasesInv /\ [ConsoleNext]_vars => ReleasesInv'
    BY ReleasesGoOn, ReleasesNext
  <1>3. ReleasesInv => ReleasesStay /\ L!LatelyCurrentStays
    BY NumberAssumption DEF ReleasesInv, ReleaseShape, ThereInv, Ages, ReleasesStay, L!ReleasesStay,
       L!LatelyCurrentStays
  <1> QED
    BY <1>1, <1>2, <1>3, PTL DEF ConsoleSpec
-----------------------------------------------------------------------------
(* The tray *)

\* A nonempty set of naturals has a least element: what is true of 0 and of n + 1 where it is true of n
\* is true of all.
LEMMA LeastNumber ==
  ASSUME NEW W, W \subseteq Nat, W # {}
  PROVE  \E n \in W : \A m \in W : n <= m
  <1> DEFINE R == OpToRel(<, Nat)
  <1>1. IsWellFoundedOn(R, Nat)
    BY NatLessThanWellFounded
  <1>2. \A x, y \in Nat : <<x, y>> \notin R => y <= x
    BY DEF OpToRel
  <1> HIDE DEF R
  <1>3. \E n \in W : \A m \in W : ~ (<<m, n>> \in R)
    BY <1>1, WFMin
  <1> QED
    BY <1>2, <1>3

\* What the main thread makes of the first n answers, starting from a.
Read(g, a, n) == g = [i \in 0..n |-> IF i = 0 THEN a ELSE T!Absorb(g[i - 1], ups[i])]

\* The recursive function in Drained exists.
LEMMA ReadExists ==
  ASSUME NEW a, NEW n \in Nat
  PROVE  \E g : Read(g, a, n)
  <1> DEFINE W == {k \in Nat : ~ \E g : Read(g, a, k)}
  <1> SUFFICES ASSUME n \in W PROVE FALSE
    OBVIOUS
  <1>1. PICK k \in W : \A m \in W : k <= m
    BY LeastNumber
  <1>2. Read([i \in 0..0 |-> a], a, 0)
    BY DEF Read
  <1>3. k # 0 /\ k \in Nat /\ k - 1 \in Nat /\ k - 1 \notin W
    BY <1>1, <1>2
  <1>4. PICK g : Read(g, a, k - 1)
    BY <1>3
  <1> DEFINE h == [i \in 0..k |-> IF i = k THEN T!Absorb(g[k - 1], ups[k]) ELSE g[i]]
  <1>5. \A i \in 0..(k - 1) : h[i] = g[i]
    BY <1>3
  <1>6. \A i \in 0..k : h[i] = IF i = 0 THEN a ELSE T!Absorb(h[i - 1], ups[i])
    <2> TAKE i \in 0..k
    <2>1. CASE i = k
      BY <2>1, <1>3, <1>5
    <2>2. CASE i # k
      <3>1. i \in 0..(k - 1) /\ (i # 0 => i - 1 \in 0..(k - 1))
        BY <2>2, <1>3
      <3>2. g[i] = IF i = 0 THEN a ELSE T!Absorb(g[i - 1], ups[i])
        BY <1>4, <3>1 DEF Read
      <3> QED
        BY <3>1, <3>2, <1>5
    <2> QED
      BY <2>1, <2>2
  <1>7. h = [i \in 0..k |-> h[i]]
    OBVIOUS
  <1> HIDE DEF h
  <1>8. Read(h, a, k)
    BY <1>6, <1>7 DEF Read
  <1> QED
    BY <1>1, <1>8

\* b is a with other news, and the same menu on the screen.
Keeps(b, a) == DOMAIN b = DOMAIN a /\ b.drawn = a.drawn

\* An answer of the worker's is one of four.
Answers(s) == \E W : s \in Seq(W) /\ \A u \in W : u.kind \in {"data", "failed", "note", "jobs"}

LEMMA AbsorbKeeps ==
  ASSUME NEW a, NEW b, NEW u, "drawn" \in DOMAIN a, Keeps(b, a), u.kind \in {"data", "failed", "note", "jobs"}
  PROVE  Keeps(T!Absorb(b, u), a)
  BY DEF Keeps, T!Absorb

\* However many answers are read, none draws the menu.
LEMMA ReadKeeps ==
  ASSUME NEW a, "drawn" \in DOMAIN a, Answers(ups), NEW g, Read(g, a, Len(ups)), NEW n \in 0..Len(ups)
  PROVE  Keeps(g[n], a)
  <1> DEFINE W == {k \in 0..Len(ups) : ~ Keeps(g[k], a)}
  <1> SUFFICES ASSUME n \in W PROVE FALSE
    OBVIOUS
  <1>1. Len(ups) \in Nat /\ \A i \in 1..Len(ups) : ups[i].kind \in {"data", "failed", "note", "jobs"}
    <2>1. PICK U : ups \in Seq(U) /\ \A u \in U : u.kind \in {"data", "failed", "note", "jobs"}
      BY DEF Answers
    <2>2. Len(ups) \in Nat /\ \A i \in 1..Len(ups) : ups[i] \in U
      BY <2>1
    <2> QED
      BY <2>1, <2>2
  <1>2. PICK k \in W : \A m \in W : k <= m
    <2>1. W \subseteq Nat /\ W # {}
      BY <1>1
    <2> HIDE DEF W
    <2> QED
      BY <2>1, LeastNumber
  <1>3. \A i \in 0..Len(ups) : g[i] = IF i = 0 THEN a ELSE T!Absorb(g[i - 1], ups[i])
    BY DEF Read
  <1>4. k # 0
    BY <1>1, <1>2, <1>3 DEF Keeps
  <1>5. k - 1 \in 0..Len(ups) /\ k \in 1..Len(ups) /\ k - 1 \notin W
    BY <1>1, <1>2, <1>4
  <1>6. Keeps(g[k - 1], a) /\ g[k] = T!Absorb(g[k - 1], ups[k])
    BY <1>3, <1>4, <1>5
  <1> QED
    BY <1>1, <1>2, <1>5, <1>6, AbsorbKeeps

LEMMA DrainedKeeps ==
  ASSUME NEW a, "drawn" \in DOMAIN a, Answers(ups)
  PROVE  Keeps(T!Drained(a), a)
  <1> DEFINE read == CHOOSE g : Read(g, a, Len(ups))
             b == read[Len(ups)]
  <1>1. Len(ups) \in Nat /\ Len(ups) \in 0..Len(ups)
    BY DEF Answers
  <1>2. Read(read, a, Len(ups))
    BY <1>1, ReadExists
  <1>3. T!Drained(a) = IF worker.at = "dead" /\ ~b.dead
                       THEN [b EXCEPT !.dead = TRUE, !.status = "workerDead", !.pending = TRUE] ELSE b
    BY DEF T!Drained, Read
  <1> HIDE DEF read
  <1>4. Keeps(b, a)
    BY <1>1, <1>2, ReadKeeps
  <1> QED
    BY <1>3, <1>4 DEF Keeps

\* A person who looks at the menu as it is drawn sees its buttons.
TrayInv ==
  /\ "drawn" \in DOMAIN app /\ {"items", "current", "open"} \subseteq DOMAIN view
  /\ Answers(ups)
  /\ view.current => view.items = T!Buttons(app.drawn)
  /\ T!PressHitsWhatWasShown

LEMMA TrayBegins == T!Init => TrayInv
  <1> SUFFICES ASSUME T!Init PROVE TrayInv
    OBVIOUS
  <1>1. Answers(ups)
    <2>1. ups \in Seq({})
      BY DEF T!Init
    <2> QED
      BY <2>1 DEF Answers
  <1> QED
    BY <1>1 DEF T!Init, TrayInv, T!PressHitsWhatWasShown, T!NoPress

\* A tick draws the menu anew, which makes an older copy of what the person sees, or leaves it as it is.
LEMMA TickStep ==
  ASSUME TrayInv, NEW k \in {0} \union 1..Len(view.items), T!Tick(k)
  PROVE  TrayInv'
  <1> DEFINE d == T!Drained(app)
             w == T!Watched(d)
             p == T!AfterPress(w, k)
             r == T!Refreshed(p)
             q == T!Polled(r)
  <1>1. Keeps(d, app)
    BY DrainedKeeps DEF TrayInv
  <1>2. Keeps(w, app)
    BY <1>1 DEF Keeps, T!Watched, TrayInv
  <1>3. Keeps(p, app)
    BY <1>2 DEF Keeps, T!AfterPress, T!Asking, TrayInv
  <1>4. Keeps(r, app)
    BY <1>3 DEF Keeps, T!Refreshed, T!Asking, TrayInv
  <1>5. Keeps(q, app)
    BY <1>4 DEF Keeps, T!Polled, TrayInv
  <1>6. /\ app' = T!Rebuilt(q) /\ ups' = <<>>
        /\ view' = [view EXCEPT !.current = view.current /\ ~T!Redraws(q)]
        /\ pressed' = IF k = 0 THEN T!NoPress ELSE [meant |-> view.items[k], sent |-> T!Matched(k)]
    BY DEF T!Tick
  <1> HIDE DEF d, w, p, r, q
  <1>7. /\ "drawn" \in DOMAIN app'
        /\ ~T!Redraws(q) => app'.drawn = app.drawn
    BY <1>5, <1>6 DEF T!Rebuilt, Keeps, TrayInv
  <1>8. /\ {"items", "current", "open"} \subseteq DOMAIN view'
        /\ view'.items = view.items
        /\ view'.current => view.current /\ ~T!Redraws(q)
    BY <1>6 DEF TrayInv
  <1>9. Answers(ups')
    <2>1. ups' \in Seq({})
      BY <1>6
    <2> QED
      BY <2>1 DEF Answers
  <1>10. T!PressHitsWhatWasShown'
    BY <1>6 DEF T!PressHitsWhatWasShown, T!NoPress, T!Matched, TrayInv
  <1> QED
    BY <1>7, <1>8, <1>9, <1>10 DEF TrayInv

LEMMA MenuStep ==
  ASSUME TrayInv, T!OpenMenu \/ T!CloseMenu \/ T!Elapse
  PROVE  TrayInv'
  <1>1. CASE T!OpenMenu
    BY <1>1 DEF T!OpenMenu, TrayInv, T!PressHitsWhatWasShown, T!NoPress, Answers
  <1>2. CASE T!CloseMenu
    BY <1>2 DEF T!CloseMenu, TrayInv, T!PressHitsWhatWasShown, T!NoPress, Answers
  <1>3. CASE T!Elapse
    BY <1>3 DEF T!Elapse, TrayInv, T!PressHitsWhatWasShown, T!NoPress, Answers
  <1> QED
    BY <1>1, <1>2, <1>3

LEMMA SayStep ==
  ASSUME TrayInv, NEW u, u.kind \in {"data", "failed", "note", "jobs"}, T!Say(u), UNCHANGED <<app, view>>
  PROVE  TrayInv'
  <1>1. PICK U : ups \in Seq(U) /\ \A v \in U : v.kind \in {"data", "failed", "note", "jobs"}
    BY DEF TrayInv, Answers
  <1>2. ups \in Seq(U \union {u})
    BY <1>1
  <1>3. ups' \in Seq(U \union {u})
    BY <1>2 DEF T!Say
  <1>4. Answers(ups')
    BY <1>1, <1>3 DEF Answers
  <1> QED
    BY <1>4 DEF TrayInv, T!Say, T!PressHitsWhatWasShown, T!NoPress

LEMMA WorkerSteps ==
  ASSUME TrayInv, T!WorkerStep \/ T!Fails \/ T!WorldMoves
  PROVE  TrayInv'
  <1>1. CASE T!Act
    BY <1>1, SayStep DEF T!Act
  <1>2. CASE T!ReadJobs
    BY <1>2, SayStep DEF T!ReadJobs
  <1>3. CASE T!ReadStore
    BY <1>3, SayStep DEF T!ReadStore
  <1>4. CASE T!Take \/ T!Fails \/ T!WorldMoves
    BY <1>4 DEF T!Take, T!Fails, T!WorldMoves, TrayInv, T!PressHitsWhatWasShown, T!NoPress, Answers
  <1> QED
    BY <1>1, <1>2, <1>3, <1>4 DEF T!WorkerStep

LEMMA TrayNext ==
  ASSUME TrayInv, [T!Next]_(T!vars)
  PROVE  TrayInv'
  <1>1. CASE T!MainStep
    BY <1>1, TickStep DEF T!MainStep
  <1>2. CASE T!Press
    BY <1>2, TickStep DEF T!Press
  <1>3. CASE UNCHANGED T!vars
    BY <1>3 DEF T!vars, TrayInv, T!PressHitsWhatWasShown, Answers
  <1> QED
    BY <1>1, <1>2, <1>3, MenuStep, WorkerSteps DEF T!Next

LEMMA TrayGoesOn ==
  ASSUME [ConsoleNext]_vars
  PROVE  [T!Next]_(T!vars)
  BY DEF ConsoleNext, vars, tray, T!vars

\* A press posts what the button it landed on said, or nothing, however many answers and ticks come
\* between the drawing of a menu and the press: the ids of a menu that was rebuilt match no button
\* (tick in tray.rs).
THEOREM PressHitsWhatWasShownCorrect == ConsoleSpec => []PressHitsWhatWasShown
  <1>1. ConsoleInit => TrayInv
    BY TrayBegins DEF ConsoleInit
  <1>2. TrayInv /\ [ConsoleNext]_vars => TrayInv'
    BY TrayGoesOn, TrayNext
  <1>3. TrayInv => PressHitsWhatWasShown
    BY DEF TrayInv, PressHitsWhatWasShown
  <1> QED
    BY <1>1, <1>2, <1>3, PTL DEF ConsoleSpec
-----------------------------------------------------------------------------
(* The settings that are shared *)

\* The module of the settings has a name of its own for one library operator.
LEMMA SameCardinality ==
  ASSUME NEW W
  PROVE  S!Cardinality(W) = Cardinality(W)
  BY DEF S!Cardinality, Cardinality

\* The members of a finite set, one after the other.
LEMMA Listed ==
  ASSUME NEW W, IsFiniteSet(W)
  PROVE  /\ Cardinality(W) \in Nat
         /\ S!SetToSeq(W) \in [1..Cardinality(W) -> W]
         /\ \A x \in W : \E i \in 1..Cardinality(W) : S!SetToSeq(W)[i] = x
  <1> DEFINE D == 1..Cardinality(W)
  <1>1. Cardinality(W) \in Nat /\ ExistsBijection(D, W) /\ S!Cardinality(W) = Cardinality(W)
    BY FS_CardinalityType, SameCardinality
  <1>2. PICK g \in Bijection(D, W) : TRUE
    BY <1>1 DEF ExistsBijection
  <1>3. g \in [D -> W] /\ \A a, b \in D : g[a] = g[b] => a = b
    BY <1>2, Fun_BijectionProperties
  <1>4. \E f \in [1..S!Cardinality(W) -> W] : S!IsInjective(f)
    BY <1>1, <1>3 DEF S!IsInjective
  <1>5. S!SetToSeq(W) \in [D -> W] /\ S!IsInjective(S!SetToSeq(W))
    BY <1>1, <1>4 DEF S!SetToSeq, D
  <1> DEFINE s == S!SetToSeq(W)
  <1> HIDE DEF s, D
  <1>6. s \in [D -> W] /\ \A a, b \in D : s[a] = s[b] => a = b
    BY <1>5 DEF S!IsInjective, s, D
  <1>7. s \in Injection(D, W)
    BY <1>6, Fun_IsInj
  <1>8. Cardinality(D) = Cardinality(W)
    BY <1>1, FS_Interval DEF D
  <1>9. s \in Surjection(D, W)
    BY <1>7, <1>8, FS_Injection
  <1>10. \A x \in W : \E i \in D : s[i] = x
    BY <1>9, Fun_SurjectionProperties
  <1> QED
    BY <1>1, <1>6, <1>10 DEF s, D

\* A file that was written by the screen gives the key that was set its value, once or not at all.
Written ==
  /\ last.key \in Keys /\ last.value \in Good \union {S!Default} /\ settings.state = "trusted"
  /\ \A i \in S!All(last.key) : settings.lines[i].value = last.value
  /\ S!All(last.key) = {} <=> last.value = S!Default

SettingsInv ==
  /\ settings.state \in {"trusted", "refused", "notText"}
  /\ settings.lines \in Seq(S!Lines)
  /\ env \in [Keys -> S!Values \union {S!Default}]
  /\ last.ok => Written

\* What a reader takes for the value of a key is one of its lines'.
LEMMA FirstIsALine ==
  ASSUME settings.lines \in Seq(S!Lines), NEW I \in SUBSET DOMAIN settings.lines, I # {}
  PROVE  \E i \in I : S!First(I) = settings.lines[i].value /\ settings.lines[i] \in S!Lines
  <1>1. I \subseteq Nat
    OBVIOUS
  <1>2. \E n \in I : \A m \in I : n <= m
    BY <1>1, LeastNumber
  <1>3. S!Min(I) \in I
    BY <1>2 DEF S!Min
  <1> QED
    BY <1>3 DEF S!First

LEMMA NamesOfValues ==
  /\ \A v \in Good : v \notin {S!Empty, S!Bad, S!Default, S!Crash}
  /\ S!Values = Good \union {S!Empty, S!Bad}
  /\ S!Empty # S!Bad /\ S!Default \notin S!Values /\ S!Crash \notin S!Values \union {S!Default}
  BY KnobAssumption DEF S!Values, S!Empty, S!Bad, S!Default, S!Crash

LEMMA Lookup ==
  ASSUME settings.lines \in Seq(S!Lines), NEW k \in Keys
  PROVE  /\ S!First(S!All(k)) \in S!Values \union {S!Default}
         /\ S!First(S!All(k)) = S!Default <=> S!All(k) = {}
         /\ S!First(S!NonEmpty(k)) \in (S!Values \ {S!Empty}) \union {S!Default}
         /\ S!First(S!NonEmpty(k)) = S!Default <=> S!NonEmpty(k) = {}
  <1>1. S!First({}) = S!Default
    BY DEF S!First
  <1>2. ASSUME S!All(k) # {}
        PROVE  S!First(S!All(k)) \in S!Values
    <2>1. S!All(k) \in SUBSET DOMAIN settings.lines
      BY DEF S!All
    <2>2. PICK i \in S!All(k) : S!First(S!All(k)) = settings.lines[i].value /\ settings.lines[i] \in S!Lines
      BY <1>2, <2>1, FirstIsALine
    <2> QED
      BY <2>2 DEF S!Lines
  <1>3. ASSUME S!NonEmpty(k) # {}
        PROVE  S!First(S!NonEmpty(k)) \in S!Values \ {S!Empty}
    <2>1. S!NonEmpty(k) \in SUBSET DOMAIN settings.lines
      BY DEF S!NonEmpty, S!All
    <2>2. PICK i \in S!NonEmpty(k) : /\ S!First(S!NonEmpty(k)) = settings.lines[i].value
                                     /\ settings.lines[i] \in S!Lines
      BY <1>3, <2>1, FirstIsALine
    <2>3. settings.lines[i].value # S!Empty
      BY DEF S!NonEmpty
    <2> QED
      BY <2>2, <2>3 DEF S!Lines
  <1> QED
    BY <1>1, <1>2, <1>3, NamesOfValues

LEMMA ReadersAgreeHere ==
  ASSUME SettingsInv
  PROVE  S!ReadersAgree
  <1> SUFFICES ASSUME NEW k \in Keys, S!Plain(k), settings.state # "notText"
               PROVE  /\ S!OnScreen(k) = S!InHook(k)
                      /\ S!InHook(k) # S!Crash => S!InServer(k) = S!InHook(k)
    BY DEF S!ReadersAgree
  <1>1. env[k] \in S!Values \union {S!Default} /\ env[k] # S!Empty /\ S!NonEmpty(k) = S!All(k)
    BY DEF SettingsInv, S!Plain
  <1>2. /\ S!First(S!All(k)) \in (S!Values \ {S!Empty}) \union {S!Default}
        /\ S!First(S!All(k)) = S!Default <=> S!All(k) = {}
    BY <1>1, Lookup DEF SettingsInv
  <1>3. settings.state \in {"trusted", "refused"}
    BY DEF SettingsInv
  <1> QED
    BY <1>1, <1>2, <1>3, NamesOfValues DEF S!OnScreen, S!InHook, S!InServer, S!Exported, S!Read

LEMMA SetTakesEffectHere ==
  ASSUME SettingsInv
  PROVE  S!SetTakesEffect
  <1> SUFFICES ASSUME last.ok, env[last.key] = S!Default
               PROVE  /\ S!InHook(last.key) = last.value /\ S!InServer(last.key) = last.value
                      /\ S!OnScreen(last.key) = last.value
    BY DEF S!SetTakesEffect
  <1> DEFINE k == last.key
             v == last.value
  <1>1. Written /\ k \in Keys /\ v \in Good \union {S!Default}
    BY DEF SettingsInv, Written
  <1>2. \A i \in S!All(k) : settings.lines[i].value = v /\ i \in DOMAIN settings.lines
    BY <1>1 DEF Written, S!All
  <1>3. S!NonEmpty(k) = S!All(k)
    BY <1>1, <1>2, NamesOfValues DEF S!NonEmpty, Written
  <1>4. S!First(S!All(k)) = v
    <2>1. CASE S!All(k) = {}
      BY <1>1, <2>1 DEF Written, S!First
    <2>2. CASE S!All(k) # {}
      BY <1>2, <2>2, FirstIsALine DEF SettingsInv
    <2> QED
      BY <2>1, <2>2
  <1>5. S!All(k) = {} <=> v = S!Default
    BY <1>1 DEF Written
  <1>6. settings.state = "trusted"
    BY <1>1 DEF Written
  <1> QED
    BY <1>1, <1>3, <1>4, <1>5, <1>6, NamesOfValues DEF S!OnScreen, S!InHook, S!InServer, S!Exported, S!Read

\* write_all: one line for each key that has a value.
LEMMA RewrittenLines ==
  ASSUME NEW value \in [Keys -> S!Values \union {S!Default}],
         NEW ls, ls = S!Rewritten(value).lines
  PROVE  /\ ls \in Seq(S!Lines) /\ S!Rewritten(value) = [state |-> "trusted", lines |-> ls]
         /\ \A i \in DOMAIN ls : /\ ls[i].key \in Keys /\ value[ls[i].key] # S!Default
                                 /\ ls[i].value = value[ls[i].key]
         /\ \A k \in Keys : value[k] # S!Default => \E i \in DOMAIN ls : ls[i].key = k
  <1> DEFINE W == {k \in Keys : value[k] # S!Default}
             keys == S!SetToSeq(W)
             n == Cardinality(W)
  <1>1. IsFiniteSet(W)
    BY KnobAssumption, FS_Subset
  <1>2. n \in Nat /\ keys \in [1..n -> W] /\ \A k \in W : \E i \in 1..n : keys[i] = k
    BY <1>1, Listed
  <1>3. ls = [i \in DOMAIN keys |-> [key |-> keys[i], value |-> value[keys[i]]]]
        /\ S!Rewritten(value) = [state |-> "trusted", lines |-> ls]
    BY DEF S!Rewritten
  <1> HIDE DEF keys, n
  <1>4. DOMAIN ls = 1..n /\ \A i \in 1..n : ls[i] = [key |-> keys[i], value |-> value[keys[i]]]
    BY <1>2, <1>3
  <1>5. \A i \in 1..n : ls[i] \in S!Lines /\ ls[i].key = keys[i] /\ ls[i].value = value[keys[i]]
    <2> TAKE i \in 1..n
    <2>1. keys[i] \in Keys /\ value[keys[i]] \in S!Values
      BY <1>2
    <2>2. ls[i] = [key |-> keys[i], value |-> value[keys[i]]]
      BY <1>4
    <2> QED
      BY <2>1, <2>2 DEF S!Lines
  <1>6. ls \in Seq(S!Lines)
    BY <1>2, <1>3, <1>4, <1>5, IsASeq
  <1>7. \A k \in Keys : value[k] # S!Default => \E i \in 1..n : ls[i].key = k
    BY <1>2, <1>5
  <1> QED
    BY <1>2, <1>3, <1>4, <1>5, <1>6, <1>7

\* An edit that succeeded: the key has the value it was given and every other the one it had.
LEMMA ScreenStep ==
  ASSUME SettingsInv, NEW do, NEW k \in Keys, NEW v, NEW ok \in BOOLEAN, S!Edit(do, k, v, ok),
         ok => v \in Good \union {S!Default}
  PROVE  /\ SettingsInv'
         /\ \A j \in Keys : last'.ok /\ j # last'.key /\ settings.state = "trusted" /\ S!Plain(j) =>
              S!InHook(j)' = S!InHook(j)
  <1>1. /\ last' = [do |-> do, key |-> k, value |-> v, ok |-> ok] /\ env' = env
        /\ last'.ok = ok /\ last'.key = k /\ last'.value = v
    BY DEF S!Edit
  <1>2. CASE ~ok
    BY <1>1, <1>2 DEF SettingsInv, S!Edit
  <1>3. CASE ok
    <2> DEFINE value == [j \in Keys |-> IF j = k THEN v ELSE S!Read(j)]
               ls == S!Rewritten(value).lines
    <2>1. settings' = S!Rewritten(value)
      BY <1>3 DEF S!Edit
    <2>2. \A j \in Keys : S!Read(j) \in S!Values \union {S!Default}
      BY Lookup DEF S!Read, SettingsInv
    <2>3. value \in [Keys -> S!Values \union {S!Default}] /\ value[k] = v
          /\ \A j \in Keys : j # k => value[j] = S!Read(j)
      BY <1>3, <2>2, NamesOfValues
    <2> HIDE DEF value
    <2>4. /\ ls \in Seq(S!Lines) /\ S!Rewritten(value) = [state |-> "trusted", lines |-> ls]
          /\ \A i \in DOMAIN ls : /\ ls[i].key \in Keys /\ value[ls[i].key] # S!Default
                                  /\ ls[i].value = value[ls[i].key]
          /\ \A j \in Keys : value[j] # S!Default => \E i \in DOMAIN ls : ls[i].key = j
      BY <2>3, RewrittenLines
    <2>5. settings'.state = "trusted" /\ settings'.lines = ls
      BY <2>1, <2>4
    <2> HIDE DEF ls
    <2>6. \A j \in Keys : /\ S!All(j)' = {} <=> value[j] = S!Default
                          /\ \A i \in S!All(j)' : settings'.lines[i].value = value[j]
      BY <2>4, <2>5 DEF S!All
    <2>7. Written'
      BY <1>1, <1>3, <2>3, <2>5, <2>6 DEF Written
    <2>8. SettingsInv'
      BY <1>1, <2>4, <2>5, <2>7 DEF SettingsInv
    <2>9. ASSUME NEW j \in Keys, j # k, settings.state = "trusted", S!Plain(j)
          PROVE  S!InHook(j)' = S!InHook(j)
      <3>1. /\ S!First(S!All(j)) \in (S!Values \ {S!Empty}) \union {S!Default}
            /\ S!First(S!All(j)) = S!Default <=> S!All(j) = {}
        BY <2>9, Lookup DEF SettingsInv, S!Plain
      <3>2. value[j] = S!First(S!All(j))
        BY <2>3, <2>9 DEF S!Read
      <3>3. S!NonEmpty(j)' = S!All(j)'
        BY <2>6, <3>1, <3>2, NamesOfValues DEF S!NonEmpty
      <3>4. S!First(S!All(j))' = value[j]
        <4>1. CASE S!All(j)' = {}
          BY <2>6, <4>1 DEF S!First
        <4>2. CASE S!All(j)' # {}
          <5>1. S!Min(S!All(j)') \in S!All(j)'
            <6>1. S!All(j)' \subseteq Nat
              BY <2>4, <2>5 DEF S!All
            <6>2. \E n \in S!All(j)' : \A m \in S!All(j)' : n <= m
              BY <4>2, <6>1, LeastNumber
            <6> QED
              BY <6>2 DEF S!Min
          <5> QED
            BY <2>6, <4>2, <5>1 DEF S!First
        <4> QED
          BY <4>1, <4>2
      <3>5. env'[j] = env[j] /\ env[j] # S!Empty
        BY <1>1, <2>9 DEF S!Plain
      <3> QED
        BY <2>5, <2>6, <2>9, <3>1, <3>2, <3>3, <3>4, <3>5, NamesOfValues DEF S!InHook, S!Exported, S!Plain
    <2> QED
      BY <1>1, <2>8, <2>9
  <1> QED
    BY <1>2, <1>3

KeepsOthers ==
  \A k \in Keys : last'.ok /\ moves' # moves /\ k # last'.key /\ settings.state = "trusted" /\ S!Plain(k) =>
    S!InHook(k)' = S!InHook(k)

LEMMA SettingsBegin == S!Init => SettingsInv
  <1> SUFFICES ASSUME S!Init PROVE SettingsInv
    OBVIOUS
  <1>1. settings.state = "trusted" /\ settings.lines = <<>> /\ ~last.ok
    BY DEF S!Init, S!NoEdit
  <1>2. env = [k \in Keys |-> S!Default]
    BY DEF S!Init
  <1> QED
    BY <1>1, <1>2 DEF SettingsInv

LEMMA SettingsNext ==
  ASSUME SettingsInv, [S!Next]_(S!vars)
  PROVE  SettingsInv' /\ [KeepsOthers]_(S!vars)
  <1>1. CASE S!EditByHand
    <2>1. env' = env /\ ~last'.ok
      BY <1>1 DEF S!EditByHand, S!NoEdit
    <2>2. PICK n \in 0..MaxLines, state \in {"trusted", "refused", "notText"} :
            \E ls \in [1..n -> S!Lines] : settings' = [state |-> state, lines |-> ls]
      BY <1>1 DEF S!EditByHand
    <2>3. PICK ls \in [1..n -> S!Lines] : settings' = [state |-> state, lines |-> ls]
      BY <2>2
    <2>4. ls \in Seq(S!Lines)
      OBVIOUS
    <2> QED
      BY <2>1, <2>3, <2>4 DEF SettingsInv, KeepsOthers
  <1>2. CASE S!Export
    <2>1. settings' = settings /\ ~last'.ok
      BY <1>2 DEF S!Export, S!NoEdit
    <2>2. PICK k \in Keys, v \in S!Values \union {S!Default} : env' = [env EXCEPT ![k] = v]
      BY <1>2 DEF S!Export
    <2> QED
      BY <2>1, <2>2 DEF SettingsInv, KeepsOthers
  <1>3. ASSUME NEW k \in Keys, S!Set(k)
        PROVE  SettingsInv' /\ KeepsOthers
    <2>1. PICK v \in S!Values : S!Edit("set", k, v, v \in Good)
      BY <1>3 DEF S!Set
    <2> DEFINE ok == v \in Good
    <2>2. ok \in BOOLEAN /\ S!Edit("set", k, v, ok) /\ (ok => v \in Good \union {S!Default})
      BY <2>1
    <2> HIDE DEF ok
    <2> QED
      BY <2>2, ScreenStep DEF KeepsOthers
  <1>4. ASSUME NEW k \in Keys, S!Unset(k)
        PROVE  SettingsInv' /\ KeepsOthers
    <2>1. S!Edit("unset", k, S!Default, S!Read(k) # S!Default)
      BY <1>4 DEF S!Unset
    <2> QED
      BY <2>1, ScreenStep DEF KeepsOthers
  <1>5. CASE UNCHANGED S!vars
    BY <1>5 DEF S!vars, SettingsInv, Written, S!All
  <1> QED
    BY <1>1, <1>2, <1>3, <1>4, <1>5 DEF S!Next

LEMMA SettingsGoOn ==
  ASSUME [ConsoleNext]_vars
  PROVE  [S!Next]_(S!vars)
  BY DEF ConsoleNext, vars, knobs, S!vars

\* However the settings file is edited by hand and on the screen and whatever is exported, the hooks,
\* the server and the screen read one value for a knob that is nowhere empty, and what the screen
\* wrote last is in force in all three (load_env_file, knob and effective).
THEOREM OneFileCorrect == ConsoleSpec => []OneFile
  <1>1. ConsoleInit => SettingsInv
    BY SettingsBegin DEF ConsoleInit
  <1>2. SettingsInv /\ [ConsoleNext]_vars => SettingsInv'
    BY SettingsGoOn, SettingsNext
  <1>3. SettingsInv => OneFile
    BY ReadersAgreeHere, SetTakesEffectHere DEF OneFile, S!OneFile
  <1> QED
    BY <1>1, <1>2, <1>3, PTL DEF ConsoleSpec

\* An edit on the screen leaves every other knob, in the hooks, as it was, though the file is written
\* anew (write_all).
THEOREM OthersKeptCorrect == ConsoleSpec => OthersKept
  <1>1. ConsoleInit => SettingsInv
    BY SettingsBegin DEF ConsoleInit
  <1>2. SettingsInv /\ [ConsoleNext]_vars => SettingsInv'
    BY SettingsGoOn, SettingsNext
  <1>3. SettingsInv /\ [ConsoleNext]_vars => [KeepsOthers]_(S!vars)
    BY SettingsGoOn, SettingsNext
  <1> QED
    BY <1>1, <1>2, <1>3, PTL DEF ConsoleSpec, OthersKept, S!OthersKept, KeepsOthers
-----------------------------------------------------------------------------
(* The figures of an answer *)

\* An answer as it is made, of a whole text.
Answered(rows) ==
  /\ rows \in Nat /\ Len(answer.rows) = rows /\ answer.count \in V!Fields
  /\ answer.rows \in [1..rows -> [model : Models \union {V!Null, "missing"}, n : V!Fields]]

\* What is made of the first n rows, starting from s.
Rows(g, s, n) == g = [i \in 0..n |-> IF i = 0 THEN s ELSE V!Row(g[i - 1], answer.rows[i])]

\* The recursive function in Parse exists.
LEMMA RowsExist ==
  ASSUME NEW s, NEW n \in Nat
  PROVE  \E g : Rows(g, s, n)
  <1> DEFINE W == {k \in Nat : ~ \E g : Rows(g, s, k)}
  <1> SUFFICES ASSUME n \in W PROVE FALSE
    OBVIOUS
  <1>1. PICK k \in W : \A m \in W : k <= m
    BY LeastNumber
  <1>2. Rows([i \in 0..0 |-> s], s, 0)
    BY DEF Rows
  <1>3. k # 0 /\ k \in Nat /\ k - 1 \in Nat /\ k - 1 \notin W
    BY <1>1, <1>2
  <1>4. PICK g : Rows(g, s, k - 1)
    BY <1>3
  <1> DEFINE h == [i \in 0..k |-> IF i = k THEN V!Row(g[k - 1], answer.rows[k]) ELSE g[i]]
  <1>5. \A i \in 0..(k - 1) : h[i] = g[i]
    BY <1>3
  <1>6. \A i \in 0..k : h[i] = IF i = 0 THEN s ELSE V!Row(h[i - 1], answer.rows[i])
    <2> TAKE i \in 0..k
    <2>1. CASE i = k
      BY <2>1, <1>3, <1>5
    <2>2. CASE i # k
      <3>1. i \in 0..(k - 1) /\ (i # 0 => i - 1 \in 0..(k - 1))
        BY <2>2, <1>3
      <3>2. g[i] = IF i = 0 THEN s ELSE V!Row(g[i - 1], answer.rows[i])
        BY <1>4, <3>1 DEF Rows
      <3> QED
        BY <3>1, <3>2, <1>5
    <2> QED
      BY <2>1, <2>2
  <1>7. h = [i \in 0..k |-> h[i]]
    OBVIOUS
  <1> HIDE DEF h
  <1>8. Rows(h, s, k)
    BY <1>6, <1>7 DEF Rows
  <1> QED
    BY <1>1, <1>8

LEMMA CardinalityOfReading ==
  ASSUME NEW W
  PROVE  V!Cardinality(W) = Cardinality(W)
  BY DEF V!Cardinality, Cardinality

More(i) == IF answer.rows[i].model = V!Null /\ answer.rows[i].n # V!NoCount THEN answer.rows[i].n ELSE 0

\* A row without a model adds the chunks it counts to those before it, any other row none.
LEMMA UnsetAdds ==
  ASSUME NEW rows, Answered(rows), NEW i \in 1..rows, IsFiniteSet(V!Unset(i - 1))
  PROVE  /\ IsFiniteSet(V!Unset(i)) /\ V!Unset(i - 1) \subseteq V!Unset(i)
         /\ Cardinality(V!Unset(i)) = Cardinality(V!Unset(i - 1)) + More(i)
         /\ Cardinality(V!Unset(i - 1)) \in Nat /\ More(i) \in Nat
  <1> DEFINE more == More(i)
             Own == {c \in V!Unset(i) : c[1] = i}
  <1>1. MaxCount \in Nat /\ i \in Nat /\ i - 1 \in Nat
    BY NumberAssumption DEF Answered
  <1>2. more \in 0..MaxCount /\ answer.rows[i].n \in -1..MaxCount
    BY <1>1 DEF Answered, V!Fields, V!NoCount, More
  <1>3. /\ V!Unset(i) = V!Unset(i - 1) \union Own /\ V!Unset(i - 1) \cap Own = {}
        /\ V!Unset(i - 1) \subseteq V!Unset(i)
    BY <1>1 DEF V!Unset
  <1>4. Own = {<<i, c>> : c \in 1..more}
    <2>1. ASSUME NEW c \in 1..more PROVE <<i, c>> \in Own
      BY <1>1, <1>2, <2>1 DEF V!Unset, V!NoCount, More
    <2>2. ASSUME NEW c \in Own PROVE c = <<i, c[2]>> /\ c[2] \in 1..more
      BY <1>1, <1>2, <2>2 DEF V!Unset, V!NoCount, More
    <2> HIDE DEF Own, more
    <2> QED
      BY <2>1, <2>2
  <1> HIDE DEF Own, more
  <1>5. IsFiniteSet(1..more) /\ Cardinality(1..more) = more
    <2>1. more \in Nat /\ more \in Int /\ 1 \in Int
      BY <1>1, <1>2
    <2>2. IsFiniteSet(1..more) /\ Cardinality(1..more) = IF 1 > more THEN 0 ELSE more - 1 + 1
      BY <2>1, FS_Interval
    <2> QED
      BY <2>1, <2>2
  <1>6. IsFiniteSet(Own) /\ Cardinality(Own) = more
    <2> DEFINE f == [c \in 1..more |-> <<i, c>>]
    <2>1. f \in Bijection(1..more, Own)
      BY <1>4, Fun_IsBij
    <2>2. ExistsBijection(1..more, Own)
      BY <2>1 DEF ExistsBijection
    <2> QED
      BY <1>5, <2>2, FS_Bijection
  <1>7. Cardinality(V!Unset(i - 1) \union Own) = Cardinality(V!Unset(i - 1)) + Cardinality(Own) - 0
    BY <1>3, <1>6, FS_Union, FS_EmptySet
  <1>8. Cardinality(V!Unset(i - 1)) \in Nat /\ Cardinality(Own) \in Nat
    BY <1>6, FS_CardinalityType
  <1>9. IsFiniteSet(V!Unset(i - 1) \union Own)
    BY <1>6, FS_Union
  <1>10. more = More(i) /\ more \in Nat
    BY <1>1, <1>2 DEF more
  <1> QED
    BY <1>3, <1>6, <1>7, <1>8, <1>9, <1>10

\* What is made of the first rows: their figures, or nothing.
Says(s, i) ==
  /\ s.ok \in BOOLEAN /\ (s.ok <=> V!Readable(i))
  /\ ~s.ok => s = V!Nothing
  /\ s.ok => DOMAIN s = {"ok", "count", "unset", "models"} /\ V!Figures(s, i)

Begun == [V!Nothing EXCEPT !.ok = TRUE, !.count = answer.count]

LEMMA SaysNothingYet ==
  ASSUME NEW rows, Answered(rows), answer.count # V!NoCount
  PROVE  Says(Begun, 0) /\ IsFiniteSet(V!Unset(0))
  <1>1. V!Unset(0) = {} /\ V!Cardinality({}) = 0
    BY CardinalityOfReading, FS_EmptySet DEF V!Unset
  <1>2. /\ DOMAIN Begun = {"ok", "count", "unset", "models"}
        /\ Begun.ok /\ Begun.count = answer.count /\ Begun.unset = 0 /\ DOMAIN Begun.models = {}
    BY DEF Begun, V!Nothing
  <1>3. V!Readable(0)
    BY <1>1, NumberAssumption DEF V!Readable
  <1>4. V!Figures(Begun, 0)
    BY <1>1, <1>2 DEF V!Figures
  <1> QED
    BY <1>1, <1>2, <1>3, <1>4, FS_EmptySet DEF Says


\* What Row does with a row from which nothing is missing.
LEMMA RowIs ==
  ASSUME NEW s, NEW r, s.ok, r.n # V!NoCount, r.model # "missing"
  PROVE  V!Row(s, r) = IF r.model = V!Null
                       THEN IF s.unset + r.n > MaxCount THEN V!Nothing ELSE [s EXCEPT !.unset = @ + r.n]
                       ELSE IF r.model \in DOMAIN s.models THEN V!Nothing
                       ELSE [s EXCEPT !.models = [m \in DOMAIN s.models \union {r.model} |->
                                                    IF m = r.model THEN r.n ELSE s.models[m]]]
  BY Zenon DEF V!Row

\* A row that can be read is added to the figures; any other ends the reading.
LEMMA RowSays ==
  ASSUME NEW rows, Answered(rows), NEW i \in 1..rows, NEW s, Says(s, i - 1), IsFiniteSet(V!Unset(i - 1))
  PROVE  Says(V!Row(s, answer.rows[i]), i) /\ IsFiniteSet(V!Unset(i))
  <1> DEFINE r == answer.rows[i]
             u == V!Row(s, r)
  <1>0. MaxCount \in Nat /\ i \in Nat /\ r.n \in -1..MaxCount
    BY NumberAssumption DEF Answered, V!Fields, V!NoCount
  <1>1. /\ MaxCount \in Nat /\ i \in Nat /\ i - 1 \in Nat /\ 1..i = 1..(i - 1) \union {i} /\ i \notin 1..(i - 1)
        /\ r.n \in -1..MaxCount
    BY <1>0
  <1>2. /\ IsFiniteSet(V!Unset(i)) /\ V!Cardinality(V!Unset(i)) = V!Cardinality(V!Unset(i - 1)) + More(i)
        /\ V!Cardinality(V!Unset(i - 1)) \in Nat /\ More(i) \in Nat
    BY UnsetAdds, CardinalityOfReading
  <1>3. V!Readable(i) <=> /\ V!Readable(i - 1) /\ r.n # V!NoCount /\ r.model # "missing"
                          /\ V!Cardinality(V!Unset(i)) <= MaxCount
                          /\ r.model = V!Null \/ \A j \in 1..(i - 1) : answer.rows[j].model # r.model
    BY <1>1, <1>2 DEF V!Readable
  <1>4. CASE ~s.ok \/ r.n = V!NoCount \/ r.model = "missing"
    <2>1. u = V!Nothing /\ ~V!Readable(i)
      BY <1>3, <1>4 DEF V!Row, Says
    <2> QED
      BY <1>2, <2>1 DEF Says, V!Nothing
  <1>5. CASE s.ok /\ r.n # V!NoCount /\ r.model = V!Null
    <2>1. /\ V!Readable(i - 1) /\ s.unset = V!Cardinality(V!Unset(i - 1)) /\ More(i) = r.n
          /\ DOMAIN s = {"ok", "count", "unset", "models"}
      BY <1>5 DEF Says, V!Figures, More
    <2>2. V!Readable(i) <=> s.unset + r.n <= MaxCount
      BY <1>2, <1>3, <1>5, <2>1 DEF V!Null
    <2>3. CASE s.unset + r.n > MaxCount
      <3>1. u = V!Nothing
        BY <1>5, <2>3 DEF V!Row, V!Null
      <3> QED
        BY <1>1, <1>2, <2>1, <2>2, <2>3, <3>1 DEF Says, V!Nothing
    <2>4. CASE ~(s.unset + r.n > MaxCount)
      <3>1. u = [s EXCEPT !.unset = @ + r.n]
        BY <1>5, <2>4, RowIs DEF V!Null
      <3>2. /\ DOMAIN u = DOMAIN s /\ u.ok = s.ok
            /\ u.count = s.count /\ u.unset = s.unset + r.n /\ u.models = s.models
        BY <2>1, <3>1
      <3>3. V!Figures(u, i)
        BY <1>1, <1>2, <1>5, <2>1, <3>2 DEF Says, V!Figures
      <3> QED
        BY <1>1, <1>2, <1>5, <2>1, <2>2, <2>4, <3>2, <3>3 DEF Says
    <2> QED
      BY <2>3, <2>4
  <1>6. CASE s.ok /\ r.n # V!NoCount /\ r.model # "missing" /\ r.model # V!Null
    <2>1. /\ V!Readable(i - 1) /\ s.unset = V!Cardinality(V!Unset(i - 1)) /\ More(i) = 0
          /\ DOMAIN s = {"ok", "count", "unset", "models"}
          /\ DOMAIN s.models = {answer.rows[j].model : j \in 1..(i - 1)} \ {V!Null}
          /\ \A j \in 1..(i - 1) :
               answer.rows[j].model # V!Null => s.models[answer.rows[j].model] = answer.rows[j].n
          /\ s.count = answer.count
      BY <1>6 DEF Says, V!Figures, More
    <2>2. V!Readable(i) <=> r.model \notin DOMAIN s.models
      BY <1>2, <1>3, <1>6, <2>1 DEF V!Readable
    <2>3. CASE r.model \in DOMAIN s.models
      <3>1. u = V!Nothing
        BY <1>6, <2>3 DEF V!Row
      <3> QED
        BY <1>2, <2>2, <2>3, <3>1 DEF Says, V!Nothing
    <2>4. CASE r.model \notin DOMAIN s.models
      <3> DEFINE models == [m \in DOMAIN s.models \union {r.model} |-> IF m = r.model THEN r.n ELSE s.models[m]]
      <3>1. u = [s EXCEPT !.models = models]
        BY <1>6, <2>4, RowIs
      <3>2. /\ DOMAIN u = DOMAIN s /\ u.ok = s.ok
            /\ u.count = s.count /\ u.unset = s.unset /\ u.models = models
        BY <2>1, <3>1
      <3>3. /\ DOMAIN models = {answer.rows[j].model : j \in 1..i} \ {V!Null}
            /\ \A j \in 1..i : answer.rows[j].model # V!Null => models[answer.rows[j].model] = answer.rows[j].n
        BY <1>1, <1>6, <2>1, <2>4
      <3> HIDE DEF models
      <3>5. V!Figures(u, i)
        BY <1>2, <2>1, <3>2, <3>3 DEF V!Figures
      <3> QED
        BY <1>2, <1>6, <2>2, <2>4, <3>2, <3>5 DEF Says
    <2> QED
      BY <2>3, <2>4
  <1> QED
    BY <1>4, <1>5, <1>6

\* So it is for every number of rows.
LEMMA RowsSay ==
  ASSUME NEW rows, Answered(rows), answer.count # V!NoCount, NEW g, Rows(g, Begun, rows), NEW n \in 0..rows
  PROVE  Says(g[n], n) /\ IsFiniteSet(V!Unset(n))
  <1> DEFINE W == {k \in 0..rows : ~ (Says(g[k], k) /\ IsFiniteSet(V!Unset(k)))}
  <1> SUFFICES ASSUME n \in W PROVE FALSE
    OBVIOUS
  <1>1. PICK k \in W : \A m \in W : k <= m
    <2>1. W \subseteq Nat /\ W # {}
      BY DEF Answered
    <2> HIDE DEF W
    <2> QED
      BY <2>1, LeastNumber
  <1>2. \A i \in 0..rows : g[i] = IF i = 0 THEN Begun ELSE V!Row(g[i - 1], answer.rows[i])
    BY DEF Rows
  <1>3. rows \in Nat /\ k \in 0..rows
    BY DEF Answered
  <1>4. k # 0
    BY <1>1, <1>2, <1>3, SaysNothingYet
  <1>5. k - 1 \in 0..rows /\ k \in 1..rows /\ k - 1 \notin W
    BY <1>1, <1>3, <1>4
  <1>6. Says(g[k - 1], k - 1) /\ IsFiniteSet(V!Unset(k - 1)) /\ g[k] = V!Row(g[k - 1], answer.rows[k])
    BY <1>2, <1>4, <1>5
  <1> QED
    BY <1>1, <1>5, <1>6, RowSays

\* The text is a whole value before it is read, and what is read of it is the answer.
FiguresInv ==
  /\ at \in {"value", "firstValue", "firstKey", "key", "colon", "after", "end", "error", "parse", "done"}
  /\ at = "parse" => \E rows : Answered(rows)
  /\ V!ShownIsTheAnswer

LEMMA FiguresBegin == V!Init => FiguresInv
  BY DEF V!Init, FiguresInv, V!ShownIsTheAnswer

LEMMA ScanStep ==
  ASSUME FiguresInv, NEW t \in V!Tokens, V!Scan(t)
  PROVE  FiguresInv'
  <1>1. at' \in {"value", "firstValue", "firstKey", "key", "colon", "after", "end", "error"}
    BY DEF V!Scan, V!Value, V!Key, V!After, V!Closed, V!Wrong, FiguresInv
  <1> QED
    BY <1>1 DEF FiguresInv, V!ShownIsTheAnswer

LEMMA ArrivesStep ==
  ASSUME FiguresInv, V!Arrives
  PROVE  FiguresInv'
  <1>1. PICK c \in V!Fields, n \in 0..MaxRows :
          \E rows \in [1..n -> [model : Models \union {V!Null, "missing"}, n : V!Fields]] :
            answer' = [count |-> c, rows |-> rows]
    BY DEF V!Arrives
  <1>2. PICK rows \in [1..n -> [model : Models \union {V!Null, "missing"}, n : V!Fields]] :
          answer' = [count |-> c, rows |-> rows]
    BY <1>1
  <1>3. n \in Nat /\ Len(rows) = n
    BY NumberAssumption
  <1>4. Answered(n)'
    BY <1>2, <1>3 DEF Answered
  <1>5. at' = "parse"
    BY DEF V!Arrives
  <1> QED
    BY <1>4, <1>5 DEF FiguresInv, V!ShownIsTheAnswer

LEMMA ParseStep ==
  ASSUME FiguresInv, V!Parse
  PROVE  FiguresInv'
  <1>1. at = "parse" /\ at' = "done" /\ answer' = answer
    BY DEF V!Parse
  <1>2. PICK rows : Answered(rows)
    BY <1>1 DEF FiguresInv
  <1>3. rows \in Nat /\ Len(answer.rows) = rows
    BY <1>2 DEF Answered
  <1>4. CASE answer.count = V!NoCount
    <2>1. shown' = V!Nothing /\ ~V!Readable(rows)
      BY <1>4 DEF V!Parse, V!Readable
    <2> QED
      BY <1>1, <1>3, <2>1 DEF FiguresInv, V!ShownIsTheAnswer, V!Readable, V!Unset, V!Nothing
  <1>5. CASE answer.count # V!NoCount
    <2> DEFINE read == CHOOSE g : Rows(g, Begun, rows)
    <2>1. Rows(read, Begun, rows)
      BY <1>3, RowsExist
    <2>2. shown' = read[rows]
      BY <1>3, <1>5 DEF V!Parse, Rows, Begun
    <2> HIDE DEF read
    <2>3. Says(shown', rows)
      BY <1>2, <1>3, <1>5, <2>1, <2>2, RowsSay
    <2>4. /\ shown'.ok <=> V!Readable(rows)
          /\ shown'.ok => V!Figures(shown', rows)
      BY <2>3 DEF Says
    <2> QED
      BY <1>1, <1>3, <2>4 DEF FiguresInv, V!ShownIsTheAnswer, V!Readable, V!Unset, V!Figures
  <1> QED
    BY <1>4, <1>5

LEMMA FiguresNext ==
  ASSUME FiguresInv, [V!Next]_reading
  PROVE  FiguresInv'
  <1>1. CASE UNCHANGED reading
    BY <1>1 DEF reading, FiguresInv, Answered, V!ShownIsTheAnswer, V!Readable, V!Unset, V!Figures
  <1>2. CASE V!Next
    BY <1>2, ScanStep, ArrivesStep, ParseStep DEF V!Next
  <1> QED
    BY <1>1, <1>2

LEMMA ReadingGoesOn ==
  ASSUME [ConsoleNext]_vars
  PROVE  [V!Next]_reading
  BY DEF ConsoleNext, vars, reading

\* What the console shows of an answer is what the answer holds, all of it or nothing (parse of
\* console/src/lib.rs).
THEOREM FiguresAreTheAnswerCorrect == ConsoleSpec => []FiguresAreTheAnswer
  <1>1. ConsoleInit => FiguresInv
    BY FiguresBegin DEF ConsoleInit
  <1>2. FiguresInv /\ [ConsoleNext]_vars => FiguresInv'
    BY ReadingGoesOn, FiguresNext
  <1>3. FiguresInv => FiguresAreTheAnswer
    BY DEF FiguresInv, FiguresAreTheAnswer
  <1> QED
    BY <1>1, <1>2, <1>3, PTL DEF ConsoleSpec
=============================================================================
