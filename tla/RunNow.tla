------------------------------- MODULE RunNow -------------------------------
(***************************************************************************)
(* "Run now": run_now in console/src/jobs/systemd.rs and                   *)
(* console/src/jobs/launchd.rs.  The manager accepts the request at once   *)
(* and starts the job when it can; the console reads its state before and  *)
(* after and says what became of the run.                                  *)
(*                                                                         *)
(* The manager counts the runs it starts (launchd's runs, the number of    *)
(* different InvocationIDs) and remembers an exit code: that of exitOf,    *)
(* the last run that ended.  systemd answers about a unit in one reading,  *)
(* launchd in two: the list (pid, exit code), then the count.              *)
(***************************************************************************)
EXTENDS Integers

CONSTANTS MaxRuns   \* bound: runs the manager starts

VARIABLES platform, pc, runs, running, exitOf, before, base, list, said

vars == <<platform, pc, runs, running, exitOf, before, base, list, said>>

Unread == -1
Silent == [text |-> "nothing", run |-> 0]
Manager == <<runs, running, exitOf>>

\* The job may have run, and failed, before; the newest run may be under way.
Init ==
  /\ platform = "none" /\ pc = "start"
  /\ runs = 1 /\ exitOf = 1
  /\ running = FALSE
  /\ before = Unread /\ base = 0
  /\ list = [pid |-> FALSE, run |-> 0]
  /\ said = Silent

Choose ==
  /\ platform = "none"
  /\ platform' \in {"systemd", "launchd"}
  /\ UNCHANGED <<pc, Manager, before, base, list, said>>
-----------------------------------------------------------------------------
(* The manager and the job. *)

\* Asked for, or by its schedule.
Starts ==
  /\ platform # "none" /\ ~running /\ runs < MaxRuns
  /\ runs' = runs + 1 /\ running' = TRUE
  /\ UNCHANGED <<platform, pc, exitOf, before, base, list, said>>

Ends ==
  /\ running
  /\ running' = FALSE /\ exitOf' = runs
  /\ UNCHANGED <<platform, pc, runs, before, base, list, said>>
-----------------------------------------------------------------------------
(* The console. *)

\* A reading that fails is no reading; base remembers the count it stood for.
ReadBefore ==
  /\ platform # "none" /\ pc = "start"
  /\ pc' = "ask"
  /\ before' \in {Unread, runs} /\ base' = runs
  /\ UNCHANGED <<platform, Manager, list, said>>

\* kickstart -k ends the run under way; start leaves it and asks for nothing more.
Ask ==
  /\ pc = "ask"
  /\ \/ /\ pc' = "look" /\ UNCHANGED said
        /\ IF running /\ platform = "launchd"
           THEN running' = FALSE /\ exitOf' = runs
           ELSE UNCHANGED <<running, exitOf>>
     \/ /\ pc' = "done" /\ said' = [Silent EXCEPT !.text = "refused"]
        /\ UNCHANGED <<running, exitOf>>
  /\ UNCHANGED <<platform, runs, before, base, list>>

Say(text, run) == pc' = "done" /\ said' = [text |-> text, run |-> run]
Moved == before = Unread \/ runs > before

\* One reading of everything: taken when the run shows, or when two seconds are over.
LookSystemd ==
  /\ pc = "look" /\ platform = "systemd"
  /\ \/ Say("notReadBack", 0)
     \/ Say(IF running THEN "running" ELSE IF Moved THEN "ran" ELSE "notStarted",
            IF running THEN runs ELSE IF Moved THEN exitOf ELSE 0)
  /\ UNCHANGED <<platform, Manager, before, base, list>>

LookAtList ==
  /\ pc = "look" /\ platform = "launchd"
  /\ pc' = "count"
  /\ list' = [pid |-> running, run |-> exitOf]
  /\ UNCHANGED <<platform, Manager, before, base, said>>

LookAtCount ==
  /\ pc = "count"
  /\ \E after \in {Unread, runs} :
       LET known == before # Unread /\ after # Unread IN
       IF list.pid THEN Say("running", 0)
       ELSE IF known /\ after > before THEN Say("ran", list.run)
       ELSE IF known THEN Say("notStarted", 0)
       ELSE Say("notReadBack", 0)
  /\ UNCHANGED <<platform, Manager, before, base, list>>

Look == LookSystemd \/ LookAtList \/ LookAtCount
Next == Choose \/ Starts \/ Ends \/ ReadBefore \/ Ask \/ Look

Spec == Init /\ [][Next]_vars
-----------------------------------------------------------------------------
TypeOK ==
  /\ runs \in 1..MaxRuns /\ exitOf \in 1..runs
  /\ before \in {Unread} \union (1..runs) /\ base \in 0..runs

\* "only an InvocationID that MOVED proves which run that is", "only a counter that MOVED proves which
\* run that is": an exit code that is reported is of a run begun after the button was pressed.
ExitIsOfThisRun == said.text = "ran" => said.run > base

\* The part of it that holds: for systemd, which answers in one reading, if it could be read before.
OneReadingTells == platform = "systemd" /\ before # Unread => ExitIsOfThisRun
=============================================================================
