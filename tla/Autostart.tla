------------------------------ MODULE Autostart ------------------------------
(***************************************************************************)
(* The tray in autostart: install_self, uninstall_self and autostart_fault *)
(* (console/src/jobs/systemd.rs, console/src/jobs/launchd.rs) over         *)
(* autostart_exe (console/src/home.rs), while the installer moves current  *)
(* and removes old releases.                                               *)
(*                                                                         *)
(* The tray runs from a release; its entry names a binary, by release or   *)
(* through current.  A release may have been installed without console.    *)
(***************************************************************************)
EXTENDS Integers, FiniteSets

CONSTANTS Shas,       \* releases
          None,       \* nothing
          Stable,     \* current/bin/hypermnesia
          MayShrink   \* the platforms whose releases may come without the console

VARIABLES platform, there, current, exe, entry, armed, answer

vars == <<platform, there, current, exe, entry, armed, answer>>

Init ==
  /\ platform = "none"
  /\ there = {} /\ current = None           \* there: the releases with a console
  /\ exe = None
  /\ entry = None /\ armed = FALSE
  /\ answer = "none"

Systemd == platform = "systemd"
Binary(p) == IF p = Stable THEN current ELSE p
Exists(p) == Binary(p) \in there

\* The person starts the tray from the release that is current.
StartTray ==
  /\ current \in there /\ exe = None
  /\ exe' = current
  /\ UNCHANGED <<platform, there, current, entry, armed, answer>>

Quit ==
  /\ exe # None
  /\ exe' = None /\ answer' = "none"
  /\ UNCHANGED <<platform, there, current, entry, armed>>

\* The installer: one release becomes current, with a console or without.
Release(r) ==
  /\ platform' \in IF platform = "none" THEN {"systemd", "launchd"} ELSE {platform}
  /\ r # current
  /\ there' \in {there \union {r}} \union (IF platform' \in MayShrink THEN {there} ELSE {})
  /\ current' = r
  /\ UNCHANGED <<exe, entry, armed, answer>>

\* A release is removed: never the current one nor, where /proc tells, one a process runs.
Prune(r) ==
  /\ r \in there /\ r # current
  /\ Systemd => r # exe
  /\ there' = there \ {r}
  /\ UNCHANGED <<platform, current, exe, entry, armed, answer>>
-----------------------------------------------------------------------------
\* Mutant of AutostartExe: the entry names the binary that runs.
AutostartExeOwn == exe

AutostartExe == IF Exists(Stable) THEN Stable ELSE exe

\* An error may come before anything is written, or after the file has been removed again.
Written == entry' = AutostartExe /\ armed' = TRUE /\ answer' = "installed"
Withdrawn ==
  /\ answer' = "error"
  /\ \/ entry' = None /\ armed' = FALSE
     \/ UNCHANGED <<entry, armed>>

\* Where systemctl cannot be called a second time, the error leaves the unit in place.
InstallUnit ==
  /\ Systemd
  /\ Written \/ Withdrawn \/ (entry' = AutostartExe /\ UNCHANGED armed /\ answer' = "error")

\* An agent launchd does not take now stays for the next login.
InstallAgent ==
  /\ ~Systemd
  /\ Written \/ Withdrawn \/ (entry' = AutostartExe /\ armed' = TRUE /\ answer' = "atNextLogin")

InstallSelf ==
  /\ exe # None
  /\ InstallUnit \/ InstallAgent
  /\ UNCHANGED <<platform, there, current, exe>>

\* Disabled and stopped first; the file may refuse to go.
UninstallSelf ==
  /\ exe # None
  /\ \/ entry' = None /\ armed' = FALSE /\ answer' = IF entry = None THEN "error" ELSE "removed"
     \/ UNCHANGED entry /\ armed' \in {armed, armed /\ ~Systemd} /\ answer' = "error"
  /\ UNCHANGED <<platform, there, current, exe>>

\* By hand: systemctl --user disable.
Disable ==
  /\ Systemd /\ entry # None
  /\ armed' = FALSE
  /\ UNCHANGED <<platform, there, current, exe, entry, answer>>

\* autostart_fault of the tray that runs; where the entry or its state cannot be read it says nothing.
Fault ==
  IF entry = None THEN "none"
  ELSE IF ~Exists(entry) THEN "notThere"
  ELSE IF entry # AutostartExe THEN "notThisBinary"
  ELSE IF Systemd /\ ~armed THEN "disabled"
  ELSE "none"

Next == \/ \E r \in Shas : Release(r) \/ Prune(r)
        \/ StartTray \/ Quit \/ InstallSelf \/ UninstallSelf \/ Disable
Spec == Init /\ [][Next]_vars
-----------------------------------------------------------------------------
WillStart == entry # None /\ Exists(entry) /\ armed

TypeOK == entry \in Shas \union {None, Stable} /\ there \subseteq Shas

\* "the entry outlives its binary and the tray silently stops starting at login": not while every
\* release comes with the console, whatever is installed and removed after it.
EntryLeadsOn == entry # None /\ platform \notin MayShrink => Exists(entry)

\* An entry the tray finds no fault with starts the very binary that runs, or the release after it.
\* (launchd.rs does not ask whether the entry is loaded: there is nothing to disarm there.)
NoFaultMeansStarts == exe # None /\ entry # None /\ Fault = "none" => WillStart /\ Binary(entry) \in {exe, current}

\* The entry works, or the tray says that it does not.
EntryIsSound == EntryLeadsOn /\ NoFaultMeansStarts
=============================================================================
