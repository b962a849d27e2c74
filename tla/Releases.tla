------------------------------- MODULE Releases -------------------------------
(***************************************************************************)
(* Which release a session belongs to, and whether it is still there.  The *)
(* installer builds releases/<sha>, moves the link current and removes old *)
(* releases (switch and prune in ci/install.py), and may die between any   *)
(* two of its steps; the MCP server starts through current and pins its    *)
(* scripts and its root (mcp-server/src/main.rs).                          *)
(*                                                                         *)
(* Ages are counted up to PruneAge, in units of it or of a part of it.     *)
(* Windows, where the link is replaced in two steps, is left out.          *)
(***************************************************************************)
EXTENDS Integers, FiniteSets

CONSTANTS Shas,        \* releases
          None,        \* no release
          Keep,        \* --keep
          PruneAge,    \* --prune-age
          MaxInstalls, \* bound: installer runs
          MaxDeaths    \* bound: those that die

VARIABLES platform, current, previous, built, retired, left, installer, session, runs

vars == <<platform, current, previous, built, retired, left, installer, session, runs>>

Never == -1
Idle == [at |-> "idle", sha |-> None, before |-> None]
NoSession == [at |-> "none", binary |-> None, scripts |-> None, root |-> None]
Linux == platform = "linux"

\* built tells which installer run built a release that is there (the age of its RELEASE file), and
\* is 0 for one that is not; retired is the age of the RETIRED stamp; left, which no file records,
\* how long ago a release stopped being current.
Init ==
  /\ platform = "none"
  /\ current = None /\ previous = None
  /\ built = [r \in Shas |-> 0]
  /\ retired = [r \in Shas |-> Never] /\ left = [r \in Shas |-> Never]
  /\ installer = Idle
  /\ session = NoSession
  /\ runs = [begun |-> 0, died |-> 0]

Choose ==
  /\ platform = "none"
  /\ platform' \in {"linux", "macos"}
  /\ UNCHANGED <<current, previous, built, retired, left, installer, session, runs>>
-----------------------------------------------------------------------------
Goto(at) == installer' = [installer EXCEPT !.at = at]
There(r) == built[r] # 0

\* build_release keeps a release that is there; switch has nothing to do for the current one.
Build(r) ==
  /\ platform # "none" /\ installer.at = "idle" /\ runs.begun < MaxInstalls
  /\ built' = IF There(r) THEN built ELSE [built EXCEPT ![r] = runs.begun + 1]
  /\ installer' = [at |-> IF current = r THEN "prune" ELSE "previous", sha |-> r, before |-> current]
  /\ runs' = [runs EXCEPT !.begun = @ + 1]
  /\ UNCHANGED <<platform, current, previous, retired, left, session>>

WritePrevious ==
  /\ installer.at = "previous"
  /\ previous' = IF installer.before = None THEN previous ELSE installer.before
  /\ Goto("switch")
  /\ UNCHANGED <<platform, current, built, retired, left, session, runs>>

Switch ==
  /\ installer.at = "switch"
  /\ current' = installer.sha
  /\ left' = [r \in Shas |-> IF r = installer.before THEN 0 ELSE IF r = installer.sha THEN Never ELSE left[r]]
  /\ Goto("stamp")
  /\ UNCHANGED <<platform, previous, built, retired, session, runs>>

Stamp ==
  /\ installer.at = "stamp"
  /\ retired' = [r \in Shas |-> IF r = installer.before /\ There(r) THEN 0 ELSE retired[r]]
  /\ Goto("unstamp")
  /\ UNCHANGED <<platform, current, previous, built, left, session, runs>>

Unstamp ==
  /\ installer.at = "unstamp"
  /\ retired' = [retired EXCEPT ![installer.sha] = Never]
  /\ Goto("prune")
  /\ UNCHANGED <<platform, current, previous, built, left, session, runs>>

\* Mutant of Busy: no process is looked for.
BusyNowhere == {}

\* _in_use: /proc/*/exe, where there is one.
Busy == IF Linux THEN {session.binary} ELSE {}
Protected == {installer.sha, installer.before, previous} \union Busy
Newer(r) == {q \in Shas : built[q] > built[r]}
Goes(r) == There(r) /\ Cardinality(Newer(r)) >= Keep /\ r \notin Protected /\ retired[r] = PruneAge

Prune ==
  /\ installer.at = "prune"
  /\ built' = [r \in Shas |-> IF Goes(r) THEN 0 ELSE built[r]]
  /\ retired' = [r \in Shas |-> IF Goes(r) THEN Never ELSE retired[r]]
  /\ installer' = Idle
  /\ UNCHANGED <<platform, current, previous, left, session, runs>>

Dies ==
  /\ installer.at # "idle" /\ runs.died < MaxDeaths
  /\ installer' = Idle /\ runs' = [runs EXCEPT !.died = @ + 1]
  /\ UNCHANGED <<platform, current, previous, built, retired, left, session>>

Install == (\E r \in Shas : Build(r)) \/ WritePrevious \/ Switch \/ Stamp \/ Unstamp \/ Prune \/ Dies
-----------------------------------------------------------------------------
Disk == <<platform, current, previous, built, retired, left, installer, runs>>

\* A client starts the server through current.
Launch ==
  /\ session.at = "none" /\ current # None
  /\ session' = [NoSession EXCEPT !.at = "pin", !.binary = current]
  /\ UNCHANGED Disk

\* pin_scripts, first thing in main.
Pin ==
  /\ session.at = "pin"
  /\ session' = [session EXCEPT !.at = "root", !.scripts = current]
  /\ UNCHANGED Disk

\* release_root, next: macOS reports the path of the launch, link included.
Root ==
  /\ session.at = "root"
  /\ session' = [session EXCEPT !.at = "running", !.root = IF Linux THEN session.binary ELSE current]
  /\ UNCHANGED Disk

Leave ==
  /\ session.at = "running"
  /\ session' = NoSession
  /\ UNCHANGED Disk

Older(age) == IF age \in {Never, PruneAge} THEN age ELSE age + 1
Elapse ==
  /\ platform # "none"
  /\ retired' = [r \in Shas |-> Older(retired[r])] /\ left' = [r \in Shas |-> Older(left[r])]
  /\ UNCHANGED <<platform, current, previous, built, installer, session, runs>>

Next == Choose \/ Install \/ Launch \/ Pin \/ Root \/ Leave \/ Elapse

Spec == Init /\ [][Next]_vars
-----------------------------------------------------------------------------
TypeOK ==
  /\ current \in Shas \union {None} /\ previous \in Shas \union {None}
  /\ installer.at \in {"idle", "previous", "switch", "stamp", "unstamp", "prune"}
  /\ \A r, q \in Shas : There(r) /\ built[q] = built[r] => q = r

\* "a session can stay open for weeks on the release it started with": what a session pinned is there
\* until PruneAge after it stopped being current, and on Linux as long as it is the binary's release.
PinnedStays ==
  \A r \in {session.scripts, session.root} \ {None} :
    There(r) \/ (left[r] = PruneAge /\ ~(Linux /\ session.binary = r))

\* Wherever the installer died, current and the release to roll back to are there.
LinksLead == \A r \in {current, previous} \ {None} : There(r)

\* "Keep ... anything ... current within the last `min_age_days`": whatever was current less than
\* PruneAge ago is there.
LatelyCurrentStays == \A r \in Shas : left[r] \in 0..(PruneAge - 1) => There(r)

\* Nothing that is still needed is removed.
ReleasesStay == PinnedStays /\ LinksLead
=============================================================================
