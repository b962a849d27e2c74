---------------------------- MODULE ConsoleFiles ----------------------------
(***************************************************************************)
(* How the console saves a file that others read at any moment: its own    *)
(* config (save_config and read_config_file in console/src/lib.rs) and the *)
(* pipeline's settings (write_all and read in console/src/settings.rs).    *)
(*                                                                         *)
(* Both write a neighbour of fixed name and rename it over the file.  The  *)
(* config removes a neighbour left from before and creates its own; the    *)
(* settings truncate whatever neighbour there is.  A file is an inode      *)
(* under a name, numbered as the save that creates it; its text is a first *)
(* and a second half, each from the save that wrote it last (Blank:        *)
(* nothing there).                                                         *)
(***************************************************************************)
EXTENDS Integers

CONSTANTS Writers,   \* processes that save
          MaxSaves,  \* bound: saves begun
          MayLose    \* the kinds of file whose machine may lose power

VARIABLES kind, live, tmp, text, synced, writer, reader, saves

vars == <<kind, live, tmp, text, synced, writer, reader, saves>>

None == 0
Blank == 0
Inodes == 1..(MaxSaves + 1)
Idle == [at |-> "idle", fd |-> None, save |-> 0, before |-> None, result |-> "none"]
Text(a, b) == [first |-> a, second |-> b]
NoText == Text(Blank, Blank)
Whole(t) == t.first = t.second /\ t.first # Blank

\* The file as an earlier save left it, with or without a neighbour of an interrupted one.
Init ==
  /\ kind = "none"
  /\ live = 1 /\ tmp = None
  /\ text = [i \in Inodes |-> IF i = 1 THEN Text(1, 1) ELSE NoText]
  /\ synced = {1}
  /\ writer = [w \in Writers |-> Idle]
  /\ reader = [at |-> "idle", fd |-> None, seen |-> Text(1, 1)]
  /\ saves = 1

Choose ==
  /\ kind = "none"
  /\ kind' \in {"config", "settings"}
  /\ UNCHANGED <<live, tmp, text, synced, writer, reader, saves>>
-----------------------------------------------------------------------------
Goto(w, at) == writer' = [writer EXCEPT ![w].at = at]
Rest == <<kind, reader, saves>>

Begin(w) ==
  /\ kind # "none" /\ writer[w].at = "idle" /\ saves <= MaxSaves
  /\ saves' = saves + 1
  /\ writer' = [writer EXCEPT ![w] = [at |-> IF kind = "config" THEN "clear" ELSE "open", fd |-> None,
                                      save |-> saves + 1, before |-> live, result |-> "none"]]
  /\ UNCHANGED <<kind, live, tmp, text, synced, reader>>

\* Mutant of Clear: the neighbour is not removed.
ClearNot(w) ==
  /\ writer[w].at = "clear"
  /\ Goto(w, "open")
  /\ UNCHANGED <<live, tmp, text, synced, Rest>>

\* remove_file of the neighbour, whether there is one or not.
Clear(w) ==
  /\ writer[w].at = "clear"
  /\ tmp' = None
  /\ Goto(w, "open")
  /\ UNCHANGED <<live, text, synced, Rest>>

\* create_new, or create and truncate.
Open(w) ==
  /\ writer[w].at = "open"
  /\ kind = "config" => tmp = None
  /\ tmp' = IF tmp = None THEN writer[w].save ELSE tmp
  /\ text' = [text EXCEPT ![tmp'] = NoText]
  /\ writer' = [writer EXCEPT ![w].at = "first", ![w].fd = tmp']
  /\ UNCHANGED <<live, synced, Rest>>

Write(w) ==
  /\ writer[w].at \in {"first", "second"}
  /\ text' = [text EXCEPT ![writer[w].fd] = IF writer[w].at = "first" THEN [@ EXCEPT !.first = writer[w].save]
                                            ELSE [@ EXCEPT !.second = writer[w].save]]
  /\ Goto(w, IF writer[w].at = "first" THEN "second" ELSE IF kind = "config" THEN "sync" ELSE "rename")
  /\ UNCHANGED <<live, tmp, synced, Rest>>

Sync(w) ==
  /\ writer[w].at = "sync"
  /\ synced' = synced \union {writer[w].fd}
  /\ Goto(w, "rename")
  /\ UNCHANGED <<live, tmp, text, Rest>>

\* By name: whatever the neighbour is by now.
Rename(w) ==
  /\ writer[w].at = "rename" /\ tmp # None
  /\ live' = tmp /\ tmp' = None
  /\ writer' = [writer EXCEPT ![w].at = "idle", ![w].fd = None, ![w].result = "saved"]
  /\ UNCHANGED <<text, synced, Rest>>

\* A call that fails: the config's neighbour is removed, the settings' only if the rename failed (and
\* not the chmod before it).
Refused(w) ==
  /\ writer[w].at \in {"open", "first", "second", "sync", "rename"}
  /\ tmp' \in {IF kind = "config" THEN None ELSE tmp} \union (IF writer[w].at = "rename" THEN {None} ELSE {})
  /\ writer' = [writer EXCEPT ![w].at = "idle", ![w].fd = None, ![w].result = "refused"]
  /\ UNCHANGED <<live, text, synced, Rest>>

Dies(w) ==
  /\ writer[w].at # "idle"
  /\ writer' = [writer EXCEPT ![w] = Idle]
  /\ UNCHANGED <<live, tmp, text, synced, Rest>>

\* What was not synced may be gone after it.
PowerLost ==
  /\ kind \in MayLose
  /\ writer' = [w \in Writers |-> Idle]
  /\ reader' = [at |-> "idle", fd |-> None, seen |-> Text(1, 1)]
  /\ \E lost \in SUBSET ({live, tmp} \ (synced \union {None})) :
       text' = [i \in Inodes |-> IF i \in lost THEN NoText ELSE text[i]]
  /\ UNCHANGED <<kind, live, tmp, synced, saves>>

\* A reader opens the file and reads what it opened.
OpenToRead ==
  /\ kind # "none" /\ reader.at = "idle"
  /\ reader' = [reader EXCEPT !.at = "first", !.fd = live]
  /\ UNCHANGED <<kind, live, tmp, text, synced, writer, saves>>

Read ==
  /\ reader.at \in {"first", "second"}
  /\ reader' = IF reader.at = "first"
               THEN [reader EXCEPT !.at = "second", !.seen = Text(text[reader.fd].first, @.second)]
               ELSE [at |-> "idle", fd |-> None, seen |-> Text(reader.seen.first, text[reader.fd].second)]
  /\ UNCHANGED <<kind, live, tmp, text, synced, writer, saves>>

Save == \E w \in Writers :
  Begin(w) \/ Clear(w) \/ Open(w) \/ Write(w) \/ Sync(w) \/ Rename(w) \/ Refused(w) \/ Dies(w)
Next == Choose \/ Save \/ PowerLost \/ OpenToRead \/ Read

Spec == Init /\ [][Next]_vars
-----------------------------------------------------------------------------
TypeOK ==
  /\ live \in Inodes /\ tmp \in Inodes \union {None}
  /\ synced \subseteq Inodes
  /\ \A w \in Writers : writer[w].fd \in Inodes \union {None} /\ writer[w].save \in 0..(MaxSaves + 1)

\* Whoever reads the file, at whatever moment of a save, reads one save whole: the config also after
\* the machine lost power.
WholeRead == reader.at = "idle" => Whole(reader.seen)

\* "the previous settings are untouched": a save that ends in an error has left the file as it was.
UntouchedOnRefusal == \A w \in Writers : writer[w].result = "refused" /\ writer[w].at = "idle" =>
  live = writer[w].before /\ Whole(text[live])

\* A neighbour left behind blocks no later save: every save that is under way can take its next step.
NeverBlocked == \A w \in Writers :
  /\ writer[w].at = "open" /\ kind = "config" => tmp = None
  /\ writer[w].at = "rename" => tmp = writer[w].fd

\* A save is whole, or it never was, and the next one can be made.
SavesAreWhole == WholeRead /\ UntouchedOnRefusal /\ NeverBlocked
=============================================================================
