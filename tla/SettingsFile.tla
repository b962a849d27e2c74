----------------------------- MODULE SettingsFile -----------------------------
(***************************************************************************)
(* One settings file, three readers: the hooks (load_env_file in           *)
(* hooks/_mem_common.py), the MCP server (env_file_value and knob in       *)
(* mcp-server/src/main.rs) and the console, which also writes it           *)
(* (console/src/settings.rs, console/src/bin/settings.rs).                 *)
(*                                                                         *)
(* People edit the file by hand: a key may occur twice, with an empty      *)
(* value, or with one its reader cannot parse.  The hooks read their       *)
(* numbers as they start, outside any handler: a bad one is a crash.       *)
(* Quotes, blanks and the spelling of line ends are left out.              *)
(***************************************************************************)
EXTENDS Integers, Sequences, SequencesExt

CONSTANTS Keys,      \* the keys of KNOBS that occur
          Good,      \* values their reader can parse
          MaxLines,  \* bound: lines of a file edited by hand
          MaxMoves   \* bound: edits of whatever kind

VARIABLES file, env, last, moves

vars == <<file, env, last, moves>>

Empty == ""
Bad == "42#"
Default == "default"
Crash == "crash"
Values == Good \union {Empty, Bad}
Comment == "#"
Lines == [key : Keys \union {Comment}, value : Values]
NoEdit == [do |-> "none", key |-> Comment, value |-> Empty, ok |-> FALSE]

\* A file is trusted, refused (others may write it or its directory), or not readable as text.
Init ==
  /\ file = [state |-> "trusted", lines |-> <<>>]
  /\ env = [k \in Keys |-> Default]                       \* Default: the variable is not set
  /\ last = NoEdit
  /\ moves = 0

\* The lines that give a key, by their places, and the value of the first of some.
All(k) == {i \in DOMAIN file.lines : file.lines[i].key = k}
First(places) == IF places = {} THEN Default ELSE file.lines[Min(places)].value
Exported(k) == env[k] \notin {Default, Empty}
-----------------------------------------------------------------------------
(* The readers. *)

NonEmpty(k) == {i \in All(k) : file.lines[i].value # Empty}

\* The hooks: an explicit variable beats the file, an empty one does not, but stays where nothing
\* replaces it.
InHook(k) ==
  LET given == IF file.state = "trusted" THEN First(NonEmpty(k)) ELSE Default
      empty == env[k] = Empty \/ (file.state = "trusted" /\ All(k) # {})
      v == IF Exported(k) THEN env[k] ELSE IF given = Default /\ empty THEN Empty ELSE given
  IN IF file.state = "notText" \/ v \in {Empty, Bad} THEN Crash ELSE v

\* The MCP server: a value it cannot parse is none.
InServer(k) ==
  LET v == IF Exported(k) THEN env[k] ELSE IF file.state = "trusted" THEN First(NonEmpty(k)) ELSE Default
  IN IF v = Bad THEN Default ELSE v

\* Mutant of Read: the last occurrence wins.
ReadLast(k) == IF file.state = "notText" \/ All(k) = {} THEN Default ELSE file.lines[Max(All(k))].value

\* read, effective, fault and show: what the screen says of a knob.
Read(k) == IF file.state = "notText" THEN Default ELSE First(All(k))
OnScreen(k) ==
  LET v == IF Exported(k) THEN env[k] ELSE IF file.state = "refused" THEN Default ELSE Read(k)
  IN IF v \in {Empty, Bad} THEN Crash ELSE v
-----------------------------------------------------------------------------
Move == moves < MaxMoves /\ moves' = moves + 1

EditByHand ==
  /\ Move
  /\ \E n \in 0..MaxLines, state \in {"trusted", "refused", "notText"} :
     \E ls \in [1..n -> Lines] : file' = [state |-> state, lines |-> ls]
  /\ last' = NoEdit
  /\ UNCHANGED env

Export ==
  /\ Move
  /\ \E k \in Keys, v \in Values \union {Default} : env' = [env EXCEPT ![k] = v]
  /\ last' = NoEdit
  /\ UNCHANGED file

\* Mutant of Rewritten: the last line is lost.
RewrittenShort(value) ==
  LET keys == SetToSeq({k \in Keys : value[k] # Default})
  IN [state |-> "trusted",
      lines |-> [i \in 1..(Len(keys) - 1) |-> [key |-> keys[i], value |-> value[keys[i]]]]]

\* write_all: the file anew, one line for every key that was read, mode 600.
Rewritten(value) ==
  LET keys == SetToSeq({k \in Keys : value[k] # Default})
  IN [state |-> "trusted", lines |-> [i \in DOMAIN keys |-> [key |-> keys[i], value |-> value[keys[i]]]]]

Edit(do, k, v, ok) ==
  /\ Move
  /\ file' = IF ok THEN Rewritten([j \in Keys |-> IF j = k THEN v ELSE Read(j)]) ELSE file
  /\ last' = [do |-> do, key |-> k, value |-> v, ok |-> ok]
  /\ UNCHANGED env

\* settings set: refused for a value its reader cannot parse.
Set(k) == \E v \in Values : Edit("set", k, v, v \in Good)
Unset(k) == Edit("unset", k, Default, Read(k) # Default)

Next == EditByHand \/ Export \/ \E k \in Keys : Set(k) \/ Unset(k)
Spec == Init /\ [][Next]_vars
-----------------------------------------------------------------------------
TypeOK == file.lines \in Seq(Lines) /\ DOMAIN env = Keys

\* An empty value, somewhere.
Plain(k) == env[k] # Empty /\ NonEmpty(k) = All(k)

\* "Two readers of one file must not disagree": what the screen shows is what the hooks run on and
\* the server acts by.  (Not so of a knob that is set to an empty value somewhere, nor of a file that
\* is not text, which stops the hooks as they start.)
ReadersAgree == \A k \in Keys : Plain(k) /\ file.state # "notText" =>
  /\ OnScreen(k) = InHook(k)
  /\ InHook(k) # Crash => InServer(k) = InHook(k)

\* "the screen printed 99 while the hooks ran on 9": what the screen shows is what the hooks run on.
ScreenTellsTheTruth == file.state = "trusted" => \A k \in Keys : OnScreen(k) = InHook(k)

\* A setting that was written is in force in every reader that starts after it, and one that was
\* removed is not, unless a variable beats the file.
SetTakesEffect == last.ok /\ env[last.key] = Default =>
  InHook(last.key) = last.value /\ InServer(last.key) = last.value /\ OnScreen(last.key) = last.value

\* One file, three readers and a writer that agree.
OneFile == ReadersAgree /\ SetTakesEffect

\* Setting one knob leaves the others as they were.
OthersKept == [][\A k \in Keys :
  last'.ok /\ moves' # moves /\ k # last'.key /\ file.state = "trusted" /\ Plain(k) => InHook(k)' = InHook(k)]_vars
=============================================================================
