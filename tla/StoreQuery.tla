----------------------------- MODULE StoreQuery -----------------------------
(***************************************************************************)
(* One question to the store through a command of the person's own:        *)
(* run_with_timeout in console/src/lib.rs.                                 *)
(*                                                                         *)
(* Six parties run at once: the caller (pc), three threads that write the  *)
(* query and read the two outputs, the command sh started (child) and one  *)
(* process it may leave behind (helper), which keeps some ends open.       *)
(* Text is counted in units; a pipe holds Pipe of them.                    *)
(* Every wait of the caller has a limit, so a wait that runs out is a step *)
(* the caller may take as long as what it waits for has not arrived.       *)
(***************************************************************************)
EXTENDS Integers

CONSTANTS Pipe,      \* what a pipe holds
          MaxOutput, \* MAX_OUTPUT: the most a reading may be
          MaxQuery,  \* bound: the longest query
          MaxSaid    \* bound: the most the command prints

VARIABLES pc, query, stdin, child, helper, out, err, status, result

vars == <<pc, query, stdin, child, helper, out, err, status, result>>

Ends == {"stdin", "stdout", "stderr"}
Running == child.at = "running"
Holds(o) == Running \/ (helper.alive /\ o \in helper.holds)
Killed(h) == [h EXCEPT !.alive = FALSE]

Init ==
  /\ pc = "start"
  /\ query = 0
  /\ stdin = [left |-> 0, inPipe |-> 0, taken |-> 0, at |-> "writing"]
  /\ child = [at |-> "none", said |-> 0]
  /\ helper = [alive |-> FALSE, holds |-> {}]
  /\ out = [inPipe |-> 0, got |-> 0, at |-> "reading"]
  /\ err = "reading"
  /\ status = "none"
  /\ result = "none"

Start ==
  /\ pc = "start"
  /\ query' \in 1..MaxQuery
  /\ stdin' = [stdin EXCEPT !.left = query']
  /\ \/ /\ pc' = "wait" /\ child' = [child EXCEPT !.at = "running"] /\ UNCHANGED result
     \/ /\ pc' = "done" /\ result' = "couldNotStart" /\ UNCHANGED child
  /\ UNCHANGED <<helper, out, err, status>>
-----------------------------------------------------------------------------
(* The command, and what it leaves behind in its process group. *)

World == <<pc, query, status, result>>

ReadsStdin ==
  /\ Running /\ stdin.inPipe > 0
  /\ stdin' = [stdin EXCEPT !.inPipe = @ - 1, !.taken = @ + 1]
  /\ UNCHANGED <<World, child, helper, out, err>>

\* Once the reader has stopped, a write is the end of the writer (SIGPIPE).
Prints ==
  /\ Running /\ child.said < MaxSaid
  /\ \/ /\ out.at = "reading" /\ out.inPipe < Pipe
        /\ out' = [out EXCEPT !.inPipe = @ + 1]
        /\ child' = [child EXCEPT !.said = @ + 1]
     \/ /\ out.at # "reading"
        /\ child' = [child EXCEPT !.at = "signalled"]
        /\ UNCHANGED out
  /\ UNCHANGED <<World, stdin, helper, err>>

LeavesBehind ==
  /\ Running /\ ~helper.alive
  /\ \E S \in SUBSET Ends : helper' = [alive |-> TRUE, holds |-> S]
  /\ UNCHANGED <<World, stdin, child, out, err>>

Exits ==
  /\ Running
  /\ \E how \in {"exit0", "exit1"} : child' = [child EXCEPT !.at = how]
  /\ UNCHANGED <<World, stdin, helper, out, err>>

HelperExits ==
  /\ helper.alive
  /\ helper' = Killed(helper)
  /\ UNCHANGED <<World, stdin, child, out, err>>

CommandStep == ReadsStdin \/ Prints \/ LeavesBehind \/ Exits \/ HelperExits
-----------------------------------------------------------------------------
(* The three threads. *)

Started == child.at # "none"

\* A write into a pipe nobody reads any more fails.
Writes ==
  /\ Started /\ stdin.at = "writing"
  /\ stdin' = IF stdin.left = 0 THEN [stdin EXCEPT !.at = "written"]
              ELSE IF ~Holds("stdin") THEN [stdin EXCEPT !.at = "broken"]
              ELSE [stdin EXCEPT !.left = @ - 1, !.inPipe = @ + 1]
  /\ Holds("stdin") /\ stdin.left > 0 => stdin.inPipe < Pipe
  /\ UNCHANGED <<World, child, helper, out, err>>

\* drain: one unit past the limit is the sign of too much.
ReadsOut ==
  /\ Started /\ out.at = "reading"
  /\ \/ /\ out.inPipe > 0
        /\ out' = [inPipe |-> out.inPipe - 1, got |-> out.got + 1,
                   at |-> IF out.got + 1 > MaxOutput THEN "tooMuch" ELSE "reading"]
     \/ /\ out.inPipe = 0 /\ ~Holds("stdout")
        /\ \E at \in {"whole", "notText"} : out' = [out EXCEPT !.at = at]
  /\ UNCHANGED <<World, stdin, child, helper, err>>

ReadsErr ==
  /\ Started /\ err = "reading" /\ ~Holds("stderr")
  /\ err' = "whole"
  /\ UNCHANGED <<World, stdin, child, helper, out>>

ThreadStep == Writes \/ ReadsOut \/ ReadsErr
-----------------------------------------------------------------------------
(* The caller. *)

\* try_wait, and kill_tree once the deadline has passed.
WaitForChild ==
  /\ pc = "wait"
  /\ \/ /\ Started /\ ~Running
        /\ pc' = "out" /\ status' = child.at
        /\ UNCHANGED <<child, helper, result>>
     \/ /\ Running
        /\ pc' = "done" /\ result' = "noAnswer"
        /\ child' = [child EXCEPT !.at = "signalled"] /\ helper' = Killed(helper)
        /\ UNCHANGED status
  /\ UNCHANGED <<query, stdin, out, err>>

\* Mutant of CollectOut: the reader of the output is waited for without a limit.
CollectOutPatient ==
  /\ pc = "out" /\ out.at # "reading"
  /\ pc' = "err"
  /\ result' = (IF out.at = "whole" THEN "none" ELSE out.at)
  /\ UNCHANGED <<query, stdin, child, helper, out, err, status>>

CollectOut ==
  /\ pc = "out"
  /\ pc' = "err"
  /\ IF out.at = "reading"
     THEN helper' = Killed(helper) /\ result' = "heldOpen"
     ELSE result' = (IF out.at = "whole" THEN "none" ELSE out.at) /\ UNCHANGED helper
  /\ UNCHANGED <<query, stdin, child, out, err, status>>

CollectErr ==
  /\ pc = "err"
  /\ pc' = "write"
  /\ helper' = IF err = "reading" THEN Killed(helper) ELSE helper
  /\ UNCHANGED <<query, stdin, child, out, err, status, result>>

\* Mutant of Conclude: the exit status first.
ConcludeByStatus ==
  /\ pc = "write"
  /\ pc' = "done"
  /\ result' = IF status # "exit0" THEN "failed"
               ELSE IF result # "none" THEN result
               ELSE IF stdin.at # "written" THEN "notAsked"
               ELSE "ok"
  /\ UNCHANGED <<query, stdin, child, helper, out, err, status>>

\* The reason for refusing the output first, then the exit status, then a query not taken whole.
Conclude ==
  /\ pc = "write"
  /\ pc' = "done"
  /\ result' = IF result # "none" THEN result
               ELSE IF status # "exit0" THEN "failed"
               ELSE IF stdin.at # "written" THEN "notAsked"
               ELSE "ok"
  /\ UNCHANGED <<query, stdin, child, helper, out, err, status>>

CallerStep == Start \/ WaitForChild \/ CollectOut \/ CollectErr \/ Conclude
Next == CallerStep \/ ThreadStep \/ CommandStep

Spec == Init /\ [][Next]_vars
FairSpec == Spec /\ WF_vars(CallerStep)
-----------------------------------------------------------------------------
TypeOK ==
  /\ pc \in {"start", "wait", "out", "err", "write", "done"}
  /\ stdin.left + stdin.inPipe + stdin.taken = query
  /\ out.got + out.inPipe = child.said
  /\ helper.holds \subseteq Ends

\* A reading that is shown is all the command printed, from a command that ended well and whose
\* query went out whole; nothing that holds an output open is left running behind it.
OkIsWhole ==
  result = "ok" => /\ child.at = "exit0"
                   /\ out.got = child.said /\ out.got <= MaxOutput
                   /\ stdin.left = 0
                   /\ ~Holds("stdout") /\ ~Holds("stderr")

\* A command that this console itself cut short by no longer reading is reported as too much
\* output, never as a command that failed.
CauseBeforeSymptom == result \in {"failed", "notAsked", "ok"} => child.at # "signalled"

\* What is made of the command's end is what happened.
AnswerIsSound == OkIsWhole /\ CauseBeforeSymptom

\* Every question comes back, whatever the command and what it leaves behind do.
Returns == (pc = "wait") ~> (pc = "done")

\* "A clean exit that never took the whole query answered a DIFFERENT question from the one asked.
\* Whatever it printed is not this query's reading."
OkMeansAsked == result = "ok" => stdin.taken = query
=============================================================================
