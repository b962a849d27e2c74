----------------------------- MODULE ConsoleMC -----------------------------
(***************************************************************************)
(* The console with two jobs and three releases, one of them without a     *)
(* console.  Per part: one press, one reading that fails or change by      *)
(* others, and calls that may hang; a query longer than the pipe and       *)
(* output longer than the limit; values nested twice, repeated keys, every *)
(* count and one past the largest; one writer at a time, whose machine may *)
(* lose power where the file is synced before it is named; three edits and *)
(* three calls that fail, but not the last copy of an edit that did not    *)
(* take; a run before the button, the one it asks for and two more; time   *)
(* for a job to run, to fall silent and to be overdue; two keys on two     *)
(* lines; four runs of the installer, one of which dies.                   *)
(***************************************************************************)
EXTENDS Console

CONSTANTS l1, l2

TwoJobs == <<l1, l2>>
=============================================================================
