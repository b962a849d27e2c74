------------------------------- MODULE TrayMC -------------------------------
(***************************************************************************)
(* A tray with one job and a worker whose calls may hang.  A unit of time  *)
(* is a minute: REFRESH is one, WORKER_PATIENCE one and a half, so what is *)
(* awaited for more than one has been awaited for too long.                *)
(***************************************************************************)
EXTENDS Tray

CONSTANT j1

OneJob == <<j1>>
=============================================================================
