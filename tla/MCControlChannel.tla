--------------------------- MODULE MCControlChannel ---------------------------
(***************************************************************************)
(* The control channel on small instances.  Two key slots and one app slot *)
(* are enough for a queue to be full, partly full and empty, and a third   *)
(* key lets the worker fill the slot of the command being sent.  One fault *)
(* leaves a requeued command and a stale status to the next session; for   *)
(* what more faults add there are the theorems.                            *)
(***************************************************************************)
EXTENDS ControlChannel
=============================================================================
