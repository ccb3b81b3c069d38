---------------------------- MODULE MCVolumeRouting ----------------------------
(***************************************************************************)
(* One page and one press, which becomes up to two commands, after a tap   *)
(* that may still be queued.  With two slots in the key queue a command    *)
(* that is put back can meet the one behind it there, and with the tap the *)
(* queue is full; two faults can undo each other in between.               *)
(***************************************************************************)
EXTENDS VolumeRouting
================================================================================
