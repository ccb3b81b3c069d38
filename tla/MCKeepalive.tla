------------------------------ MODULE MCKeepalive ------------------------------
(* Keepalive with times that keep the order of those in remote.c: a pause is *)
(* shorter than a read, a read than the answer, the answer than the silence. *)
EXTENDS Keepalive
================================================================================
