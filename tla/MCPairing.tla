------------------------------ MODULE MCPairing ------------------------------
(***************************************************************************)
(* Pairing on a small instance: two faults let a second one meet what the  *)
(* first left behind (a stale code, a stale bit), and two mistyped codes   *)
(* next to right ones are what an answer can be confused with.             *)
(***************************************************************************)
EXTENDS Pairing
=============================================================================
