--------------------------- MODULE PairingAgreement ---------------------------
(***************************************************************************)
(* What a pairing means to its three parties: the TV that trusts the       *)
(* device, the device that remembers it, and the user who was told.  The   *)
(* TV commits first, then the device, then the user hears "ok"; nobody     *)
(* takes anything back, and a crash can only come in between.              *)
(***************************************************************************)

VARIABLES trusts,    \* the TV accepted the device's certificate
          recorded,  \* the device has it in flash that it is paired
          confirmed  \* some request was answered {"ok":true}

vars == <<trusts, recorded, confirmed>>

Init == ~trusts /\ ~recorded /\ ~confirmed

Accept  == trusts' = TRUE /\ UNCHANGED <<recorded, confirmed>>
Record  == trusts /\ recorded' = TRUE /\ UNCHANGED <<trusts, confirmed>>
Confirm == recorded /\ confirmed' = TRUE /\ UNCHANGED <<trusts, recorded>>

Next == Accept \/ Record \/ Confirm

Spec == Init /\ [][Next]_vars
=============================================================================
