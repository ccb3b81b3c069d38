---------------------------- MODULE MessageChannel ----------------------------
(***************************************************************************)
(* What the frame codec and the decoder promise together: the messages the *)
(* TV sends are handed up one by one, in order and with the meaning they   *)
(* were sent with, those the device cannot hold are passed over, until the *)
(* session ends.                                                           *)
(***************************************************************************)
EXTENDS Naturals, Sequences

CONSTANTS Messages,     \* the messages the TV may send
          Sense         \* what each means to the device, refusal included

VARIABLES sent, handed, up

Init == sent = << >> /\ handed = << >> /\ up = TRUE

Send == \E m \in Messages : sent' = Append(sent, m) /\ UNCHANGED << handed, up >>

HandUp == /\ up
          /\ Len(handed) < Len(sent)
          /\ handed' = Append(handed, Sense[sent[Len(handed) + 1]])
          /\ up' \in BOOLEAN
          /\ UNCHANGED sent

End == up /\ up' = FALSE /\ UNCHANGED << sent, handed >>

Next == Send \/ HandUp \/ End

Spec == Init /\ [][Next]_<< sent, handed, up >>
===============================================================================
