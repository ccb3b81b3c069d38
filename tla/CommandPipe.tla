----------------------------- MODULE CommandPipe -----------------------------
(***************************************************************************)
(* What the firmware promises of the commands it has answered with         *)
(* {"ok":true}: on each channel they are settled one at a time, in the     *)
(* order they were accepted; a settled command was either delivered to the *)
(* TV or lost, never both and never twice; and a channel holds at most one *)
(* command more than its queue has slots (the one being sent).             *)
(*                                                                         *)
(* Commands of a channel are numbered 1, 2, 3, ... as they are accepted.   *)
(***************************************************************************)
EXTENDS Integers, Sequences

CONSTANTS KeyCap,   \* slots of g_key_queue
          AppCap    \* slots of g_app_queue

Channel == {"key", "app"}
Cap(c) == IF c = "key" THEN KeyCap ELSE AppCap

VARIABLES accepted,  \* accepted[c]: number of commands accepted on c
          settled,   \* settled[c]: how many of them are delivered or lost
          received,  \* received[c]: commands the TV got, in order of arrival
          lost       \* lost[c]: commands that will never reach the TV

vars == <<accepted, settled, received, lost>>

Init == /\ accepted = [c \in Channel |-> 0]
        /\ settled  = [c \in Channel |-> 0]
        /\ received = [c \in Channel |-> <<>>]
        /\ lost     = [c \in Channel |-> {}]

Pending(c) == settled[c] + 1 .. accepted[c]

Accept(c) ==
    /\ accepted[c] - settled[c] <= Cap(c)
    /\ accepted' = [accepted EXCEPT ![c] = @ + 1]
    /\ UNCHANGED <<settled, received, lost>>

\* The oldest pending command of c reaches the TV, or is given up.
Settle(c) == /\ settled[c] < accepted[c]
             /\ settled' = [settled EXCEPT ![c] = @ + 1]
             /\ UNCHANGED accepted

Deliver(c) == /\ Settle(c)
              /\ received' = [received EXCEPT ![c] = Append(@, settled[c] + 1)]
              /\ UNCHANGED lost

Lose(c) == /\ Settle(c)
           /\ lost' = [lost EXCEPT ![c] = @ \cup {settled[c] + 1}]
           /\ UNCHANGED received

\* The device restarts: what was pending lived in RAM.
Reset == /\ lost' = [c \in Channel |-> lost[c] \cup Pending(c)]
         /\ settled' = accepted
         /\ UNCHANGED <<accepted, received>>

Next == \/ \E c \in Channel : Accept(c) \/ Deliver(c) \/ Lose(c)
        \/ Reset

Spec == Init /\ [][Next]_vars
=============================================================================
