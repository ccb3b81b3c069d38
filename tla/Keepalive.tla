------------------------------- MODULE Keepalive -------------------------------
(***************************************************************************)
(* The clock of remote_session (remote.c): when the session asks a silent  *)
(* TV for a sign of life, and when it gives the connection up.  The same   *)
(* task reads from the TV and serves the key queue, with a pause after     *)
(* each key, so it looks at the clock only between the two.                *)
(*                                                                         *)
(* Time is counted in units and passes where the task waits: in a read and *)
(* in the pause.  The computation between takes none.  The TV and the      *)
(* network are the environment; ControlChannel has the same session with   *)
(* its commands and without the clock.                                     *)
(***************************************************************************)
EXTENDS Integers

CONSTANTS PollTime,   \* POLL_TIMEOUT_MS, the longest wait for a first byte
          Pace,       \* the pause after a key
          FrameTime,  \* the longest wait for the rest of a frame
          PingProbe,  \* PING_PROBE_MS
          PingReply,  \* PING_REPLY_MS
          Answering,  \* how long the TV takes at most to answer a probe
          KeyCap,     \* slots of g_key_queue
          MaxPresses  \* bound: keys queued during one session

ASSUME TimeAssumption ==
  /\ PollTime \in Nat \ {0} /\ Pace \in Nat \ {0} /\ FrameTime \in Nat
  /\ PingProbe \in Nat /\ PingReply \in Nat /\ Answering \in Nat
  /\ FrameTime <= PingProbe
ASSUME BoundAssumption == KeyCap \in Nat \ {0} /\ MaxPresses \in Nat

VARIABLES
  pc,       \* "poll" and "frame": in a read; "drain": between keys; "pace":
            \* in the pause after one; "down": the session is over
  waited,   \* how long this read or pause has lasted
  silence,  \* now - last_rx_us
  probing,  \* probe_outstanding
  asked,    \* now - probe_sent_us, while probing
  queue,    \* the number of keys in g_key_queue
  link,     \* "up", or "broken" without a sign of it
  inbox,    \* what has come in and is not read: "none", "whole" or, cut off
            \* by the break, "part" of a frame
  owed,     \* how long the TV has had a probe it has not answered, or Nothing
  pressed,  \* keys queued in this session
  serving,  \* history: time spent on keys since the last read
  dead,     \* history: time since the link broke
  stolen    \* history: the part of it spent on keys

clocks  == << silence, probing, asked >>
network == << link, inbox, owed >>
history == << serving, dead, stolen >>
vars    == << pc, waited, clocks, queue, network, pressed, history >>

Nothing == 0 - 1

Init ==
  /\ pc = "poll" /\ waited = 0
  /\ silence = 0 /\ probing = FALSE /\ asked = 0 /\ queue = 0
  /\ link = "up" /\ inbox = "none" /\ owed = Nothing
  /\ pressed = 0 /\ serving = 0 /\ dead = 0 /\ stolen = 0

(* tv_session_task closes the connection and, after a pause, has a new one.  *)
Reconnect ==
  /\ pc = "down"
  /\ pc' = "poll" /\ waited' = 0
  /\ silence' = 0 /\ probing' = FALSE /\ asked' = 0
  /\ link' = "up" /\ inbox' = "none" /\ owed' = Nothing
  /\ pressed' = 0 /\ serving' = 0 /\ dead' = 0 /\ stolen' = 0
  /\ UNCHANGED queue

-------------------------------------------------------------------------------
(* Time.                                                                     *)

Waiting == \/ pc = "poll" /\ inbox = "none" /\ waited < PollTime
           \/ pc = "frame" /\ waited < FrameTime
           \/ pc = "pace" /\ waited < Pace

Tick ==
  /\ Waiting
  /\ owed # Nothing => owed < Answering
  /\ waited' = waited + 1 /\ silence' = silence + 1
  /\ asked'   = IF probing THEN asked + 1 ELSE asked
  /\ owed'    = IF owed # Nothing THEN owed + 1 ELSE owed
  /\ serving' = IF pc = "pace" THEN serving + 1 ELSE serving
  /\ dead'    = IF link = "broken" THEN dead + 1 ELSE dead
  /\ stolen'  = IF link = "broken" /\ pc = "pace" THEN stolen + 1 ELSE stolen
  /\ UNCHANGED << pc, probing, queue, link, inbox, pressed >>

-------------------------------------------------------------------------------
(* Reading.                                                                  *)

(* Mutant: an answer does not settle the probe.                              *)
ReceiveKeepsProbe ==
  /\ pc = "poll" /\ inbox = "whole"
  /\ inbox' = "none"
  /\ silence' = 0
  /\ waited' = 0 /\ pc' \in {"poll", "down"}
  /\ UNCHANGED << probing, asked, queue, link, owed, pressed, serving, dead, stolen >>

(* A frame is read, whatever it is.  The session ends if it is a bad one or  *)
(* its answer cannot be sent.                                                *)
Receive ==
  /\ pc = "poll" /\ inbox = "whole"
  /\ inbox' = "none"
  /\ silence' = 0 /\ probing' = FALSE /\ asked' = 0
  /\ waited' = 0 /\ pc' \in {"poll", "down"}
  /\ UNCHANGED << queue, link, owed, pressed, serving, dead, stolen >>

(* The first byte is there: wait for the others.                             *)
FrameBegins ==
  /\ pc = "poll" /\ inbox = "part"
  /\ inbox' = "none"
  /\ pc' = "frame" /\ waited' = 0
  /\ UNCHANGED << clocks, queue, link, owed, pressed, serving, dead, stolen >>

FrameStalls ==
  /\ pc = "frame" /\ waited = FrameTime
  /\ pc' = "down"
  /\ UNCHANGED << waited, clocks, queue, network, pressed, history >>

(* The read or a write finds out that the link is gone.                      *)
LinkFails ==
  /\ link = "broken" /\ pc \in {"poll", "frame"}
  /\ pc' = "down"
  /\ UNCHANGED << waited, clocks, queue, network, pressed, history >>

PollTimeout ==
  /\ pc = "poll" /\ inbox = "none" /\ waited = PollTime
  /\ pc' = "drain"
  /\ UNCHANGED << waited, clocks, queue, network, pressed, history >>

-------------------------------------------------------------------------------
(* Serving keys.                                                             *)

SendKey ==
  /\ pc = "drain" /\ queue > 0
  /\ \/ queue' = queue - 1 /\ pc' = "pace"
     \/ link = "broken" /\ pc' = "down" /\ UNCHANGED queue
  /\ waited' = 0
  /\ UNCHANGED << clocks, network, pressed, history >>

PauseEnds ==
  /\ pc = "pace" /\ waited = Pace
  /\ pc' = "drain"
  /\ UNCHANGED << waited, clocks, queue, network, pressed, history >>

-------------------------------------------------------------------------------
(* The tests of the clock.                                                   *)

ReadAgain == pc' = "poll" /\ waited' = 0 /\ serving' = 0

Idle ==
  /\ pc = "drain" /\ queue = 0
  /\ IF probing THEN asked <= PingReply ELSE silence <= PingProbe
  /\ ReadAgain
  /\ UNCHANGED << clocks, queue, network, pressed, dead, stolen >>

Asks == /\ pc = "drain" /\ queue = 0
        /\ ~probing /\ silence > PingProbe
        /\ UNCHANGED << silence, queue, inbox, link, pressed, dead, stolen >>

(* Mutant: the probe is sent and forgotten.                                  *)
ProbeForgotten ==
  /\ Asks
  /\ ReadAgain
  /\ owed' = (IF link = "up" THEN 0 ELSE owed)
  /\ UNCHANGED << probing, asked >>

SendProbe ==
  /\ Asks
  /\ \/ /\ probing' = TRUE /\ asked' = 0
        /\ owed' = IF link = "up" THEN 0 ELSE owed
        /\ ReadAgain
     \/ /\ link = "broken" /\ pc' = "down"
        /\ UNCHANGED << probing, asked, owed, waited, serving >>

ProbeExpired ==
  /\ pc = "drain" /\ queue = 0
  /\ probing /\ asked > PingReply
  /\ pc' = "down"
  /\ UNCHANGED << waited, clocks, queue, network, pressed, history >>

-------------------------------------------------------------------------------
(* The environment.                                                          *)

(* The HTTP worker queues a key.                                             *)
Press ==
  /\ queue < KeyCap /\ pressed < MaxPresses
  /\ queue' = queue + 1 /\ pressed' = pressed + 1
  /\ UNCHANGED << pc, waited, clocks, network, history >>

(* The answer to the probe, or anything else.                                *)
TvSends ==
  /\ link = "up" /\ pc # "down"
  /\ inbox' = "whole"
  /\ owed' \in {Nothing, owed}
  /\ <<inbox', owed'>> # <<inbox, owed>>
  /\ UNCHANGED << pc, waited, clocks, queue, link, pressed, serving, dead, stolen >>

BreakLink ==
  /\ link = "up" /\ pc # "down"
  /\ link' = "broken" /\ owed' = Nothing
  /\ inbox' \in IF inbox = "whole" THEN {"whole", "part"} ELSE {"none"}
  /\ dead' = 0 /\ stolen' = 0
  /\ UNCHANGED << pc, waited, clocks, queue, pressed, serving >>

-------------------------------------------------------------------------------
Session == \/ Reconnect \/ Receive \/ FrameBegins \/ FrameStalls \/ LinkFails \/ PollTimeout
           \/ SendKey \/ PauseEnds \/ Idle \/ SendProbe \/ ProbeExpired

Next == Tick \/ Session \/ Press \/ TvSends \/ BreakLink

Spec == Init /\ [][Next]_vars

-------------------------------------------------------------------------------
(* Properties.                                                               *)

(* Every variable holds a value of its type; no queue is over its size, and  *)
(* no read or pause lasts longer than it may.                                *)
TypeOK ==
  /\ pc \in {"poll", "frame", "drain", "pace", "down"}
  /\ waited \in Nat /\ silence \in Nat /\ probing \in BOOLEAN /\ asked \in Nat
  /\ pc = "poll" => waited <= PollTime
  /\ pc = "pace" => waited <= Pace
  /\ pc = "frame" => waited <= FrameTime
  /\ queue \in 0 .. KeyCap /\ pressed \in 0 .. MaxPresses
  /\ link \in {"up", "broken"} /\ inbox \in {"none", "whole", "part"}
  /\ owed \in Nat \cup {Nothing}
  /\ serving \in Nat /\ dead \in Nat /\ stolen \in Nat

(* A connection that is dead and gives no sign of it is given up within the  *)
(* time of the probe, the time for its answer and two reads; only the pauses *)
(* after keys can add to that (remote_session).                              *)
NoticedInTime ==
  link = "broken" => dead <= PingProbe + PingReply + 2 * PollTime + stolen

(* "only reconnect if the reply doesn't arrive within PING_REPLY_MS" (the    *)
(* comment in remote.c).  The session sends keys before it looks at the      *)
(* clock, so what holds is this: a TV that answers is given up only when the *)
(* session has spent so long on keys, without a look at what came in, that   *)
(* the rest was not enough for the answer.                                   *)
GivenUpForCause ==
  [][ProbeExpired /\ link = "up" => Answering + serving > PingReply]_vars
================================================================================
