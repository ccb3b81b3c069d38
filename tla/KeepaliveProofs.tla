---------------------------- MODULE KeepaliveProofs ----------------------------
(***************************************************************************)
(* For all times, whatever their proportions: how soon a dead connection   *)
(* is given up, and what it takes to give up one whose TV answers.         *)
(***************************************************************************)
EXTENDS Keepalive, TLAPS

(* How long the link can have been dead, by what the session is at.  What    *)
(* has come in before the break is read before any time passes in a read;    *)
(* after that the silence counts, and each test of the clock bounds it.      *)
Unread  == inbox # "none" => dead <= stolen
Frame   == pc = "frame" => inbox = "none" /\ dead <= waited + stolen
Silent  == ~probing /\ pc # "frame" => dead <= silence + stolen
Unasked == ~probing => /\ pc = "poll" => dead <= PingProbe + waited + stolen
                       /\ pc \in {"drain", "pace"} => dead <= PingProbe + PollTime + stolen
Asked   == probing /\ pc # "frame" =>
             /\ dead <= PingProbe + PollTime + asked + stolen
             /\ pc = "poll" => dead <= PingProbe + PollTime + PingReply + waited + stolen
             /\ pc \in {"drain", "pace"} => dead <= PingProbe + PingReply + 2 * PollTime + stolen

DeadOK == link = "broken" => NoticedInTime /\ (pc # "down" => Unread /\ Frame /\ Silent /\ Unasked /\ Asked)

(* A probe on a live link is with the TV, or something has come in since,    *)
(* and all the time it has been unread went to keys.                         *)
OwedOK == owed # Nothing => owed <= Answering

AnswerOK ==
  link = "up" /\ pc # "down" =>
    /\ inbox # "part" /\ pc # "frame"
    /\ probing => \/ owed # Nothing /\ asked = owed
                  \/ inbox # "none" /\ (pc = "poll" \/ asked <= Answering + serving)

IInv == TypeOK /\ DeadOK /\ OwedOK /\ AnswerOK

USE DEF Nothing, clocks, network, history

LEMMA TypeKept ==
  ASSUME TypeOK, [Next]_vars
  PROVE  TypeOK'
<1> USE TimeAssumption, BoundAssumption DEF TypeOK
<1>1. CASE Tick
  BY <1>1 DEF Tick, Waiting
<1>2. CASE Reconnect
  <2>1. probing' \in BOOLEAN
    BY <1>2, Zenon DEF Reconnect
  <2>2. /\ pc' = "poll" /\ waited' = 0 /\ silence' = 0 /\ asked' = 0
        /\ link' = "up" /\ inbox' = "none" /\ owed' = Nothing
        /\ pressed' = 0 /\ serving' = 0 /\ dead' = 0 /\ stolen' = 0 /\ UNCHANGED queue
    BY <1>2 DEF Reconnect
  <2> QED
    BY <2>1, <2>2
<1>3. CASE Receive
  <2>1. probing' \in BOOLEAN
    BY <1>3, Zenon DEF Receive
  <2>2. /\ pc' \in {"poll", "down"} /\ waited' = 0 /\ silence' = 0 /\ asked' = 0 /\ inbox' = "none"
        /\ UNCHANGED << queue, link, owed, pressed, serving, dead, stolen >>
    BY <1>3 DEF Receive
  <2> QED
    BY <2>1, <2>2
<1>4. CASE FrameBegins
  BY <1>4 DEF FrameBegins
<1>5. CASE FrameStalls \/ LinkFails \/ PollTimeout \/ PauseEnds \/ ProbeExpired
  BY <1>5 DEF FrameStalls, LinkFails, PollTimeout, PauseEnds, ProbeExpired
<1>6. CASE SendKey
  BY <1>6 DEF SendKey
<1>7. CASE Idle
  BY <1>7 DEF Idle, ReadAgain
<1>8. CASE SendProbe
  <2>1. probing' \in BOOLEAN
    BY <1>8, Zenon DEF SendProbe, TypeOK
  <2>2. /\ UNCHANGED << silence, queue, inbox, link, pressed, dead, stolen >>
        /\ \/ /\ pc' = "poll" /\ waited' = 0 /\ serving' = 0 /\ asked' = 0 /\ owed' \in {0, owed}
           \/ pc' = "down" /\ UNCHANGED << asked, owed, waited, serving >>
    BY <1>8 DEF SendProbe, Asks, ReadAgain
  <2> QED
    BY <2>1, <2>2
<1>9. CASE Press
  BY <1>9 DEF Press
<1>10. CASE TvSends
  BY <1>10 DEF TvSends
<1>11. CASE BreakLink
  BY <1>11 DEF BreakLink
<1>12. CASE UNCHANGED vars
  BY <1>12 DEF vars
<1> QED
  BY <1>1, <1>2, <1>3, <1>4, <1>5, <1>6, <1>7, <1>8, <1>9, <1>10, <1>11, <1>12 DEF Next, Session

LEMMA DeadKept ==
  ASSUME TypeOK, TypeOK', DeadOK, AnswerOK, [Next]_vars
  PROVE  DeadOK'
<1> USE TimeAssumption DEF TypeOK, DeadOK, NoticedInTime, Unread, Frame, Silent, Unasked, Asked
<1>1. CASE Tick
  <2>1. CASE pc = "poll"
    BY <1>1, <2>1 DEF Tick, Waiting
  <2>2. CASE pc = "frame"
    BY <1>1, <2>2 DEF Tick, Waiting
  <2>3. CASE pc = "pace"
    BY <1>1, <2>3 DEF Tick, Waiting
  <2> QED
    BY <1>1, <2>1, <2>2, <2>3 DEF Tick, Waiting
<1>2. CASE Reconnect
  BY <1>2 DEF Reconnect
<1>3. CASE Receive
  BY <1>3 DEF Receive
<1>4. CASE FrameBegins
  BY <1>4 DEF FrameBegins
<1>5. CASE FrameStalls \/ LinkFails \/ PollTimeout \/ PauseEnds \/ ProbeExpired
  BY <1>5 DEF FrameStalls, LinkFails, PollTimeout, PauseEnds, ProbeExpired
<1>6. CASE SendKey
  BY <1>6 DEF SendKey
<1>7. CASE Idle
  BY <1>7 DEF Idle, ReadAgain
<1>8. CASE SendProbe
  <2>1. CASE pc' = "down"
    BY <1>8, <2>1 DEF SendProbe, Asks, ReadAgain
  <2>2. CASE pc' # "down"
    <3>1. probing' /\ ~probing
      BY <1>8, <2>2, Zenon DEF SendProbe, Asks
    <3>2. /\ pc = "drain" /\ pc' = "poll" /\ waited' = 0 /\ asked' = 0
          /\ UNCHANGED << silence, inbox, link, dead, stolen >>
      BY <1>8, <2>2 DEF SendProbe, Asks, ReadAgain
    <3> QED
      BY <3>1, <3>2
  <2> QED
    BY <2>1, <2>2
<1>9. CASE Press
  BY <1>9 DEF Press
<1>10. CASE TvSends
  BY <1>10 DEF TvSends
<1>11. CASE BreakLink
  BY <1>11 DEF BreakLink, AnswerOK
<1>12. CASE UNCHANGED vars
  BY <1>12 DEF vars
<1> QED
  BY <1>1, <1>2, <1>3, <1>4, <1>5, <1>6, <1>7, <1>8, <1>9, <1>10, <1>11, <1>12 DEF Next, Session

LEMMA AnswerKept ==
  ASSUME TypeOK, OwedOK, AnswerOK, [Next]_vars
  PROVE  OwedOK' /\ AnswerOK'
<1> USE TimeAssumption DEF TypeOK, OwedOK, AnswerOK
<1>1. CASE Tick
  BY <1>1 DEF Tick, Waiting
<1>2. CASE Reconnect
  BY <1>2 DEF Reconnect
<1>3. CASE Receive
  BY <1>3 DEF Receive
<1>4. CASE FrameBegins
  BY <1>4 DEF FrameBegins
<1>5. CASE FrameStalls \/ LinkFails \/ PollTimeout \/ PauseEnds \/ ProbeExpired
  BY <1>5 DEF FrameStalls, LinkFails, PollTimeout, PauseEnds, ProbeExpired
<1>6. CASE SendKey
  BY <1>6 DEF SendKey
<1>7. CASE Idle
  BY <1>7 DEF Idle, ReadAgain
<1>8. CASE SendProbe
  <2>1. /\ pc = "drain" /\ UNCHANGED << inbox, link >>
        /\ \/ pc' = "poll" /\ asked' = 0 /\ owed' = (IF link = "up" THEN 0 ELSE owed)
           \/ pc' = "down" /\ UNCHANGED owed
    BY <1>8 DEF SendProbe, Asks, ReadAgain
  <2> QED
    BY <2>1
<1>9. CASE Press
  BY <1>9 DEF Press
<1>10. CASE TvSends
  BY <1>10 DEF TvSends
<1>11. CASE BreakLink
  BY <1>11 DEF BreakLink
<1>12. CASE UNCHANGED vars
  BY <1>12 DEF vars
<1> QED
  BY <1>1, <1>2, <1>3, <1>4, <1>5, <1>6, <1>7, <1>8, <1>9, <1>10, <1>11, <1>12 DEF Next, Session

LEMMA Invariant == Spec => []IInv
<1>1. Init => IInv
  <2> SUFFICES ASSUME Init PROVE IInv
    OBVIOUS
  <2>1. ~probing /\ probing \in BOOLEAN
    BY Zenon DEF Init
  <2>2. /\ pc = "poll" /\ waited = 0 /\ silence = 0 /\ asked = 0 /\ queue = 0
        /\ link = "up" /\ inbox = "none" /\ owed = Nothing
        /\ pressed = 0 /\ serving = 0 /\ dead = 0 /\ stolen = 0
    BY DEF Init
  <2> QED
    BY <2>1, <2>2, TimeAssumption, BoundAssumption DEF IInv, TypeOK, DeadOK, OwedOK, AnswerOK
<1>2. IInv /\ [Next]_vars => IInv'
  BY TypeKept, DeadKept, AnswerKept DEF IInv
<1> QED
  BY <1>1, <1>2, PTL DEF Spec

(* For all times: every variable keeps its type, the queue and the waits     *)
(* their bounds.                                                             *)
THEOREM TypeCorrect == Spec => []TypeOK
<1>1. IInv => TypeOK
  BY DEF IInv
<1> QED
  BY <1>1, Invariant, PTL

(* For all times: a dead connection is given up in time.                     *)
THEOREM DeadLinkGivenUp == Spec => []NoticedInTime
<1>1. IInv => NoticedInTime
  BY DEF IInv, DeadOK, NoticedInTime
<1> QED
  BY <1>1, Invariant, PTL

(* For all times: a TV that answers is given up only when the time that went *)
(* to keys left too little for the answer.                                   *)
THEOREM LiveLinkKept == Spec => GivenUpForCause
<1>1. IInv => (ProbeExpired /\ link = "up" => Answering + serving > PingReply)
  BY TimeAssumption DEF IInv, TypeOK, OwedOK, AnswerOK, ProbeExpired
<1>2. IInv => [ProbeExpired /\ link = "up" => Answering + serving > PingReply]_vars
  BY <1>1
<1> QED
  BY <1>2, Invariant, PTL DEF GivenUpForCause
================================================================================
