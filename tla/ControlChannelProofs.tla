------------------------ MODULE ControlChannelProofs ------------------------
(***************************************************************************)
(* Proofs about ControlChannel, for every size of the queues and every     *)
(* bound: types, the order and the accounting of commands, the honesty of  *)
(* the status, the absence of losses on a live link, and the refinement of *)
(* CommandPipe.                                                            *)
(***************************************************************************)
EXTENDS ControlChannel, SequenceTheorems, TLAPS

-----------------------------------------------------------------------------
(* The queue operations.                                                   *)

\* Appending to a queue (xQueueSend) keeps what is there and adds the last.
LEMMA PushBack ==
    ASSUME NEW s \in Seq(Nat), NEW e \in Nat
    PROVE  /\ Append(s, e) \in Seq(Nat)
           /\ Len(Append(s, e)) = Len(s) + 1
           /\ \A i \in 1 .. Len(s) : Append(s, e)[i] = s[i]
           /\ Append(s, e)[Len(s) + 1] = e
  BY AppendProperties

\* Putting an item in front (xQueueSendToFront) shifts the others by one.
LEMMA PushFront ==
    ASSUME NEW s \in Seq(Nat), NEW e \in Nat
    PROVE  /\ <<e>> \o s \in Seq(Nat)
           /\ Len(<<e>> \o s) = Len(s) + 1
           /\ (<<e>> \o s)[1] = e
           /\ \A i \in 2 .. Len(s) + 1 : (<<e>> \o s)[i] = s[i - 1]
  OBVIOUS

\* Taking the first item (xQueueReceive) shifts the others back.
LEMMA TakeFront ==
    ASSUME NEW s \in Seq(Nat), s # <<>>
    PROVE  /\ Len(s) > 0
           /\ Head(s) = s[1] /\ Head(s) \in Nat
           /\ Tail(s) \in Seq(Nat)
           /\ Len(Tail(s)) = Len(s) - 1
           /\ \A i \in 1 .. Len(s) - 1 : Tail(s)[i] = s[i + 1]
  BY HeadTailProperties

-----------------------------------------------------------------------------
(* The inductive invariant.                                                *)

\* tv_session_task holds a command exactly between taking it off the queue
\* and having sent it or put it back.
HandInv == hand # 0 <=> pc \in {"send", "requeue"}

\* A session has a connection, and waiting for one means having none; a frame
\* of the handshake comes from a TV that has got as far as sending it.
LinkInv == /\ link = "none" <=> pc \in {"connect", "closed"}
           /\ pc = "connect" => ~connected
           /\ pc = "requeue" => link = "broken"
           /\ inbox = "configure" => tv = "greeting"
           /\ inbox \in Started => tv = "active"

\* What the device holds of a channel is the run of numbers that follows the
\* settled ones: the command in hand first, then the queue.
Run(c) == /\ Settled[c] >= 0
          /\ InHand(c) = 1 => hand = Settled[c] + 1
          /\ \A i \in 1 .. Len(queue[c]) :
                 queue[c][i] = Settled[c] + InHand(c) + i
QueueInv == \A c \in Channel : Run(c)

\* What was delivered and what was lost make up the settled commands.
History(c) == /\ Got(c) \cup lost[c] = 1 .. Settled[c]
              /\ Got(c) \cap lost[c] = {}
HistoryInv == \A c \in Channel : History(c)

Ordered(c) == \A i, j \in 1 .. Len(received[c]) :
                  i < j => received[c][i] < received[c][j]

\* The conjunction that every step keeps: the accounting needs the run of
\* numbers, the run needs to know when a command is in hand, and the status
\* needs to know what a frame in flight says of the handshake.
IInv == /\ TypeOK /\ HandInv /\ LinkInv /\ StatusHonest
        /\ QueueInv /\ HistoryInv /\ OrderedDelivery

-----------------------------------------------------------------------------
(* Steps that leave the commands alone.                                    *)

QuietStep == /\ UNCHANGED <<queue, hand, accepted, received, lost>>
             /\ hand # 0 => ch' = ch

\* Only five actions touch a command.
LEMMA CommandSteps ==
    ASSUME HandInv, [Next]_vars
    PROVE  \/ \E c \in Channel : EnqueueCommand(c)
           \/ TakeCommand \/ SendOk \/ Requeue \/ Restart
           \/ QuietStep
<1> USE DEF QuietStep, history
<1>1. ASSUME NEW c \in Channel, PostCommand(c) \/ RefuseCommand(c)
      PROVE  QuietStep
  BY <1>1 DEF PostCommand, RefuseCommand, session
<1>2. CASE ConnectOk \/ ConnectFail \/ Close \/ Publish
  BY <1>2 DEF ConnectOk, ConnectFail, Close, Publish
<1>3. CASE PollTimeout
  BY <1>3 DEF PollTimeout, HandInv
<1>4. CASE ReceiveFails \/ Ignore
  BY <1>4 DEF ReceiveFails, Ignore, Receive
<1>5. ASSUME NEW m \in Answered, Answer(m) PROVE QuietStep
  BY <1>5 DEF Answer
<1>6. ASSUME NEW m \in Started, DeviceStarted(m) PROVE QuietStep
  BY <1>6 DEF DeviceStarted
<1>7. CASE QueueEmpty
  BY <1>7 DEF QueueEmpty, HandInv
<1>8. CASE SendFail \/ KeepWaiting \/ SendProbe \/ ProbeExpired
  BY <1>8 DEF SendFail, KeepWaiting, SendProbe, ProbeExpired
<1>9. ASSUME NEW m \in Frame, TvSends(m) PROVE QuietStep
  BY <1>9 DEF TvSends, session
<1>10. CASE BreakLink
  BY <1>10 DEF BreakLink, session
<1>11. CASE UNCHANGED vars
  BY <1>11 DEF vars, session
<1> QED
  BY <1>1, <1>2, <1>3, <1>4, <1>5, <1>6, <1>7, <1>8, <1>9, <1>10, <1>11
  DEF Next, HttpWorker, TvSession, Environment

-----------------------------------------------------------------------------
(* Types.                                                                  *)

\* Every step keeps the types of the queues and of the history.
LEMMA DataTypeStep ==
    ASSUME TypeOK, HandInv, QueueInv, [Next]_vars
    PROVE  DataTypeOK'
<1> USE DEF TypeOK, DataTypeOK
<1>1. ASSUME NEW c \in Channel, EnqueueCommand(c) PROVE DataTypeOK'
  <2>1. /\ queue' = [queue EXCEPT ![c] = Append(queue[c], accepted[c] + 1)]
        /\ accepted' = [accepted EXCEPT ![c] = accepted[c] + 1]
        /\ Len(queue[c]) < Cap(c)
        /\ UNCHANGED <<received, lost>>
    BY <1>1 DEF EnqueueCommand
  <2>2. /\ Append(queue[c], accepted[c] + 1) \in Seq(Nat)
        /\ Len(Append(queue[c], accepted[c] + 1)) = Len(queue[c]) + 1
    BY PushBack
  <2>3. Cap(c) \in Nat
    BY CapAssumption DEF Cap
  <2> QED
    BY <2>1, <2>2, <2>3
<1>2. CASE TakeCommand
  <2>1. /\ queue[ch] # <<>>
        /\ queue' = [queue EXCEPT ![ch] = Tail(queue[ch])]
        /\ UNCHANGED <<accepted, received, lost>>
    BY <1>2 DEF TakeCommand, history
  <2>2. ch \in Channel
    BY DEF ControlTypeOK
  <2>3. /\ Tail(queue[ch]) \in Seq(Nat)
        /\ Len(Tail(queue[ch])) <= Len(queue[ch])
    BY <2>1, <2>2, TakeFront
  <2>4. Cap(ch) \in Nat
    BY CapAssumption DEF Cap
  <2> QED
    BY <2>1, <2>2, <2>3, <2>4
<1>3. CASE SendOk
  <2>1. ch \in Channel /\ hand \in Nat
    BY DEF ControlTypeOK
  <2>2. Append(received[ch], hand) \in Seq(Nat)
    BY <2>1, PushBack
  <2>3. received' \in [Channel -> Seq(Nat)]
    BY <1>3, <2>1, <2>2 DEF SendOk
  <2>4. lost' \in [Channel -> SUBSET Nat]
    BY <1>3, <2>1 DEF SendOk
  <2> QED
    BY <1>3, <2>3, <2>4 DEF SendOk
<1>4. CASE Requeue
  <2>1. ch \in Channel /\ hand \in Nat
    BY DEF ControlTypeOK
  <2>2. /\ <<hand>> \o queue[ch] \in Seq(Nat)
        /\ Len(<<hand>> \o queue[ch]) = Len(queue[ch]) + 1
    BY <2>1, PushFront
  <2>3. Cap(ch) \in Nat
    BY CapAssumption DEF Cap
  <2>4. queue' \in [Channel -> Seq(Nat)]
    BY <1>4, <2>1, <2>2 DEF Requeue
  <2>5. ASSUME NEW c \in Channel PROVE Len(queue'[c]) <= Cap(c)
    <3>1. \/ queue' = queue
          \/ /\ queue' = [queue EXCEPT ![ch] = <<hand>> \o queue[ch]]
             /\ Len(queue[ch]) < Cap(ch)
      BY <1>4 DEF Requeue
    <3>2. \/ queue'[c] = queue[c]
          \/ c = ch /\ Len(queue'[c]) = Len(queue[c]) + 1
                    /\ Len(queue[c]) < Cap(c)
      BY <2>1, <2>2, <3>1
    <3>3. Len(queue[c]) \in Nat /\ Len(queue[c]) <= Cap(c) /\ Cap(c) \in Nat
      BY CapAssumption DEF Cap
    <3> QED
      BY <3>2, <3>3
  <2>6. lost' \in [Channel -> SUBSET Nat]
    BY <1>4, <2>1 DEF Requeue
  <2> QED
    BY <1>4, <2>4, <2>5, <2>6 DEF Requeue
<1>5. CASE Restart
  <2>1. \A c \in Channel : Settled[c] + 1 .. accepted[c] \subseteq Nat
    BY DEF QueueInv, Run, Settled, InHand
  <2>2. /\ queue' = [c \in Channel |-> <<>>]
        /\ lost' = [c \in Channel |->
                        lost[c] \cup (Settled[c] + 1 .. accepted[c])]
        /\ UNCHANGED <<accepted, received>>
    BY <1>5 DEF Restart
  <2>3. \A c \in Channel : 0 <= Cap(c)
    BY CapAssumption DEF Cap
  <2> QED
    BY <2>1, <2>2, <2>3
<1>6. CASE QuietStep
  BY <1>6 DEF QuietStep
<1> QED
  BY <1>1, <1>2, <1>3, <1>4, <1>5, <1>6, CommandSteps

\* Every step keeps the types of the status, the session and the network.
LEMMA ControlTypeStep ==
    ASSUME TypeOK, [Next]_vars
    PROVE  ControlTypeOK'
<1> USE DEF TypeOK, ControlTypeOK, PC
<1>1. ASSUME NEW c \in Channel,
             PostCommand(c) \/ EnqueueCommand(c) \/ RefuseCommand(c)
      PROVE  ControlTypeOK'
  BY <1>1 DEF PostCommand, EnqueueCommand, RefuseCommand, status, session,
              network
<1>2. CASE ConnectOk
  <2>1. backoff' \in Delay
    BY <1>2 DEF ConnectOk, Delay
  <2>2. /\ link' = "up" /\ inbox' = "none" /\ tv' = "greeting"
        /\ probing' = FALSE /\ pc' = "poll"
        /\ UNCHANGED <<connected, state, power, ch, hand, worker, faults>>
    BY <1>2 DEF ConnectOk, status
  <2> QED
    BY <2>1, <2>2
<1>3. CASE ConnectFail \/ ReceiveFails
  BY <1>3 DEF ConnectFail, ReceiveFails, status, network, Delay
<1>4. CASE Close
  BY <1>4 DEF Close, status
<1>20. CASE Publish
  <2>1. backoff' \in Delay
    BY <1>20 DEF Publish, Delay
  <2>2. /\ connected' = FALSE /\ state' = "paired" /\ power' = "unknown"
        /\ pc' = "connect"
        /\ UNCHANGED <<ch, hand, probing, worker, link, inbox, tv, faults>>
    BY <1>20 DEF Publish, network
  <2> QED
    BY <2>1, <2>2
<1>5. CASE PollTimeout
  BY <1>5 DEF PollTimeout, Channel, status, network
<1>6. CASE Ignore
  BY <1>6 DEF Ignore, Receive, status
<1>7. ASSUME NEW m \in Answered, Answer(m) PROVE ControlTypeOK'
  <2>1. tv' \in {"greeting", "configured", "active"}
    BY <1>7 DEF Answer, TvAfterAnswer
  <2> QED
    BY <1>7, <2>1 DEF Answer, Receive, status
<1>8. ASSUME NEW m \in Started, DeviceStarted(m) PROVE ControlTypeOK'
  BY <1>8 DEF DeviceStarted, Receive
<1>9. CASE TakeCommand
  <2>1. hand' \in Nat
    BY <1>9, TakeFront DEF TakeCommand, DataTypeOK
  <2> QED
    BY <1>9, <2>1 DEF TakeCommand, status, network
<1>10. CASE QueueEmpty
  BY <1>10 DEF QueueEmpty, Channel, status, network
<1>11. CASE SendOk
  BY <1>11 DEF SendOk, status, network
<1>12. CASE SendFail
  BY <1>12 DEF SendFail, status, network
<1>13. CASE Requeue
  BY <1>13 DEF Requeue, status, network
<1>14. CASE KeepWaiting \/ ProbeExpired
  BY <1>14 DEF KeepWaiting, ProbeExpired, status, network
<1>15. CASE SendProbe
  BY <1>15 DEF SendProbe, status, network
<1>16. ASSUME NEW m \in Frame, TvSends(m) PROVE ControlTypeOK'
  BY <1>16 DEF TvSends, status, session
<1>17. CASE BreakLink
  BY <1>17 DEF BreakLink, status, session
<1>18. CASE Restart
  <2>1. backoff' \in Delay /\ hand' \in Nat /\ faults' \in Nat
    BY <1>18 DEF Restart, Delay
  <2>2. /\ link' = "none" /\ inbox' = "none" /\ connected' = FALSE
        /\ state' = "paired" /\ power' = "unknown" /\ pc' = "connect"
        /\ ch' = "key" /\ probing' = FALSE /\ worker' = "idle"
        /\ tv' = "greeting"
    BY <1>18 DEF Restart
  <2> QED
    BY <2>1, <2>2 DEF Channel
<1>19. CASE UNCHANGED vars
  BY <1>19 DEF vars, status, session, network
<1> QED
  BY <1>1, <1>2, <1>3, <1>4, <1>5, <1>6, <1>7, <1>8, <1>9, <1>10, <1>11,
     <1>12, <1>13, <1>14, <1>15, <1>16, <1>17, <1>18, <1>19, <1>20
  DEF Next, HttpWorker, TvSession, Environment

-----------------------------------------------------------------------------
(* The order and the accounting of commands.                               *)

\* Settled counts what is neither queued nor in hand; it is never negative.
LEMMA SettledFacts ==
    ASSUME TypeOK, QueueInv, NEW c \in Channel
    PROVE  /\ Settled[c] = accepted[c] - Len(queue[c]) - InHand(c)
           /\ Settled[c] \in Nat
           /\ InHand(c) \in {0, 1}
           /\ Len(queue[c]) \in Nat /\ accepted[c] \in Nat
  BY DEF QueueInv, Run, TypeOK, DataTypeOK, Settled, InHand

\* Accepting a command settles none, and the run grows at its end.
LEMMA EnqueueEffect ==
    ASSUME TypeOK, QueueInv, NEW c \in Channel, EnqueueCommand(c),
           NEW d \in Channel
    PROVE  Run(d)' /\ Settled'[d] = Settled[d]
<1>1. /\ queue' = [queue EXCEPT ![c] = Append(queue[c], accepted[c] + 1)]
      /\ accepted' = [accepted EXCEPT ![c] = accepted[c] + 1]
      /\ hand' = hand /\ ch' = ch
  BY DEF EnqueueCommand, session
<1>2. InHand(d)' = InHand(d)
  BY <1>1 DEF InHand
<1>3. /\ queue \in [Channel -> Seq(Nat)] /\ accepted \in [Channel -> Nat]
      /\ hand \in Nat
  BY DEF TypeOK, DataTypeOK, ControlTypeOK
<1>4. Settled'[d] = accepted'[d] - Len(queue'[d]) - InHand(d)
  BY <1>2 DEF Settled
<1>5. CASE d # c
  <2>1. queue'[d] = queue[d] /\ accepted'[d] = accepted[d]
    BY <1>1, <1>3, <1>5
  <2> QED
    BY <1>1, <1>2, <1>4, <2>1, SettledFacts DEF QueueInv, Run
<1>6. CASE d = c
  <2>1. /\ queue'[c] = Append(queue[c], accepted[c] + 1)
        /\ accepted'[c] = accepted[c] + 1
    BY <1>1, <1>3
  <2>2. /\ Len(queue'[c]) = Len(queue[c]) + 1
        /\ \A i \in 1 .. Len(queue[c]) : queue'[c][i] = queue[c][i]
        /\ queue'[c][Len(queue[c]) + 1] = accepted[c] + 1
    BY <1>3, <2>1, PushBack
  <2>3. Settled'[c] = Settled[c]
    BY <1>4, <1>6, <2>1, <2>2, SettledFacts
  <2>4. ASSUME NEW i \in 1 .. Len(queue'[c])
        PROVE  queue'[c][i] = Settled[c] + InHand(c) + i
    <3>1. /\ Settled[c] = accepted[c] - Len(queue[c]) - InHand(c)
          /\ Settled[c] \in Nat /\ InHand(c) \in Nat /\ accepted[c] \in Nat
          /\ Len(queue[c]) \in Nat
      BY SettledFacts
    <3>2. i \in 1 .. Len(queue[c]) + 1
      BY <2>2
    <3>3. CASE i \in 1 .. Len(queue[c])
      BY <2>2, <3>3 DEF QueueInv, Run
    <3>4. CASE i = Len(queue[c]) + 1
      <4>1. queue'[c][i] = accepted[c] + 1
        BY <2>2, <3>4
      <4> QED
        BY <3>1, <3>4, <4>1
    <3>5. i \in 1 .. Len(queue[c]) \/ i = Len(queue[c]) + 1
      BY <3>1, <3>2
    <3> QED
      BY <3>3, <3>4, <3>5
  <2> QED
    BY <1>1, <1>2, <1>6, <2>3, <2>4 DEF QueueInv, Run
<1> QED
  BY <1>5, <1>6

\* Taking a command off the queue settles none: it is in hand.
LEMMA TakeEffect ==
    ASSUME TypeOK, HandInv, QueueInv, TakeCommand, NEW d \in Channel
    PROVE  Run(d)' /\ Settled'[d] = Settled[d] /\ hand' > 0
<1>1. /\ queue' = [queue EXCEPT ![ch] = Tail(queue[ch])]
      /\ hand' = Head(queue[ch]) /\ queue[ch] # <<>>
      /\ hand = 0 /\ ch' = ch /\ accepted' = accepted
  BY DEF TakeCommand, HandInv, history
<1>2. queue \in [Channel -> Seq(Nat)] /\ ch \in Channel
  BY DEF TypeOK, DataTypeOK, ControlTypeOK
<1>3. /\ Len(queue[ch]) > 0 /\ Len(Tail(queue[ch])) = Len(queue[ch]) - 1
      /\ hand' = queue[ch][1]
      /\ \A i \in 1 .. Len(queue[ch]) - 1 : Tail(queue[ch])[i] = queue[ch][i + 1]
  BY <1>1, <1>2, TakeFront
<1>4. InHand(d) = 0
  BY <1>1 DEF InHand
<1>5. Settled'[d] = accepted[d] - Len(queue'[d]) - InHand(d)'
  BY <1>1 DEF Settled
<1>6. ASSUME d # ch PROVE Run(d)' /\ Settled'[d] = Settled[d]
  <2>1. queue'[d] = queue[d] /\ InHand(d)' = 0
    BY <1>1, <1>2, <1>6 DEF InHand
  <2>2. Settled'[d] = Settled[d]
    BY <1>4, <1>5, <2>1, SettledFacts
  <2> QED
    BY <1>4, <2>1, <2>2 DEF QueueInv, Run
<1>7. hand' > 0
  <2>1. hand' = Settled[ch] + InHand(ch) + 1
    BY <1>2, <1>3 DEF QueueInv, Run
  <2> QED
    BY <1>2, <2>1, SettledFacts
<1>8. ASSUME d = ch PROVE Run(d)' /\ Settled'[d] = Settled[d]
  <2>1. /\ queue'[d] = Tail(queue[d])
        /\ Len(queue'[d]) = Len(queue[d]) - 1
        /\ \A i \in 1 .. Len(queue[d]) - 1 : queue'[d][i] = queue[d][i + 1]
    BY <1>1, <1>2, <1>3, <1>8
  <2>2. hand' = Settled[d] + 1
    BY <1>3, <1>4, <1>8, SettledFacts DEF QueueInv, Run
  <2>3. InHand(d)' = 1
    BY <1>1, <1>7, <1>8 DEF InHand
  <2>4. /\ Settled[d] = accepted[d] - Len(queue[d])
        /\ Settled[d] \in Nat /\ Len(queue[d]) \in Nat /\ accepted[d] \in Nat
    BY <1>4, SettledFacts
  <2>5. Settled'[d] = Settled[d]
    BY <1>5, <2>1, <2>3, <2>4
  <2>6. ASSUME NEW i \in 1 .. Len(queue'[d])
        PROVE  queue'[d][i] = Settled[d] + 1 + i
    <3>1. i \in 1 .. Len(queue[d]) - 1 /\ i + 1 \in 1 .. Len(queue[d])
      BY <2>1, <2>4
    <3>2. queue[d][i + 1] = Settled[d] + (i + 1)
      BY <1>4, <2>4, <3>1 DEF QueueInv, Run
    <3> QED
      BY <2>1, <2>4, <3>1, <3>2
  <2> QED
    BY <2>2, <2>3, <2>4, <2>5, <2>6 DEF Run
<1> QED
  BY <1>6, <1>7, <1>8

\* When the command in hand is let go, it was the oldest of its channel and
\* is now the last settled one.
LEMMA LetGoEffect ==
    ASSUME TypeOK, HandInv, QueueInv, hand # 0, hand' = 0,
           UNCHANGED <<queue, ch, accepted>>, NEW d \in Channel
    PROVE  /\ hand = Settled[ch] + 1
           /\ Run(d)'
           /\ Settled'[d] = IF d = ch THEN Settled[d] + 1 ELSE Settled[d]
<1>1. ch \in Channel
  BY DEF TypeOK, ControlTypeOK
<1>2. InHand(d) = (IF d = ch THEN 1 ELSE 0) /\ InHand(d)' = 0
  BY DEF InHand
<1>3. Settled'[d] = accepted[d] - Len(queue[d])
  BY <1>2, SettledFacts DEF Settled
<1>4. Settled'[d] = IF d = ch THEN Settled[d] + 1 ELSE Settled[d]
  BY <1>2, <1>3, SettledFacts
<1>5. hand = Settled[ch] + 1
  BY <1>1 DEF QueueInv, Run, InHand
<1>6. \A i \in 1 .. Len(queue[d]) : queue[d][i] = Settled'[d] + i
  BY <1>2, <1>4, SettledFacts DEF QueueInv, Run
<1> QED
  BY <1>2, <1>4, <1>5, <1>6, SettledFacts DEF QueueInv, Run

\* Putting the command in hand back settles none.
LEMMA PutBackEffect ==
    ASSUME TypeOK, HandInv, QueueInv, hand # 0, hand' = 0,
           queue' = [queue EXCEPT ![ch] = <<hand>> \o queue[ch]],
           UNCHANGED <<ch, accepted>>, NEW d \in Channel
    PROVE  Run(d)' /\ Settled'[d] = Settled[d]
<1>1. /\ queue \in [Channel -> Seq(Nat)] /\ ch \in Channel /\ hand \in Nat
  BY DEF TypeOK, DataTypeOK, ControlTypeOK
<1>2. InHand(d) = (IF d = ch THEN 1 ELSE 0) /\ InHand(d)' = 0
  BY DEF InHand
<1>3. Settled'[d] = accepted[d] - Len(queue'[d])
  BY <1>1, <1>2, SettledFacts, PushFront DEF Settled
<1>4. CASE d # ch
  <2>1. queue'[d] = queue[d]
    BY <1>1, <1>4
  <2> QED
    BY <1>2, <1>3, <1>4, <2>1, SettledFacts DEF QueueInv, Run
<1>5. CASE d = ch
  <2>1. /\ Len(queue'[d]) = Len(queue[d]) + 1
        /\ queue'[d][1] = hand
        /\ \A i \in 2 .. Len(queue[d]) + 1 : queue'[d][i] = queue[d][i - 1]
    BY <1>1, <1>5, PushFront
  <2>2. hand = Settled[d] + 1
    BY <1>2, <1>5 DEF QueueInv, Run
  <2>3. /\ Settled[d] = accepted[d] - Len(queue[d]) - 1
        /\ Settled[d] \in Nat /\ Len(queue[d]) \in Nat /\ accepted[d] \in Nat
    BY <1>2, <1>5, SettledFacts
  <2>4. Settled'[d] = Settled[d]
    BY <1>3, <2>1, <2>3
  <2>5. ASSUME NEW i \in 1 .. Len(queue'[d])
        PROVE  queue'[d][i] = Settled[d] + i
    <3>1. CASE i = 1
      BY <2>1, <2>2, <3>1
    <3>2. CASE i # 1
      <4>1. i \in 2 .. Len(queue[d]) + 1 /\ i - 1 \in 1 .. Len(queue[d])
        BY <2>1, <2>3, <3>2
      <4>2. queue[d][i - 1] = Settled[d] + 1 + (i - 1)
        BY <1>2, <1>5, <4>1 DEF QueueInv, Run
      <4>3. queue'[d][i] = queue[d][i - 1]
        BY <2>1, <4>1
      <4>4. i \in Int
        BY <2>1, <2>3
      <4>5. Settled[d] + 1 + (i - 1) = Settled[d] + i
        BY <2>3, <4>4
      <4> QED
        BY <4>2, <4>3, <4>5
    <3> QED
      BY <3>1, <3>2
  <2> QED
    BY <1>2, <2>3, <2>4, <2>5 DEF Run
<1> QED
  BY <1>4, <1>5

\* A quiet step moves nothing.
LEMMA QuietEffect ==
    ASSUME TypeOK, QueueInv, QuietStep, NEW d \in Channel
    PROVE  Run(d)' /\ Settled'[d] = Settled[d]
<1>1. InHand(d)' = InHand(d)
  BY DEF QuietStep, InHand
<1>2. Settled'[d] = Settled[d]
  BY <1>1 DEF QuietStep, Settled
<1> QED
  BY <1>1, <1>2 DEF QuietStep, QueueInv, Run

\* A restart settles everything.
LEMMA RestartEffect ==
    ASSUME TypeOK, Restart, NEW d \in Channel
    PROVE  Run(d)' /\ Settled'[d] = accepted[d]
<1>1. queue'[d] = <<>> /\ hand' = 0 /\ accepted' = accepted
  BY DEF Restart
<1>2. InHand(d)' = 0
  BY <1>1 DEF InHand
<1>3. accepted[d] \in Nat
  BY DEF TypeOK, DataTypeOK
<1>4. Settled'[d] = accepted[d]
  BY <1>1, <1>2, <1>3 DEF Settled
<1> QED
  BY <1>1, <1>2, <1>3, <1>4 DEF Run

\* Every step keeps the device's commands a run of consecutive numbers.
LEMMA QueueStep ==
    ASSUME TypeOK, HandInv, QueueInv, [Next]_vars
    PROVE  QueueInv'
<1> SUFFICES ASSUME NEW d \in Channel PROVE Run(d)'
  BY DEF QueueInv
<1>1. ASSUME NEW c \in Channel, EnqueueCommand(c) PROVE Run(d)'
  BY <1>1, EnqueueEffect
<1>2. CASE TakeCommand
  BY <1>2, TakeEffect
<1>3. CASE SendOk
  BY <1>3, LetGoEffect DEF SendOk, HandInv
<1>4. CASE Requeue
  <2>1. hand # 0 /\ hand' = 0 /\ UNCHANGED <<ch, accepted>>
    BY <1>4 DEF Requeue, HandInv
  <2>2. \/ queue' = queue
        \/ queue' = [queue EXCEPT ![ch] = <<hand>> \o queue[ch]]
    BY <1>4 DEF Requeue
  <2> QED
    BY <2>1, <2>2, LetGoEffect, PutBackEffect
<1>5. CASE Restart
  BY <1>5, RestartEffect
<1>6. CASE QuietStep
  BY <1>6, QuietEffect
<1> QED
  BY <1>1, <1>2, <1>3, <1>4, <1>5, <1>6, CommandSteps

\* Where nothing is delivered, lost or settled, the history stands.
LEMMA SameHistory ==
    ASSUME NEW d \in Channel, History(d), Ordered(d),
           received'[d] = received[d], lost'[d] = lost[d],
           Settled'[d] = Settled[d]
    PROVE  History(d)' /\ Ordered(d)'
BY DEF History, Ordered, Got

\* The next settled command joins those that were delivered, at the end.
LEMMA Delivered ==
    ASSUME NEW d \in Channel, TypeOK, QueueInv, History(d), Ordered(d),
           received'[d] = Append(received[d], Settled[d] + 1),
           lost'[d] = lost[d], Settled'[d] = Settled[d] + 1
    PROVE  History(d)' /\ Ordered(d)'
<1> DEFINE n == Settled[d] + 1
<1>1. received[d] \in Seq(Nat) /\ n \in Nat /\ Settled[d] \in Nat
  BY SettledFacts DEF TypeOK, DataTypeOK
<1>2. /\ Len(received'[d]) = Len(received[d]) + 1
      /\ \A i \in 1 .. Len(received[d]) : received'[d][i] = received[d][i]
      /\ received'[d][Len(received[d]) + 1] = n
  BY <1>1, PushBack
<1>3. Len(received[d]) \in Nat
  BY <1>1
<1>4. Got(d)' = Got(d) \cup {n}
  BY <1>2, <1>3 DEF Got
<1>5. Got(d) \subseteq 1 .. Settled[d] /\ lost[d] \subseteq 1 .. Settled[d]
  BY DEF History
<1>6. History(d)'
  <2>1. n \notin lost[d]
    BY <1>1, <1>5
  <2>2. 1 .. Settled[d] + 1 = (1 .. Settled[d]) \cup {n}
    BY <1>1
  <2> QED
    BY <1>4, <2>1, <2>2 DEF History
<1>7. ASSUME NEW i \in 1 .. Len(received'[d]),
             NEW j \in 1 .. Len(received'[d]), i < j
      PROVE  received'[d][i] < received'[d][j]
  <2>1. i \in 1 .. Len(received[d]) /\ received'[d][i] = received[d][i]
    BY <1>2, <1>3, <1>7
  <2>2. CASE j \in 1 .. Len(received[d])
    BY <1>2, <1>7, <2>1, <2>2 DEF Ordered
  <2>3. CASE j = Len(received[d]) + 1
    <3>1. received[d][i] \in Got(d)
      BY <2>1 DEF Got
    <3>2. received[d][i] <= Settled[d] /\ received[d][i] \in Int
      BY <1>1, <1>5, <3>1
    <3> QED
      BY <1>1, <1>2, <2>1, <2>3, <3>2
  <2>4. j \in 1 .. Len(received[d]) \/ j = Len(received[d]) + 1
    BY <1>2, <1>3
  <2> QED
    BY <2>2, <2>3, <2>4
<1> QED
  BY <1>6, <1>7 DEF Ordered

\* Settled commands that are not delivered join those that were lost.
LEMMA Lost ==
    ASSUME NEW d \in Channel, TypeOK, QueueInv, History(d), Ordered(d),
           received'[d] = received[d], NEW n \in Nat, Settled[d] <= n,
           lost'[d] = lost[d] \cup (Settled[d] + 1 .. n), Settled'[d] = n
    PROVE  History(d)' /\ Ordered(d)'
<1>1. Settled[d] \in Nat
  BY SettledFacts
<1>2. Got(d)' = Got(d) /\ Ordered(d)'
  BY DEF Got, Ordered
<1>3. 1 .. n = (1 .. Settled[d]) \cup (Settled[d] + 1 .. n)
  BY <1>1
<1>4. Got(d) \cap (Settled[d] + 1 .. n) = {}
  <2>1. Got(d) \subseteq 1 .. Settled[d]
    BY DEF History
  <2> QED
    BY <1>1, <2>1
<1> QED
  BY <1>2, <1>3, <1>4 DEF History

\* Every step keeps the history complete, disjoint and in order.
LEMMA HistoryStep ==
    ASSUME TypeOK, HandInv, QueueInv, HistoryInv, OrderedDelivery, [Next]_vars
    PROVE  HistoryInv' /\ OrderedDelivery'
<1> SUFFICES ASSUME NEW d \in Channel PROVE History(d)' /\ Ordered(d)'
  BY DEF HistoryInv, OrderedDelivery, Ordered
<1>a. History(d) /\ Ordered(d)
  BY DEF HistoryInv, OrderedDelivery, Ordered
<1>b. /\ received \in [Channel -> Seq(Nat)] /\ lost \in [Channel -> SUBSET Nat]
      /\ ch \in Channel
  BY DEF TypeOK, DataTypeOK, ControlTypeOK
<1>1. ASSUME NEW c \in Channel, EnqueueCommand(c)
      PROVE  History(d)' /\ Ordered(d)'
  BY <1>1, <1>a, EnqueueEffect, SameHistory DEF EnqueueCommand
<1>2. CASE TakeCommand
  BY <1>2, <1>a, TakeEffect, SameHistory DEF TakeCommand, history
<1>3. ASSUME hand # 0, hand' = 0, UNCHANGED <<queue, ch, accepted>>,
             \/ /\ received' = [received EXCEPT ![ch] = Append(@, hand)]
                /\ UNCHANGED lost
             \/ /\ lost' = [lost EXCEPT ![ch] = @ \cup {hand}]
                /\ UNCHANGED received
      PROVE  History(d)' /\ Ordered(d)'
  <2>1. /\ hand = Settled[ch] + 1
        /\ Settled'[d] = IF d = ch THEN Settled[d] + 1 ELSE Settled[d]
    BY <1>3, LetGoEffect
  <2>2. CASE d # ch
    <3>1. /\ received'[d] = received[d] /\ lost'[d] = lost[d]
          /\ Settled'[d] = Settled[d]
      BY <1>3, <1>b, <2>1, <2>2
    <3> QED
      BY <1>a, <3>1, SameHistory
  <2>3. CASE d = ch
    <3>1. Settled'[d] = Settled[d] + 1 /\ hand = Settled[d] + 1
      BY <2>1, <2>3
    <3>2. CASE received'[d] = Append(received[d], hand) /\ lost'[d] = lost[d]
      BY <1>a, <3>1, <3>2, Delivered
    <3>3. CASE lost'[d] = lost[d] \cup {hand} /\ received'[d] = received[d]
      <4>1. /\ Settled[d] + 1 \in Nat /\ Settled[d] <= Settled[d] + 1
            /\ {hand} = Settled[d] + 1 .. Settled[d] + 1
        BY <3>1, SettledFacts
      <4> QED
        BY <1>a, <3>1, <3>3, <4>1, Lost
    <3> QED
      BY <1>3, <1>b, <2>3, <3>2, <3>3
  <2> QED
    BY <2>2, <2>3
<1>4. CASE SendOk
  BY <1>3, <1>4 DEF SendOk, HandInv
<1>5. CASE Requeue
  <2>1. hand # 0 /\ hand' = 0 /\ UNCHANGED <<ch, accepted, received>>
    BY <1>5 DEF Requeue, HandInv
  <2>2. \/ /\ queue' = [queue EXCEPT ![ch] = <<hand>> \o queue[ch]]
           /\ UNCHANGED lost
        \/ /\ lost' = [lost EXCEPT ![ch] = @ \cup {hand}]
           /\ UNCHANGED queue
    BY <1>5 DEF Requeue
  <2>3. CASE /\ queue' = [queue EXCEPT ![ch] = <<hand>> \o queue[ch]]
             /\ UNCHANGED lost
    BY <1>a, <2>1, <2>3, PutBackEffect, SameHistory
  <2>4. CASE /\ lost' = [lost EXCEPT ![ch] = @ \cup {hand}]
             /\ UNCHANGED queue
    BY <1>3, <2>1, <2>4
  <2> QED
    BY <2>2, <2>3, <2>4
<1>6. CASE Restart
  <2>1. Settled'[d] = accepted[d]
    BY <1>6, RestartEffect
  <2>2. /\ lost'[d] = lost[d] \cup (Settled[d] + 1 .. accepted[d])
        /\ received'[d] = received[d]
    BY <1>6 DEF Restart
  <2>3. accepted[d] \in Nat /\ Settled[d] <= accepted[d]
    BY SettledFacts
  <2> QED
    BY <1>a, <2>1, <2>2, <2>3, Lost
<1>7. CASE QuietStep
  BY <1>7, <1>a, QuietEffect, SameHistory DEF QuietStep
<1> QED
  BY <1>1, <1>2, <1>4, <1>5, <1>6, <1>7, CommandSteps

-----------------------------------------------------------------------------
(* The session, the connection and the published status.                   *)

\* Every step keeps the session, the connection and the status in agreement.
LEMMA SessionStep ==
    ASSUME TypeOK, HandInv, LinkInv, StatusHonest, QueueInv, [Next]_vars
    PROVE  HandInv' /\ LinkInv' /\ StatusHonest'
<1> USE DEF HandInv, LinkInv, StatusHonest, Started
<1>1. CASE HttpWorker
  BY <1>1 DEF HttpWorker, PostCommand, EnqueueCommand, RefuseCommand, status,
              session, network, history
<1>2. CASE ConnectOk
  BY <1>2 DEF ConnectOk, status
<1>3. CASE ConnectFail
  BY <1>3 DEF ConnectFail, status, network
<1>4. CASE Close
  BY <1>4 DEF Close, status
<1>20. CASE Publish
  BY <1>20 DEF Publish, network
<1>5. CASE PollTimeout
  BY <1>5 DEF PollTimeout, status, network
<1>6. CASE ReceiveFails
  BY <1>6 DEF ReceiveFails, status, network
<1>7. CASE Ignore
  BY <1>7 DEF Ignore, Receive, status
<1>8. ASSUME NEW m \in Answered, Answer(m)
      PROVE  HandInv' /\ LinkInv' /\ StatusHonest'
  <2>1. tv = "active" => tv' = "active"
    BY <1>8 DEF Answer, Receive, TvAfterAnswer
  <2> QED
    BY <1>8, <2>1 DEF Answer, Receive, status
<1>9. ASSUME NEW m \in Started, DeviceStarted(m)
      PROVE  HandInv' /\ LinkInv' /\ StatusHonest'
  BY <1>9 DEF DeviceStarted, Receive
<1>10. CASE TakeCommand
  <2>1. /\ queue[ch] \in Seq(Nat) /\ queue[ch] # <<>> /\ ch \in Channel
        /\ hand' = Head(queue[ch])
    BY <1>10 DEF TakeCommand, TypeOK, ControlTypeOK, DataTypeOK
  <2>2. /\ Len(queue[ch]) > 0
        /\ hand' = queue[ch][1]
    BY <2>1, TakeFront
  <2>3. hand' > 0
    BY <1>10, <2>1, TakeEffect
  <2>4. hand' # 0
    BY <2>3
  <2> QED
    BY <1>10, <2>4 DEF TakeCommand, status, network
<1>11. CASE QueueEmpty
  BY <1>11 DEF QueueEmpty, status, network
<1>12. CASE SendOk
  BY <1>12 DEF SendOk, status, network
<1>13. CASE SendFail
  BY <1>13 DEF SendFail, status, network
<1>14. CASE Requeue
  BY <1>14 DEF Requeue, status, network
<1>15. CASE KeepWaiting \/ SendProbe \/ ProbeExpired
  BY <1>15 DEF KeepWaiting, SendProbe, ProbeExpired, status, network
<1>16. ASSUME NEW m \in Frame, TvSends(m)
       PROVE  HandInv' /\ LinkInv' /\ StatusHonest'
  <2>1. /\ m = "configure" => tv = "greeting"
        /\ m \in Started => tv = "active"
    BY <1>16 DEF TvSends, Handshake, TypeOK, ControlTypeOK
  <2> QED
    BY <1>16, <2>1 DEF TvSends, status, session
<1>17. CASE BreakLink
  BY <1>17 DEF BreakLink, status, session
<1>18. CASE Restart
  BY <1>18 DEF Restart
<1>19. CASE UNCHANGED vars
  BY <1>19 DEF vars, status, session, network
<1> QED
  BY <1>1, <1>2, <1>3, <1>4, <1>5, <1>6, <1>7, <1>8, <1>9, <1>10, <1>11,
     <1>12, <1>13, <1>14, <1>15, <1>16, <1>17, <1>18, <1>19, <1>20
  DEF Next, TvSession, Environment

-----------------------------------------------------------------------------
(* The theorems.                                                           *)

\* The invariant holds at boot and every step keeps it.
LEMMA InductiveInit == Init => IInv
<1> SUFFICES ASSUME Init PROVE IInv
  OBVIOUS
<1>1. /\ queue = [c \in Channel |-> <<>>] /\ hand = 0 /\ pc = "connect"
      /\ accepted = [c \in Channel |-> 0]
      /\ received = [c \in Channel |-> <<>>] /\ lost = [c \in Channel |-> {}]
  BY DEF Init
<1>2. ControlTypeOK
  <2>1. backoff \in Delay /\ hand \in Nat /\ faults \in Nat
    BY DEF Init, Delay
  <2> QED
    BY <2>1 DEF Init, ControlTypeOK, PC, Channel
<1>3. DataTypeOK
  BY <1>1, CapAssumption DEF DataTypeOK, Cap
<1>4. HandInv /\ LinkInv /\ StatusHonest
  BY DEF Init, HandInv, LinkInv, StatusHonest, Started
<1>5. ASSUME NEW c \in Channel
      PROVE  InHand(c) = 0 /\ Settled[c] = 0 /\ Len(queue[c]) = 0
             /\ Len(received[c]) = 0 /\ Got(c) = {} /\ lost[c] = {}
  BY <1>1 DEF InHand, Settled, Got
<1>6. QueueInv
  BY <1>5 DEF QueueInv, Run
<1>7. HistoryInv
  BY <1>5 DEF HistoryInv, History
<1>8. OrderedDelivery
  BY <1>5 DEF OrderedDelivery
<1> QED
  BY <1>2, <1>3, <1>4, <1>6, <1>7, <1>8 DEF IInv, TypeOK

\* Every step keeps the whole invariant.
LEMMA InductiveStep == IInv /\ [Next]_vars => IInv'
  BY DataTypeStep, ControlTypeStep, SessionStep, QueueStep, HistoryStep
  DEF IInv, TypeOK

\* The inductive invariant holds in every reachable state.
THEOREM Invariance == Spec => []IInv
  BY InductiveInit, InductiveStep, PTL DEF Spec

\* The type invariant, for queues of any size.
THEOREM TypeCorrect == Spec => []TypeOK
  BY Invariance, PTL DEF IInv

\* The status is honest: connected means this connection went through its
\* handshake.
THEOREM HonestStatus == Spec => []StatusHonest
  BY Invariance, PTL DEF IInv

\* The TV gets the commands of each channel in order and at most once.
THEOREM InOrder == Spec => []OrderedDelivery
  BY Invariance, PTL DEF IInv

\* What the device holds of a channel is exactly what is not settled.
LEMMA HeldIsPending ==
    ASSUME TypeOK, QueueInv, NEW c \in Channel
    PROVE  Held(c) = Settled[c] + 1 .. accepted[c]
<1>1. /\ Settled[c] = accepted[c] - Len(queue[c]) - InHand(c)
      /\ Settled[c] \in Nat /\ accepted[c] \in Nat /\ Len(queue[c]) \in Nat
      /\ InHand(c) \in {0, 1}
  BY SettledFacts
<1>2. /\ InHand(c) = 1 => hand = Settled[c] + 1
      /\ \A i \in 1 .. Len(queue[c]) :
             queue[c][i] = Settled[c] + InHand(c) + i
  BY DEF QueueInv, Run
<1>3. ASSUME NEW n \in Held(c) PROVE n \in Settled[c] + 1 .. accepted[c]
  <2>1. CASE \E i \in 1 .. Len(queue[c]) : n = queue[c][i]
    BY <1>1, <1>2, <2>1
  <2>2. CASE InHand(c) = 1 /\ n = hand
    BY <1>1, <1>2, <2>2
  <2> QED
    BY <2>1, <2>2 DEF Held
<1>4. ASSUME NEW n \in Settled[c] + 1 .. accepted[c] PROVE n \in Held(c)
  <2>1. CASE InHand(c) = 1 /\ n = Settled[c] + 1
    BY <1>2, <2>1 DEF Held
  <2>2. CASE ~(InHand(c) = 1 /\ n = Settled[c] + 1)
    <3> DEFINE i == n - Settled[c] - InHand(c)
    <3>1. n \in Int /\ Settled[c] + 1 <= n /\ n <= accepted[c]
      BY <1>1
    <3>2. Settled[c] + InHand(c) + 1 <= n
      <4>1. CASE InHand(c) = 0
        BY <1>1, <3>1, <4>1
      <4>2. CASE InHand(c) = 1
        <5>1. n # Settled[c] + 1
          BY <2>2, <4>2
        <5> QED
          BY <1>1, <3>1, <4>2, <5>1
      <4> QED
        BY <1>1, <4>1, <4>2
    <3> DEFINE s == Settled[c]
               h == InHand(c)
               k == Len(queue[c])
               a == accepted[c]
    <3>3. /\ s \in Nat /\ h \in {0, 1} /\ k \in Nat /\ a \in Nat /\ n \in Int
          /\ s = a - k - h /\ s + h + 1 <= n /\ n <= a
      BY <1>1, <3>1, <3>2
    <3>4. n - s - h \in 1 .. k /\ n = s + h + (n - s - h)
      <4> HIDE DEF s, h, k, a
      <4> QED
        BY <3>3
    <3>5. i \in 1 .. Len(queue[c]) /\ n = Settled[c] + InHand(c) + i
      BY <3>4
    <3>6. n = queue[c][i]
      BY <1>2, <3>5
    <3> QED
      BY <3>5, <3>6 DEF Held
  <2> QED
    BY <2>1, <2>2
<1> QED
  BY <1>3, <1>4

\* Every accepted command is delivered, lost or held, and only one of these.
THEOREM NothingUnaccounted == Spec => []Accounted
<1>1. IInv => Accounted
  <2> SUFFICES ASSUME IInv, NEW c \in Channel
               PROVE  /\ 1 .. accepted[c] = Held(c) \cup Got(c) \cup lost[c]
                      /\ Held(c) \cap (Got(c) \cup lost[c]) = {}
                      /\ Got(c) \cap lost[c] = {}
    BY DEF Accounted
  <2>1. Held(c) = Settled[c] + 1 .. accepted[c]
    BY HeldIsPending DEF IInv
  <2>2. Got(c) \cup lost[c] = 1 .. Settled[c] /\ Got(c) \cap lost[c] = {}
    BY DEF IInv, HistoryInv, History
  <2>3. Settled[c] \in Nat /\ accepted[c] \in Nat /\ Settled[c] <= accepted[c]
    BY SettledFacts DEF IInv
  <2> QED
    BY <2>1, <2>2, <2>3
<1> QED
  BY <1>1, Invariance, PTL

\* On a link that is not broken, only a restart loses an accepted command.
THEOREM NoLoss == Spec => NoLossOnLiveLink
<1>1. IInv /\ [Next]_vars =>
          [link # "broken" /\ faults' = faults => lost' = lost]_vars
  <2> SUFFICES ASSUME IInv, [Next]_vars, link # "broken", faults' = faults
               PROVE  lost' = lost
    OBVIOUS
  <2>1. HandInv /\ LinkInv /\ TypeOK
    BY DEF IInv
  <2>2. CASE \E c \in Channel : EnqueueCommand(c)
    BY <2>2 DEF EnqueueCommand
  <2>3. CASE TakeCommand
    BY <2>3 DEF TakeCommand, history
  <2>4. CASE SendOk
    BY <2>4 DEF SendOk
  <2>5. CASE Requeue
    BY <2>1, <2>5 DEF Requeue, LinkInv
  <2>6. CASE Restart
    BY <2>1, <2>6 DEF Restart, TypeOK, ControlTypeOK
  <2>7. CASE QuietStep
    BY <2>7 DEF QuietStep
  <2> QED
    BY <2>1, <2>2, <2>3, <2>4, <2>5, <2>6, <2>7, CommandSteps
<1> QED
  BY <1>1, Invariance, PTL DEF Spec, NoLossOnLiveLink

-----------------------------------------------------------------------------
(* The refinement.                                                         *)

\* Settled is a function; two of them that agree everywhere are equal.
LEMMA SettledAt ==
    ASSUME NEW e, NEW c \in Channel,
           \A d \in Channel : Settled'[d] = IF d = c THEN e ELSE Settled[d]
    PROVE  Settled' = [Settled EXCEPT ![c] = e]
BY DEF Settled

\* A step that changes Settled nowhere leaves the function as it is.
LEMMA SettledSame ==
    ASSUME \A d \in Channel : Settled'[d] = Settled[d]
    PROVE  Settled' = Settled
BY DEF Settled

\* Every step of the control channel is a step of the pipe or changes
\* nothing the pipe can see.
LEMMA PipeStep ==
    ASSUME IInv, [Next]_vars
    PROVE  [Pipe!Next]_(Pipe!vars)
<1> USE DEF IInv
<1>0. ch \in Channel /\ Pipe!Channel = Channel
  BY DEF TypeOK, ControlTypeOK, Channel, Pipe!Channel
<1>1. ASSUME NEW c \in Channel, EnqueueCommand(c) PROVE Pipe!Accept(c)
  <2>1. Settled' = Settled
    BY <1>1, EnqueueEffect, SettledSame
  <2>2. accepted[c] - Settled[c] <= Pipe!Cap(c)
    <3>1. Len(queue[c]) < Cap(c) /\ Cap(c) \in Nat /\ Pipe!Cap(c) = Cap(c)
      BY <1>1, CapAssumption DEF EnqueueCommand, Cap, Pipe!Cap
    <3> QED
      BY <3>1, SettledFacts
  <2> QED
    BY <1>1, <2>1, <2>2 DEF EnqueueCommand, Pipe!Accept
<1>2. CASE TakeCommand
  <2>1. Settled' = Settled
    BY <1>2, TakeEffect, SettledSame
  <2> QED
    BY <1>2, <2>1 DEF TakeCommand, history, Pipe!vars
<1>3. ASSUME hand # 0, hand' = 0, UNCHANGED <<queue, ch, accepted>>
      PROVE  /\ hand = Settled[ch] + 1
             /\ Pipe!Settle(ch)
  <2>1. /\ hand = Settled[ch] + 1
        /\ \A d \in Channel :
               Settled'[d] = IF d = ch THEN Settled[ch] + 1 ELSE Settled[d]
    BY <1>0, <1>3, LetGoEffect
  <2>2. Settled' = [Settled EXCEPT ![ch] = Settled[ch] + 1]
    BY <1>0, <2>1, SettledAt
  <2>3. Settled[ch] < accepted[ch]
    <3>1. InHand(ch) = 1
      BY <1>3 DEF InHand
    <3> QED
      BY <1>0, <3>1, SettledFacts
  <2> QED
    BY <1>3, <2>1, <2>2, <2>3 DEF Pipe!Settle
<1>4. CASE SendOk
  <2>1. hand = Settled[ch] + 1 /\ Pipe!Settle(ch)
    BY <1>3, <1>4 DEF SendOk, HandInv
  <2>2. Pipe!Deliver(ch) \/ Pipe!Lose(ch)
    BY <1>4, <2>1 DEF SendOk, Pipe!Deliver, Pipe!Lose
  <2> QED
    BY <1>0, <2>2 DEF Pipe!Next
<1>5. CASE Requeue
  <2>1. hand # 0 /\ hand' = 0 /\ UNCHANGED <<ch, accepted, received>>
    BY <1>5 DEF Requeue, HandInv
  <2>2. \/ /\ queue' = [queue EXCEPT ![ch] = <<hand>> \o queue[ch]]
           /\ UNCHANGED lost
        \/ /\ lost' = [lost EXCEPT ![ch] = @ \cup {hand}]
           /\ UNCHANGED queue
    BY <1>5 DEF Requeue
  <2>3. CASE /\ queue' = [queue EXCEPT ![ch] = <<hand>> \o queue[ch]]
             /\ UNCHANGED lost
    <3>1. Settled' = Settled
      BY <2>1, <2>3, PutBackEffect, SettledSame
    <3> QED
      BY <2>1, <2>3, <3>1 DEF Pipe!vars
  <2>4. CASE /\ lost' = [lost EXCEPT ![ch] = @ \cup {hand}]
             /\ UNCHANGED queue
    <3>1. Pipe!Lose(ch)
      BY <1>3, <2>1, <2>4 DEF Pipe!Lose
    <3> QED
      BY <1>0, <3>1 DEF Pipe!Next
  <2> QED
    BY <2>2, <2>3, <2>4
<1>6. CASE Restart
  <2>1. \A d \in Channel : Settled'[d] = accepted[d]
    BY <1>6, RestartEffect
  <2>2. accepted \in [Channel -> Nat]
    BY DEF TypeOK, DataTypeOK
  <2>3. Settled' = accepted
    BY <2>1, <2>2 DEF Settled
  <2> QED
    BY <1>0, <1>6, <2>3 DEF Restart, Pipe!Next, Pipe!Reset, Pipe!Pending
<1>7. CASE QuietStep
  <2>1. Settled' = Settled
    BY <1>7, QuietEffect, SettledSame
  <2> QED
    BY <1>7, <2>1 DEF QuietStep, Pipe!vars
<1> QED
  BY <1>0, <1>1, <1>2, <1>4, <1>5, <1>6, <1>7, CommandSteps DEF Pipe!Next

\* The control channel implements the pipe: commands settle one at a time, in
\* order, and never more than a queue and one are outstanding.
THEOREM Implementation == Spec => ImplementsPipe
<1>1. Init => Pipe!Init
  BY DEF Init, Pipe!Init, Settled, InHand, Channel, Pipe!Channel
<1>2. IInv /\ [Next]_vars => [Pipe!Next]_(Pipe!vars)
  BY PipeStep
<1> QED
  BY <1>1, <1>2, Invariance, PTL DEF Spec, ImplementsPipe, Pipe!Spec
=============================================================================
