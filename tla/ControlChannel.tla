---------------------------- MODULE ControlChannel ----------------------------
(***************************************************************************)
(* The control channel of a paired device: the control loop of             *)
(* tv_session_task (main.c), the session it runs over TLS (remote.c) and   *)
(* the two request handlers that feed it, POST /api/key and POST /api/app  *)
(* (webserver.c), which run on the single worker task of the HTTP server.  *)
(*                                                                         *)
(* The two tasks share the status words of g_atv_status and the queues     *)
(* g_key_queue and g_app_queue.  Each queue call is atomic; everything     *)
(* between two such calls may interleave with the other task.              *)
(*                                                                         *)
(* The TV and the network are the environment: the TV runs its handshake   *)
(* and may send anything else at any time, and a link may break, after     *)
(* which reads may time out or fail, and writes may fail or vanish.        *)
(*                                                                         *)
(* A command is its number: the n-th command accepted on its channel.      *)
(***************************************************************************)
EXTENDS Integers, Sequences, FiniteSets

CONSTANTS KeyCap,       \* slots of g_key_queue (8 in app_state.c)
          AppCap,       \* slots of g_app_queue (2 in app_state.c)
          MaxCommands,  \* bound: commands accepted, both channels together
          MaxFaults     \* bound: links broken plus restarts

ASSUME CapAssumption == KeyCap \in Nat \ {0} /\ AppCap \in Nat \ {0}
ASSUME BoundAssumption == MaxCommands \in Nat /\ MaxFaults \in Nat

Channel == {"key", "app"}
Cap(c) == IF c = "key" THEN KeyCap ELSE AppCap

VARIABLES
    connected, state, power,   \* fields of g_atv_status
    queue,      \* queue[c]: the FreeRTOS queue of channel c
    pc,         \* where tv_session_task is
    ch,         \* the channel being drained
    hand,       \* the command taken off queue[ch] and not yet sent, or 0
    probing,    \* probe_outstanding
    backoff,    \* backoff_ms
    worker,     \* "idle", or the channel whose handler saw connected = true
    link,       \* the TLS connection: "none", "up" or "broken"
    inbox,      \* the frame from the TV not yet read, or "none"
    tv,         \* how far the TV is in the handshake of this connection
    accepted, received, lost,  \* history, as in CommandPipe
    faults      \* links broken and restarts so far

status  == <<connected, state, power>>
session == <<pc, ch, hand, probing, backoff>>
network == <<link, inbox, tv>>
history == <<accepted, received, lost>>
vars == <<status, queue, session, worker, network, history, faults>>

PC == {"connect", "poll", "drain", "send", "requeue", "probe", "down", "closed"}

\* Frames that remote.c tells apart.  "other" is every frame that changes
\* nothing modelled here: volume levels, ping responses, frames that do not
\* decode.  "bad_frame" is one frame_recv gives up on.
Answered == {"configure", "set_active", "ping"}
Started  == {"start_on", "start_off"}
Frame == Answered \cup Started \cup {"other", "bad_frame"}

\* The commands of c that are accepted and no longer in the device.
InHand(c) == IF hand # 0 /\ ch = c THEN 1 ELSE 0
Settled == [c \in Channel |-> accepted[c] - Len(queue[c]) - InHand(c)]

-----------------------------------------------------------------------------
(* The control loop starts after boot or after a pairing; either way the   *)
(* device is paired and has no connection.                                 *)

Init ==
    /\ connected = FALSE /\ state = "paired" /\ power = "unknown"
    /\ queue = [c \in Channel |-> <<>>]
    /\ pc = "connect" /\ ch = "key" /\ hand = 0
    /\ probing = FALSE /\ backoff = 1000
    /\ worker = "idle"
    /\ link = "none" /\ inbox = "none" /\ tv = "greeting"
    /\ accepted = [c \in Channel |-> 0]
    /\ received = [c \in Channel |-> <<>>]
    /\ lost = [c \in Channel |-> {}]
    /\ faults = 0

-----------------------------------------------------------------------------
(* The HTTP worker.  A request that is malformed, or finds connected =     *)
(* false, is answered with an error and changes nothing.                   *)

\* The handler finds the channel connected and goes on to queue the command.
PostCommand(c) ==
    /\ worker = "idle"
    /\ connected
    /\ accepted["key"] + accepted["app"] < MaxCommands
    /\ worker' = c
    /\ UNCHANGED <<status, queue, session, network, history, faults>>

\* Variants marked "Mutant" are plausible mistakes; a check shows that each
\* breaks a property.  Mutant: the test for a full queue is missing.
EnqueueUnchecked(c) ==
    /\ worker = c
    /\ queue' = [queue EXCEPT ![c] = Append(@, accepted[c] + 1)]
    /\ accepted' = [accepted EXCEPT ![c] = @ + 1]
    /\ worker' = "idle"
    /\ UNCHANGED <<status, session, network, received, lost, faults>>

\* xQueueSend without waiting; a full queue is an error reply.
EnqueueCommand(c) ==
    /\ worker = c
    /\ Len(queue[c]) < Cap(c)
    /\ queue' = [queue EXCEPT ![c] = Append(@, accepted[c] + 1)]
    /\ accepted' = [accepted EXCEPT ![c] = @ + 1]
    /\ worker' = "idle"
    /\ UNCHANGED <<status, session, network, received, lost, faults>>

RefuseCommand(c) ==
    /\ worker = c
    /\ Len(queue[c]) = Cap(c)
    /\ worker' = "idle"
    /\ UNCHANGED <<status, queue, session, network, history, faults>>

-----------------------------------------------------------------------------
(* tv_session_task: connecting.                                            *)

ConnectOk ==
    /\ pc = "connect"
    /\ link' = "up" /\ inbox' = "none" /\ tv' = "greeting"
    /\ backoff' = 1000 /\ probing' = FALSE /\ pc' = "poll"
    /\ UNCHANGED <<status, queue, ch, hand, worker, history, faults>>

ConnectFail ==
    /\ pc = "connect"
    /\ pc' = "closed"
    /\ UNCHANGED <<status, queue, ch, hand, probing, backoff, worker, network,
                   history, faults>>

\* Mutant: a session that ends clears its queues.
CloseAndFlush ==
    /\ pc = "down"
    /\ link' = "none" /\ inbox' = "none"
    /\ pc' = "closed"
    /\ queue' = [c \in Channel |-> <<>>]
    /\ lost' = [c \in Channel |-> lost[c] \cup (Settled[c] + 1 .. accepted[c])]
    /\ UNCHANGED <<status, ch, hand, probing, backoff, worker, tv, accepted,
                   received, faults>>

\* The session is over; its queues stay as they are for the next one.
Close ==
    /\ pc = "down"
    /\ link' = "none" /\ inbox' = "none"
    /\ pc' = "closed"
    /\ UNCHANGED <<status, queue, ch, hand, probing, backoff, worker, tv,
                   history, faults>>

\* Mutant: the status of the dead session is left standing.
PublishNothing ==
    /\ pc = "closed"
    /\ backoff' = IF backoff < 15000 THEN 2 * backoff ELSE backoff
    /\ pc' = "connect"
    /\ UNCHANGED <<status, queue, ch, hand, probing, worker, network, history,
                   faults>>

\* Only now is it published that the connection is gone; then wait, back off.
Publish ==
    /\ pc = "closed"
    /\ connected' = FALSE /\ state' = "paired" /\ power' = "unknown"
    /\ backoff' = IF backoff < 15000 THEN 2 * backoff ELSE backoff
    /\ pc' = "connect"
    /\ UNCHANGED <<queue, ch, hand, probing, worker, network, history, faults>>

-----------------------------------------------------------------------------
(* tv_session_task: reading from the TV.                                   *)

\* 200 ms without a byte: go and serve the queues, keys first.
PollTimeout ==
    /\ pc = "poll" /\ inbox = "none"
    /\ pc' = "drain" /\ ch' = "key"
    /\ UNCHANGED <<status, queue, hand, probing, backoff, worker, network,
                   history, faults>>

\* The connection is closed or failed, or the frame cannot be received.
ReceiveFails ==
    /\ pc = "poll"
    /\ link = "broken" \/ inbox = "bad_frame"
    /\ pc' = "down"
    /\ UNCHANGED <<status, queue, ch, hand, probing, backoff, worker, network,
                   history, faults>>

\* A frame is read: any traffic proves liveness.
Receive(m) == /\ pc = "poll" /\ inbox = m
              /\ inbox' = "none" /\ probing' = FALSE

\* What the TV does with the answer to m.
TvAfterAnswer(m) == CASE m = "configure"  -> "configured"
                      [] m = "set_active" -> "active"
                      [] OTHER            -> tv

\* On a broken link the answer is refused or goes nowhere.
Answer(m) ==
    /\ Receive(m)
    /\ \/ link = "up" /\ pc' = pc /\ tv' = TvAfterAnswer(m)
       \/ link = "broken" /\ pc' \in {"poll", "down"} /\ UNCHANGED tv
    /\ UNCHANGED <<status, queue, ch, hand, backoff, worker, link, history,
                   faults>>

\* remote_start: the handshake is over, or the TV's power state changed.
DeviceStarted(m) ==
    /\ Receive(m)
    /\ power' = IF m = "start_on" THEN "on" ELSE "off"
    /\ connected' = TRUE /\ state' = "connected"
    /\ UNCHANGED <<queue, pc, ch, hand, backoff, worker, link, tv, history,
                   faults>>

Ignore ==
    /\ Receive("other")
    /\ UNCHANGED <<status, queue, pc, ch, hand, backoff, worker, link, tv,
                   history, faults>>

-----------------------------------------------------------------------------
(* tv_session_task: serving the queues.                                    *)

\* Mutant: the command is read but stays in the queue (xQueuePeek).
PeekCommand ==
    /\ pc = "drain" /\ queue[ch] # <<>>
    /\ hand' = Head(queue[ch])
    /\ pc' = "send"
    /\ UNCHANGED <<status, queue, ch, probing, backoff, worker, network,
                   history, faults>>

TakeCommand ==
    /\ pc = "drain" /\ queue[ch] # <<>>
    /\ hand' = Head(queue[ch])
    /\ queue' = [queue EXCEPT ![ch] = Tail(@)]
    /\ pc' = "send"
    /\ UNCHANGED <<status, ch, probing, backoff, worker, network, history,
                   faults>>

\* Mutant: the app queue is never looked at.
KeysOnly ==
    /\ pc = "drain" /\ queue[ch] = <<>>
    /\ pc' = "probe"
    /\ UNCHANGED <<status, queue, ch, hand, probing, backoff, worker, network,
                   history, faults>>

\* Apps are served once there is no key left.
QueueEmpty ==
    /\ pc = "drain" /\ queue[ch] = <<>>
    /\ \/ ch = "key" /\ ch' = "app" /\ UNCHANGED pc
       \/ ch = "app" /\ pc' = "probe" /\ UNCHANGED ch
    /\ UNCHANGED <<status, queue, hand, probing, backoff, worker, network,
                   history, faults>>

\* The write succeeds.  On a broken link that only means that the local TCP
\* stack took the bytes.
SendOk ==
    /\ pc = "send"
    /\ \/ /\ link = "up"
          /\ received' = [received EXCEPT ![ch] = Append(@, hand)]
          /\ UNCHANGED lost
       \/ /\ link = "broken"
          /\ lost' = [lost EXCEPT ![ch] = @ \cup {hand}]
          /\ UNCHANGED received
    /\ hand' = 0 /\ pc' = "drain"
    /\ UNCHANGED <<status, queue, ch, probing, backoff, worker, network,
                   accepted, faults>>

\* Mutant: a failed write ends the session with the command in hand.
SendFailDrops ==
    /\ pc = "send" /\ link = "broken"
    /\ hand' = 0 /\ pc' = "down"
    /\ UNCHANGED <<status, queue, ch, probing, backoff, worker, network,
                   history, faults>>

SendFail ==
    /\ pc = "send" /\ link = "broken"
    /\ pc' = "requeue"
    /\ UNCHANGED <<status, queue, ch, hand, probing, backoff, worker, network,
                   history, faults>>

\* Mutant: the command goes to the back of the queue (xQueueSend).
RequeueAtBack ==
    /\ pc = "requeue"
    /\ \/ /\ Len(queue[ch]) < Cap(ch)
          /\ queue' = [queue EXCEPT ![ch] = Append(@, hand)]
          /\ UNCHANGED lost
       \/ /\ Len(queue[ch]) = Cap(ch)
          /\ lost' = [lost EXCEPT ![ch] = @ \cup {hand}]
          /\ UNCHANGED queue
    /\ hand' = 0 /\ pc' = "down"
    /\ UNCHANGED <<status, ch, probing, backoff, worker, network, accepted,
                   received, faults>>

\* xQueueSendToFront without waiting and without looking at its result: the
\* command is gone when the other task has filled the slot it came from.
Requeue ==
    /\ pc = "requeue"
    /\ \/ /\ Len(queue[ch]) < Cap(ch)
          /\ queue' = [queue EXCEPT ![ch] = <<hand>> \o @]
          /\ UNCHANGED lost
       \/ /\ Len(queue[ch]) = Cap(ch)
          /\ lost' = [lost EXCEPT ![ch] = @ \cup {hand}]
          /\ UNCHANGED queue
    /\ hand' = 0 /\ pc' = "down"
    /\ UNCHANGED <<status, ch, probing, backoff, worker, network, accepted,
                   received, faults>>

-----------------------------------------------------------------------------
(* tv_session_task: the liveness probe.  Time is left out: the tests of    *)
(* PING_PROBE_MS and PING_REPLY_MS may go either way (Keepalive has the    *)
(* same session with a clock).                                             *)

KeepWaiting ==
    /\ pc = "probe"
    /\ pc' = "poll"
    /\ UNCHANGED <<status, queue, ch, hand, probing, backoff, worker, network,
                   history, faults>>

SendProbe ==
    /\ pc = "probe" /\ ~probing
    /\ \/ probing' = TRUE /\ pc' = "poll"
       \/ link = "broken" /\ pc' = "down" /\ UNCHANGED probing
    /\ UNCHANGED <<status, queue, ch, hand, backoff, worker, network, history,
                   faults>>

ProbeExpired ==
    /\ pc = "probe" /\ probing
    /\ pc' = "down"
    /\ UNCHANGED <<status, queue, ch, hand, probing, backoff, worker, network,
                   history, faults>>

-----------------------------------------------------------------------------
(* The environment.                                                        *)

\* The next frame of the handshake, then remote_start whenever it likes.
Handshake == CASE tv = "greeting"   -> {"configure"}
               [] tv = "configured" -> {"set_active"}
               [] tv = "active"     -> Started

TvSends(m) ==
    /\ link = "up" /\ inbox = "none"
    /\ m \in Handshake \cup {"ping", "other", "bad_frame"}
    /\ inbox' = m
    /\ UNCHANGED <<status, queue, session, worker, link, tv, history, faults>>

BreakLink ==
    /\ link = "up" /\ faults < MaxFaults
    /\ link' = "broken" /\ faults' = faults + 1
    /\ UNCHANGED <<status, queue, session, worker, inbox, tv, history>>

\* Power loss or a failed ESP_ERROR_CHECK: only NVS survives, and what the
\* queues held is lost.
Restart ==
    /\ faults < MaxFaults /\ faults' = faults + 1
    /\ connected' = FALSE /\ state' = "paired" /\ power' = "unknown"
    /\ queue' = [c \in Channel |-> <<>>]
    /\ pc' = "connect" /\ ch' = "key" /\ hand' = 0
    /\ probing' = FALSE /\ backoff' = 1000
    /\ worker' = "idle"
    /\ link' = "none" /\ inbox' = "none" /\ tv' = "greeting"
    /\ lost' = [c \in Channel |-> lost[c] \cup (Settled[c] + 1 .. accepted[c])]
    /\ UNCHANGED <<accepted, received>>

-----------------------------------------------------------------------------
HttpWorker == \E c \in Channel :
                  PostCommand(c) \/ EnqueueCommand(c) \/ RefuseCommand(c)

TvSession == \/ ConnectOk \/ ConnectFail \/ Close \/ Publish
             \/ PollTimeout \/ ReceiveFails \/ Ignore
             \/ \E m \in Answered : Answer(m)
             \/ \E m \in Started : DeviceStarted(m)
             \/ TakeCommand \/ QueueEmpty \/ SendOk \/ SendFail \/ Requeue
             \/ KeepWaiting \/ SendProbe \/ ProbeExpired

Environment == \/ \E m \in Frame : TvSends(m)
               \/ BreakLink \/ Restart

Next == HttpWorker \/ TvSession \/ Environment

Spec == Init /\ [][Next]_vars

(***************************************************************************)
(* Fairness.  Both tasks are scheduled: a handler that was entered         *)
(* returns, and tv_session_task keeps taking steps.  Time advances: on a   *)
(* broken link nothing arrives, so the probe comes due and then expires.   *)
(* A TV that is asked often enough accepts a connection, and does not talk *)
(* without ever pausing for 200 ms.                                        *)
(***************************************************************************)
Scheduled == /\ WF_vars(TvSession)
             /\ WF_vars(\E c \in Channel : EnqueueCommand(c) \/ RefuseCommand(c))

TimePasses == /\ SF_vars(link = "broken" /\ SendProbe)
              /\ SF_vars(link = "broken" /\ ProbeExpired)

TvReachable == SF_vars(ConnectOk)

TvPauses == SF_vars(PollTimeout)

FairSpec == Spec /\ Scheduled /\ TimePasses /\ TvReachable /\ TvPauses

\* The same without the assumption that the TV pauses.
TalkativeSpec == Spec /\ Scheduled /\ TimePasses /\ TvReachable

-----------------------------------------------------------------------------
(* Properties.                                                             *)

\* 1 s, doubled while below 15 s.
Delay == {1000, 2000, 4000, 8000, 16000}

ControlTypeOK ==
    /\ connected \in BOOLEAN
    /\ state \in {"paired", "connected"}
    /\ power \in {"unknown", "on", "off"}
    /\ pc \in PC /\ ch \in Channel /\ hand \in Nat
    /\ probing \in BOOLEAN /\ backoff \in Delay
    /\ worker \in Channel \cup {"idle"}
    /\ link \in {"none", "up", "broken"}
    /\ inbox \in Frame \cup {"none"}
    /\ tv \in {"greeting", "configured", "active"}
    /\ faults \in Nat

DataTypeOK ==
    /\ queue \in [Channel -> Seq(Nat)]
    /\ accepted \in [Channel -> Nat]
    /\ received \in [Channel -> Seq(Nat)]
    /\ lost \in [Channel -> SUBSET Nat]
    /\ \A c \in Channel : Len(queue[c]) <= Cap(c)

\* Every variable holds a value of its type, and no queue is over its size.
TypeOK == ControlTypeOK /\ DataTypeOK

\* The TV gets the commands of a channel in the order they were accepted, and
\* none of them twice: in particular a command put back after a failed write
\* (remote.c) is not overtaken by the ones queued in the meantime.
OrderedDelivery ==
    \A c \in Channel : \A i, j \in 1 .. Len(received[c]) :
        i < j => received[c][i] < received[c][j]

\* The commands of c the device still holds.
Held(c) == {queue[c][i] : i \in 1 .. Len(queue[c])}
               \cup (IF InHand(c) = 1 THEN {hand} ELSE {})
Got(c)  == {received[c][i] : i \in 1 .. Len(received[c])}

\* A command that was answered with {"ok":true} is in exactly one place: with
\* the TV, lost, or still in the device; whatever was requeued, refused by a
\* full queue or cut off by the end of a session.
Accounted ==
    \A c \in Channel :
        /\ 1 .. accepted[c] = Held(c) \cup Got(c) \cup lost[c]
        /\ Held(c) \cap (Got(c) \cup lost[c]) = {}
        /\ Got(c) \cap lost[c] = {}

\* Whenever tv_session_task is not between two of its writes to the status,
\* the status tells a story that holds together, and it says "connected"
\* (which is what lets a command in) only of a connection that has gone
\* through its handshake and was not closed, or was closed just now: nothing
\* of an earlier session shows through in the next one.
StatusHonest ==
    /\ connected <=> state = "connected"
    /\ connected <=> power # "unknown"
    /\ connected => tv = "active" /\ (link # "none" \/ pc = "closed")

\* A command is only lost to a link that broke or to a restart: a session
\* that ends for any other reason (a frame it cannot read, a probe that
\* expired) leaves the queues to the next one.
NoLossOnLiveLink == [][link # "broken" /\ faults' = faults => lost' = lost]_vars

\* The queues and the task behind them implement the ordered pipe.
Pipe == INSTANCE CommandPipe WITH settled <- Settled
ImplementsPipe == Pipe!Spec

\* Every accepted command is delivered or given up in the end: none stays in
\* the queue for ever, whatever becomes of the session that should send it.
EveryCommandSettled ==
    \A c \in Channel : \A n \in 1 .. MaxCommands :
        accepted[c] >= n ~> Settled[c] >= n

\* remote.c on the write that fails: "Put the command back so it survives the
\* reconnect instead of a press silently vanishing."
RequeueKeepsCommand == [][pc = "requeue" /\ pc' = "down" => lost' = lost]_vars
=============================================================================
