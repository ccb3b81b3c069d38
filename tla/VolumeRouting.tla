----------------------------- MODULE VolumeRouting -----------------------------
(***************************************************************************)
(* Where a press of a volume button goes.  The pages of the phones         *)
(* (index.html) turn a press into one request, or into one when it has     *)
(* become a hold and one when it ends; the single worker of the HTTP       *)
(* server (webserver.c) sends each to the Samsung TV (samsung_tv.c) or,    *)
(* through the key queue and the session task (remote.c), to the           *)
(* Chromecast, by what it reads at that moment of two status words that    *)
(* two other tasks write.                                                  *)
(*                                                                         *)
(* The TVs, the network and the users are the environment.                 *)
(***************************************************************************)
EXTENDS Integers, Sequences, FiniteSets

CONSTANTS Clients,    \* the pages that are open
          KeyCap,     \* slots of g_key_queue
          MaxPresses, \* bound: presses of the volume button, over all pages
          MaxFaults   \* bound: broken links, restarts, lost requests and
                      \* changes of the TV's volume range

Gone == "gone"    \* who a request is from that its page has given up

ASSUME ClientAssumption == IsFiniteSet(Clients) /\ Clients # {} /\ Gone \notin Clients
ASSUME BoundAssumption  == KeyCap \in Nat \ {0} /\ MaxPresses \in Nat \ {0} /\ MaxFaults \in Nat

VARIABLES
  volMax,     \* g_atv_status.vol_max
  connected,  \* g_atv_status.connected
  samsung,    \* g_samsung_status.connected
  queue,      \* g_key_queue
  hand,       \* the command the session task has taken off it, or Nobody
  link,       \* the session: "none", "greeting", "up", "broken" unnoticed,
              \* or "closed" and not yet published
  tvMax,      \* the volume range of the Chromecast
  news,       \* the volume report on its way, or Nothing
  told,       \* the Chromecast has reported on this connection
  ws,         \* the WebSocket: "off", "paired", or "broken" unnoticed
  worker,     \* the request the HTTP worker has, or Nobody
  page,       \* page[c]: "up", "down" or "long", and the press it is about
  chain,      \* chain[c]: keyChain, its head the request under way
  fetch,      \* fetch[c]: that request is "idle", "sent" or "answered"
  volOk,      \* volOk[c]: the volume buttons take presses
  late,       \* requests that a page has given up and the worker not had
  poll,       \* poll[c]: the status request: "idle", "sent", or its answer
  presses,    \* presses so far
  held,       \* history: the press the Chromecast takes to be held, or 0
  over,       \* history: presses whose end has reached the Chromecast
  viaQueue,   \* history: holds whose start was queued for the Chromecast
  failed,     \* history: holds whose end failed as a request; the page shows it
  vanished,   \* history: holds whose end was lost with a link or a restart
  rerouted,   \* history: holds begun on the Chromecast and ended on the other
  belated,    \* history: holds whose start was given up and then taken up
  faults

device  == << volMax, connected, samsung >>
session == << queue, hand, link >>
tvs     == << tvMax, news, told, ws >>
pages   == << page, chain, fetch, late, volOk, poll, presses >>
history == << held, over, viaQueue, failed, vanished, rerouted, belated >>
vars    == << device, session, tvs, worker, pages, history, faults >>

Range_   == 100
Nothing  == 0 - 1
Nobody   == [id |-> 0]
Up       == [at |-> "up", id |-> 0]
Dir      == { "SHORT", "START_LONG", "END_LONG" }
Key(d, p) == [dir |-> d, id |-> p]

(* The holds that one of these commands ends.                                *)
Ends(keys) == {k.id : k \in {e \in keys : e # Nobody /\ e.dir = "END_LONG"}}

Fault == faults < MaxFaults /\ faults' = faults + 1

(* Between two sessions.  There has been one press, a tap, which the         *)
(* Chromecast got, or which an outage has left in the queue.                 *)
Init ==
  /\ volMax = 0 /\ connected = FALSE /\ samsung = FALSE
  /\ queue \in {<< >>, << Key("SHORT", 1) >>} /\ hand = Nobody /\ link = "none"
  /\ tvMax \in {0, Range_} /\ news = Nothing /\ told = FALSE /\ ws = "off"
  /\ worker = Nobody
  /\ page = [c \in Clients |-> Up] /\ chain = [c \in Clients |-> << >>]
  /\ fetch = [c \in Clients |-> "idle"] /\ late = {} /\ volOk = [c \in Clients |-> TRUE]
  /\ poll = [c \in Clients |-> "idle"] /\ presses = 1
  /\ held = 0 /\ over = {} /\ viaQueue = {} /\ failed = {} /\ rerouted = {} /\ vanished = {}
  /\ belated = {}
  /\ faults = Len(queue) /\ faults <= MaxFaults

-------------------------------------------------------------------------------
(* The page: data-hold buttons, keyChain, poll.                              *)

PointerDown(c) ==
  /\ page[c] = Up /\ volOk[c] /\ presses < MaxPresses
  /\ page' = [page EXCEPT ![c] = [at |-> "down", id |-> presses + 1]]
  /\ presses' = presses + 1
  /\ UNCHANGED << device, session, tvs, worker, chain, fetch, late, volOk, poll, history, faults >>

Post(c, key) == chain' = [chain EXCEPT ![c] = Append(@, key)]

HoldTimer(c) ==
  /\ page[c].at = "down"
  /\ page' = [page EXCEPT ![c].at = "long"]
  /\ Post(c, Key("START_LONG", page[c].id))
  /\ UNCHANGED << device, session, tvs, worker, fetch, late, volOk, poll, presses, history, faults >>

(* pointerup or pointercancel.                                               *)
Release(c) ==
  /\ page[c] # Up
  /\ page' = [page EXCEPT ![c] = Up]
  /\ Post(c, Key(IF page[c].at = "long" THEN "END_LONG" ELSE "SHORT", page[c].id))
  /\ UNCHANGED << device, session, tvs, worker, fetch, late, volOk, poll, presses, history, faults >>

(* The next link of the chain.                                               *)
SendKey(c) ==
  /\ chain[c] # << >> /\ fetch[c] = "idle"
  /\ fetch' = [fetch EXCEPT ![c] = "sent"]
  /\ UNCHANGED << device, session, tvs, worker, page, chain, late, volOk, poll, presses, history, faults >>

Settled(c) ==
  /\ chain' = [chain EXCEPT ![c] = Tail(@)]
  /\ fetch' = [fetch EXCEPT ![c] = "idle"]
  /\ UNCHANGED << device, session, tvs, page, volOk, poll, presses >>

Answer(c) ==
  /\ fetch[c] = "answered"
  /\ Settled(c)
  /\ UNCHANGED << worker, late, history, faults >>

(* The worker has a key request of this page.                                *)
Serving(c) == worker # Nobody /\ worker.id # Nothing /\ worker.who = c

(* Mutant: the chain has no catch.                                           *)
FetchRejected(c) ==
  /\ fetch[c] = "sent" /\ ~Serving(c)
  /\ Fault
  /\ failed' = failed \cup Ends({Head(chain[c])})
  /\ fetch' = [fetch EXCEPT ![c] = "rejected"]
  /\ UNCHANGED << device, session, tvs, worker, page, chain, late, volOk, poll, presses,
                  held, over, viaQueue, rerouted, vanished, belated >>

(* The page gives the request up, and goes on with the next.  The worker may *)
(* have it, or get it later, even after those that follow it, or never.      *)
FetchFails(c) ==
  /\ fetch[c] = "sent" /\ Fault
  /\ IF Serving(c)
       THEN worker' = [worker EXCEPT !.who = Gone] /\ UNCHANGED late
       ELSE late' = late \cup {Head(chain[c])} /\ UNCHANGED worker
  /\ failed' = failed \cup Ends({Head(chain[c])})
  /\ Settled(c)
  /\ UNCHANGED << held, over, viaQueue, rerouted, vanished, belated >>

(* poll returns at once while a button is held, and is called again later.   *)
Poll(c) ==
  /\ poll[c] = "idle" /\ page[c] = Up
  /\ poll' = [poll EXCEPT ![c] = "sent"]
  /\ UNCHANGED << device, session, tvs, worker, page, chain, fetch, late, volOk, presses, history, faults >>

(* Mutant: the class is added and never taken off.                           *)
GreyedForGood(c) ==
  /\ poll[c] \in {"volume", "no_volume"}
  /\ volOk' = [volOk EXCEPT ![c] = @ /\ poll[c] = "volume"]
  /\ poll' = [poll EXCEPT ![c] = "idle"]
  /\ UNCHANGED << device, session, tvs, worker, page, chain, fetch, late, presses, history, faults >>

PollAnswered(c) ==
  /\ poll[c] \in {"volume", "no_volume"}
  /\ volOk' = [volOk EXCEPT ![c] = (poll[c] = "volume")]
  /\ poll' = [poll EXCEPT ![c] = "idle"]
  /\ UNCHANGED << device, session, tvs, worker, page, chain, fetch, late, presses, history, faults >>

-------------------------------------------------------------------------------
(* The HTTP worker: one request at a time, word by word.                     *)

AcceptKey(c) ==
  /\ worker = Nobody /\ fetch[c] = "sent"
  /\ worker' = [id |-> Head(chain[c]).id, dir |-> Head(chain[c]).dir, who |-> c, at |-> "vol_max"]
  /\ UNCHANGED << device, session, tvs, pages, history, faults >>

(* One that its page has given up.                                           *)
AcceptLate(k) ==
  /\ worker = Nobody /\ k \in late
  /\ worker' = [id |-> k.id, dir |-> k.dir, who |-> Gone, at |-> "vol_max"]
  /\ late' = late \ {k}
  /\ belated' = IF k.dir = "START_LONG" THEN belated \cup {k.id} ELSE belated
  /\ UNCHANGED << device, session, tvs, page, chain, fetch, volOk, poll, presses,
                  held, over, viaQueue, failed, rerouted, vanished, faults >>

AcceptPoll(c) ==
  /\ worker = Nobody /\ poll[c] = "sent"
  /\ worker' = [id |-> Nothing, dir |-> "", who |-> c, at |-> "status"]
  /\ UNCHANGED << device, session, tvs, pages, history, faults >>

At(step) == worker # Nobody /\ worker.at = step
Goto(step) == worker' = [worker EXCEPT !.at = step]

(* The page hears of it, if it still waits.                                  *)
Heard == IF worker.who \in Clients THEN [fetch EXCEPT ![worker.who] = "answered"] ELSE fetch

Respond == /\ worker' = Nobody /\ fetch' = Heard
           /\ UNCHANGED << device, session, tvs, page, chain, late, volOk, poll, presses, faults >>

RefuseKey == /\ Respond
             /\ failed' = failed \cup Ends({worker})
             /\ UNCHANGED << held, over, viaQueue, rerouted, vanished, belated >>

Goes(step) == Goto(step) /\ UNCHANGED << device, session, tvs, pages, history, faults >>

(* status_get_handler: the volume range is read before the Samsung word.     *)
ReadStatus ==
  /\ At("status")
  /\ worker' = [worker EXCEPT !.at = IF volMax > 0 THEN "volume" ELSE "status_samsung"]
  /\ UNCHANGED << device, session, tvs, pages, history, faults >>

Report ==
  /\ At("volume") \/ At("status_samsung")
  /\ poll' = [poll EXCEPT ![worker.who] =
                IF worker.at = "volume" \/ samsung THEN "volume" ELSE "no_volume"]
  /\ worker' = Nobody
  /\ UNCHANGED << device, session, tvs, page, chain, fetch, late, volOk, presses, history, faults >>

(* key_post_handler.                                                         *)
ReadVolMax  == At("vol_max") /\ Goes(IF volMax = 0 THEN "samsung" ELSE "connected")

ReadSamsung ==
  /\ At("samsung")
  /\ Goes(IF ~samsung THEN "connected" ELSE IF worker.dir = "END_LONG" THEN "no_op" ELSE "click")

(* Mutant: every key of a hold but its start is a no-op.                     *)
NoOpUnasked ==
  /\ At("no_op") \/ (At("connected") /\ worker.dir = "END_LONG")
  /\ Respond
  /\ rerouted' = IF At("no_op") THEN rerouted \cup ({worker.id} \cap viaQueue) ELSE rerouted
  /\ UNCHANGED << held, over, viaQueue, failed, vanished, belated >>

(* The end of a hold is nothing to the Samsung TV.                           *)
NoOp ==
  /\ At("no_op")
  /\ Respond
  /\ rerouted' = rerouted \cup ({worker.id} \cap viaQueue)
  /\ UNCHANGED << held, over, viaQueue, failed, vanished, belated >>

(* samsung_tv_send_key tests the word again; a send on a broken socket may   *)
(* be taken for done.                                                        *)
Click ==
  /\ At("click")
  /\ samsung /\ ws \in {"paired", "broken"}
  /\ Respond
  /\ UNCHANGED history

ClickFails ==
  /\ At("click")
  /\ ~samsung \/ ws # "paired"
  /\ RefuseKey

ReadConnected ==
  /\ At("connected") /\ connected
  /\ Goes("enqueue")

NotConnected == At("connected") /\ ~connected /\ RefuseKey

(* Mutant: the test for a full queue is missing.                             *)
EnqueueUnchecked ==
  /\ At("enqueue")
  /\ queue' = Append(queue, Key(worker.dir, worker.id))
  /\ viaQueue' = IF worker.dir = "START_LONG" THEN viaQueue \cup {worker.id} ELSE viaQueue
  /\ worker' = Nobody /\ fetch' = Heard
  /\ UNCHANGED << device, hand, link, tvs, page, chain, late, volOk, poll, presses, faults,
                  held, over, failed, rerouted, vanished, belated >>

Enqueue ==
  /\ At("enqueue") /\ Len(queue) < KeyCap
  /\ queue' = Append(queue, Key(worker.dir, worker.id))
  /\ viaQueue' = IF worker.dir = "START_LONG" THEN viaQueue \cup {worker.id} ELSE viaQueue
  /\ worker' = Nobody /\ fetch' = Heard
  /\ UNCHANGED << device, hand, link, tvs, page, chain, late, volOk, poll, presses, faults,
                  held, over, failed, rerouted, vanished, belated >>

QueueFull == At("enqueue") /\ Len(queue) = KeyCap /\ RefuseKey

-------------------------------------------------------------------------------
(* The session task: what it does with this key, the volume and its status.  *)

Connect ==
  /\ link = "none"
  /\ link' = "greeting" /\ told' = FALSE /\ news' = Nothing
  /\ UNCHANGED << device, queue, hand, tvMax, ws, worker, pages, history, faults >>

(* remote_start; the Chromecast then reports its volume.                     *)
RemoteStart ==
  /\ link = "greeting"
  /\ link' = "up" /\ connected' = TRUE /\ news' = tvMax
  /\ UNCHANGED << volMax, samsung, queue, hand, tvMax, told, ws, worker, pages, history, faults >>

(* Mutant: a range of 0 is taken for a field that is not there.              *)
VolumeIfGiven ==
  /\ link = "up" /\ hand = Nobody /\ news # Nothing
  /\ volMax' = IF news = 0 THEN volMax ELSE news
  /\ news' = Nothing /\ told' = TRUE
  /\ UNCHANGED << connected, samsung, session, tvMax, ws, worker, pages, history, faults >>

RemoteSetVolumeLevel ==
  /\ link = "up" /\ hand = Nobody /\ news # Nothing
  /\ volMax' = news /\ news' = Nothing /\ told' = TRUE
  /\ UNCHANGED << connected, samsung, session, tvMax, ws, worker, pages, history, faults >>

(* The queue is served whether the handshake is done or not.                 *)
Take ==
  /\ link \in {"greeting", "up", "broken"} /\ hand = Nobody /\ queue # << >>
  /\ hand' = Head(queue) /\ queue' = Tail(queue)
  /\ UNCHANGED << device, link, tvs, worker, pages, history, faults >>

Deliver ==
  /\ hand # Nobody /\ link \in {"greeting", "up"}
  /\ hand' = Nobody
  /\ held' = CASE hand.dir = "START_LONG" -> hand.id
               [] hand.dir = "END_LONG"   -> 0
               [] OTHER                   -> held
  /\ over' = IF hand.dir = "END_LONG" THEN over \cup {hand.id} ELSE over
  /\ UNCHANGED << device, queue, link, tvs, worker, pages, viaQueue, failed, rerouted, vanished, belated, faults >>

(* A write on a dead link, or to a TV that is not listening yet.             *)
Vanish ==
  /\ hand # Nobody /\ link \in {"greeting", "broken"}
  /\ hand' = Nobody
  /\ vanished' = vanished \cup Ends({hand})
  /\ UNCHANGED << device, queue, link, tvs, worker, pages, held, over, viaQueue, failed, rerouted, belated, faults >>

(* Mutant: the command is put back behind those that were queued meanwhile.  *)
PutBackAtEnd ==
  /\ hand # Nobody /\ link = "broken"
  /\ link' = "closed" /\ hand' = Nobody
  /\ IF Len(queue) < KeyCap
       THEN queue' = Append(queue, hand) /\ UNCHANGED vanished
       ELSE vanished' = vanished \cup Ends({hand}) /\ UNCHANGED queue
  /\ UNCHANGED << device, tvs, worker, pages, held, over, viaQueue, failed, rerouted, belated, faults >>

(* The write fails: xQueueSendToFront, and the session is over.              *)
PutBack ==
  /\ hand # Nobody /\ link = "broken"
  /\ link' = "closed" /\ hand' = Nobody
  /\ IF Len(queue) < KeyCap
       THEN queue' = << hand >> \o queue /\ UNCHANGED vanished
       ELSE vanished' = vanished \cup Ends({hand}) /\ UNCHANGED queue
  /\ UNCHANGED << device, tvs, worker, pages, held, over, viaQueue, failed, rerouted, belated, faults >>

(* connected is withdrawn, the volume range stays.                           *)
SessionEnds ==
  /\ link \in {"broken", "closed"} /\ hand = Nobody
  /\ link' = "none" /\ connected' = FALSE
  /\ UNCHANGED << volMax, samsung, queue, hand, tvs, worker, pages, history, faults >>

-------------------------------------------------------------------------------
(* The client of the Samsung TV: its events.                                 *)

(* ms.channel.connect; the connection before it, and an answer that the      *)
(* remote is not authorised, change no word.                                 *)
ChannelConnect ==
  /\ ws = "off"
  /\ ws' = "paired" /\ samsung' = TRUE
  /\ UNCHANGED << volMax, connected, session, tvMax, news, told, worker, pages, history, faults >>

WsDisconnected ==
  /\ ws = "broken"
  /\ ws' = "off" /\ samsung' = FALSE
  /\ UNCHANGED << volMax, connected, session, tvMax, news, told, worker, pages, history, faults >>

-------------------------------------------------------------------------------
(* The environment.                                                          *)

TvRangeChanges ==
  /\ Fault
  /\ tvMax' = Range_ - tvMax
  /\ news' = IF link = "up" THEN tvMax' ELSE news
  /\ UNCHANGED << device, session, told, ws, worker, pages, history >>

LinkBreaks ==
  /\ link \in {"greeting", "up"} /\ Fault
  /\ link' = "broken" /\ news' = Nothing
  /\ UNCHANGED << device, queue, hand, tvMax, told, ws, worker, pages, history >>

(* WEBSOCKET_EVENT_ERROR, if there is one, changes nothing.                  *)
WsBreaks ==
  /\ ws = "paired" /\ Fault
  /\ ws' = "broken"
  /\ UNCHANGED << device, session, tvMax, news, told, worker, pages, history >>

Restart ==
  /\ Fault
  /\ volMax' = 0 /\ connected' = FALSE /\ samsung' = FALSE
  /\ queue' = << >> /\ hand' = Nobody /\ link' = "none" /\ news' = Nothing /\ ws' = "off"
  /\ vanished' = vanished \cup Ends({queue[i] : i \in DOMAIN queue} \cup {hand})
  /\ worker' = Nobody
  /\ failed' = failed \cup Ends({worker})
  /\ fetch' = IF worker # Nobody /\ worker.id # Nothing THEN Heard ELSE fetch
  /\ late' = {}
  /\ poll' = [c \in Clients |-> IF poll[c] = "sent" THEN "idle" ELSE poll[c]]
  /\ UNCHANGED << tvMax, told, page, chain, volOk, presses, held, over, viaQueue, rerouted, belated >>

-------------------------------------------------------------------------------
Work == \/ ReadStatus \/ Report \/ ReadVolMax \/ ReadSamsung \/ NoOp \/ Click \/ ClickFails
        \/ ReadConnected \/ NotConnected \/ Enqueue \/ QueueFull

PageStep(c) == \/ PointerDown(c) \/ HoldTimer(c) \/ Release(c)
               \/ SendKey(c) \/ Answer(c) \/ FetchFails(c) \/ Poll(c) \/ PollAnswered(c)

Next ==
  \/ \E c \in Clients : PageStep(c) \/ AcceptKey(c) \/ AcceptPoll(c)
  \/ \E k \in late : AcceptLate(k)
  \/ Work
  \/ Connect \/ RemoteStart \/ RemoteSetVolumeLevel
  \/ Take \/ Deliver \/ Vanish \/ PutBack \/ SessionEnds
  \/ ChannelConnect \/ WsDisconnected
  \/ TvRangeChanges \/ LinkBreaks \/ WsBreaks \/ Restart

(* Users let go, pages send and poll on timers, the worker works and leaves  *)
(* no page out.  Nothing is assumed of the TVs and the session task.         *)
Spec ==
  /\ Init /\ [][Next]_vars
  /\ WF_vars(Work)
  /\ \A c \in Clients :
       /\ WF_vars(Release(c)) /\ WF_vars(SendKey(c)) /\ WF_vars(Answer(c))
       /\ WF_vars(Poll(c)) /\ WF_vars(PollAnswered(c))
       /\ SF_vars(AcceptKey(c)) /\ SF_vars(AcceptPoll(c))

-------------------------------------------------------------------------------
(* Properties.                                                               *)

(* Every variable holds a value of its kind; the key queue never holds more  *)
(* than it has slots (app_state.c, index.html).                              *)
Keys == [dir : Dir, id : 1 .. MaxPresses]

TypeOK ==
  /\ volMax \in {0, Range_} /\ connected \in BOOLEAN /\ samsung \in BOOLEAN
  /\ queue \in Seq(Keys) /\ Len(queue) <= KeyCap /\ hand \in Keys \cup {Nobody}
  /\ link \in {"none", "greeting", "up", "broken", "closed"}
  /\ tvMax \in {0, Range_} /\ news \in {0, Range_, Nothing} /\ told \in BOOLEAN
  /\ ws \in {"off", "paired", "broken"}
  /\ page \in [Clients -> [at : {"up", "down", "long"}, id : 0 .. MaxPresses]]
  /\ chain \in [Clients -> Seq(Keys)] /\ fetch \in [Clients -> {"idle", "sent", "answered"}]
  /\ volOk \in [Clients -> BOOLEAN] /\ poll \in [Clients -> {"idle", "sent", "volume", "no_volume"}]
  /\ held \in 0 .. MaxPresses /\ late \subseteq Keys

(* "A release overtaking its press breaks the key": the Chromecast is not    *)
(* told of the start of a hold after its end, whatever fails, is put back or *)
(* is handled late, unless the page had given the start itself up and the    *)
(* server got it all the same (keyChain, the single worker, the queue and    *)
(* its put-back).                                                            *)
NeverOvertaken == [][\A p \in over \ belated : held # p => held' # p]_vars

(* When the Chromecast takes a volume key to be held that no user holds any  *)
(* more, there is a reason: its release is still on its way, or failed on    *)
(* its page, or was lost with the link or the device, or went the other way, *)
(* or the start was handled after its page had given it up                   *)
(* (key_post_handler, post).                                                 *)
EndUnderWay(p) ==
  LET in(q) == \E i \in DOMAIN q : q[i] = Key("END_LONG", p)
  IN in(queue) \/ hand = Key("END_LONG", p) \/ \E c \in Clients : in(chain[c])

StuckForCause ==
  held # 0 => \/ \E c \in Clients : page[c].id = held
              \/ EndUnderWay(held)
              \/ held \in failed \cup vanished \cup rerouted \cup belated

(* The routing of volume keys uses the range of the session at hand: once    *)
(* the Chromecast has reported, the word is right while no report is on its  *)
(* way, whatever an earlier session left in it (handle_msg).                 *)
VolumeFollows == link = "up" /\ told /\ news = Nothing => volMax = tvMax

(* The buttons are un-greyed: when volume can be controlled from some time   *)
(* on, by either path, then from some time on every page offers it, whatever *)
(* mixture of the words its polls read before (poll, status_get_handler).    *)
VolumeOffered == <>[](volMax > 0 \/ samsung) => \A c \in Clients : <>[]volOk[c]

(* No request blocks those after it: every page's chain runs dry (keyChain). *)
ChainRunsDry == \A c \in Clients : chain[c] # << >> ~> chain[c] = << >>

(* "The matching release is a no-op": a release made one belongs to a hold   *)
(* that the Samsung TV got (the comment in key_post_handler).                *)
NoOpMatchesClick == rerouted = {}
================================================================================
