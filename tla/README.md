# Verification of esp32-androidtv

TLA+ models of the firmware that turns an ESP32 into a web remote for a
Chromecast with Google TV, model-checked with TLC and proved about with TLAPS.
Source paths are relative to `src/` of the repository.

1. [The system](#1-the-system)
2. [Modules](#2-modules)
3. [Runs](#3-runs)
4. [Fairness](#4-fairness)
5. [Proofs](#5-proofs)
6. [Findings](#6-findings)
7. [Not modelled](#7-not-modelled)
8. [Plan](#8-plan)

Run `tlc -config X.cfg M` for a run of the table in section 3, and
`tlapm M.tla` for `ControlChannelProofs`, `PairingProofs`, `WireProofs`,
`LogViewerProofs`, `VolumeRoutingProofs`, `VolumeHoldProofs`, `KeepaliveProofs` and
`SettingsProofs`. `WireProofs` takes some six minutes, the others less.

## 1. The system

A phone talks HTTP to the device; the device talks TLS to the TV. Two tasks do
the work: the single worker task of the HTTP server, and `tv_session_task`,
which owns all traffic with the TV. A third one, of the WebSocket client, talks
to a Samsung TV when one is configured. They meet in `app_state.c`: status
words, three queues, a group of two event bits.

| Component | State | Operations | Talks to |
|---|---|---|---|
| Boot and session task (`main.c`) | `g_atv_status`, `backoff_ms` | boot, pairing loop, control loop | `pairing_run`, `remote_session`, `store`, event bits |
| Remote session (`remote.c`) | probe, features, status words | poll, drain keys, drain apps, requeue, probe, answer the TV | queues, TLS |
| Pairing exchange (`pairing.c`) | none of its own but the place in the exchange; `state` | send request, react to each message, take a code, send the secret | code queue, TLS |
| HTTP handlers (`webserver.c`) | none between requests | pair, key, app, status, shortcuts, logs | status words, queues, event bits |
| Flash (`store.c`, `shortcuts.c`) | paired flag, Samsung token, shortcuts | get, set | NVS |
| TLS and frames (`net_tls.c`, `proto_frame.c`) | connection | connect, read with timeout, write, close; length prefix | mbedTLS, TCP |
| Log ring (`logbuf.c`) | ring, byte count | write, read after a position | every task; `/api/logs` |
| Message code (`components/nanopb`, `main/proto_gen`) | none | decode, encode, defaults | remote session, pairing, shortcuts |
| Samsung fallback (`samsung_tv.c`) | `connected`, URI with token | event handler, send key | WebSocket library, flash |
| WiFi (`wifi.c`) | connected bit | reconnect on disconnect | ESP-IDF |
| Web page (`web/index.html`) | chain of posts, held button, log position | press, hold, release, poll | HTTP |

What is hard about it:

- *Interleaving.* Handlers test a status word and act on a queue later; the
  session task takes a command off a queue, writes to the network, and puts it
  back. The other task may act at any point in between.
- *Failure.* The TV or the WiFi may vanish without a word, after which reads
  time out and writes succeed into the void; the device may lose power between
  what the TV commits and what the flash commits.
- *Ordering.* A press and its release must arrive in this order over any
  number of reconnects; an answer must go to the request it belongs to.
- *Time.* 200 ms polls, a 10 s + 5 s probe, 20 s against 30 s in pairing,
  a doubling back-off.

What makes the components correct:

- control channel: accepted commands reach the TV in order and at most once;
  none disappears except over a broken link or a restart; each leaves the queue
  in the end; the status is that of this connection; a dead link is noticed;
- pairing: TV, flash and user agree; nobody is told "ok" for a code that did
  not pair; pairing is reached through any finite run of faults;
- wire: the reader never loses its place in the stream, a message is taken for
  what its sender put into it or refused, and what is written reads back;
- log ring and viewer: a reader gets what was written, in order, or is told of a
  gap, and catches up;
- flash: what is read back is what was saved, or the default;
- routing of volume keys: a key stays pressed only for a known reason, and
  volume is offered when one of the TVs can be controlled.

The hazards, each at its line and with the properties that watch it, are in
`PROJECT.json`.

## 2. Modules

```
CommandPipe          what is promised of an accepted command        (abstract)
  ^ refined by
ControlChannel       session task, remote session, command handlers
  MCControlChannel     instances for TLC
  ControlChannelProofs theorems

PairingAgreement     what a pairing means to TV, flash and user     (abstract)
  ^ refined by
Pairing              boot, pairing loop, exchange, pair handler
  MCPairing            instances for TLC
  PairingProofs        theorems

MessageChannel       messages handed up in order, with their meaning (abstract)
  ^ refined by
Wire                 one session's bytes: frame codec, handlers, answers
  Varints              integers on the wire
  WireProofs           theorems, for any codec
  MCWire               the TV's frames for TLC, and the codec:
    ProtobufMeaning      what a message means, without a byte stream (reference)
      Nanopb               decoder and encoder
        AtvSchema            the generated descriptors
        Varints

LogViewer            the page's log viewer over /api/logs
  LogBuf               the log ring
  MCLogViewer          instance for TLC
  LogViewerProofs      theorems

VolumeRouting        a volume key from the page to one of two TVs
  MCVolumeRouting      instances for TLC
  VolumeRoutingProofs  theorems
  VolumeHoldProofs     theorems about holds and their releases

Keepalive            the remote session's probe, with the time that passes
  MCKeepalive          instance for TLC
  KeepaliveProofs      theorems

Settings             flash, boot, WiFi, Samsung token, shortcut requests
  SettingsProofs       theorems, for any format of the blob
  MCSettings           instance for TLC, with the format of the code:
    Shortcuts            validation and the stored blob
      Nanopb
```

`Pairing` and `ControlChannel` are one task in sequence: `Pairing` ends in its control location
`control`, and `ControlChannel` begins there (paired, no connection). The other
modules look at the same device from one side each: `Wire` opens up what
`ControlChannel` and `Pairing` call a frame, `VolumeRouting` adds to the key queue
the pages before it and the second TV beside it, `Settings` what a restart keeps,
`Keepalive` gives the session a clock.

`Wire` and `Settings` take what they need of the message code as constants: `PbDecode`,
`PbEncode` and `Sense`, and `Storable`, `EntryOf`, `ListOf` and their like. The two `.cfg`
files give them the operators of `Nanopb`, `ProtobufMeaning` and `Shortcuts`, so that TLC
runs the real decoder and encoder; the theorems hold for any that keep the assumptions
named in section 5.

### ControlChannel

| Model | Code |
|---|---|
| `connected`, `state`, `power` | fields of `g_atv_status` |
| `queue["key"]`, `queue["app"]` | `g_key_queue`, `g_app_queue` |
| `pc`, `ch`, `hand` | where `tv_session_task` is, which queue it drains, the command between `xQueueReceive` and the end of the write |
| `probing`, `backoff` | `probe_outstanding`, `backoff_ms` |
| `worker` | `key_post_handler` or `app_post_handler` between the test of `connected` and `xQueueSend` |
| `link`, `inbox`, `tv` | the connection, the frame on its way from the TV, the TV's place in its handshake (environment) |
| `accepted`, `received`, `lost` | history: answered with ok, arrived, gone |
| `PostCommand`, `EnqueueCommand`, `RefuseCommand` | `webserver.c:218-227`, `244-253` |
| `ConnectOk`, `ConnectFail`, `Close`, `Publish` | `main.c:99-118`, `net_tls.c` |
| `PollTimeout`, `ReceiveFails`, `Answer`, `DeviceStarted`, `Ignore` | `remote.c:189-192`, `232-257`, `handle_msg` |
| `TakeCommand`, `QueueEmpty`, `SendOk`, `SendFail`, `Requeue` | `remote.c:193-216` |
| `KeepWaiting`, `SendProbe`, `ProbeExpired` | `remote.c:217-230` |
| `Restart` | power loss; `app_main` |

A command is a number, the n-th accepted on its channel: order, loss and
duplication are then visible, and nothing else about a command matters to the
queues. A write on a broken link may fail (`SendFail`) or be swallowed by the
local TCP stack (`SendOk` into `lost`). Time is left out here: a poll may time out
whenever no frame is waiting, the two tests of the clock may go either way
(`Keepalive` has them).
The status words that one function writes in a row change in one step.

### Pairing

| Model | Code |
|---|---|
| `paired`, `state`, `codeQ`, `okBit`, `failBit` | `g_atv_status`, `g_pair_code_queue`, `g_pair_events` |
| `nvs` | the flag in flash, the only variable a restart keeps on the device |
| `pc`, `code` | where `tv_session_task` and `pairing_run` are |
| `worker`, `wcode` | where `pair_post_handler` is |
| `exch`, `trusts`, `tv`, `link`, `inbox` | the TV and the connection (environment) |
| `accepted`, `rejected`, `told` | history: whose code paired, whose was wrong, what each request was answered |
| `Boot`, `ConnectOk`, `ConnectFail`, `StorePaired`, `PublishPaired`, `AnnounceOk`, `AnnounceFail` | `main.c:69-95`, `141-160` |
| `SendRequest` ... `SendSecret` | the branches of `pairing_run` |
| `PostCode`, `ClearBits`, `SubmitCode`, `Reply`, `ReplyTimeout` | `webserver.c:96-138`, one action between any two calls that touch shared state |

A code is the request that brought it and the code screen it was read from. The
check in `pairing_compute_secret` is one byte of a hash: a wrong code is refused
by it (`RejectCode`) or passes it and is refused by the TV (`SendSecret` with a
bad secret); a right one always passes.

### Wire, Varints, Nanopb, AtvSchema, ProtobufMeaning

| Model | Code |
|---|---|
| `FieldList`, `Descriptor` | the `_FIELDLIST`s and `PB_BIND`s of `remotemessage.pb.h`, `polo.pb.h`, `appshortcuts.pb.h`, the macros of `pb.h` |
| `DecodeInner`, `DecodeField`, `FieldIterFind`, `MessageDefault`, ... | `pb_decode.c`, `pb_common.c` |
| `Encode`, `EncodeField`, `EncodeVarint`, ... | `pb_encode.c` |
| `net`, `closed`, `sent` | the bytes on the connection and what the TV said (environment) |
| `rx` | where `frame_recv`, `remote_session` or `pairing_run` is in the current frame |
| `PollFirst`, `ReadPrefix`, `ReadBody`, `ReadFails` | `remote.c:186-191`, `rx_read`, `proto_frame.c:38-79` |
| `Handle`, `HandleRemote`, `HandlePairing` | `remote.c:246-257`, `handle_msg`, the loop of `pairing_run` |
| `SendQueued`, `StartPairing`, `FrameSend` | `remote.c:193-231`, `pairing.c:186-198`, `proto_frame.c:18-36` |
| `features`, `status` | `active_features`, what `handle_msg` writes into `g_atv_status` |
| `seen`, `said`, `out` | history: what the frames were taken for, what was meant, with the place of the frame it answers, and what was written |
| `VarintEnd`, `EncodeVarint`, `Word`, `Num` | `pb_readbyte`, `pb_encode_varint`, the base-128 digits of a number |

Bytes are bytes here: the codec is the subject. An integer is its base-128
digits, so that 64-bit values and the sign extension of an int32 are exact in a
tool with 32-bit numbers. A message maps the names of the fields that are there to
their values; `View` and `Filled` take a decoded struct to one and back. The TV puts at
most one of the parts that `handle_msg` looks at into a message
(`OnePartAssumption`); of two the code would see only the first. `ProtobufMeaning` says what a message means over the
list of its fields; it shares no code with the decoder except the descriptors and
the arithmetic of digits. The kinds of field the schemas use are modelled in
full: BOOL, INT32, UINT32, UENUM, STRING, BYTES, MESSAGE, singular, optional,
required and repeated ones, and the two callback fields without a callback. The
secret and the device's names are stand-ins; their lengths are within bounds.

### LogBuf, LogViewer

| Model | Code |
|---|---|
| `ring`, `total` | `s_ring`, `s_total_written` |
| `LogWrite`, `LogRead` | `logbuf_vprintf`, `logbuf_write`, `logbuf_read` |
| `Serve` | `logs_get_handler` |
| `open`, `after`, `armed`, `text` | `logsOpen`, `logAfter`, `logPollTimer`, the end of `logText` |
| `others`, `requests`, `replies` | timers that no variable names any more, requests and replies under way, in any order |
| `OpenViewer`, `CloseViewer`, `TimerFires`, `Arrive`, `FetchFails` | `logsBtn.onclick`, the close button, `pollLogs` |
| `written`, `origin`, `torn`, `mixed` | history: the byte count without wrapping, the last boot, the line written at the wrap, a second chain of polls |

A byte of the log is its number among all bytes ever logged: that makes visible
what a reader gets in place of what. `Cap` and `W` are parameters; the code has
6144 and 2^32. Of the text shown, the end is kept, as long as a step can still
compare against it. `/api/logs` escapes the text; that is left out.

### VolumeRouting

| Model | Code |
|---|---|
| `page`, `chain`, `fetch`, `volOk`, `poll` | the pressed button, `keyChain` with its request, the class of the volume buttons, `poll` of `index.html` |
| `PointerDown`, `HoldTimer`, `Release`, `SendKey`, `Answer`, `FetchFails`, `Poll`, `PollAnswered` | the hold buttons, `post`, `poll` |
| `late`, `AcceptLate` | requests that `post` has given up, and their arrival at `key_post_handler` all the same |
| `worker` | the single task of the HTTP server, one read of a status word at a time |
| `ReadStatus`, `Report` | `status_get_handler` |
| `ReadVolMax`, `ReadSamsung`, `NoOp`, `Click`, `ReadConnected`, `Enqueue`, ... | `key_post_handler`, `samsung_tv_send_key` |
| `volMax`, `connected`, `samsung`, `queue` | `g_atv_status`, `g_samsung_status`, `g_key_queue` |
| `hand`, `link`, `Take`, `Deliver`, `Vanish`, `PutBack`, `SessionEnds`, `RemoteSetVolumeLevel` | `remote_session`, `handle_msg`, the end of the session in `main.c` |
| `ws`, `ChannelConnect`, `WsDisconnected` | `samsung_tv.c` |
| `tvMax`, `news`, `told` | the Chromecast's range and its report (environment) |
| `held`, `over`, `viaQueue`, `failed`, `vanished`, `rerouted`, `belated` | history of holds |

Volume ranges are 0 (no control over the volume) or 100. A request that fails on
the page may be with the worker, which then works for nobody, or arrive there later,
even after the requests that follow it in the chain, or never; a restart drops those
on their way. The chain goes on in every case. A hold whose start was given up by its
page and then handled is `belated`: nothing in the code keeps its release from being
handled first, so `NeverOvertaken` leaves it out and `StuckForCause` counts it as a
cause. Power and
navigation keys take the other branch of the handler, which is `ControlChannel`'s.

### Keepalive

| Model | Code |
|---|---|
| `pc`, `waited` | which call of `remote_session` is waiting, and for how long: the poll, the rest of a frame, the pause after a key |
| `silence`, `asked`, `probing` | `now - last_rx_us`, `now - probe_sent_us`, `probe_outstanding` |
| `queue` | the number of keys in `g_key_queue` |
| `Tick` | time passes, in one of these calls |
| `Receive`, `FrameBegins`, `FrameStalls`, `LinkFails`, `PollTimeout` | `remote.c:189-192`, `232-257`, `rx_read`, `atv_tls_read` |
| `SendKey`, `PauseEnds` | `remote.c:193-204` |
| `Idle`, `SendProbe`, `ProbeExpired` | `remote.c:217-230` |
| `Press`, `Reconnect` | `webserver.c:218-227`, `main.c:99-118` |
| `link`, `inbox`, `owed` | the connection, what has come in, the probe the TV has not answered (environment) |
| `dead`, `stolen`, `serving` | history: time since the link broke, the part of it in pauses, pauses since the last read |

Time is counted in units and passes only where the code waits; what it computes
between takes none. While it waits for a first byte and one is there, no time
passes. A frame of a live TV is there as a whole, only a break of the link cuts one
in two. A write takes no time, so app links, which go out without a pause, are
left to `ControlChannel`. One connection follows the other without the back-off,
during which nothing is asked of the clock. `GivenUpForCause` is what the code keeps
of the promise to "only reconnect if the reply doesn't arrive within PING_REPLY_MS"
(`remote.c:26-28`): between the read that timed out and the test of the clock it
sends all queued keys, 50 ms apart, and an answer that comes in meanwhile is not
looked at.

### Shortcuts, Settings

| Model | Code |
|---|---|
| `ShortcutsLoad`, `Blob`, `Valid`, `EditorAccepts` | `shortcuts.c`, `shortcuts_post_handler`, the editor of `index.html` |
| `nvs` | the namespace `atv`: paired flag, Samsung token, shortcuts (`store.c`) |
| `boot`, `ReadFlash`, `EraseFlash`, `StartServices` | `app_main` |
| `wifi`, `GotIp`, `NotFound`, `ApDrops`, `StaDisconnected` | `wifi.c` |
| `uri`, `ws`, `WsConnects`, `SaveToken`, `TokenNotSaved` | `samsung_tv_init`, `handle_message` |
| `worker`, `ReceiveSegment`, `SaveShortcuts`, `SaveFails`, `RefuseList` | `shortcuts_post_handler`, `shortcuts_save` |
| `shown`, `loading`, `reply` | `shortcuts` of `index.html`, the load that is not served yet, and the replies on their way, one for each connection of the page |
| `PageOpens`, `ServeLoad`, `LoadArrives`, `LoadFails` | the start of the page, `shortcuts_get_handler`, `loadShortcuts` |
| `PageSave`, `SaveArrives`, `SaveStumbles`, `ReplyLost` | `editSave.onclick` |
| `good`, `kept`, `stale`, `tripped`, `bootToken` | history: what may be stored, what was stored, what the page cannot know, what it got wrong by itself |

A store changes one entry as a whole; when it fails, the entry is the old or the
new one. Nothing on the page waits for a request: Save can be clicked again while a
save is under way, and the editor used before the load has come back. So the page has
a request on each of its `Connections`, and their replies arrive in any order. A save
carries the list of its click and changes nothing before the one worker takes it, so it
begins with that in the model. When the reply comes and the draft has grown in the
meantime, the page throws before it takes over the list (`SaveStumbles`). `stale` is
set when another client saves, a request or reply of the page goes wrong, or the
page is opened; `tripped` when an older reply arrives after a newer one or the page stumbles.
`PageInStep` leaves both out; `SavedShown` leaves out only the first and is violated.
In the run the list goes through the real encoder and decoder, in the proofs
through any pair of them that keeps `RoundTripAssumption`.

## 3. Runs

| Run | Instance | Checks |
|---|---|---|
| `control_channel` | 2 key slots, 1 app slot, 3 commands, 1 fault, `FairSpec` | `TypeOK`, `OrderedDelivery`, `Accounted`, `StatusHonest`, `NoLossOnLiveLink`, `ImplementsPipe`, `EveryCommandSettled` |
| `control_requeue` | 2 + 1 slots, 3 commands, 1 fault | `RequeueKeepsCommand` is violated |
| `control_service` | 1 + 1 slots, 1 command, `TalkativeSpec` | `EveryCommandSettled` is violated |
| `pairing` | 2 faults, 2 mistyped codes, `FairSpec` | `TypeOK`, `PairedMeansTrusted`, `OkMeansThisCode`, `KeepsAgreement`, `EventuallyPaired` |
| `pairing_answer` | 1 fault | `FailMeansNotPaired` is violated |
| `wire` | 33 frames, alone, before another, and a whole pairing; 1 message of the device's own; 1 short read of a byte | `TypeOK`, `InStep`, `EndsForCause`, `RoundTrip`, `PingsAnswered`, `ShowsLatest`, `ImplementsChannel`, `EventuallyHandled` |
| `log_viewer` | ring of 3, wrap at 5, lines of 2, replies of 2, 6 bytes logged, 3 openings, 1 restart | `TypeOK`, `RingHolds`, `OneChain`, `ShowsWhatWasLogged`, `NoSilentGap`, `CatchesUp` |
| `volume_routing` | 1 page, a tap before and 1 press, 2 slots, 2 faults | `TypeOK`, `StuckForCause`, `VolumeFollows`, `NeverOvertaken`, `VolumeOffered`, `ChainRunsDry` |
| `volume_release` | the same | `NoOpMatchesClick` is violated |
| `keepalive` | poll 2, pause 1, frame 4, silence 6, reply 4, answer 3 units; 2 slots, 4 presses | `NoticedInTime`, `GivenUpForCause` |
| `settings` | 3 lists, 2 first blobs, 2 connections of the page, 2 tokens, one too long, 2 faults | `TypeOK`, `KeepsSavedList`, `PageInStep`, `PairingKept`, `NoPromptAgain`, `BackOnline` |
| `settings_page` | the same, no fault | `SavedShown` is violated |

Why the bounds are enough. Two slots tell empty, partly full and full apart, and
three keys fill the queue while one is in hand, or is put back; sizes of 8 and 2 add
no situation, and the theorems cover them. In `control_channel` one fault leaves a
requeued command and a stale status to the next session; its safety properties are
theorems for any number of faults and commands, so that the instance is sized for
the liveness property. In `pairing`, two faults let a second outage or restart meet
what the first left behind, a stale code or bit. `MaxCommands`, `MaxFaults` and
`MaxMistakes` appear only in the guards of the environment and of accepting a
request, never in the device's own steps. The run of `pairing` counts every
rare event (a timeout, a lost connection, an error out of turn, a restart, a code
that arrives at the very end of a wait) as one fault.

The frames of `wire` are chosen by what can go wrong with them: every wire type,
every capacity reached and passed by one (label of 63 and 64 bytes, two and three
elements, 32 and 33 bytes of secret), fields out of order, twice, merged, unknown
or missing, numbers that are negative, too wide or padded with zeros, a zero tag, a
group, a payload that ends in the middle, a prefix that is padded, endless or wraps
32 bits, and a frame of exactly 512 bytes and one above. Short reads of one byte are
offered once per frame, everything else of a frame may still arrive in any split
that the TV's and the reader's steps make. `MCWire` also evaluates the model on the
golden bytes of `test/test_frame.c` (`Golden`), compares the longest encoding of each message with
the generated `_size` constants (`SizesAgree`) and finds the only message that does
not fit a frame (`TooLongForAFrame`).

The ring of 3 bytes is written twice around, and its count wraps at 5, which is no
multiple of 3, as 2^32 is none of 6144: slots jump at the wrap. Three openings let a request of the first chain outlive two others. In
`volume_routing` one press has a start and an end whose routes can differ; two
faults let one word change between them and another between the reads of a handler.
With two slots a command that is put back can meet the one queued behind it. The tap
made before has reached the Chromecast or, for one of the two faults, is still in the
queue after an outage: with it and the start of the hold the queue is full, and the end
is refused. A fault is also a request given up by its page.
Further presses and pages and a longer queue are what the theorems of section 5
add. The times of `keepalive` keep the order of those in the code, 50 < 200 < 5000 <
10000 ms, with the answer between poll and reply; four presses at two slots are
enough to spend the whole time for the answer on keys. The bound of `NoticedInTime`
is reached, not only kept: one unit less is violated. For the times of the code it
is 15.4 s plus the pauses after keys. In `settings`, two faults let a failed store
meet a restart, or an erased flash a second client; two connections let two requests
of the page overlap, in either order of service and of arrival, beside those of the other
client. The shortcuts are used only on devices without the address of a Samsung TV
there (`Together` is FALSE): tokens and lists are different entries, and the theorems hold
for both values. `MCSettings` evaluates the largest list against blob and decoder
(`LongestFits`).

The session task of `control_channel` and `pairing` can always take a step, and
deadlock is checked there. The systems of `wire`, `log_viewer`, `volume_routing` and
`settings` may stop: a session that is down, or an environment that has used up its
frames, lines, presses or faults, has no step left.

Each property of a passing run is also run against a variant of one action
(`EnqueueUnchecked`, `RequeueAtBack`, `SendFailDrops`, `PublishNothing`, ...)
that makes a plausible mistake, and is violated there; the variants stand next
to the actions they distort and are used by nothing else.

## 4. Fairness

Control channel (`FairSpec`):

- both tasks are scheduled: `tv_session_task` runs at priority 5 and blocks only
  in calls with a timeout, and a handler that has begun runs to its end;
- time passes: on a broken link nothing arrives, so the probe comes due and
  expires. This is strong fairness of `SendProbe` and `ProbeExpired` on a broken
  link only, since between two visits to the test the loop waits 200 ms each time
  and the clock reaches 10 s and 15 s in the end. `NoticedInTime` of `Keepalive`
  derives this from the clock, with a bound;
- a TV that is asked again and again accepts a connection (`SF(ConnectOk)`);
- the TV falls silent for 200 ms every now and then (`SF(PollTimeout)`). This
  is an assumption about the TV that the code does not enforce; `TalkativeSpec`
  leaves it out, and run `control_service` shows what then fails.

Pairing (`FairSpec`): both tasks are scheduled, the TV answers, it accepts a
connection when asked often enough, and the user types a code in correctly when
shown often enough. Faults are finitely many, and nothing else is assumed about
them.

Wire: the session task goes on while it can. The formula is weak fairness of the
device's steps with their guard written out (`Ready`). Nothing is assumed of the TV.

Log viewer: timers fire, the HTTP server answers, a request ends one way or the
other, and among infinitely many replies one arrives. Nothing makes anyone log.

Volume routing: users let go of buttons in the end, the page's chain and its poll
timer go on, the HTTP worker goes on and takes up a waiting request sooner or later
(strong fairness, since it serves one after the other). Nothing is assumed of
either TV, nor of the session task: none of the two liveness properties needs it.

Settings: `app_main` and the WiFi driver go on. Flash, users and clients owe nothing.

## 5. Proofs

All theorems hold for every value of the constants, under the assumptions that
queue sizes are positive naturals (`CapAssumption`) and the bounds naturals
(`BoundAssumption`; of presses of the volume button at least one). Three modules assume more:

- `Keepalive`, that times are naturals, poll and pause not zero, and that the rest of a
  frame is not waited for longer than the silence that brings the probe
  (`TimeAssumption`; 5 s and 10 s in the code);
- `Settings`, that a list the firmware stores is found again in its entry and fits
  (`RoundTripAssumption`), and that no entry finds the default list
  (`FlashAssumption`). TLC evaluates both with `Shortcuts` on the lists of the run,
  and `LongestFits` does so for ten of the longest entries;
- `Wire`, of the TV, that a frame is bytes and its length prefix gives the length of its
  payload, unless the prefix has more than five bytes (`FrameAssumption`), that it speaks
  one protocol in a session (`TalkAssumption`) and `OnePartAssumption`. What the
  theorems ask of the codec is a hypothesis of those that need it: `CodecCarries`, that
  every message the device can say in a session encodes into at most 512 bytes and decodes
  to itself, and `CodecAgrees`, that a frame decodes to what it says. `MCWire`
  evaluates the first with `Nanopb` for every such message of the instance. The second,
  for every frame of the instance, is what `ImplementsChannel` comes to in run `wire`.

`ControlChannelProofs` rests on one inductive invariant, `IInv`. Order and
accounting are not inductive as they stand: that the next command sent is larger
than all the ones delivered needs to be known of the queue, and also of a command
that is in hand while others are queued, or is put back. `QueueInv` says so: the
command in hand, if there is one, and then the queue are the consecutive numbers
that follow the settled ones. `HistoryInv` says that delivered and lost commands
are disjoint and make up the settled ones. `HandInv` ties the hand to the control
location; `LinkInv` ties the connection to it and says what a frame in flight
reveals of the TV's handshake, which `StatusHonest` needs. The queue calls are
lemmas (`PushBack`, `PushFront`, `TakeFront`); `CommandSteps` reduces the steps to
the five that touch a command and the quiet ones; a lemma per such step says what
it does to the run of numbers. From `IInv` follow

- `TypeCorrect`, `InOrder`, `NothingUnaccounted`, `HonestStatus`: the invariants
  of run `control_channel`;
- `NoLoss`: a step loses a command only on a broken link or by a restart;
- `Implementation`: every step is a step of `CommandPipe` or a stutter, so the
  queues, the session and the handlers implement the ordered pipe.

`PairingProofs` proves `TypeCorrect`, `Trusted` (`PairedMeansTrusted`),
`Implementation` (`KeepsAgreement`) and `OkForItsCode` (`OkMeansThisCode`). The
strengthening for the first three says where trust comes from: a `secret_ack` on its way and the control locations after it exist only
once the TV trusts the device, and the locations after `nvs_commit` and the bit
for "ok" only once the flag is in flash. `OkForItsCode` needs to know where codes are:
none is of a screen yet to come, so none that is left over fits a new screen
(`ScreenInv`, with `TurnInv` for whose turn it is in the exchange); while the task
waits, a code of the present screen belongs to the request being handled, and no
old bit can answer that request (`WaitInv`); from there to the bit the handler
waits for this code or for nothing (`CodeInv`).

`WireProofs` proves `TypeCorrect`, `AlwaysInStep`, `AlwaysEndsForCause`,
`AlwaysRoundTrip`, `AlwaysShowsLatest`, `AlwaysPingsAnswered` and `Implementation`
(`ImplementsChannel`), for any frames, any codec as above, and bytes that arrive in
pieces of any size. The inductive invariant behind all of them is `Inv`, in four parts.
`Types` is the type of each variable. `Place` says of each place of the reader what it
holds there: nothing, a beginning of the prefix of which every byte so far has its
continuation bit, or a whole prefix and no more of the payload than it announces; and
that this followed by `net` is the frames to come (`InStep`). `Talking` says that what was
sent begins one of the talks and belongs to this session. `Understood` says that each
frame handed up was decoded from its own payload: when the body is complete, it and
the payload are beginnings of the same bytes and of the same length, since the prefix read
is the prefix sent (`OnePrefix`: of two prefixes at the front of the same bytes, each
with its only byte below 128 at the end, neither is longer). `Ended`, `Written`, `Shown` and `Answered` are
one step further each: why the session ended, that each write is the frame of a message
the device can say, whose volume is shown, and which message answers which ping.
The arithmetic is in the lemmas on digits: `FrameLength` of
`FrameVarintEncode(n)` is n for every n up to 512 (`WrittenPrefix`). The frames to come are a
`FlattenSeq`, which is defined by recursion over the length; `Induction`, from the
well-foundedness of the numbers, gives the one fact needed of it, that the first frame can be
taken off at the front and one added at the end.

`LogViewerProofs` proves `TypeCorrect`, `RingAlwaysHolds`, `AlwaysShowsWhatWasLogged`,
`AlwaysOneChain` and `NoGapUnmarked` for every size of ring, line, count and reply, and
any number of openings. `RingHolds` speaks of positions; the inductive
`SlotsHold` speaks of slots: those before the write position hold the current
round, those behind it the round before. The lemmas `DivMod`, `ModUnique`,
`SlotAfter` and `SlotBefore` are the arithmetic of going around; `WriteKeepsInv` is
the step that matters, with the wrap of the count as its own case, and `ReplySound`
carries it through `LogRead` to the replies under way. `OneChain` and `NoSilentGap` are
invariants of the whole chain of polls: `ChainInv` says that, unless the viewer was opened over
an earlier poll, one poll is alive at most, and that what it will bring fits the end of
the text (`Chain`): the text ends before the position that the next request asks for
(`Precedes`), and a reply goes on from there or says that it does not (`Continues`).
`BaseInv` and `TextInv` tie positions, which wrap, to the number of bytes ever logged, which
does not: without them a wrap of the count between two polls would look like progress.

`VolumeRoutingProofs` proves `AlwaysFollows`. `VolumeFollows` says nothing while a
report is on its way, so it needs `ReportOK`: on a connection that is up, a report
on its way carries the range of the moment.

`VolumeHoldProofs` proves `StuckOnlyForCause` and `ReleaseNeverOvertakes`. Neither is
inductive: where a release is decides both. `Core` says it for each press. A press
belongs to one page (`Own`), and one not yet made is nowhere (`Fresh`). For a press whose
start was not handled belatedly (`Timely`): while its button is down, no release of it
is anywhere (`PageOK`); in the chain of the page and in the queue its start is before its
release (`InOrder`); once the release is past the page, the start is not behind it
(`EndsLast`); and a hold that has begun has a release to come or an excuse
(`HoldOK`). Requests that a page has given up leave its chain for `late`, and later for
the worker (`Slow`), from where they go on like any other: a release may come from there,
and a start makes its press `belated`.
There is a lemma for each kind of step: what it moves, and that the order of the
rest stays. From `Core` both theorems follow at once.

`KeepaliveProofs` proves `DeadLinkGivenUp` and `LiveLinkKept` for all times, whatever
their proportions. `DeadOK` bounds the time since the break by the place where the
session is: nothing that came in before the break outlasts the next read, after it
the silence counts, and each of the two tests cuts it off. `AnswerOK` follows a probe
on a live link: it is with the TV, for no longer than `asked`, or something has come
in since and all the time it lay unread went to keys.

`SettingsProofs` proves `TypeCorrect`, `ListKept`, `PageAgrees`, `PairingSurvives` and
`PromptForCause`, all five from `IInv`. `FlashInv` ties the entries in flash to what
was acknowledged: the list found in it is the one saved last, or one whose saving failed
since. `PageInv` follows the replies to the page, on any number of connections: one that
was made after the last change of the list in flash carries that list, and a page that neither
missed something (`stale`) nor fell behind by itself (`tripped`) shows it or has such a
reply under way. `TokenInv` says which token a
session uses: it is one of a boot that is done, whose URI has the token that was
stored when it began, if that fits; and a TV that asks for approval does not trust it.

What the proofs brought up in the model itself: alternatives with overlapping guards
had been written as the arms of a `CASE`, where TLC takes the first arm that holds and
TLA+ leaves the choice open (the end of the length prefix in `ReadPrefix`, among others).
They are disjuncts with their guards, or `IF`s, now. And the log viewer's requests,
a bag before, are two sequences, of which any member may be next.

Only model-checked: liveness (`EveryCommandSettled`,
`EventuallyPaired`, `EventuallyHandled`, `CatchesUp`, `VolumeOffered`,
`ChainRunsDry`, `BackOnline`), which is out of this prover's reach; and the codec, which
is a recursive operator over its input: that `Nanopb` decodes to what
`ProtobufMeaning` says, that it reads back what it wrote, and that a list of
shortcuts is found again in its blob, are checked for the frames, messages and lists of
the runs.

## 6. Findings

- `RequeueKeepsCommand` (`remote.c:198`): the result of `xQueueSendToFront` is
  ignored. With a full queue, the HTTP worker can take the slot that the failed
  command left, and the command is dropped although it was answered with ok.
- `EveryCommandSettled` without pauses (`remote.c:192`): the queues are served
  only after 200 ms of silence, so a TV that streams messages delays accepted
  commands for as long as it does so.
- `FailMeansNotPaired` (`webserver.c:130`): the request gives up after 20 s, the
  exchange waits up to 30 s for the TV; "pairing failed - check the code" can be
  answered for the code that then pairs the device.
- `NoOpMatchesClick` (`webserver.c:207`): "the matching release is a no-op", says the
  comment, but the handler drops every release it routes to the Samsung TV. When the
  volume range or the Samsung connection changed since the press, that release
  belongs to a hold on the Chromecast, which never hears its end.
- `SavedShown` (`index.html:931`): "On a successful save [...] the row re-renders from the
  fresh copy", but when an entry was added to the draft while it was saved, the page throws
  on the reply and keeps the row it had. It also shows an older list when two of its
  requests overlap and the older one is answered last (`index.html:933`).

Without a run: the back-off (`main.c:115`) goes 1, 2, 4, 8, 16 s, where `CHANGELOG.md` speaks of
a cap of 15 s. `TypeOK` of `ControlChannel` bounds it by the 16 s.

## 7. Not modelled

- The self-tests at boot: they come before any task exists, and a failure restarts
  the device.
- The TLS set-up, certificates, and the arithmetic of the secret: library calls that
  succeed or fail, and a hash.
- How long a write or a TLS handshake takes. Neither has a timeout in the code
  (`net_tls.c:78`, `net_tls.c:111`), so a peer that accepts the connection and then
  says nothing, or stops reading, can hold the session task for as long as TCP lets
  it. The models let both end in every way, but let them end.
- The table of key names, JSON and hex scanning, and the escaping of the log text: a
  request is well-formed or refused without effect.
- What nanopb offers and these schemas do not use: oneof, extensions, pointers, packed
  arrays, fixed-width numbers, callbacks with a function.
- The page's power gesture, colours and layout; of the shortcut editor's draft, all but that
  it may have grown while it was saved.
- Build files, host tests, mDNS and static pages, which keep no state.

Some hazards are bounded by their properties, not caught: the property names them as a cause
or leaves them out. They are the volume fields of the last session before the first report
(`VolumeFollows`), a reopened log viewer (`mixed`), an erased flash, reconnects in the boot that
got a token, tokens too long or not stored, frames that are too long (`EndsForCause`), and what
makes the page `stale`. `PROJECT.json` says so at each.

Boundary of what is modelled: a single HTTP worker that is blocked in one handler is
seen by the other requests of the same module only, not across modules.

## 8. Plan

Done: `CommandPipe`, `ControlChannel`, `PairingAgreement`, `Pairing`, `MessageChannel`,
`Wire`, `LogViewer`, `VolumeRouting`, `Settings`, `Keepalive`, with their runs, and the
proofs of section 5: every invariant, every refinement and every safety property of
steps that a passing run checks is a theorem. To come:

1. The codec: nanopb's decoder as folds over its input instead of recursive operators, so
   that `CodecCarries` could be proved for the device's own messages.
2. `Firmware`: `Pairing` and `ControlChannel` as one system over one boot, with the HTTP
   worker shared by all handlers.
