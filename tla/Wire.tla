--------------------------------- MODULE Wire ---------------------------------
(***************************************************************************)
(* Messages on the wire: the bytes of one TLS session between the TV and   *)
(* the device, read by frame_recv, decoded by nanopb, answered by the      *)
(* remote session or the pairing exchange and written by frame_send.  The  *)
(* TV's bytes may arrive late and in pieces, and the connection may fail   *)
(* at any read or write.  The codec is a parameter: a message maps the     *)
(* names of the fields that are there to their values.                     *)
(***************************************************************************)
EXTENDS Varints, SequencesExt

CONSTANTS Frames,          \* the frames the TV may send, by name
          Talks,           \* what it may say in one session: sequences of frames
          Sense,           \* what each frame says, or Refusal
          PbDecode(_, _),  \* pb_decode: the message in a payload, or Refusal
          PbEncode(_, _),  \* pb_encode: [ok, v], the bytes of a message
          Keys,            \* key commands <<code, direction>> that may be queued
          Links,           \* app links that may be queued
          MaxSaid,         \* how many messages of its own the device sends
          MaxSingles,      \* short reads: one byte, in the first bytes of a payload
          Secret           \* what pairing_compute_secret yields for the code typed

Refusal == [refused |-> TRUE]

Sessions == {"RemoteMessage", "OuterMessage"}

(***************************************************************************)
(* A frame the TV sends belongs to one of the two sessions and has a       *)
(* length prefix and a payload of less than 2^28 bytes.  The prefix ends   *)
(* with the first byte below 128 and gives the length of the payload in    *)
(* its 7-bit digits: of five bytes, modulo 2^32; more than five may say    *)
(* anything.                                                               *)
(***************************************************************************)
Raw(f) == Frames[f].prefix \o Frames[f].payload

Gives(prefix, n) ==
  LET d == [i \in 1 .. 5 |-> IF i <= Len(prefix) THEN prefix[i] % 128 ELSE 0]
  IN d[5] % 16 = 0 /\ n = d[1] + 128 * (d[2] + 128 * (d[3] + 128 * d[4]))

ASSUME FrameAssumption == \A f \in DOMAIN Frames :
  LET prefix == Frames[f].prefix
  IN /\ Frames[f].session \in Sessions
     /\ Frames[f].payload \in Seq(0 .. 255) /\ prefix \in Seq(0 .. 255)
     /\ prefix # << >> /\ prefix[Len(prefix)] < 128
     /\ \A i \in 1 .. Len(prefix) - 1 : prefix[i] >= 128
     /\ Len(prefix) <= 5 => Gives(prefix, Len(Frames[f].payload))

(* In one session the TV speaks one of the two protocols.                    *)
ASSUME TalkAssumption ==
  /\ Talks # {}
  /\ \A talk \in Talks : /\ talk \in Seq(DOMAIN Frames)
                          /\ \A i \in DOMAIN talk : Frames[talk[i]].session = Frames[talk[1]].session

ASSUME BoundAssumption == MaxSaid \in Nat /\ MaxSingles \in Nat

VARIABLES
  session,    \* "RemoteMessage" or "OuterMessage": what this connection speaks
  sent,       \* the frames the TV has sent
  net,        \* their bytes that the device has not read
  closed,     \* the TV has closed the connection
  rx,         \* where the reader is: [at, first, prefix, body, why]
  seen,       \* what the device made of the frames, in order
  features,   \* active_features
  status,     \* what handle_msg writes into g_atv_status
  said,       \* the messages the device wanted to send ...
  out         \* ... and the bytes it wrote for each

vars == << session, sent, net, closed, rx, seen, features, status, said, out >>

FRAME_MAX_MSG == 512

(* The feature bits: ping, key, power, volume, app link; a set of bits as    *)
(* the digits of a number, and back.                                         *)
FEATURES_DEFAULT == {0, 1, 5, 6, 9}

WordOf(bits) == Trim([i \in 1 .. 5 |-> MapThenSumSet(LAMBDA b : 2^(b % 7),
                                                     {b \in bits : b \div 7 + 1 = i})])
BitsOf(w)    == {b \in 0 .. 31 : (Digit(w, b \div 7 + 1) \div 2^(b % 7)) % 2 = 1}

Idle == [at |-> IF session = "RemoteMessage" THEN "poll" ELSE "prefix",
         first |-> << >>, prefix |-> << >>, body |-> << >>, why |-> ""]

Down(why) == [rx EXCEPT !.at = "down", !.why = why]

(* Mutant: the fifth byte counts in full.                                    *)
FrameLengthWide(prefix) == Num([i \in DOMAIN prefix |-> prefix[i] % 128])

(***************************************************************************)
(* The payload length a prefix stands for: five bytes at most, of which    *)
(* the last has room for four bits.                                        *)
(***************************************************************************)
FrameLength(prefix) ==
  Num([i \in DOMAIN prefix |-> prefix[i] % IF i = 5 THEN 16 ELSE 128])

-------------------------------------------------------------------------------
(* Sending.                                                                  *)

(* Mutant: one byte is enough for a length.                                  *)
FrameVarintByte(n) == << n % 256 >>

(* The wire image frame_send builds for a message of this session.           *)
FrameVarintEncode(n) == EncodeVarint(Word(n))

FrameSend(m) ==
  LET r == PbEncode(session, m)
  IN IF r.ok /\ Len(r.v) <= FRAME_MAX_MSG
     THEN [ok |-> TRUE, v |-> FrameVarintEncode(Len(r.v)) \o r.v]
     ELSE [ok |-> FALSE, v |-> << >>]

(* send_msg: the frame goes out, or the write fails and the session ends     *)
(* with it; then the reader is where `next' says.  A message is said in      *)
(* answer to the last one seen, or (0) to none.                              *)
SendFrame(m, to, frame, next) ==
  \/ /\ ~frame.ok
     /\ rx' = Down("encode") /\ UNCHANGED << said, out >>
  \/ /\ frame.ok
     /\ said' = Append(said, [msg |-> m, to |-> to]) /\ out' = Append(out, frame.v)
     /\ rx' = next
  \/ /\ frame.ok
     /\ rx' = Down("write") /\ UNCHANGED << said, out >>

SendMsg(m, to, next) == SendFrame(m, to, FrameSend(m), next)

Reply(m) == SendMsg(m, Len(seen'), Idle)

Part(name, v) == [n \in {name} |-> v]

KeyInject(cmd) == Part("remote_key_inject",
                       [key_code |-> Word(cmd[1]), direction |-> Word(cmd[2])])
PingProbe      == Part("remote_ping_request", [val1 |-> Word(1), val2 |-> << >>])
AppLink(link)  == Part("remote_app_link_launch_request",
                       [app_link |-> SubSeq(link, 1, Min({Len(link), 127}))])

OwnMessages == {KeyInject(c) : c \in Keys} \cup {AppLink(l) : l \in Links} \cup {PingProbe}

(* After 200 ms without a byte the remote session sends what is queued, or   *)
(* its own ping.                                                            *)
SendQueued ==
  /\ session = "RemoteMessage" /\ rx.at = "poll" /\ Len(said) < MaxSaid
  /\ \E m \in OwnMessages : SendMsg(m, 0, rx)
  /\ UNCHANGED << session, sent, net, closed, seen, features, status >>

OuterMessage(name, v) == [n \in {"protocol_version", "status", name} |->
                            CASE n = name -> v
                              [] n = "status" -> Word(200)
                              [] OTHER -> Word(2)]

Text == << 97, 116, 118 >>   \* stands for the names the device gives itself

HexEncoding == [type |-> Word(3), symbol_length |-> Word(6)]

PairingRequest == OuterMessage("pairing_request",
  [service_name |-> Text, client_name |-> Text])

(* pairing_run opens the exchange, and reads only when that has been sent.   *)
Started == session = "OuterMessage" => said # << >>

StartPairing ==
  /\ rx.at = "prefix" /\ ~Started
  /\ SendMsg(PairingRequest, 0, rx)
  /\ UNCHANGED << session, sent, net, closed, seen, features, status >>

-------------------------------------------------------------------------------
(* Receiving.                                                                *)

(* Mutant: the polled byte is not handed back.                               *)
PollAndDrop ==
  /\ rx.at = "poll" /\ net # << >>
  /\ rx' = [rx EXCEPT !.at = "prefix"] /\ net' = Tail(net)
  /\ UNCHANGED << session, sent, closed, seen, features, status, said, out >>

(* The remote session polls for the first byte of a frame, so that the queue *)
(* is looked at while nothing comes.                                         *)
PollFirst ==
  /\ rx.at = "poll" /\ net # << >>
  /\ rx' = [rx EXCEPT !.at = "prefix", !.first = << Head(net) >>]
  /\ net' = Tail(net)
  /\ UNCHANGED << session, sent, closed, seen, features, status, said, out >>

(* rx_read hands the polled byte back once, then reads the connection.       *)
NextByte == IF rx.first # << >> THEN rx.first[1] ELSE Head(net)

(* Mutant: the connection is waited for although a byte is in hand.          *)
HasNetByte == net # << >>

HasByte == rx.first # << >> \/ net # << >>

(* frame_recv: one byte of the prefix.                                       *)
ReadPrefix ==
  /\ rx.at = "prefix" /\ HasByte
  /\ Started
  /\ LET prefix == Append(rx.prefix, NextByte)
         got    == [rx EXCEPT !.first = << >>, !.prefix = prefix]
     IN \/ /\ NextByte >= 128 /\ Len(prefix) = 5
           /\ rx' = [got EXCEPT !.at = "down", !.why = "varint"]
        \/ /\ NextByte >= 128 /\ Len(prefix) # 5
           /\ rx' = got
        \/ /\ NextByte < 128 /\ FrameLength(prefix) > FRAME_MAX_MSG
           /\ rx' = [got EXCEPT !.at = "down", !.why = "toobig"]
        \/ /\ NextByte < 128 /\ FrameLength(prefix) <= FRAME_MAX_MSG
           /\ rx' = [got EXCEPT !.at = "body"]
  /\ net' = IF rx.first # << >> THEN net ELSE Tail(net)
  /\ UNCHANGED << session, sent, closed, seen, features, status, said, out >>

Missing == FrameLength(rx.prefix) - Len(rx.body)

(* read_full: a read returns at most what is missing, often less.            *)
ReadBody ==
  /\ rx.at = "body" /\ Missing > 0 /\ net # << >>
  /\ \E k \in {Min({Missing, Len(net)})} \cup IF Len(rx.body) < MaxSingles THEN {1} ELSE {} :
       /\ rx' = [rx EXCEPT !.body = @ \o SubSeq(net, 1, k)]
       /\ net' = SubSeq(net, k + 1, Len(net))
  /\ UNCHANGED << session, sent, closed, seen, features, status, said, out >>

(* A read fails: the next bytes are more than 5 s (30 s) away, the transport *)
(* reports an error, or the TV has closed and everything is read.            *)
ReadFails ==
  /\ \/ rx.at = "poll"
     \/ rx.at = "prefix" /\ rx.first = << >> /\ Started
     \/ rx.at = "body" /\ Missing > 0
  /\ \E why \in {"io"} \cup IF closed /\ net = << >> THEN {"closed"} ELSE {} : rx' = Down(why)
  /\ UNCHANGED << session, sent, net, closed, seen, features, status, said, out >>

-------------------------------------------------------------------------------
(* Handling.                                                                 *)

(* Both handlers look for one part after the other and act on the first.     *)
FirstPart(m, names) == LET there == {i \in DOMAIN names : names[i] \in DOMAIN m}
                       IN IF there = {} THEN "none" ELSE names[Min(there)]

(* Mutant: pings are not looked for.                                         *)
PartsButPing == << "remote_configure", "remote_set_active", "remote_start",
                   "remote_set_volume_level" >>

HandledParts == << "remote_configure", "remote_set_active", "remote_ping_request",
                   "remote_start", "remote_set_volume_level" >>

(* What the device makes of a frame.  A TV puts one of these parts into a    *)
(* message, never two: of two the device sees only the first.                *)
Decoded(f) == PbDecode(Frames[f].session, Frames[f].payload)

ASSUME OnePartAssumption ==
  \A f \in DOMAIN Frames : Frames[f].session = "RemoteMessage" =>
    \A i, j \in DOMAIN HandledParts :
      {HandledParts[i], HandledParts[j]} \subseteq DOMAIN Decoded(f) => i = j

(* Mutant: the TV's features replace the device's.                           *)
Replaced(code1) == IF code1 = << >> THEN FEATURES_DEFAULT ELSE BitsOf(code1)

(* handle_msg: the features are narrowed to those the TV has, where an       *)
(* unset code stands for all.                                                *)
Narrowed(code1) == features \cap IF code1 = << >> THEN FEATURES_DEFAULT ELSE BitsOf(code1)

DeviceInfo == [model |-> << >>, vendor |-> << >>, unknown1 |-> Word(1), unknown2 |-> << 49 >>,
               package_name |-> Text, app_version |-> Text]

Configured(bits) == Part("remote_configure",
                         [code1 |-> WordOf(bits), device_info |-> DeviceInfo])

Active(bits) == Part("remote_set_active", [active |-> WordOf(bits)])

Pong(m) == Part("remote_ping_response", [val1 |-> m.remote_ping_request.val1])

(* Mutant: level and maximum swapped.                                        *)
StatusSwapped(part, m) ==
  IF part = "remote_set_volume_level"
  THEN [status EXCEPT !.vol = << m[part].volume_max, m[part].volume_level,
                                 m[part].volume_muted >>]
  ELSE status

StatusAfter(part, m) ==
  CASE part = "remote_start" ->
         [status EXCEPT !.power = IF m[part].started THEN "on" ELSE "off", !.connected = TRUE]
    [] part = "remote_set_volume_level" ->
         [status EXCEPT !.vol = << m[part].volume_level, m[part].volume_max,
                                   m[part].volume_muted >>]
    [] OTHER -> status

HandleRemote(m) ==
  LET part == FirstPart(m, HandledParts) IN
  /\ features' = IF part = "remote_configure" THEN Narrowed(m[part].code1) ELSE features
  /\ status' = StatusAfter(part, m)
  /\ CASE part = "remote_configure" -> Reply(Configured(features'))
       [] part = "remote_set_active" -> Reply(Active(features))
       [] part = "remote_ping_request" -> Reply(Pong(m))
       [] OTHER -> rx' = Idle /\ UNCHANGED << said, out >>

PairingParts == << "pairing_request_ack", "options", "configuration_ack", "secret_ack" >>

Options == [input_encodings |-> << HexEncoding >>, output_encodings |-> << >>,
            preferred_role |-> Word(1)]

PairingOptions       == OuterMessage("options", Options)
PairingConfiguration == OuterMessage("configuration", [encoding |-> HexEncoding, client_role |-> Word(1)])
PairingSecret        == OuterMessage("secret", [secret |-> Secret])

(* The body of pairing_run's loop.  get_code may give up, and for a mistyped *)
(* code there is no secret.                                                  *)
HandlePairing(m) ==
  LET part == IF m.status = Word(200) THEN FirstPart(m, PairingParts) ELSE "fault" IN
  /\ UNCHANGED << features, status >>
  /\ CASE part = "pairing_request_ack" -> Reply(PairingOptions)
       [] part = "options" -> Reply(PairingConfiguration)
       [] part = "configuration_ack" ->
            \/ Reply(PairingSecret)
            \/ rx' = Down("code") /\ UNCHANGED << said, out >>
       [] part = "secret_ack" -> rx' = Down("paired") /\ UNCHANGED << said, out >>
       [] part = "fault" -> rx' = Down("status") /\ UNCHANGED << said, out >>
       [] OTHER -> rx' = Idle /\ UNCHANGED << said, out >>

(* The remote session skips a message it cannot decode, pairing gives up.    *)
HandleDecoded(m) ==
  /\ seen' = Append(seen, m)
  /\ \/ m # Refusal /\ session = "RemoteMessage" /\ HandleRemote(m)
     \/ m # Refusal /\ session = "OuterMessage" /\ HandlePairing(m)
     \/ /\ m = Refusal
        /\ rx' = IF session = "RemoteMessage" THEN Idle ELSE Down("decode")
        /\ UNCHANGED << features, status, said, out >>

(* A whole frame is there.                                                   *)
Handle ==
  /\ rx.at = "body" /\ Missing = 0
  /\ HandleDecoded(PbDecode(session, rx.body))
  /\ UNCHANGED << session, sent, net, closed >>

-------------------------------------------------------------------------------
(* What the proofs ask of the codec.  Every message the device can say in a  *)
(* session fits into a frame and decodes to itself ...                       *)
Sayable(s) ==
  IF s = "RemoteMessage"
  THEN OwnMessages \cup {Configured(bits) : bits \in SUBSET FEATURES_DEFAULT}
                   \cup {Active(bits) : bits \in SUBSET FEATURES_DEFAULT}
                   \cup {Pong(Decoded(f)) : f \in {g \in DOMAIN Frames :
                           Frames[g].session = s /\ "remote_ping_request" \in DOMAIN Decoded(g)}}
  ELSE {PairingRequest, PairingOptions, PairingConfiguration, PairingSecret}

CodecCarries ==
  \A s \in Sessions : \A m \in Sayable(s) :
    LET r == PbEncode(s, m)
    IN r.ok /\ r.v \in Seq(0 .. 255) /\ Len(r.v) <= FRAME_MAX_MSG /\ PbDecode(s, r.v) = m

(* ... and a frame of the TV decodes to what it says.                        *)
CodecAgrees == \A f \in DOMAIN Frames : Decoded(f) = Sense[f]

-------------------------------------------------------------------------------
(* The TV.                                                                   *)

TvSend ==
  /\ ~closed
  /\ \E talk \in Talks : /\ Frames[talk[1]].session = session
                        /\ Len(sent) < Len(talk) /\ IsPrefix(sent, talk)
                        /\ sent' = Append(sent, talk[Len(sent) + 1])
                        /\ net' = net \o Raw(talk[Len(sent) + 1])
  /\ UNCHANGED << session, closed, rx, seen, features, status, said, out >>

TvClose == /\ ~closed /\ closed' = TRUE
           /\ UNCHANGED << session, sent, net, rx, seen, features, status, said, out >>

Init ==
  /\ session \in Sessions
  /\ sent = << >> /\ net = << >> /\ closed = FALSE
  /\ rx = Idle /\ seen = << >> /\ features = FEATURES_DEFAULT
  /\ status = [power |-> "unknown", connected |-> FALSE, vol |-> << >>]
  /\ said = << >> /\ out = << >>

Device == PollFirst \/ ReadPrefix \/ ReadBody \/ Handle
Next   == Device \/ SendQueued \/ StartPairing \/ ReadFails \/ TvSend \/ TvClose

(* The session task goes on while it can: it does not stay ready for ever   *)
(* without reading, handling or opening the exchange.  This is weak fairness*)
(* of Device and of StartPairing with their guard written out.              *)
Ready ==
  \/ rx.at = "poll" /\ net # << >>
  \/ rx.at = "prefix" /\ HasByte /\ Started
  \/ rx.at = "body" /\ (Missing = 0 \/ net # << >>)
  \/ rx.at = "prefix" /\ ~Started

Fairness == []<>~Ready \/ []<><<TRUE>>_<< rx, said >>

Spec == Init /\ [][Next]_vars /\ Fairness

-------------------------------------------------------------------------------
(* Properties.                                                               *)

(* Every variable holds a value of its kind, and the reader is in one of its *)
(* places (frame_recv, remote_session, pairing_run).                        *)
TypeOK ==
  /\ session \in Sessions /\ closed \in BOOLEAN
  /\ \E talk \in Talks : IsPrefix(sent, talk)
  /\ Len(seen) <= Len(sent)
  /\ rx.at \in {"poll", "prefix", "body", "down"}
  /\ Len(rx.first) <= 1 /\ Len(rx.prefix) <= 5 /\ Len(rx.body) <= FRAME_MAX_MSG
  /\ features \subseteq FEATURES_DEFAULT /\ Len(said) = Len(out)

(* The reader never loses its place: what it has taken of the current frame, *)
(* the polled byte included, and what is still to come are exactly the       *)
(* frames not handed up yet, however the bytes were cut (rx_read, read_full).*)
Taken == rx.first \o rx.prefix \o rx.body

InStep == rx.at # "down" =>
            Taken \o net = FlattenSeq([i \in 1 .. Len(sent) - Len(seen) |-> Raw(sent[Len(seen) + i])])

(* A session ends only because the transport failed or closed, because the   *)
(* TV's next frame is longer than FRAME_MAX_MSG or has a prefix of more than *)
(* five bytes, or, in pairing, over a message refused, a fault reported, no  *)
(* code, or at its proper end.  No message of the device's own is too long,  *)
(* and a message the remote session cannot decode does not end it.           *)
Current == Frames[sent[Len(seen) + 1]]

EndsForCause ==
  rx.at = "down" =>
    CASE rx.why = "toobig" -> Len(Current.payload) > FRAME_MAX_MSG
      [] rx.why = "varint" -> Len(Current.prefix) > 5
      [] rx.why = "decode" -> session = "OuterMessage" /\ Sense[sent[Len(seen)]] = Refusal
      [] rx.why = "status" -> Sense[sent[Len(seen)]].status # Word(200)
      [] rx.why = "paired" -> "secret_ack" \in DOMAIN Sense[sent[Len(seen)]]
      [] rx.why = "code"   -> "configuration_ack" \in DOMAIN Sense[sent[Len(seen)]]
      [] rx.why = "closed" -> closed /\ net = << >>
      [] OTHER -> rx.why \in {"io", "write"}

(* What frame_send wrote reads back as one frame with the message that was   *)
(* meant: a prefix of as few bytes as possible that gives the length of the  *)
(* rest, and a payload the decoder turns into the same fields.               *)
ReadsBackAs(bytes, m) ==
  LET n == VarintEnd(bytes)
  IN /\ FrameLength(SubSeq(bytes, 1, n)) = Len(bytes) - n
     /\ n > 1 => bytes[n] # 0
     /\ PbDecode(session, SubSeq(bytes, n + 1, Len(bytes))) = m

RoundTrip == \A i \in DOMAIN out : ReadsBackAs(out[i], said[i].msg)

(* Every ping request the remote session could read is answered with its     *)
(* number, once and in order; only the answer whose write ended the session  *)
(* is missing.  Nothing else is answered so.                                 *)
IsPing(m) == "remote_ping_request" \in DOMAIN m
IsPong(m) == "remote_ping_response" \in DOMAIN m

Answers(j, i) == /\ said[j].to = i /\ IsPing(seen[i])
                 /\ said[j].msg.remote_ping_response.val1 = seen[i].remote_ping_request.val1

PingsAnswered ==
  session = "RemoteMessage" =>
    LET pongs == {j \in DOMAIN said : IsPong(said[j].msg)}
    IN /\ \A i \in DOMAIN seen : IsPing(seen[i]) => \/ \E j \in pongs : Answers(j, i)
                                                    \/ i = Len(seen) /\ rx.why = "write"
       /\ \A j \in pongs : \E i \in DOMAIN seen : Answers(j, i)
       /\ \A j, k \in pongs : j < k => said[j].to < said[k].to

(* The volume shown is the one of the last volume message that the remote    *)
(* session could read, whatever was skipped in between (handle_msg,          *)
(* g_atv_status).                                                            *)
IsVolume(m) == "remote_set_volume_level" \in DOMAIN m

VolumeOf(m) == << m.remote_set_volume_level.volume_level, m.remote_set_volume_level.volume_max,
                  m.remote_set_volume_level.volume_muted >>

ShowsLatest ==
  session = "RemoteMessage" =>
    LET vols == {i \in DOMAIN seen : IsVolume(seen[i])}
    IN status.vol = IF vols = {} THEN << >> ELSE VolumeOf(seen[Max(vols)])

(* The codec and the decoder keep the promise of a message channel: each     *)
(* frame is handed up once, in order, with the meaning it was sent with.     *)
Channel == INSTANCE MessageChannel
             WITH Messages <- DOMAIN Frames, Sense <- Sense,
                  sent <- sent, handed <- seen, up <- rx.at # "down"

ImplementsChannel == Channel!Spec

(* Every frame the TV sends is taken up, or the session has ended.           *)
EventuallyHandled ==
  \A n \in 1 .. Max({Len(talk) : talk \in Talks}) : Len(sent) >= n ~> (Len(seen) >= n \/ rx.at = "down")
===============================================================================
