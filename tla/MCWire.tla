-------------------------------- MODULE MCWire --------------------------------
EXTENDS Wire, ProtobufMeaning

(***************************************************************************)
(* The frames the TV sends in the checked instance.                        *)
(***************************************************************************)
Minus1 == << 127, 127, 127, 127, 127, 127, 127, 127, 127, 1 >>
Chars(n) == [i \in 1 .. n |-> 97]

Num1(tag, n)     == Item(tag, "varint", Word(n))
Msg(tag, items)  == Item(tag, "msg", items)
Str(tag, bytes)  == Item(tag, "bytes", bytes)

Framed(s, items) ==
  LET payload == Render(items)
  IN [session |-> s, items |-> items, payload |-> payload, broken |-> FALSE,
      prefix |-> EncodeVarint(Word(Len(payload)))]

Broken(s, prefix, payload) ==
  [session |-> s, items |-> << >>, payload |-> payload, prefix |-> prefix, broken |-> TRUE]

R(items) == Framed("RemoteMessage", items)
P(items) == Framed("OuterMessage", << Num1(1, 2), Num1(2, 200) >> \o items)

RemoteFrames ==
  [ping      |-> R(<< Msg(8, << Num1(1, 300) >>) >>),
   ping_last |-> R(<< Msg(32, << Num1(1, 1) >>), Msg(8, << Num1(1, 1), Item(1, "varint", Minus1) >>) >>),
   configure |-> R(<< Msg(1, << Item(1, "varint", Minus1), Item(15, "fixed64", Chars(8)) >>),
                      Msg(1, << Msg(2, << Str(1, << 98, 0, 99 >>) >>) >>) >>),
   narrow    |-> R(<< Msg(1, << Num1(1, 3) >>) >>),
   active    |-> R(<< Msg(2, << Num1(1, 622) >>) >>),
   started   |-> R(<< Msg(40, << Item(1, "varint", << 1, 0, 0 >>) >>) >>),
   volume    |-> R(<< Msg(50, << Num1(7, 150), Num1(6, 200), Num1(8, 1) >>) >>),
   too_loud  |-> R(<< Msg(50, << Num1(6, 100), Item(7, "varint", << 0, 0, 0, 0, 16 >>) >>) >>),
   label63   |-> R(<< Msg(22, << Msg(2, << Str(6, Chars(63)) >>) >>) >>),
   label64   |-> R(<< Msg(22, << Msg(2, << Str(6, Chars(64)) >>) >>) >>),
   edits2    |-> R(<< Msg(21, << Msg(3, << Num1(1, 9), Msg(2, << Num1(1, 5) >>) >>),
                                 Msg(3, << Msg(2, << Num1(2, 6) >>) >>) >>) >>),
   edits3    |-> R(<< Msg(21, << Msg(3, << >>), Msg(3, << >>) >>), Msg(21, << Msg(3, << >>) >>) >>),
   error     |-> R(<< Msg(3, << Num1(1, 1), Msg(2, << Msg(8, << >>) >>) >>),
                      Msg(3, << Num1(2, 7) >>) >>),
   zero_tag  |-> R(<< Msg(8, << >>), Num1(0, 1) >>),
   empty     |-> R(<< >>),
   wrong     |-> R(<< Item(8, "fixed32", Chars(4)) >>),
   group     |-> R(<< Item(100, "group", << >>) >>),
   padded    |-> [R(<< Msg(90, << Str(1, << 104 >>) >>) >>) EXCEPT !.prefix = << 134, 0 >>],
   cut       |-> Broken("RemoteMessage", << 4 >>, << 66, 3, 8, 7 >>),
   full      |-> R(<< Str(100, Chars(508)) >>),
   keyboard  |-> R(<< Msg(20, << Msg(1, << Str(4, Chars(63)), Str(10, Chars(63)), Str(12, Chars(127)) >>),
                                 Msg(2, << Str(2, Chars(127)), Str(6, Chars(63)) >>),
                                 Msg(2, << Str(2, Chars(127)) >>) >>) >>),
   endless   |-> Broken("RemoteMessage", << 128, 128, 128, 128, 128, 1 >>, << 0 >>),
   wrapped   |-> [R(<< Msg(8, << Num1(1, 7) >>) >>) EXCEPT !.prefix = << 132, 128, 128, 128, 16 >>]]

PairingFrames ==
  [req_ack    |-> P(<< Msg(11, << Str(1, Chars(63)) >>) >>),
   long_name  |-> P(<< Msg(11, << Str(1, Chars(64)) >>) >>),
   options    |-> P(<< Msg(20, << Msg(1, << Num1(1, 3), Num1(2, 6) >>) >>),
                       Msg(20, << Msg(2, << Num1(1, 4), Num1(2, 8) >>), Num1(3, 2) >>) >>),
   options5   |-> P(<< Msg(20, [i \in 1 .. 3 |-> Msg(1, << Num1(1, i), Num1(2, 6) >>)]),
                       Msg(20, [i \in 1 .. 2 |-> Msg(1, << Num1(1, i), Num1(2, 6) >>)]) >>),
   config_ack |-> P(<< Msg(31, << >>) >>),
   secret_ack |-> P(<< Msg(41, << Str(1, Chars(32)) >>) >>),
   long_ack   |-> P(<< Msg(41, << Str(1, Chars(33)) >>) >>),
   no_symbols |-> P(<< Msg(30, << Msg(1, << Num1(1, 3) >>), Num1(2, 1) >>) >>),
   bad_secret |-> P(<< Num1(2, 402) >>),
   no_status  |-> Framed("OuterMessage", << Num1(1, 2), Msg(31, << >>) >>)]

MCFrames == RemoteFrames @@ PairingFrames

(***************************************************************************)
(* Every frame alone and before a ping, some before one they bear on, and  *)
(* the whole of a pairing.                                                 *)
(***************************************************************************)
MCTalks == {<< f, "ping" >> : f \in DOMAIN RemoteFrames}
             \cup {<< "narrow", "active" >>, << "narrow", "configure" >>, << "volume", "too_loud" >>,
                   << "volume", "started", "volume" >>}
             \cup {<< f, "config_ack" >> : f \in DOMAIN PairingFrames}
             \cup {<< "req_ack", "options", "config_ack", "secret_ack" >>}

(***************************************************************************)
(* What the frames say, and the codec.                                     *)
(***************************************************************************)
MCSense == [f \in DOMAIN MCFrames |->
              LET frame == MCFrames[f]
              IN IF frame.broken \/ Refused(frame.session, frame.items) THEN Refusal
                 ELSE Meaning(frame.session, frame.items)]

MCDecode(s, bytes) == LET r == Decode(s, bytes) IN IF r.ok THEN View(s, r.v) ELSE Refusal
MCEncode(s, m)     == LET r == Encode(s, Filled(s, m)) IN [ok |-> r.ok, v |-> r.v]

MCKeys   == {<< 0, 3 >>, << 127, 1 >>, << 304, 2 >>}
MCLinks  == {<< >>, Chars(127)}
MCSecret == [i \in 1 .. 32 |-> i - 1]

(***************************************************************************)
(* The request test_frame.c keeps from the reference implementation, with  *)
(* shorter names.                                                          *)
(***************************************************************************)
ASSUME Golden ==
  MCEncode("OuterMessage", OuterMessage("pairing_request",
                             [service_name |-> << 97 >>, client_name |-> << 101 >>])).v
    = << 8, 2, 16, 200, 1, 82, 6, 10, 1, 97, 18, 1, 101 >>

(***************************************************************************)
(* The tables agree with the `_size' constants the generator wrote.  Only  *)
(* two messages can be longer than a frame: a keyboard's, and a message    *)
(* that holds one.                                                         *)
(***************************************************************************)
Sizes == RemoteSize @@ PoloSize @@ ShortcutSize

ASSUME SizesAgree == \A d \in DOMAIN Sizes : Longest(d) = Sizes[d]

ASSUME TooLongForAFrame ==
  {d \in DOMAIN RemoteSize \cup DOMAIN PoloSize : Sizes[d] > FRAME_MAX_MSG} = {"RemoteImeKeyInject"}

ASSUME CommandsAreKeys == MCKeys \subseteq KeyCode \X Direction
ASSUME Carries == CodecCarries
===============================================================================
