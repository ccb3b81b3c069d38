-------------------------------- MODULE Nanopb --------------------------------
(***************************************************************************)
(* The nanopb decoder and encoder as the program uses them: fields in      *)
(* static members, two fields with the default callback and no function    *)
(* set, streams over memory buffers.                                       *)
(*                                                                         *)
(* A stream is the sequence of the bytes not read yet.  A reading operator *)
(* returns [ok, v, rest]: whether it succeeded, what it read and what it   *)
(* leaves.  An integer is kept as its digits (Varints), an int32 as the    *)
(* 64 bits of its sign extension.  A message maps the field names to       *)
(* values: an OPTIONAL field to [has, v], a REPEATED one to the sequence   *)
(* of its elements, a string to its characters up to the terminator.       *)
(***************************************************************************)
EXTENDS AtvSchema, SequencesExt, Varints

Fail        == [ok |-> FALSE, v |-> << >>, rest |-> << >>]
Ok(v, rest) == [ok |-> TRUE, v |-> v, rest |-> rest]

(* A step after one that may fail.                                           *)
Then(r, Step(_)) == IF r.ok THEN Step(r) ELSE Fail

-------------------------------------------------------------------------------
(* Integers of any width.                                                    *)

FitsUint32(w) == Len(w) < 5 \/ (Len(w) = 5 /\ w[5] < 16)

(* (int32_t) of a 64-bit value, extended to 64 bits again. *)
CastInt32(w) ==
  LET low == [i \in 1 .. 4 |-> Digit(w, i)]
      top == Digit(w, 5) % 16
  IN IF top >= 8 THEN low \o << 112 + top, 127, 127, 127, 127, 1 >>
                 ELSE Trim(low \o << top >>)

-------------------------------------------------------------------------------
(* Reading.                                                                  *)

Read(s, n) == IF Len(s) < n THEN Fail
              ELSE Ok(SubSeq(s, 1, n), SubSeq(s, n + 1, Len(s)))

(* The digits of a varint of n bytes, of which bits positions up to 31 or   *)
(* 63 count.                                                                *)
Varint(s, n, digits) == Ok(Trim(digits), SubSeq(s, n + 1, Len(s)))

(* A 32-bit varint may be a sign-extended negative number: then bytes six   *)
(* to ten repeat the sign.  They may also carry nothing.                    *)
ValidExtension(s, i) == \/ s[i] % 128 = 0
                        \/ s[5] % 16 >= 8 /\ s[i] = IF i < 10 THEN 255 ELSE 1

DecodeVarint32(s) ==
  LET n == VarintEnd(s) IN
  IF \/ n = 0 \/ n > 10
     \/ n >= 5 /\ s[5] % 128 \in 16 .. 119
     \/ \E i \in 6 .. n : ~ValidExtension(s, i)
  THEN Fail
  ELSE Varint(s, n, [i \in 1 .. IF n < 5 THEN n ELSE 5 |-> s[i] % IF i = 5 THEN 16 ELSE 128])

DecodeVarint(s) ==
  LET n == VarintEnd(s) IN
  IF n = 0 \/ n > 10 \/ (n = 10 /\ s[10] > 1) THEN Fail
  ELSE Varint(s, n, [i \in 1 .. n |-> s[i] % 128])

SkipVarint(s) == LET n == VarintEnd(s) IN IF n = 0 THEN Fail ELSE Read(s, n)

(* A length and that many bytes: a string to skip, or a substream.          *)
Delimited(s) == Then(DecodeVarint32(s), LAMBDA size : Read(size.rest, Num(size.v)))

WT_VARINT == 0
WT_64BIT  == 1
WT_STRING == 2
WT_32BIT  == 5

SkipField(wt, s) ==
  CASE wt = WT_VARINT -> SkipVarint(s)
    [] wt = WT_64BIT  -> Read(s, 8)
    [] wt = WT_STRING -> Delimited(s)
    [] wt = WT_32BIT  -> Read(s, 4)
    [] OTHER -> Fail

ReadRawValue(wt, s) ==
  CASE wt = WT_VARINT -> IF VarintEnd(s) \in 1 .. 10 THEN SkipVarint(s) ELSE Fail
    [] wt = WT_64BIT  -> Read(s, 8)
    [] wt = WT_32BIT  -> Read(s, 4)
    [] OTHER -> Fail

(* The key of a field: tag in the upper bits of a 32-bit varint, wire type  *)
(* in the lowest three.                                                     *)
TagNumber(w) == Digit(w, 1) \div 8 + 16 * Digit(w, 2) + 2^11 * Digit(w, 3)
                  + 2^18 * Digit(w, 4) + 2^25 * Digit(w, 5)

DecodeTag(s) ==
  Then(DecodeVarint32(s), LAMBDA key :
    Ok([tag |-> TagNumber(key.v), wt |-> Digit(key.v, 1) % 8], key.rest))

-------------------------------------------------------------------------------
(* The field iterator.                                                       *)

(* Mutant: the search does not wrap around.                                  *)
SearchForward(fs, at, tag) == [j \in 1 .. Len(fs) - at |-> at + j]

(* The positions a search visits, starting after `at', or from the first    *)
(* when the tag is a smaller one.                                           *)
SearchOrder(fs, at, tag) ==
  IF tag < fs[at].tag THEN [j \in 1 .. at |-> j]
  ELSE [j \in 1 .. Len(fs) |-> ((at + j - 1) % Len(fs)) + 1]

(* The position of the field with this tag, 0 when there is none.           *)
FieldIterFind(fs, at, tag) ==
  IF fs = << >> \/ tag > Last(fs).tag THEN 0
  ELSE IF fs[at].tag = tag THEN at
  ELSE LET order == SearchOrder(fs, at, tag)
           hits  == {j \in DOMAIN order : fs[order[j]].tag = tag}
       IN IF hits = {} THEN 0 ELSE order[CHOOSE j \in hits : \A k \in hits : j <= k]

-------------------------------------------------------------------------------
(* Decoding.                                                                 *)

(* Characters up to the first NUL. *)
CString(bytes) == LET nuls == {i \in DOMAIN bytes : bytes[i] = 0}
                  IN IF nuls = {} THEN bytes ELSE SubSeq(bytes, 1, Min(nuls) - 1)

DecodeBool(s) == Then(DecodeVarint32(s), LAMBDA r : Ok(r.v # << >>, r.rest))

DecodeInteger(f, s) ==
  Then(DecodeVarint(s), LAMBDA r : IF f.ltype = "VARINT" THEN Ok(CastInt32(r.v), r.rest)
                                   ELSE IF FitsUint32(r.v) THEN r ELSE Fail)

DecodeBytes(f, s) ==
  Then(Delimited(s), LAMBDA r : IF Len(r.v) <= f.size THEN r ELSE Fail)

DecodeString(f, s) ==
  Then(Delimited(s), LAMBDA r : IF Len(r.v) + 1 <= f.size THEN Ok(CString(r.v), r.rest) ELSE Fail)

(* The default encoding a descriptor carries; the zero byte ends it.        *)
DefaultValue(d) == IF d = "OuterMessage" THEN << 8, 1, 16, 200, 1, 0 >> ELSE << >>

RECURSIVE DecodeInner(_, _, _, _, _), SetToDefaults(_, _, _, _), MessageDefault(_)

ZeroValue(f) == CASE f.ltype = "BOOL" -> FALSE
                  [] f.ltype = "SUBMESSAGE" /\ f.atype = "STATIC" -> MessageDefault(f.sub)
                  [] OTHER -> << >>

FieldDefault(f) ==
  IF f.atype = "CALLBACK" THEN "callback"
  ELSE CASE f.htype = "REPEATED" -> << >>
         [] f.htype = "OPTIONAL" -> [has |-> FALSE, v |-> ZeroValue(f)]
         [] OTHER -> ZeroValue(f)

DecodeSubmessage(f, s, old) ==
  Then(Delimited(s), LAMBDA sub :
    Then(DecodeInner(Descriptor[f.sub], sub.v, 1,
                     IF f.htype = "REPEATED" THEN MessageDefault(f.sub) ELSE old, {}),
         LAMBDA r : Ok(r.v, sub.rest)))

WireType(f) == IF f.ltype \in {"BOOL", "VARINT", "UVARINT"} THEN WT_VARINT ELSE WT_STRING

DecodeBasicField(f, wt, s, old) ==
  IF wt # WireType(f) THEN Fail
  ELSE CASE f.ltype = "BOOL" -> DecodeBool(s)
         [] f.ltype \in {"VARINT", "UVARINT"} -> DecodeInteger(f, s)
         [] f.ltype = "BYTES" -> DecodeBytes(f, s)
         [] f.ltype = "STRING" -> DecodeString(f, s)
         [] OTHER -> DecodeSubmessage(f, s, old)

(* A field that comes again replaces the earlier value; a message is decoded *)
(* into the old one; a repeated field takes the next free element.          *)
DecodeStaticField(f, wt, s, old) ==
  Then(DecodeBasicField(f, wt, s, IF f.htype = "OPTIONAL" THEN old.v ELSE old), LAMBDA r :
    CASE f.htype = "OPTIONAL" -> Ok([has |-> TRUE, v |-> r.v], r.rest)
      [] f.htype = "REPEATED" -> IF Len(old) >= f.array THEN Fail ELSE Ok(Append(old, r.v), r.rest)
      [] OTHER -> r)

(* No decoding function is set: the value is passed over.                   *)
DecodeCallbackField(wt, s, old) ==
  Then(IF wt = WT_STRING THEN Delimited(s) ELSE ReadRawValue(wt, s), LAMBDA r : Ok(old, r.rest))

DecodeField(f, wt, s, old) == IF f.atype = "STATIC" THEN DecodeStaticField(f, wt, s, old)
                              ELSE DecodeCallbackField(wt, s, old)

(* A field set to its default, or to what comes next in the default encoding *)
(* of its message.                                                          *)
SetField(f, default, s) ==
  LET key == DecodeTag(s)
  IN IF s # << >> /\ key.v.tag = f.tag THEN DecodeField(f, key.v.wt, key.rest, default)
     ELSE Ok(default, s)

SetToDefaults(fs, i, s, m) ==
  IF i > Len(fs) THEN m
  ELSE LET r == SetField(fs[i], FieldDefault(fs[i]), s)
       IN SetToDefaults(fs, i + 1, r.rest, m @@ (fs[i].name :> r.v))

MessageDefault(d) == SetToDefaults(Descriptor[d], 1, DefaultValue(d), << >>)

RequiredFields(fs) == {i \in DOMAIN fs : fs[i].htype = "REQUIRED"}

(* The rest of the loop over the fields on the stream, where i is the place  *)
(* of the field whose key has been read.                                    *)
DecodeNext(fs, key, i, at, m, seen) ==
  CASE key.v.tag = 0 -> Fail
    [] key.v.tag # 0 /\ i = 0 ->
         Then(SkipField(key.v.wt, key.rest), LAMBDA r : DecodeInner(fs, r.rest, at, m, seen))
    [] OTHER ->
         Then(DecodeField(fs[i], key.v.wt, key.rest, m[fs[i].name]), LAMBDA r :
           DecodeInner(fs, r.rest, i, [m EXCEPT ![fs[i].name] = r.v], seen \cup {i}))

(* The loop: `at' is the iterator's field, m the message so far, seen the    *)
(* required fields met.                                                     *)
DecodeInner(fs, s, at, m, seen) ==
  IF s = << >> THEN IF RequiredFields(fs) \subseteq seen THEN Ok(m, << >>) ELSE Fail
  ELSE Then(DecodeTag(s), LAMBDA key :
         DecodeNext(fs, key, FieldIterFind(fs, at, key.v.tag), at, m, seen))

Decode(d, bytes) == DecodeInner(Descriptor[d], bytes, 1, MessageDefault(d), {})

-------------------------------------------------------------------------------
(* Encoding.  Write joins what the parts wrote, if all of them succeeded.    *)

Wrote(bytes) == Ok(bytes, << >>)

Write(parts) == IF \E i \in DOMAIN parts : ~parts[i].ok THEN Fail
                ELSE Wrote(FlattenSeq([i \in DOMAIN parts |-> parts[i].v]))

EncodeTag(f) == EncodeVarint(Word(8 * f.tag + WireType(f)))

EncodeString(bytes) == EncodeVarint(Word(Len(bytes))) \o bytes

RECURSIVE Encode(_, _)

EncodeSubmessage(d, m) == Then(Encode(d, m), LAMBDA r : Wrote(EncodeString(r.v)))

(* A bytes member cannot hold more than its capacity, a string member needs  *)
(* the terminator inside it.                                                *)
EncodeValue(f, v) ==
  CASE f.ltype = "BOOL" -> Wrote(EncodeVarint(Word(IF v THEN 1 ELSE 0)))
    [] f.ltype \in {"VARINT", "UVARINT"} -> Wrote(EncodeVarint(v))
    [] f.ltype = "BYTES" -> IF Len(v) > f.size THEN Fail ELSE Wrote(EncodeString(v))
    [] f.ltype = "STRING" -> IF Len(v) >= f.size THEN Fail ELSE Wrote(EncodeString(v))
    [] OTHER -> EncodeSubmessage(f.sub, v)

EncodeBasicField(f, v) == Write(<< Wrote(EncodeTag(f)), EncodeValue(f, v) >>)

EncodeArray(f, v) == IF Len(v) > f.array THEN Fail
                     ELSE Write([i \in DOMAIN v |-> EncodeBasicField(f, v[i])])

(* A singular field is left out when it holds zero, FALSE or "".             *)
IsProto3Default(f, v) == IF f.ltype = "BOOL" THEN ~v ELSE v = << >>

EncodeField(f, v) ==
  IF f.atype = "CALLBACK" THEN Wrote(<< >>)
  ELSE CASE f.htype = "REPEATED" -> EncodeArray(f, v)
         [] f.htype = "OPTIONAL" -> IF v.has THEN EncodeBasicField(f, v.v) ELSE Wrote(<< >>)
         [] f.htype = "SINGULAR" -> IF IsProto3Default(f, v) THEN Wrote(<< >>)
                                    ELSE EncodeBasicField(f, v)
         [] OTHER -> EncodeBasicField(f, v)

EncodeFields(fs, m) == Write([i \in DOMAIN fs |-> EncodeField(fs[i], m[fs[i].name])])

Encode(d, m) == EncodeFields(Descriptor[d], m)
===============================================================================
