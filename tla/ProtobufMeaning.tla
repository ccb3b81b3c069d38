---------------------------- MODULE ProtobufMeaning ----------------------------
(***************************************************************************)
(* What a protobuf message means, stated over the fields its sender put    *)
(* into it and without any byte stream: the reference the decoder is       *)
(* compared with.  An item is one field occurrence [tag, kind, val]; its   *)
(* kind is "varint" (val: base-128 digits, least significant first),       *)
(* "fixed32", "fixed64", "bytes" (val: the bytes), "msg" (val: the items   *)
(* inside) or "group".                                                     *)
(***************************************************************************)
EXTENDS Nanopb

Item(tag, kind, val) == [tag |-> tag, kind |-> kind, val |-> val]

(***************************************************************************)
(* How a sender puts items on the wire.                                    *)
(***************************************************************************)
RECURSIVE Render(_)

Key(it) == EncodeVarint(Word(8 * it.tag + CASE it.kind = "varint" -> 0 [] it.kind = "fixed64" -> 1
                                             [] it.kind \in {"bytes", "msg"} -> 2
                                             [] it.kind = "group" -> 3 [] OTHER -> 5))

RenderItem(it) ==
  Key(it) \o CASE it.kind = "varint" -> EncodeVarint(it.val)
               [] it.kind = "msg" -> EncodeString(Render(it.val))
               [] it.kind = "bytes" -> EncodeString(it.val)
               [] OTHER -> it.val

Render(items) == FlattenSeq([i \in DOMAIN items |-> RenderItem(items[i])])

(***************************************************************************)
(* The occurrences of a field, and what they hold together: messages that  *)
(* come in parts are one message with all the parts' items.                *)
(***************************************************************************)
Of(items, f) == SelectSeq(items, LAMBDA it : it.tag = f.tag)

Together(its) == FlattenSeq([i \in DOMAIN its |-> its[i].val])

Is32Bit(w) == LET v == Trim(w) IN FitsUint32(v) \/ v = CastInt32(v)

Holds(f, it) ==
  CASE f.ltype = "VARINT"  -> it.kind = "varint"
    [] f.ltype = "UVARINT" -> it.kind = "varint" /\ FitsUint32(Trim(it.val))
    [] f.ltype = "BOOL"    -> it.kind = "varint" /\ Is32Bit(it.val)
    [] f.ltype = "STRING"  -> it.kind = "bytes" /\ Len(it.val) < f.size
    [] f.ltype = "BYTES"   -> it.kind = "bytes" /\ Len(it.val) <= f.size
    [] OTHER -> it.kind = "msg"

(***************************************************************************)
(* A receiver must refuse a message with a field it cannot hold, with more *)
(* elements than it has room for, without a required field, or with an     *)
(* item that is no field at all.                                           *)
(***************************************************************************)
RECURSIVE Refused(_, _)

RefusedField(f, its) ==
  \/ \E i \in DOMAIN its : ~Holds(f, its[i])
  \/ f.htype = "REQUIRED" /\ its = << >>
  \/ f.htype = "REPEATED" /\ Len(its) > f.array
  \/ f.ltype = "SUBMESSAGE" /\ \/ \E i \in DOMAIN its : Refused(f.sub, its[i].val)
                               \/ f.htype # "REPEATED" /\ its # << >> /\ Refused(f.sub, Together(its))

Refused(d, items) ==
  \/ \E i \in DOMAIN items : items[i].tag = 0 \/ items[i].kind = "group"
  \/ \E f \in Range(Descriptor[d]) : f.atype = "STATIC" /\ RefusedField(f, Of(items, f))

(***************************************************************************)
(* Otherwise it means this: the last occurrence of a field counts,         *)
(* messages merge, elements collect, unknown fields and those without a    *)
(* place are passed over.  A field that may be absent is in the domain     *)
(* only when it is there.                                                  *)
(***************************************************************************)
RECURSIVE Meaning(_, _)

Visible(d) == {f \in Range(Descriptor[d]) : f.atype = "STATIC"}
Named(fs, name) == CHOOSE f \in fs : f.name = name

MeaningOf(d, f, its) ==
  IF f.htype = "REPEATED" THEN [i \in DOMAIN its |-> Meaning(f.sub, its[i].val)]
  ELSE IF f.ltype = "SUBMESSAGE" THEN Meaning(f.sub, Together(its))
  ELSE IF its = << >> THEN
    CASE d # "OuterMessage" -> IF f.ltype = "BOOL" THEN FALSE ELSE << >>
      [] d = "OuterMessage" -> IF f.name = "status" THEN << 72, 1 >> ELSE << 1 >>
  ELSE
    CASE f.ltype = "BOOL" -> Trim(Last(its).val) # << >>
      [] f.ltype = "VARINT" -> CastInt32(Trim(Last(its).val))
      [] f.ltype = "UVARINT" -> Trim(Last(its).val)
      [] f.ltype = "STRING" -> CString(Last(its).val)
      [] OTHER -> Last(its).val

Meaning(d, items) ==
  LET here == {f \in Visible(d) : f.htype = "OPTIONAL" => Of(items, f) # << >>}
  IN [name \in {f.name : f \in here} |->
        MeaningOf(d, Named(here, name), Of(items, Named(here, name)))]

(***************************************************************************)
(* The longest encoding of a message of static fields, as the generator    *)
(* counts it: a string with its terminator decides the width of its length.*)
(***************************************************************************)
RECURSIVE Longest(_)

Width(n) == Len(EncodeVarint(Word(n)))

LongestValue(f) ==
  CASE f.ltype = "BOOL" -> 1
    [] f.ltype = "VARINT" -> 10
    [] f.ltype = "UVARINT" -> IF f.name \in DOMAIN EnumType THEN Width(Max(EnumType[f.name])) ELSE 5
    [] f.ltype = "STRING" -> Width(f.size) + f.size - 1
    [] f.ltype = "BYTES" -> Width(f.size) + f.size
    [] OTHER -> Width(Longest(f.sub)) + Longest(f.sub)

Longest(d) ==
  SumFunction([i \in DOMAIN Descriptor[d] |->
            LET f == Descriptor[d][i] IN f.array * (Len(EncodeTag(f)) + LongestValue(f))])

(***************************************************************************)
(* The same view of a decoded message.                                     *)
(***************************************************************************)
RECURSIVE View(_, _)

ViewOf(f, v) ==
  LET value == IF f.htype = "OPTIONAL" THEN v.v ELSE v
  IN IF f.htype = "REPEATED" THEN [i \in DOMAIN v |-> View(f.sub, v[i])]
     ELSE IF f.ltype = "SUBMESSAGE" THEN View(f.sub, value) ELSE value

View(d, m) ==
  LET here == {f \in Visible(d) : f.htype = "OPTIONAL" => m[f.name].has}
  IN [name \in {f.name : f \in here} |-> ViewOf(Named(here, name), m[name])]

(***************************************************************************)
(* And the struct a sender fills in for such a message: what is not there  *)
(* stays as it was initialised.                                            *)
(***************************************************************************)
RECURSIVE Filled(_, _)

FilledValue(f, v) ==
  IF f.htype = "REPEATED" THEN [i \in DOMAIN v |-> Filled(f.sub, v[i])]
  ELSE IF f.ltype = "SUBMESSAGE" THEN Filled(f.sub, v) ELSE v

FilledField(f, m) ==
  IF f.name \notin DOMAIN m THEN FieldDefault(f)
  ELSE IF f.htype = "OPTIONAL" THEN [has |-> TRUE, v |-> FilledValue(f, m[f.name])]
  ELSE FilledValue(f, m[f.name])

Filled(d, m) == [name \in {f.name : f \in Range(Descriptor[d])} |->
                   FilledField(Named(Range(Descriptor[d]), name), m)]
================================================================================
