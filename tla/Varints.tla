-------------------------------- MODULE Varints --------------------------------
(***************************************************************************)
(* Integers on the wire.  An integer is its base-128 digits, least         *)
(* significant first, without leading zeros (zero is << >>), so that       *)
(* 64-bit values stay exact.  A varint is the digits as bytes, all but the *)
(* last with 128 added.                                                    *)
(***************************************************************************)
EXTENDS Integers, Sequences, FiniteSetsExt

(* Without leading zeros.                                                    *)
Trim(w) == SubSeq(w, 1, Max({0} \cup {i \in DOMAIN w : w[i] # 0}))

Digit(w, i) == IF i <= Len(w) THEN w[i] ELSE 0

(* The number, exact below 2^28; everything from there on is only ever       *)
(* compared with capacities and counts as 2^28.                              *)
Num(w) == IF \E i \in DOMAIN w : i > 4 /\ w[i] # 0 THEN 128 * 128 * 128 * 128
          ELSE Digit(w, 1) + 128 * (Digit(w, 2) + 128 * (Digit(w, 3) + 128 * Digit(w, 4)))

(* The digits of a number below 2^28.                                        *)
Word(n) == Trim(<< n % 128, (n \div 128) % 128, (n \div (128 * 128)) % 128,
                   n \div (128 * 128 * 128) >>)

EncodeVarint(w) == IF w = << >> THEN << 0 >>
                   ELSE [i \in DOMAIN w |-> w[i] + IF i < Len(w) THEN 128 ELSE 0]

(* Where the first varint of s ends: the first byte below 128; 0 when the    *)
(* stream ends before.                                                       *)
VarintEnd(s) == IF \E i \in 1 .. Len(s) : s[i] < 128
                THEN CHOOSE i \in 1 .. Len(s) : s[i] < 128 /\ \A j \in 1 .. i - 1 : s[j] >= 128
                ELSE 0
================================================================================
