---------------------------- MODULE LogViewerProofs ----------------------------
(***************************************************************************)
(* For every size of the ring, of a line and of a reply: the ring holds    *)
(* what was logged, a reply shows it, and the page that polls has one      *)
(* chain of polls and shows the log without a gap that is not marked.      *)
(*                                                                         *)
(* The argument for the ring follows the slots: the write position divides *)
(* it into slots that hold positions of the current round and slots that   *)
(* hold positions of the round before.  The argument for the page follows  *)
(* the position a chain asks for: the byte before it is the last one       *)
(* shown, or the count came round in between, or the device restarted.     *)
(***************************************************************************)
EXTENDS LogViewer, SequenceTheorems, TLAPS

(***************************************************************************)
(* Remainders.                                                             *)
(***************************************************************************)
LEMMA Division ==
  ASSUME NEW M \in Nat \ {0}, NEW x \in Nat
  PROVE  /\ x % M \in 0 .. M - 1
         /\ \E k \in Int : x = k * M + (x % M)
<1>1. x % M \in 0 .. M - 1
  OBVIOUS
<1>2. x \div M \in Int /\ x = M * (x \div M) + (x % M)
  OBVIOUS
<1>3. M * (x \div M) = (x \div M) * M
  BY <1>2
<1> QED
  BY <1>1, <1>2, <1>3

LEMMA Remainder ==
  ASSUME NEW M \in Nat \ {0}, NEW x \in Nat, NEW k \in Int, NEW r \in 0 .. M - 1, x = k * M + r
  PROVE  x % M = r
<1>1. PICK j \in Int : x = j * M + (x % M)
  BY Division
<1>2. x % M \in 0 .. M - 1
  BY Division
<1>3. CASE j = k
  BY <1>1, <1>2, <1>3
<1>4. CASE j >= k + 1
  <2>1. (j - k) * M >= M
    BY <1>4
  <2>2. (j - k) * M = j * M - k * M
    OBVIOUS
  <2> QED
    BY <1>1, <1>2, <2>1, <2>2
<1>5. CASE k >= j + 1
  <2>1. (k - j) * M >= M
    BY <1>5
  <2>2. (k - j) * M = k * M - j * M
    OBVIOUS
  <2> QED
    BY <1>1, <1>2, <2>1, <2>2
<1> QED
  BY <1>3, <1>4, <1>5

(* Remainders by the size of the ring.                                       *)
LEMMA DivMod ==
  ASSUME NEW x \in Nat
  PROVE  /\ x % Cap \in 0 .. Cap - 1
         /\ \E k \in Int : x = k * Cap + (x % Cap)
  BY CapAssumption, Division

LEMMA ModUnique ==
  ASSUME NEW x \in Nat, NEW k \in Int, NEW r \in 0 .. Cap - 1, x = k * Cap + r
  PROVE  x % Cap = r
  BY CapAssumption, Remainder

(* A position no more than a ring away: the slot is found by going forward,  *)
(* or back, in the ring.                                                     *)
LEMMA SlotAfter ==
  ASSUME NEW x \in Nat, NEW n \in 0 .. Cap
  PROVE  (x + n) % Cap = IF (x % Cap) + n < Cap THEN (x % Cap) + n ELSE (x % Cap) + n - Cap
<1>1. PICK k \in Int : x = k * Cap + (x % Cap)
  BY DivMod
<1>2. x % Cap \in 0 .. Cap - 1
  BY DivMod
<1>3. CASE (x % Cap) + n < Cap
  <2>1. x + n = k * Cap + ((x % Cap) + n)
    BY <1>1, <1>2, CapAssumption
  <2>2. (x % Cap) + n \in 0 .. Cap - 1 /\ x + n \in Nat
    BY <1>2, <1>3, CapAssumption
  <2> QED
    BY <2>1, <2>2, <1>3, ModUnique
<1>4. CASE ~((x % Cap) + n < Cap)
  <2>1. x + n = (k + 1) * Cap + ((x % Cap) + n - Cap)
    <3>1. (k + 1) * Cap = k * Cap + Cap /\ k * Cap \in Int
      BY CapAssumption
    <3>2. x + n = k * Cap + (x % Cap) + n
      BY <1>1
    <3> QED
      BY <1>2, <3>1, <3>2, CapAssumption
  <2>2. (x % Cap) + n - Cap \in 0 .. Cap - 1 /\ x + n \in Nat /\ k + 1 \in Int
    BY <1>2, <1>4, CapAssumption
  <2> QED
    BY <2>1, <2>2, <1>4, ModUnique
<1> QED
  BY <1>3, <1>4

LEMMA SlotBefore ==
  ASSUME NEW x \in Nat, NEW n \in 0 .. Cap, n <= x
  PROVE  (x - n) % Cap = IF n <= x % Cap THEN (x % Cap) - n ELSE (x % Cap) - n + Cap
<1>1. PICK k \in Int : x = k * Cap + (x % Cap)
  BY DivMod
<1>2. x % Cap \in 0 .. Cap - 1
  BY DivMod
<1>3. CASE n <= x % Cap
  <2>1. x - n = k * Cap + ((x % Cap) - n)
    BY <1>1, <1>2, CapAssumption
  <2>2. (x % Cap) - n \in 0 .. Cap - 1 /\ x - n \in Nat
    BY <1>2, <1>3, CapAssumption
  <2> QED
    BY <2>1, <2>2, <1>3, ModUnique
<1>4. CASE ~(n <= x % Cap)
  <2>1. x - n = (k - 1) * Cap + ((x % Cap) - n + Cap)
    <3>1. (k - 1) * Cap = k * Cap - Cap
      BY CapAssumption
    <3> QED
      BY <1>1, <1>2, <3>1, CapAssumption
  <2>2. (x % Cap) - n + Cap \in 0 .. Cap - 1 /\ x - n \in Nat /\ k - 1 \in Int
    BY <1>2, <1>4, CapAssumption
  <2> QED
    BY <2>1, <2>2, <1>4, ModUnique
<1> QED
  BY <1>3, <1>4

(***************************************************************************)
(* The inductive invariant: the position slot q stands for is of this      *)
(* round when q is before the write position, of the last one otherwise.   *)
(***************************************************************************)
BufType ==
  /\ total \in 0 .. W - 1 /\ written \in Nat /\ torn \in Nat
  /\ ring \in [0 .. Cap - 1 -> Int]

PositionOf(q) ==
  IF q < total % Cap THEN total - (total % Cap) + q ELSE total - (total % Cap) + q - Cap

SlotsHold ==
  \A q \in 0 .. Cap - 1 :
    PositionOf(q) >= 0 /\ PositionOf(q) >= torn => ring[q] = written - (total - PositionOf(q))

BufInv == BufType /\ SlotsHold

(* The slot of a position the ring still has stands for that position.       *)
LEMMA SlotOfPosition ==
  ASSUME NEW p \in Nat, total \in Nat, p < total, total - p <= Cap
  PROVE  /\ Slot(p) \in 0 .. Cap - 1
         /\ PositionOf(Slot(p)) = p
<1>1. total % Cap \in 0 .. Cap - 1
  BY DivMod
<1> DEFINE n == total - p
<1>2. n \in 1 .. Cap /\ total - n = p
  BY CapAssumption
<1> HIDE DEF n
<1>3. n \in 0 .. Cap /\ n <= total
  BY <1>2
<1>4. (total - n) % Cap = IF n <= total % Cap THEN (total % Cap) - n ELSE (total % Cap) - n + Cap
  BY <1>3, SlotBefore
<1>5. Slot(p) = IF n <= total % Cap THEN (total % Cap) - n ELSE (total % Cap) - n + Cap
  BY <1>2, <1>4 DEF Slot
<1> QED
  BY <1>1, <1>2, <1>5, CapAssumption DEF PositionOf

(* Oldest is never more than a ring behind (logbuf_read).                    *)
LEMMA OldestInRing ==
  ASSUME total \in Nat
  PROVE  Oldest \in 0 .. total /\ total - Oldest <= Cap
  BY CapAssumption DEF Oldest

LEMMA InvGivesRingHolds ==
  ASSUME BufInv
  PROVE  RingHolds
<1> SUFFICES ASSUME NEW p \in 0 .. total - 1, p >= Oldest, p >= torn
             PROVE  ring[Slot(p)] = written - (total - p)
  BY DEF RingHolds
<1>1. total \in Nat /\ p \in Nat /\ p < total
  BY WAssumption DEF BufInv, BufType
<1>2. total - p <= Cap
  BY <1>1, OldestInRing, CapAssumption
<1>3. Slot(p) \in 0 .. Cap - 1 /\ PositionOf(Slot(p)) = p
  BY <1>1, <1>2, SlotOfPosition
<1> QED
  BY <1>1, <1>3 DEF BufInv, SlotsHold

LEMMA KeptInRing ==
  ASSUME NEW len \in Nat
  PROVE  Kept(len) \in 0 .. Cap
  BY CapAssumption, LineAssumption DEF Kept, AtMost

(* A line that does not reach 2^32 (logbuf_write).                           *)
LEMMA WriteKeepsInv ==
  ASSUME NEW len \in Nat, BufInv, LogWrite(len)
  PROVE  BufInv'
<1> DEFINE n     == Kept(len)
           pos   == total % Cap
           first == First(pos, n)
<1> USE CapAssumption, WAssumption
<1>1. n \in 0 .. Cap
  BY KeptInRing
<1>2. pos \in 0 .. Cap - 1 /\ total \in Nat /\ total < W /\ written \in Nat /\ torn \in Nat
  <2>1. total \in Nat /\ total < W /\ written \in Nat /\ torn \in Nat
    BY DEF BufInv, BufType
  <2>2. pos \in 0 .. Cap - 1
    BY <2>1, DivMod
  <2> QED
    BY <2>1, <2>2
<1>3. first \in 0 .. n /\ first <= Cap - pos /\ (first = n \/ first = Cap - pos)
  BY <1>1, <1>2 DEF First, AtMost
<1>4. ring' = [q \in 0 .. Cap - 1 |->
                 CASE q \in pos .. pos + first - 1 -> written + (q - pos)
                   [] q \in 0 .. n - first - 1     -> written + (first + q)
                   [] OTHER -> ring[q]]
  BY DEF LogWrite
<1>5. total' = (total + n) % W /\ written' = written + n
  BY DEF LogWrite
<1>6. torn' = IF total + n >= W THEN total + n - W ELSE torn
  BY DEF LogWrite
<1> HIDE DEF n, pos, first
<1>7. BufType'
  <2>1. total' \in 0 .. W - 1
    BY <1>1, <1>2, <1>5
  <2>2. ring' \in [0 .. Cap - 1 -> Int]
    <3>1. ASSUME NEW q \in 0 .. Cap - 1
          PROVE  ring'[q] \in Int
      <4>1. ring[q] \in Int
        BY DEF BufInv, BufType
      <4>2. CASE q \in pos .. pos + first - 1
        <5>0. q \notin 0 .. n - first - 1
          BY <1>1, <1>2, <1>3, <4>2
        <5>1. ring'[q] = written + (q - pos)
          BY <1>4, <4>2, <5>0
        <5> QED
          BY <1>2, <5>1
      <4>3. CASE q \notin pos .. pos + first - 1 /\ q \in 0 .. n - first - 1
        <5>1. ring'[q] = written + (first + q)
          BY <1>4, <4>3
        <5> QED
          BY <1>2, <1>3, <5>1
      <4>4. CASE q \notin pos .. pos + first - 1 /\ q \notin 0 .. n - first - 1
        <5>1. ring'[q] = ring[q]
          BY <1>4, <4>4
        <5> QED
          BY <4>1, <5>1
      <4> QED
        BY <4>2, <4>3, <4>4
    <3>2. ring' = [q \in 0 .. Cap - 1 |-> ring'[q]]
      BY <1>4
    <3> QED
      BY <3>1, <3>2
  <2> QED
    BY <1>1, <1>2, <1>5, <1>6, <2>1, <2>2 DEF BufType
<1>8. CASE total + n < W
  <2>1. total' = total + n /\ torn' = torn
    BY <1>1, <1>2, <1>5, <1>6, <1>8
  <2>2. total' % Cap = IF pos + n < Cap THEN pos + n ELSE pos + n - Cap
    BY <1>1, <1>2, <2>1, SlotAfter DEF pos
  <2>3. ASSUME NEW q \in 0 .. Cap - 1, PositionOf(q)' >= 0, PositionOf(q)' >= torn'
        PROVE  ring'[q] = written' - (total' - PositionOf(q)')
    <3>1. PositionOf(q)' = IF q < total' % Cap THEN total' - (total' % Cap) + q
                           ELSE total' - (total' % Cap) + q - Cap
      BY DEF PositionOf
    <3>2. PositionOf(q) = IF q < pos THEN total - pos + q ELSE total - pos + q - Cap
      BY DEF PositionOf, pos
    <3>3. CASE q \in pos .. pos + first - 1
      <4>0. q \notin 0 .. n - first - 1
        BY <1>1, <1>2, <1>3, <3>3
      <4>1. ring'[q] = written + (q - pos)
        BY <1>4, <3>3, <4>0
      <4> QED
        BY <1>1, <1>2, <1>3, <1>5, <2>1, <2>2, <3>1, <3>3, <4>1
    <3>4. CASE q \in 0 .. n - first - 1
      <4>1. q \notin pos .. pos + first - 1 /\ first = Cap - pos
        BY <1>1, <1>2, <1>3, <3>4
      <4>2. ring'[q] = written + (first + q)
        BY <1>4, <3>4, <4>1
      <4> QED
        BY <1>1, <1>2, <1>3, <1>5, <2>1, <2>2, <3>1, <3>4, <4>1, <4>2
    <3>5. CASE q \notin pos .. pos + first - 1 /\ q \notin 0 .. n - first - 1
      <4>1. ring'[q] = ring[q]
        BY <1>4, <3>5
      <4>2. PositionOf(q)' = PositionOf(q)
        BY <1>1, <1>2, <1>3, <2>1, <2>2, <3>1, <3>2, <3>5
      <4>3. ring[q] = written - (total - PositionOf(q))
        BY <2>1, <2>3, <4>2 DEF BufInv, SlotsHold
      <4>4. PositionOf(q) \in Int
        BY <1>2, <3>2
      <4> QED
        BY <1>1, <1>2, <1>5, <2>1, <4>1, <4>2, <4>3, <4>4
    <3> QED
      BY <3>3, <3>4, <3>5
  <2> QED
    BY <1>7, <2>3 DEF BufInv, SlotsHold
<1>9. CASE total + n >= W
  <2>1. total' = total + n - W /\ torn' = total'
    <3>1. total + n - W \in 0 .. W - 1
      BY <1>1, <1>2, <1>9
    <3> QED
      BY <1>1, <1>2, <1>5, <1>6, <1>9, <3>1
  <2>2. ASSUME NEW q \in 0 .. Cap - 1
        PROVE  ~(PositionOf(q)' >= torn')
    <3>1. total' \in Nat /\ total' % Cap \in 0 .. Cap - 1
      BY <1>1, <1>2, <1>9, <2>1, DivMod
    <3>2. PositionOf(q)' = IF q < total' % Cap THEN total' - (total' % Cap) + q
                           ELSE total' - (total' % Cap) + q - Cap
      BY DEF PositionOf
    <3> QED
      BY <2>1, <3>1, <3>2
  <2> QED
    BY <1>7, <2>2 DEF BufInv, SlotsHold
<1> QED
  BY <1>1, <1>2, <1>8, <1>9

(* The RAM of a restarted device (logbuf_init).                              *)
LEMMA BlankKeepsInv ==
  ASSUME total = 0, torn = 0, written \in Nat, ring = [q \in 0 .. Cap - 1 |-> Blank]
  PROVE  BufInv
<1>1. BufType
  BY CapAssumption, WAssumption DEF BufType, Blank
<1>2. ASSUME NEW q \in 0 .. Cap - 1
      PROVE  ~(PositionOf(q) >= 0)
  <2>1. 0 % Cap = 0
    BY ModUnique, CapAssumption
  <2> QED
    BY <2>1, CapAssumption DEF PositionOf
<1> QED
  BY <1>1, <1>2 DEF BufInv, SlotsHold

(* The same of the next state.                                               *)
LEMMA BlankKeepsInvNext ==
  ASSUME total' = 0, torn' = 0, written' \in Nat, ring' = [q \in 0 .. Cap - 1 |-> Blank]
  PROVE  BufInv'
<1>1. BufType'
  BY CapAssumption, WAssumption DEF BufType, Blank
<1>2. ASSUME NEW q \in 0 .. Cap - 1
      PROVE  ~(PositionOf(q)' >= 0)
  <2>1. 0 % Cap = 0
    BY ModUnique, CapAssumption
  <2> QED
    BY <2>1, CapAssumption DEF PositionOf
<1> QED
  BY <1>1, <1>2 DEF BufInv, SlotsHold

-------------------------------------------------------------------------------
(* One request or reply less: the others stay, in their order.               *)
LEMMA RemoveAtFacts ==
  ASSUME NEW S, NEW s \in Seq(S), NEW i \in DOMAIN s
  PROVE  /\ RemoveAt(s, i) \in Seq(S)
         /\ Len(RemoveAt(s, i)) = Len(s) - 1
         /\ \A j \in DOMAIN RemoveAt(s, i) : \E k \in DOMAIN s : RemoveAt(s, i)[j] = s[k]
<1>1. i \in 1 .. Len(s) /\ Len(s) \in Nat
  BY LenProperties
<1> DEFINE a == SubSeq(s, 1, i - 1)
           b == SubSeq(s, i + 1, Len(s))
<1>2. /\ a \in Seq(S) /\ Len(a) = i - 1
      /\ \A j \in 1 .. i - 1 : a[j] = s[j]
  BY <1>1, SubSeqProperties
<1>3. /\ b \in Seq(S) /\ Len(b) = Len(s) - i
      /\ \A j \in 1 .. Len(s) - i : b[j] = s[i + j]
  BY <1>1, SubSeqProperties
<1>4. RemoveAt(s, i) = a \o b
  BY DEF RemoveAt
<1> HIDE DEF a, b
<1>5. /\ a \o b \in Seq(S) /\ Len(a \o b) = Len(s) - 1
      /\ \A j \in 1 .. Len(s) - 1 : (a \o b)[j] = IF j <= i - 1 THEN a[j] ELSE b[j - (i - 1)]
  <2>1. /\ a \o b \in Seq(S) /\ Len(a \o b) = Len(a) + Len(b)
        /\ \A j \in 1 .. Len(a) + Len(b) : (a \o b)[j] = IF j <= Len(a) THEN a[j] ELSE b[j - Len(a)]
    BY <1>2, <1>3, ConcatProperties
  <2>2. Len(a) + Len(b) = Len(s) - 1
    BY <1>1, <1>2, <1>3
  <2> QED
    BY <1>2, <2>1, <2>2
<1>6. ASSUME NEW j \in 1 .. Len(s) - 1
      PROVE  \E k \in 1 .. Len(s) : (a \o b)[j] = s[k]
  <2>1. CASE j <= i - 1
    BY <1>1, <1>2, <1>5, <2>1
  <2>2. CASE ~(j <= i - 1)
    <3>1. j - (i - 1) \in 1 .. Len(s) - i /\ i + (j - (i - 1)) = j + 1
      BY <1>1, <2>2
    <3>2. (a \o b)[j] = s[j + 1]
      BY <1>1, <1>3, <1>5, <2>2, <3>1
    <3> QED
      BY <1>1, <3>2
  <2> QED
    BY <2>1, <2>2
<1> QED
  BY <1>1, <1>4, <1>5, <1>6, LenProperties

(* So many bytes as the count takes to come round, or to come round again.   *)
Rounds(d) == \E k \in Nat : d = k * W

(***************************************************************************)
(* The page's invariant.                                                   *)
(***************************************************************************)
Bytes   == [pos : Int, char : Int, torn : BOOLEAN]
Replies == [next : 0 .. W - 1, dropped : BOOLEAN, text : Seq(Bytes)]

PageType ==
  /\ torn \in 0 .. W - 1 /\ written \in 0 .. MaxWritten /\ origin \in 0 .. written
  /\ open \in BOOLEAN /\ armed \in BOOLEAN /\ mixed \in BOOLEAN
  /\ others \in Nat /\ opens \in 0 .. MaxOpens
  /\ requests \in Seq(0 .. W - 1) /\ replies \in Seq(Replies)
  /\ after \in 0 .. W - 1 /\ text \in Seq(Int)

(* The number of the byte at position 0: what was logged before this boot    *)
(* and the full rounds of the count since.                                   *)
Base == written - total

BaseInv == Rounds(Base - origin)

(* A reply is a run of neighbours among the bytes logged, each the one that  *)
(* was logged there.                                                         *)
Sound(f, w) ==
  /\ Len(f.text) < OutSize
  /\ \A i \in DOMAIN f.text :
       /\ f.text[i].torn \/ f.text[i].char = f.text[i].pos
       /\ f.text[i].pos = f.text[1].pos + (i - 1)
       /\ f.text[i].pos < w

(* With boot o and base b: the byte p is of an earlier boot, or was at the   *)
(* position before a, in this round of the count or in an earlier one.       *)
Precedes(p, a, o, b) == p < o \/ (Rounds(p + 1 - a - o) /\ p + 1 - a <= b)

(* Follows, with the boot as a parameter.                                    *)
RunsOn(p, q, o) == q > p /\ ((q - p - 1) % W = 0 \/ p < o)

NoGapIn(s, o) ==
  \A i \in 1 .. Len(s) - 1 : s[i] = Gap \/ s[i + 1] = Gap \/ RunsOn(s[i], s[i + 1], o)

(* The text ends with a byte, not with a mark.                               *)
Ends(s) == s # << >> /\ s[Len(s)] # Gap

(* A reply to a page with one chain: it goes on where the text t ends, or    *)
(* says that it does not, and it leaves off before the next position.        *)
Continues(f, t, o, b) ==
  /\ f.text # << >> => Precedes(f.text[Len(f.text)].pos, f.next, o, b)
  /\ Ends(t) /\ ~f.dropped =>
       IF f.text = << >> THEN Precedes(t[Len(t)], f.next, o, b)
       ELSE RunsOn(t[Len(t)], f.text[1].pos, o)

(* One chain asks for the position up to which it has shown the log.         *)
Chain ==
  /\ \A i \in DOMAIN requests : requests[i] = after
  /\ Ends(text) => Precedes(text[Len(text)], after, origin, Base)
  /\ \A i \in DOMAIN replies : Continues(replies[i], text, origin, Base)
  /\ NoGapIn(text, origin)

ChainInv == ~mixed => Polls <= 1 /\ Chain

TextInv ==
  /\ \A i \in DOMAIN replies : Sound(replies[i], written)
  /\ \A i \in DOMAIN text : text[i] < written

PageInv == Polls <= opens /\ BaseInv /\ TextInv /\ ChainInv

(* What logs_get_handler sends (logbuf_read): the bytes from a place that    *)
(* the ring has, which is the one asked for unless it says otherwise.        *)
LEMMA ReplyFacts ==
  ASSUME NEW a \in Nat, BufInv
  PROVE  /\ Reply(a) \in Replies
         /\ Len(Reply(a).text) < OutSize
         /\ \E start \in 0 .. total :
              /\ Reply(a).next = start + Len(Reply(a).text)
              /\ Reply(a).next <= total
              /\ ~Reply(a).dropped => start = a
              /\ \A i \in 1 .. Len(Reply(a).text) :
                   /\ Reply(a).text[i].pos = written - total + start + (i - 1)
                   /\ Reply(a).text[i].torn \/ Reply(a).text[i].char = Reply(a).text[i].pos
<1> USE CapAssumption, OutAssumption
<1> DEFINE lost  == a < Oldest \/ a > total
           start == IF lost THEN Oldest ELSE a
           n     == AtMost(total - start, Room(OutSize))
           pos   == start % Cap
           first == First(pos, n)
           r     == LogRead(a, OutSize)
<1>1. total \in Nat /\ total < W /\ written \in Nat /\ torn \in Nat
  BY WAssumption DEF BufInv, BufType
<1>2. Oldest \in 0 .. total /\ total - Oldest <= Cap
  BY <1>1, OldestInRing
<1>3. start \in Nat /\ start <= total /\ total - start <= Cap
  BY <1>1, <1>2
<1>4. n \in Nat /\ start + n <= total /\ n <= Cap /\ n < OutSize
  BY <1>1, <1>3 DEF AtMost, Room
<1>5. r = [text    |-> [i \in 1 .. n |-> IF i <= first THEN ring[pos + i - 1]
                                          ELSE ring[i - first - 1]],
           next    |-> start + n,
           dropped |-> lost]
  BY DEF LogRead
<1>6. lost \in BOOLEAN /\ (~lost => start = a)
  OBVIOUS
<1> HIDE DEF start, r
<1>7. pos \in 0 .. Cap - 1
  BY <1>3, DivMod
<1>8. first <= Cap - pos /\ (first = n \/ first = Cap - pos) /\ first \in Int
  BY <1>4, <1>7 DEF First, AtMost
<1> HIDE DEF n, pos, first, lost
<1>9. /\ DOMAIN r.text = 1 .. n /\ r.next = start + n /\ r.dropped = lost
      /\ \A i \in 1 .. n : r.text[i] = IF i <= first THEN ring[pos + i - 1] ELSE ring[i - first - 1]
  BY <1>5
<1>10. Len(r.text) = n
  <2>1. r.text = [i \in 1 .. n |-> IF i <= first THEN ring[pos + i - 1] ELSE ring[i - first - 1]]
    BY <1>5
  <2> QED
    BY <1>4, <2>1
<1>11. r.next - Len(r.text) = start
  BY <1>3, <1>4, <1>9, <1>10
<1> DEFINE byte(i) == [pos |-> written - (total - start) + (i - 1), char |-> r.text[i],
                       torn |-> start + i - 1 < torn]
<1>12. Reply(a) = [next |-> r.next, dropped |-> r.dropped, text |-> [i \in 1 .. n |-> byte(i)]]
  BY <1>9, <1>11 DEF Reply, r
<1>13. ASSUME NEW i \in 1 .. n
       PROVE  /\ r.text[i] \in Int
              /\ ~(start + i - 1 < torn) => r.text[i] = written - (total - start) + (i - 1)
  <2> DEFINE p == start + (i - 1)
  <2>1. p \in Nat /\ p < total /\ total - p <= Cap /\ i - 1 \in 0 .. Cap
    BY <1>1, <1>3, <1>4
  <2>2. Slot(p) = IF pos + (i - 1) < Cap THEN pos + (i - 1) ELSE pos + (i - 1) - Cap
    BY <1>3, <2>1, SlotAfter DEF Slot, pos
  <2>3. start + i - 1 < torn <=> p < torn
    BY <1>3
  <2> HIDE DEF p
  <2>4. r.text[i] = ring[Slot(p)]
    <3>1. CASE i <= first
      <4>1. Slot(p) = pos + i - 1
        BY <1>7, <1>8, <2>2, <3>1
      <4> QED
        BY <1>9, <3>1, <4>1
    <3>2. CASE ~(i <= first)
      <4>1. Slot(p) = i - first - 1
        BY <1>4, <1>7, <1>8, <2>2, <3>2
      <4> QED
        BY <1>9, <3>2, <4>1
    <3> QED
      BY <3>1, <3>2
  <2>5. Slot(p) \in 0 .. Cap - 1 /\ PositionOf(Slot(p)) = p
    BY <1>1, <2>1, SlotOfPosition
  <2>6. r.text[i] \in Int
    BY <2>4, <2>5 DEF BufInv, BufType
  <2>7. p >= torn => ring[Slot(p)] = written - (total - p)
    BY <2>1, <2>5 DEF BufInv, SlotsHold
  <2>8. p = start + (i - 1)
    BY DEF p
  <2> QED
    BY <1>1, <1>3, <2>1, <2>3, <2>4, <2>6, <2>7, <2>8
<1>14. \A i \in 1 .. n : byte(i) \in Bytes
  BY <1>1, <1>3, <1>13 DEF Bytes
<1> DEFINE bytes == [i \in 1 .. n |-> byte(i)]
<1>15. /\ bytes \in Seq(Bytes) /\ Len(bytes) = n
       /\ \A i \in 1 .. n : bytes[i] = byte(i)
  <2>1. bytes \in [1 .. n -> Bytes]
    BY <1>14
  <2>2. bytes \in Seq(Bytes) /\ Len(bytes) = n
    BY <1>4, <2>1, IsASeq, LenProperties
  <2> QED
    BY <2>2
<1> HIDE DEF bytes
<1>16. Reply(a).next = start + n /\ Reply(a).dropped = lost /\ Reply(a).text = bytes
  BY <1>9, <1>12 DEF bytes
<1>17. Reply(a) \in Replies
  <2>1. start + n \in 0 .. W - 1
    BY <1>1, <1>3, <1>4, WAssumption
  <2>2. Reply(a) = [next |-> start + n, dropped |-> lost, text |-> bytes]
    BY <1>9, <1>12 DEF bytes
  <2> QED
    BY <1>6, <1>15, <2>1, <2>2 DEF Replies
<1>18. ASSUME NEW i \in 1 .. n
       PROVE  /\ bytes[i].pos = written - total + start + (i - 1)
              /\ bytes[i].torn \/ bytes[i].char = bytes[i].pos
  <2>1. /\ bytes[i].pos = written - (total - start) + (i - 1)
        /\ bytes[i].char = r.text[i]
        /\ bytes[i].torn = (start + i - 1 < torn)
    BY <1>15
  <2>2. bytes[i].pos = written - total + start + (i - 1)
    BY <1>1, <1>3, <2>1
  <2>3. CASE start + i - 1 < torn
    BY <2>1, <2>2, <2>3
  <2>4. CASE ~(start + i - 1 < torn)
    BY <1>13, <2>1, <2>2, <2>4
  <2> QED
    BY <2>3, <2>4
<1>19. start \in 0 .. total
  BY <1>1, <1>3
<1> QED
  BY <1>4, <1>6, <1>15, <1>16, <1>17, <1>18, <1>19

(***************************************************************************)
(* Full rounds of the count.                                               *)
(***************************************************************************)
LEMMA RoundsMod ==
  ASSUME NEW d, Rounds(d)
  PROVE  d \in Nat /\ d % W = 0
<1>1. PICK k \in Nat : d = k * W
  BY DEF Rounds
<1>2. W \in Nat \ {0}
  BY CapAssumption, WAssumption
<1>3. d \in Nat
  BY <1>1, <1>2
<1>4. d = k * W + 0 /\ 0 \in 0 .. W - 1 /\ k \in Int
  BY <1>1, <1>2
<1> QED
  BY <1>2, <1>3, <1>4, Remainder

LEMMA RoundsDiff ==
  ASSUME NEW a, NEW b, Rounds(a), Rounds(b), a <= b
  PROVE  Rounds(b - a)
<1>1. PICK i \in Nat : a = i * W
  BY DEF Rounds
<1>2. PICK j \in Nat : b = j * W
  BY DEF Rounds
<1>3. W \in Nat \ {0}
  BY CapAssumption, WAssumption
<1>4. b - a = (j - i) * W
  BY <1>1, <1>2, <1>3
<1>5. j >= i
  <2>1. CASE i >= j + 1
    <3>1. (i - j) * W >= W /\ (i - j) * W = a - b
      BY <1>1, <1>2, <1>3, <2>1
    <3> QED
      BY <1>1, <1>2, <1>3, <3>1
  <2> QED
    BY <2>1
<1> QED
  BY <1>4, <1>5 DEF Rounds

LEMMA RoundsMore ==
  ASSUME NEW a, Rounds(a)
  PROVE  Rounds(a + W)
<1>1. PICK i \in Nat : a = i * W
  BY DEF Rounds
<1>2. W \in Nat
  BY WAssumption
<1>3. a + W = (i + 1) * W /\ i + 1 \in Nat
  BY <1>1, <1>2
<1> QED
  BY <1>3 DEF Rounds

LEMMA NoRound == Rounds(0)
<1>1. 0 = 0 * W
  BY WAssumption
<1> QED
  BY <1>1 DEF Rounds

-------------------------------------------------------------------------------
(* The end of a text that the page keeps: not empty unless the text is, when *)
(* one chain polls.                                                          *)
LEMMA EndFacts ==
  ASSUME NEW s \in Seq(Int), mixed \in BOOLEAN
  PROVE  /\ End(s) \in Seq(Int)
         /\ \E k \in 0 .. Len(s) :
              /\ Len(End(s)) = Len(s) - k
              /\ \A i \in 1 .. Len(s) - k : End(s)[i] = s[k + i]
              /\ ~mixed /\ s # << >> => k < Len(s)
<1> DEFINE keep == IF mixed THEN 0 ELSE OutSize + 1
           k    == Len(s) - AtMost(Len(s), keep)
<1>1. Len(s) \in Nat
  BY LenProperties
<1>2. k \in 0 .. Len(s)
  BY <1>1, OutAssumption DEF AtMost
<1>3. ~mixed /\ s # << >> => k < Len(s)
  <2> SUFFICES ASSUME ~mixed, s # << >>
               PROVE  k < Len(s)
    OBVIOUS
  <2>1. Len(s) > 0
    BY <1>1, EmptySeq
  <2> QED
    BY <1>1, <2>1, OutAssumption DEF AtMost
<1>4. End(s) = SubSeq(s, k + 1, Len(s))
  BY DEF End
<1> HIDE DEF k
<1>5. /\ SubSeq(s, k + 1, Len(s)) \in Seq(Int)
      /\ Len(SubSeq(s, k + 1, Len(s))) = Len(s) - k
      /\ \A i \in 1 .. Len(s) - k : SubSeq(s, k + 1, Len(s))[i] = s[k + i]
  BY <1>1, <1>2, SubSeqProperties
<1> QED
  BY <1>2, <1>3, <1>4, <1>5

(* What is shown when a reply has arrived, before its end is taken.          *)
Mark(f)  == IF f.dropped /\ text # << >> THEN << Gap >> ELSE << >>
Whole(f) == text \o Mark(f) \o Places(f)

LEMMA PlacesFacts ==
  ASSUME NEW f \in Replies
  PROVE  /\ Places(f) \in Seq(Int) /\ Len(Places(f)) = Len(f.text)
         /\ \A i \in 1 .. Len(f.text) : Places(f)[i] = f.text[i].pos
<1>1. f.text \in Seq(Bytes)
  BY DEF Replies
<1>2. Len(f.text) \in Nat /\ DOMAIN f.text = 1 .. Len(f.text)
  BY <1>1, LenProperties
<1>3. ASSUME NEW i \in 1 .. Len(f.text)
      PROVE  f.text[i].pos \in Int
  <2>1. f.text[i] \in Bytes
    BY <1>1, ElementOfSeq
  <2> QED
    BY <2>1 DEF Bytes
<1>4. Places(f) = [i \in 1 .. Len(f.text) |-> f.text[i].pos]
  BY <1>2 DEF Places
<1>5. Places(f) \in [1 .. Len(f.text) -> Int]
  BY <1>3, <1>4
<1>6. Places(f) \in Seq(Int) /\ Len(Places(f)) = Len(f.text)
  BY <1>2, <1>5, IsASeq, LenProperties
<1> QED
  BY <1>4, <1>6

(* The text, a mark of at most one place, the reply.                         *)
LEMMA WholeFacts ==
  ASSUME NEW f \in Replies, text \in Seq(Int)
  PROVE  /\ Whole(f) \in Seq(Int)
         /\ Len(Mark(f)) \in {0, 1}
         /\ Len(Mark(f)) = 1 <=> f.dropped /\ text # << >>
         /\ Len(Whole(f)) = Len(text) + Len(Mark(f)) + Len(f.text)
         /\ \A i \in 1 .. Len(text) : Whole(f)[i] = text[i]
         /\ Len(Mark(f)) = 1 => Whole(f)[Len(text) + 1] = Gap
         /\ \A i \in 1 .. Len(f.text) : Whole(f)[Len(text) + Len(Mark(f)) + i] = f.text[i].pos
<1> DEFINE m == Mark(f)
           c == Places(f)
           w == Whole(f)
<1>1. m \in Seq(Int) /\ Len(m) \in {0, 1}
  BY DEF Mark, Gap, Blank
<1>2. Len(m) = 1 <=> f.dropped /\ text # << >>
  BY DEF Mark
<1>3. Len(m) = 1 => m[1] = Gap
  BY DEF Mark
<1>4. /\ c \in Seq(Int) /\ Len(c) = Len(f.text)
      /\ \A i \in 1 .. Len(f.text) : c[i] = f.text[i].pos
  BY PlacesFacts
<1>5. w = text \o m \o c
  BY DEF Whole
<1> HIDE DEF m, c, w
<1>6. /\ w \in Seq(Int) /\ Len(w) = Len(text) + Len(m) + Len(c)
      /\ \A i \in 1 .. Len(text) : w[i] = text[i]
      /\ \A i \in 1 .. Len(m) : w[Len(text) + i] = m[i]
      /\ \A i \in 1 .. Len(c) : w[Len(text) + Len(m) + i] = c[i]
  <2>1. text \in Seq(Int) /\ m \in Seq(Int) /\ c \in Seq(Int)
    BY <1>1, <1>4
  <2> QED
    BY ONLY <1>5, <2>1
<1>7. /\ w \in Seq(Int) /\ Len(m) \in {0, 1}
      /\ Len(m) = 1 <=> f.dropped /\ text # << >>
      /\ Len(w) = Len(text) + Len(m) + Len(f.text)
      /\ \A i \in 1 .. Len(text) : w[i] = text[i]
      /\ Len(m) = 1 => w[Len(text) + 1] = Gap
      /\ \A i \in 1 .. Len(f.text) : w[Len(text) + Len(m) + i] = f.text[i].pos
  <2>1. ASSUME NEW i \in 1 .. Len(f.text)
        PROVE  w[Len(text) + Len(m) + i] = f.text[i].pos
    BY <1>4, <1>6
  <2>2. Len(m) = 1 => w[Len(text) + 1] = Gap
    BY <1>3, <1>6
  <2> QED
    BY <1>1, <1>2, <1>4, <1>6, <2>1, <2>2
<1> QED
  BY <1>7 DEF m, w

-------------------------------------------------------------------------------
LEMMA BufUnchanged == BufInv /\ UNCHANGED bufVars => BufInv'
BY DEF BufInv, BufType, SlotsHold, PositionOf, bufVars

(* The ring keeps its invariant.                                             *)
LEMMA BufStep ==
  ASSUME BufInv, [Next]_vars
  PROVE  BufInv'
<1>1. CASE LogLine
  <2>1. PICK len \in 1 .. LineCap + 1 : LogWrite(len)
    BY <1>1 DEF LogLine
  <2>2. len \in Nat
    BY LineAssumption, CapAssumption
  <2> QED
    BY <2>1, <2>2, WriteKeepsInv
<1>2. CASE PowerCycle
  <2>1. written \in Nat
    BY DEF BufInv, BufType
  <2> QED
    BY <1>2, <2>1, BlankKeepsInvNext DEF PowerCycle, Restart
<1>3. CASE UNCHANGED bufVars
  BY <1>3, BufUnchanged
<1> QED
  BY <1>1, <1>2, <1>3
     DEF Next, vars, Serve, OpenViewer, CloseViewer, TimerFires, Arrive, FetchFails

(* A boot begins, or goes on with the base it had or one round more.         *)
LEMMA BaseStep ==
  ASSUME BufInv, PageType, [Next]_vars
  PROVE  /\ torn' \in 0 .. W - 1 /\ written' \in 0 .. MaxWritten /\ origin' \in 0 .. written'
         /\ written' >= written /\ origin' >= origin
         /\ \/ origin' = origin /\ Base' \in {Base, Base + W}
            \/ origin' = written /\ Base' = written
<1> USE CapAssumption, WAssumption DEF Base
<1>0. /\ total \in Nat /\ total < W /\ written \in Nat /\ origin \in 0 .. written
      /\ torn \in 0 .. W - 1 /\ written <= MaxWritten
  BY DEF BufInv, BufType, PageType
<1>1. CASE LogLine
  <2>1. PICK len \in 1 .. LineCap + 1 : LogWrite(len) /\ written + Kept(len) <= MaxWritten
    BY <1>1 DEF LogLine
  <2> DEFINE n == Kept(len)
  <2>2. n \in 0 .. Cap
    BY KeptInRing, LineAssumption
  <2>3. total' = (total + n) % W /\ written' = written + n /\ origin' = origin
    BY <2>1 DEF LogWrite
  <2>4. torn' = IF total + n >= W THEN total + n - W ELSE torn
    BY <2>1 DEF LogWrite
  <2>5. written + n <= MaxWritten
    BY <2>1
  <2> HIDE DEF n
  <2>6. CASE total + n < W
    <3>1. total' = total + n
      BY <1>0, <2>2, <2>3, <2>6
    <3> QED
      BY <1>0, <2>2, <2>3, <2>4, <2>5, <2>6, <3>1, BoundAssumption
  <2>7. CASE total + n >= W
    <3>1. total' = total + n - W
      BY <1>0, <2>2, <2>3, <2>7
    <3> QED
      BY <1>0, <2>2, <2>3, <2>4, <2>5, <2>7, <3>1, BoundAssumption
  <2> QED
    BY <1>0, <2>2, <2>6, <2>7
<1>2. CASE PowerCycle
  BY <1>0, <1>2, BoundAssumption DEF PowerCycle, Restart
<1>3. CASE UNCHANGED bufVars
  BY <1>0, <1>3, BoundAssumption DEF bufVars
<1> QED
  BY <1>1, <1>2, <1>3
     DEF Next, vars, Serve, OpenViewer, CloseViewer, TimerFires, Arrive, FetchFails

(* Each step keeps the page's variables in their types.                      *)
LEMMA PageTypeStep ==
  ASSUME BufInv, PageType, [Next]_vars
  PROVE  PageType'
<1>0. torn' \in 0 .. W - 1 /\ written' \in 0 .. MaxWritten /\ origin' \in 0 .. written'
  BY BaseStep
<1>1. CASE UNCHANGED viewVars
  BY <1>0, <1>1 DEF PageType, viewVars
<1>2. CASE Serve
  <2>1. PICK i \in DOMAIN requests : /\ requests' = RemoveAt(requests, i)
                                     /\ replies' = Append(replies, Reply(requests[i]))
    BY <1>2 DEF Serve
  <2>2. requests \in Seq(0 .. W - 1) /\ replies \in Seq(Replies)
    BY DEF PageType
  <2>3. requests[i] \in Nat
    <3>1. requests[i] \in 0 .. W - 1
      BY <2>2, ElementOfSeq, LenProperties
    <3> QED
      BY <3>1, WAssumption
  <2>4. Reply(requests[i]) \in Replies
    BY <2>3, ReplyFacts
  <2>5. requests' \in Seq(0 .. W - 1)
    BY <2>1, <2>2, RemoveAtFacts
  <2>6. replies' \in Seq(Replies)
    BY <2>1, <2>2, <2>4, AppendProperties
  <2> QED
    BY <1>0, <1>2, <2>5, <2>6 DEF Serve, PageType
<1>3. CASE OpenViewer
  <2>1. 0 \in 0 .. W - 1
    BY CapAssumption, WAssumption
  <2>2. requests' \in Seq(0 .. W - 1)
    BY <1>3, <2>1, AppendProperties DEF OpenViewer, PageType
  <2>3. mixed' \in BOOLEAN
    BY <1>3 DEF OpenViewer
  <2>4. opens' \in 0 .. MaxOpens
    BY <1>3, BoundAssumption DEF OpenViewer, PageType
  <2>5. /\ open' = TRUE /\ armed' = FALSE /\ others' = others /\ replies' = replies
        /\ after' = 0 /\ text' = << >>
    BY <1>3 DEF OpenViewer, ClearTimeout
  <2> QED
    <3>1. text' \in Seq(Int) /\ open' \in BOOLEAN /\ armed' \in BOOLEAN
      <4>1. << >> \in Seq(Int)
        OBVIOUS
      <4> QED
        BY <2>5, <4>1
    <3>2. others' \in Nat /\ replies' \in Seq(Replies) /\ after' \in 0 .. W - 1
      BY <2>1, <2>5 DEF PageType
    <3> QED
      BY <1>0, <2>2, <2>3, <2>4, <3>1, <3>2 DEF PageType
<1>4. CASE CloseViewer
  BY <1>0, <1>4 DEF CloseViewer, ClearTimeout, PageType
<1>5. CASE TimerFires
  <2>1. requests' \in Seq(0 .. W - 1)
    <3>1. requests \in Seq(0 .. W - 1) /\ after \in 0 .. W - 1
      BY DEF PageType
    <3>2. CASE open
      <4>1. requests' = Append(requests, after)
        BY <1>5, <3>2 DEF TimerFires
      <4> QED
        BY <3>1, <4>1, AppendProperties
    <3>3. CASE ~open
      <4>1. requests' = requests
        BY <1>5, <3>3 DEF TimerFires
      <4> QED
        BY <3>1, <4>1
    <3> QED
      BY <3>2, <3>3
  <2>2. armed' \in BOOLEAN /\ others' \in Nat
    <3>1. CASE armed' = FALSE /\ UNCHANGED others
      BY <3>1 DEF PageType
    <3>2. CASE others > 0 /\ others' = others - 1 /\ UNCHANGED armed
      BY <3>2 DEF PageType
    <3> QED
      BY <1>5, <3>1, <3>2 DEF TimerFires
  <2> QED
    BY <1>0, <1>5, <2>1, <2>2 DEF TimerFires, PageType
<1>6. CASE Arrive
  <2>1. PICK i \in DOMAIN replies : /\ text' = Shown(replies[i]) /\ after' = replies[i].next
                                    /\ replies' = RemoveAt(replies, i)
    BY <1>6 DEF Arrive
  <2>2. replies \in Seq(Replies) /\ text \in Seq(Int) /\ mixed \in BOOLEAN
    BY DEF PageType
  <2>3. replies[i] \in Replies
    BY <2>2, ElementOfSeq, LenProperties
  <2>4. after' \in 0 .. W - 1
    BY <2>1, <2>3 DEF Replies
  <2>5. replies' \in Seq(Replies)
    BY <2>1, <2>2, RemoveAtFacts
  <2>6. text' \in Seq(Int)
    <3>1. text' = End(Whole(replies[i]))
      BY <2>1 DEF Shown, Whole, Mark
    <3>2. Whole(replies[i]) \in Seq(Int)
      BY <2>2, <2>3, WholeFacts
    <3> QED
      BY <2>2, <3>1, <3>2, EndFacts
  <2>7. armed' = TRUE /\ others' \in Nat
    BY <1>6 DEF Arrive, Rearm, PageType
  <2> QED
    BY <1>0, <1>6, <2>4, <2>5, <2>6, <2>7 DEF Arrive, PageType
<1>7. CASE FetchFails
  <2>1. PICK i \in DOMAIN replies : replies' = RemoveAt(replies, i)
    BY <1>7 DEF FetchFails
  <2>2. replies' \in Seq(Replies)
    BY <2>1, RemoveAtFacts DEF PageType
  <2>3. armed' = TRUE /\ others' \in Nat
    BY <1>7 DEF FetchFails, Rearm, PageType
  <2> QED
    BY <1>0, <1>7, <2>2, <2>3 DEF FetchFails, PageType
<1> QED
  BY <1>1, <1>2, <1>3, <1>4, <1>5, <1>6, <1>7 DEF Next, LogLine, PowerCycle, vars

(* A step polls no more than before, but opening the viewer adds one poll:   *)
(* the only one, if no earlier chain was alive.                              *)
LEMMA PollsStep ==
  ASSUME PageType, [Next]_vars
  PROVE  \/ Polls' <= Polls /\ UNCHANGED << opens, mixed >>
         \/ OpenViewer /\ Polls' <= Polls + 1 /\ opens' = opens + 1 /\ (~mixed' => Polls' = 1)
<1> USE DEF Polls
<1>0. /\ requests \in Seq(0 .. W - 1) /\ replies \in Seq(Replies)
      /\ Len(requests) \in Nat /\ Len(replies) \in Nat /\ others \in Nat
      /\ armed \in BOOLEAN
  BY LenProperties DEF PageType
<1>1. CASE UNCHANGED viewVars
  BY <1>0, <1>1 DEF viewVars
<1>2. CASE Serve
  <2>1. PICK i \in DOMAIN requests : /\ requests' = RemoveAt(requests, i)
                                     /\ replies' = Append(replies, Reply(requests[i]))
    BY <1>2 DEF Serve
  <2>2. Len(requests') = Len(requests) - 1
    BY <1>0, <2>1, RemoveAtFacts
  <2>3. Len(replies') = Len(replies) + 1
    BY <1>0, <2>1
  <2> QED
    BY <1>0, <1>2, <2>2, <2>3 DEF Serve
<1>3. CASE OpenViewer
  <2>1. Len(requests') = Len(requests) + 1
    BY <1>0, <1>3 DEF OpenViewer
  <2>2. armed' = FALSE /\ UNCHANGED << others, replies >> /\ opens' = opens + 1
    BY <1>3 DEF OpenViewer, ClearTimeout
  <2>3. ASSUME ~mixed'
        PROVE  Len(requests) = 0 /\ Len(replies) = 0 /\ others = 0
    <3>1. requests = << >> /\ replies = << >> /\ ~(others > 0)
      BY <1>3, <2>3 DEF OpenViewer
    <3> QED
      BY <1>0, <3>1, EmptySeq
  <2> QED
    BY <1>0, <1>3, <2>1, <2>2, <2>3
<1>4. CASE CloseViewer
  BY <1>0, <1>4 DEF CloseViewer, ClearTimeout
<1>5. CASE TimerFires
  <2>1. Len(requests') \in Nat /\ Len(requests') <= Len(requests) + 1
    <3>1. CASE open
      <4>1. requests' = Append(requests, after)
        BY <1>5, <3>1 DEF TimerFires
      <4> QED
        BY <1>0, <4>1
    <3>2. CASE ~open
      BY <1>0, <1>5, <3>2 DEF TimerFires
    <3> QED
      BY <3>1, <3>2
  <2>2. others' + (IF armed' THEN 1 ELSE 0) = others + (IF armed THEN 1 ELSE 0) - 1
    BY <1>0, <1>5 DEF TimerFires
  <2>3. others' \in Nat /\ UNCHANGED << replies, opens, mixed >>
    BY <1>0, <1>5 DEF TimerFires
  <2> DEFINE timers == others + (IF armed THEN 1 ELSE 0)
  <2>4. timers' = timers - 1 /\ timers \in Nat
    BY <1>0, <2>2
  <2>5. Polls = Len(requests) + Len(replies) + timers
    BY <1>0
  <2>6. Polls' = Len(requests') + Len(replies') + timers'
    BY <1>0, <2>1, <2>3
  <2> HIDE DEF timers, Polls
  <2> QED
    BY <1>0, <2>1, <2>3, <2>4, <2>5, <2>6
<1>6. CASE \E i \in DOMAIN replies : replies' = RemoveAt(replies, i) /\ Rearm
                                     /\ UNCHANGED << requests, opens, mixed >>
  <2>1. Len(replies') = Len(replies) - 1
    BY <1>0, <1>6, RemoveAtFacts
  <2>2. others' + (IF armed' THEN 1 ELSE 0) = others + (IF armed THEN 1 ELSE 0) + 1
    BY <1>0, <1>6 DEF Rearm
  <2>3. others' \in Nat
    BY <1>0, <1>6 DEF Rearm
  <2> DEFINE timers == others + (IF armed THEN 1 ELSE 0)
  <2>4. timers' = timers + 1 /\ timers \in Nat
    BY <1>0, <2>2
  <2>5. Polls = Len(requests) + Len(replies) + timers
    BY <1>0
  <2>6. Polls' = Len(requests') + Len(replies') + timers'
    BY <1>0, <2>1, <2>3
  <2> HIDE DEF timers, Polls
  <2> QED
    BY <1>0, <1>6, <2>1, <2>4, <2>5, <2>6
<1> QED
  BY <1>1, <1>2, <1>3, <1>4, <1>5, <1>6
     DEF Next, LogLine, PowerCycle, Arrive, FetchFails, vars

-------------------------------------------------------------------------------
(* What holds of positions and texts goes on to hold when the base grows or  *)
(* when the device restarts, which leaves all of them behind.                *)
LEMMA PrecedesLater ==
  ASSUME NEW p \in Int, NEW a \in Int, NEW o \in Int, NEW b \in Int, NEW o2 \in Int, NEW b2 \in Int,
         Precedes(p, a, o, b), (o2 = o /\ b2 >= b) \/ p < o2
  PROVE  Precedes(p, a, o2, b2)
<1>1. CASE p < o2
  BY <1>1 DEF Precedes
<1>2. CASE ~(p < o2) /\ o2 = o /\ b2 >= b
  <2>1. Rounds(p + 1 - a - o2) /\ p + 1 - a <= b2
    BY <1>2 DEF Precedes
  <2> QED
    BY <2>1 DEF Precedes
<1> QED
  BY <1>1, <1>2

LEMMA RunsOnLater ==
  ASSUME NEW p \in Int, NEW q \in Int, NEW o \in Int, NEW o2 \in Int, RunsOn(p, q, o), o2 >= o
  PROVE  RunsOn(p, q, o2)
<1>1. p < o => p < o2
  OBVIOUS
<1> QED
  BY <1>1 DEF RunsOn

LEMMA NoGapLater ==
  ASSUME NEW s \in Seq(Int), NEW o \in Int, NEW o2 \in Int, NoGapIn(s, o), o2 >= o
  PROVE  NoGapIn(s, o2)
<1> SUFFICES ASSUME NEW i \in 1 .. Len(s) - 1
             PROVE  s[i] = Gap \/ s[i + 1] = Gap \/ RunsOn(s[i], s[i + 1], o2)
  BY DEF NoGapIn
<1>1. s[i] \in Int /\ s[i + 1] \in Int
  <2>1. Len(s) \in Nat /\ i \in 1 .. Len(s) /\ i + 1 \in 1 .. Len(s)
    BY LenProperties
  <2> QED
    BY <2>1, ElementOfSeq
<1>2. s[i] = Gap \/ s[i + 1] = Gap \/ RunsOn(s[i], s[i + 1], o)
  BY DEF NoGapIn
<1> QED
  BY <1>1, <1>2, RunsOnLater

(* The last of a sequence that is not empty.                                 *)
LEMMA LastOf ==
  ASSUME NEW S, NEW s \in Seq(S), s # << >>
  PROVE  /\ Len(s) \in Nat \ {0} /\ Len(s) \in DOMAIN s /\ 1 \in DOMAIN s
         /\ s[Len(s)] \in S /\ s[1] \in S
<1>1. Len(s) \in Nat /\ Len(s) # 0 /\ DOMAIN s = 1 .. Len(s)
  BY LenProperties, EmptySeq
<1>2. Len(s) \in 1 .. Len(s) /\ 1 \in 1 .. Len(s)
  BY <1>1
<1> QED
  BY <1>1, <1>2, ElementOfSeq

LEMMA PosOf ==
  ASSUME NEW f \in Replies, f.text # << >>
  PROVE  /\ Len(f.text) \in DOMAIN f.text
         /\ f.text[Len(f.text)].pos \in Int /\ f.text[1].pos \in Int
<1>1. f.text \in Seq(Bytes)
  BY DEF Replies
<1>2. /\ Len(f.text) \in DOMAIN f.text
      /\ f.text[Len(f.text)] \in Bytes /\ f.text[1] \in Bytes
  BY <1>1, LastOf
<1> QED
  BY <1>2 DEF Bytes

LEMMA ContinuesLater ==
  ASSUME NEW f \in Replies, NEW t \in Seq(Int), NEW w \in Int,
         NEW o \in Int, NEW b \in Int, NEW o2 \in Int, NEW b2 \in Int,
         Continues(f, t, o, b), Sound(f, w), \A i \in DOMAIN t : t[i] < w,
         (o2 = o /\ b2 >= b) \/ (o2 >= o /\ o2 = w)
  PROVE  Continues(f, t, o2, b2)
<1>0. f.next \in Int
  BY WAssumption DEF Replies
<1>1. ASSUME f.text # << >>
      PROVE  Precedes(f.text[Len(f.text)].pos, f.next, o2, b2)
  <2>1. Len(f.text) \in DOMAIN f.text /\ f.text[Len(f.text)].pos \in Int
    BY <1>1, PosOf
  <2>2. f.text[Len(f.text)].pos < w
    BY <2>1 DEF Sound
  <2>3. Precedes(f.text[Len(f.text)].pos, f.next, o, b)
    BY <1>1 DEF Continues
  <2> QED
    BY <1>0, <2>1, <2>2, <2>3, PrecedesLater
<1>2. ASSUME Ends(t), ~f.dropped
      PROVE  IF f.text = << >> THEN Precedes(t[Len(t)], f.next, o2, b2)
             ELSE RunsOn(t[Len(t)], f.text[1].pos, o2)
  <2>1. t[Len(t)] \in Int /\ t[Len(t)] < w
    BY <1>2, LastOf DEF Ends
  <2>2. CASE f.text = << >>
    <3>1. Precedes(t[Len(t)], f.next, o, b)
      BY <1>2, <2>2 DEF Continues
    <3> QED
      BY <1>0, <2>1, <2>2, <3>1, PrecedesLater
  <2>3. CASE f.text # << >>
    <3>1. RunsOn(t[Len(t)], f.text[1].pos, o)
      BY <1>2, <2>3 DEF Continues
    <3>2. f.text[1].pos \in Int
      BY <2>3, PosOf
    <3> QED
      BY <2>1, <2>3, <3>1, <3>2, RunsOnLater
  <2> QED
    BY <2>2, <2>3
<1> QED
  BY <1>1, <1>2 DEF Continues

-------------------------------------------------------------------------------
LEMMA BaseInvStep ==
  ASSUME BufInv, PageType, BaseInv, [Next]_vars
  PROVE  BaseInv'
<1>1. written \in Nat /\ origin \in Nat /\ total \in Nat /\ W \in Nat
  BY WAssumption DEF BufInv, BufType, PageType
<1>2. Base \in Int /\ origin \in Int
  BY <1>1 DEF Base
<1>3. CASE origin' = origin /\ Base' = Base
  BY <1>3 DEF BaseInv
<1>4. CASE origin' = origin /\ Base' = Base + W
  <2>1. Base' - origin' = (Base - origin) + W
    BY <1>1, <1>2, <1>4
  <2> QED
    BY <2>1, RoundsMore DEF BaseInv
<1>5. CASE origin' = written /\ Base' = written
  <2>1. Base' - origin' = 0
    BY <1>1, <1>5
  <2> QED
    BY <2>1, NoRound DEF BaseInv
<1> QED
  BY <1>3, <1>4, <1>5, BaseStep

(* The replies stay as they are, but for one that was served or is gone.     *)
LEMMA RepliesStep ==
  ASSUME PageType, [Next]_vars
  PROVE  \/ UNCHANGED replies
         \/ \E i \in DOMAIN requests :
              Serve /\ replies' = Append(replies, Reply(requests[i])) /\ Len(requests') = Len(requests) - 1
         \/ \A j \in DOMAIN replies' : \E k \in DOMAIN replies : replies'[j] = replies[k]
<1>1. CASE Serve
  <2>1. PICK i \in DOMAIN requests : /\ requests' = RemoveAt(requests, i)
                                     /\ replies' = Append(replies, Reply(requests[i]))
    BY <1>1 DEF Serve
  <2>2. Len(requests') = Len(requests) - 1
    BY <2>1, RemoveAtFacts DEF PageType
  <2> QED
    BY <1>1, <2>1, <2>2
<1>2. CASE \E i \in DOMAIN replies : replies' = RemoveAt(replies, i)
  BY <1>2, RemoveAtFacts DEF PageType
<1> QED
  BY <1>1, <1>2
     DEF Next, LogLine, PowerCycle, OpenViewer, CloseViewer, TimerFires, Arrive, FetchFails,
         vars, viewVars

LEMMA SoundReply ==
  ASSUME BufInv, NEW a \in Nat
  PROVE  Sound(Reply(a), written)
<1> DEFINE f == Reply(a)
<1>1. f \in Replies /\ Len(f.text) < OutSize
  BY ReplyFacts
<1>2. PICK start \in 0 .. total :
        /\ f.next = start + Len(f.text)
        /\ f.next <= total
        /\ \A i \in 1 .. Len(f.text) :
             /\ f.text[i].pos = written - total + start + (i - 1)
             /\ f.text[i].torn \/ f.text[i].char = f.text[i].pos
  BY ReplyFacts
<1>3. f.text \in Seq(Bytes)
  BY <1>1 DEF Replies
<1> HIDE DEF f
<1>4. Len(f.text) \in Nat /\ DOMAIN f.text = 1 .. Len(f.text)
  BY <1>3, LenProperties
<1>5. written \in Nat /\ total \in Nat
  BY DEF BufInv, BufType
<1>6. ASSUME NEW i \in 1 .. Len(f.text)
      PROVE  f.text[i].pos = f.text[1].pos + (i - 1) /\ f.text[i].pos < written
  <2>1. 1 \in 1 .. Len(f.text)
    BY <1>4
  <2>2. f.text[1].pos = written - total + start
    BY <1>2, <1>4, <1>5, <2>1
  <2>3. f.text[i].pos = written - total + start + (i - 1)
    BY <1>2
  <2> QED
    BY <1>2, <1>4, <1>5, <2>2, <2>3
<1>7. Sound(f, written)
  BY <1>1, <1>2, <1>4, <1>6 DEF Sound, f
<1> QED
  BY <1>7 DEF f

LEMMA SoundLater ==
  ASSUME NEW f \in Replies, NEW w \in Int, NEW w2 \in Int, Sound(f, w), w2 >= w
  PROVE  Sound(f, w2)
<1>1. ASSUME NEW i \in DOMAIN f.text
      PROVE  f.text[i].pos < w2
  <2>1. f.text[i] \in Bytes
    BY DEF Replies
  <2>2. f.text[i].pos \in Int
    BY <2>1 DEF Bytes
  <2> QED
    BY <2>2 DEF Sound
<1> QED
  BY <1>1 DEF Sound

LEMMA TextStep ==
  ASSUME BufInv, PageType, TextInv, [Next]_vars
  PROVE  TextInv'
<1>1. /\ written \in Nat /\ written' \in Int /\ written' >= written
      /\ replies \in Seq(Replies) /\ text \in Seq(Int) /\ mixed \in BOOLEAN
      /\ requests \in Seq(0 .. W - 1)
  BY BaseStep, BoundAssumption DEF PageType
<1>2. ASSUME NEW f \in Replies, Sound(f, written)
      PROVE  Sound(f, written')
  BY <1>1, <1>2, SoundLater
<1>3. \A i \in DOMAIN replies' : Sound(replies'[i], written')
  <2>0. \A i \in DOMAIN replies : replies[i] \in Replies /\ Sound(replies[i], written)
    BY <1>1 DEF TextInv
  <2>1. CASE UNCHANGED replies
    BY <1>2, <2>0, <2>1
  <2>2. ASSUME NEW i \in DOMAIN requests, Serve, replies' = Append(replies, Reply(requests[i]))
        PROVE  \A j \in DOMAIN replies' : Sound(replies'[j], written')
    <3>1. requests[i] \in Nat
      <4>1. requests[i] \in 0 .. W - 1
        BY <1>1, ElementOfSeq, LenProperties
      <4> QED
        BY <4>1, WAssumption
    <3>2. Reply(requests[i]) \in Replies /\ Sound(Reply(requests[i]), written)
      BY <3>1, ReplyFacts, SoundReply
    <3>3. ASSUME NEW j \in DOMAIN replies'
          PROVE  replies'[j] \in Replies /\ Sound(replies'[j], written)
      <4>1. replies'[j] = Reply(requests[i]) \/ (j \in DOMAIN replies /\ replies'[j] = replies[j])
        BY <1>1, <2>2, <3>2
      <4> QED
        BY <2>0, <3>2, <4>1
    <3> QED
      BY <1>2, <3>3
  <2>3. CASE \A j \in DOMAIN replies' : \E k \in DOMAIN replies : replies'[j] = replies[k]
    BY <1>2, <2>0, <2>3
  <2> QED
    BY <2>1, <2>2, <2>3, RepliesStep
<1>4. \A i \in DOMAIN text' : text'[i] < written'
  <2>1. CASE UNCHANGED text
    <3>1. ASSUME NEW i \in DOMAIN text
          PROVE  text[i] < written'
      <4>1. text[i] \in Int /\ text[i] < written
        BY <1>1 DEF TextInv
      <4> QED
        BY <1>1, <4>1
    <3> QED
      BY <2>1, <3>1
  <2>2. CASE OpenViewer
    BY <2>2 DEF OpenViewer
  <2>3. CASE Arrive
    <3>1. PICK n \in DOMAIN replies : text' = Shown(replies[n])
      BY <2>3 DEF Arrive
    <3> DEFINE f == replies[n]
               s == Whole(f)
    <3>2. f \in Replies /\ Sound(f, written)
      BY <1>1 DEF TextInv
    <3>3. text' = End(s)
      BY <3>1 DEF Shown, Whole, Mark
    <3> HIDE DEF f
    <3>4. /\ s \in Seq(Int) /\ Len(Mark(f)) \in {0, 1}
          /\ Len(s) = Len(text) + Len(Mark(f)) + Len(f.text)
          /\ \A i \in 1 .. Len(text) : s[i] = text[i]
          /\ Len(Mark(f)) = 1 => s[Len(text) + 1] = Gap
          /\ \A i \in 1 .. Len(f.text) : s[Len(text) + Len(Mark(f)) + i] = f.text[i].pos
      BY <1>1, <3>2, WholeFacts
    <3> HIDE DEF s
    <3>5. Len(text) \in Nat /\ Len(f.text) \in Nat /\ DOMAIN f.text = 1 .. Len(f.text)
          /\ DOMAIN text = 1 .. Len(text) /\ Len(s) \in Nat
      BY <1>1, <3>2, <3>4, LenProperties DEF Replies
    <3>6. ASSUME NEW i \in 1 .. Len(s)
          PROVE  s[i] < written
      <4> DEFINE l == Len(s)
                 t == Len(text)
                 m == Len(Mark(f))
                 c == Len(f.text)
      <4>0. i \in Nat /\ i >= 1 /\ i <= t + m + c /\ m \in 0 .. 1 /\ t \in Nat /\ c \in Nat
        <5>1. l \in Nat /\ i \in 1 .. l /\ l = t + m + c /\ m \in {0, 1} /\ t \in Nat /\ c \in Nat
          BY <3>4, <3>5
        <5> HIDE DEF l, t, m, c
        <5> QED
          BY <5>1
      <4>1. CASE i <= Len(text)
        <5>1. i \in 1 .. Len(text)
          BY <3>5, <4>0, <4>1
        <5>2. s[i] = text[i] /\ i \in DOMAIN text
          BY <3>4, <3>5, <5>1
        <5> QED
          BY <5>2 DEF TextInv
      <4>2. CASE i = Len(text) + 1 /\ Len(Mark(f)) = 1
        <5>1. s[i] = 0 - 1
          BY <3>4, <4>2 DEF Gap, Blank
        <5> QED
          BY <1>1, <5>1
      <4>3. CASE i - Len(text) - Len(Mark(f)) \in 1 .. Len(f.text)
        <5> DEFINE j == i - Len(text) - Len(Mark(f))
        <5>1. Len(text) + Len(Mark(f)) + j = i
          BY <3>4, <3>5
        <5>2. s[i] = f.text[j].pos
          BY <3>4, <4>3, <5>1
        <5> QED
          BY <3>2, <3>5, <4>3, <5>2 DEF Sound
      <4>4. i <= t \/ (i = t + 1 /\ m = 1) \/ i - t - m \in 1 .. c
        <5> HIDE DEF t, m, c
        <5> QED
          BY <4>0
      <4> QED
        BY <4>1, <4>2, <4>3, <4>4
    <3>7. PICK k \in 0 .. Len(s) : /\ Len(End(s)) = Len(s) - k
                                   /\ \A i \in 1 .. Len(s) - k : End(s)[i] = s[k + i]
      BY <1>1, <3>4, EndFacts
    <3>8. End(s) \in Seq(Int)
      BY <1>1, <3>4, EndFacts
    <3>9. ASSUME NEW i \in DOMAIN text'
          PROVE  text'[i] < written'
      <4>1. i \in 1 .. Len(s) - k
        BY <3>3, <3>7, <3>8, LenProperties
      <4>2. text'[i] = s[k + i] /\ k + i \in 1 .. Len(s)
        BY <3>3, <3>5, <3>7, <4>1
      <4>3. s[k + i] < written /\ s[k + i] \in Int
        BY <3>4, <3>6, <4>2, ElementOfSeq
      <4> QED
        BY <1>1, <4>2, <4>3
    <3> QED
      BY <3>9
  <2> QED
    BY <2>1, <2>2, <2>3
       DEF Next, LogLine, PowerCycle, Serve, CloseViewer, TimerFires, FetchFails, vars, viewVars
<1> QED
  BY <1>3, <1>4 DEF TextInv

-------------------------------------------------------------------------------
(* A log line and a restart change nothing that the page has.                *)
LEMMA ChainLater ==
  ASSUME BufInv, PageType, TextInv, Chain, [Next]_vars,
         UNCHANGED << after, text >>,
         \A i \in DOMAIN requests' : requests'[i] = after,
         \A j \in DOMAIN replies' : \E k \in DOMAIN replies : replies'[j] = replies[k]
  PROVE  Chain'
<1>1. /\ written \in Int /\ origin \in Int /\ total \in Int /\ after \in Int
      /\ text \in Seq(Int) /\ replies \in Seq(Replies)
  BY WAssumption, BoundAssumption DEF BufInv, BufType, PageType
<1>2. Base \in Int /\ W \in Nat
  BY <1>1, WAssumption DEF Base
<1>3. /\ origin' \in Int /\ origin' >= origin
      /\ Base' \in Int
      /\ (origin' = origin /\ Base' >= Base) \/ origin' = written
  <2>1. /\ origin' >= origin
        /\ \/ origin' = origin /\ Base' \in {Base, Base + W}
           \/ origin' = written /\ Base' = written
    BY BaseStep
  <2>2. CASE origin' = origin /\ Base' = Base
    BY <1>1, <1>2, <2>2
  <2>3. CASE origin' = origin /\ Base' = Base + W
    BY <1>1, <1>2, <2>3
  <2>4. CASE origin' = written /\ Base' = written
    BY <1>1, <1>2, <2>1, <2>4
  <2> QED
    BY <2>1, <2>2, <2>3, <2>4
<1>4. \A i \in DOMAIN text : text[i] < written
  BY DEF TextInv
<1>5. ASSUME Ends(text)
      PROVE  Precedes(text[Len(text)], after, origin', Base')
  <2>1. text[Len(text)] \in Int /\ text[Len(text)] < written
    BY <1>1, <1>4, <1>5, LastOf DEF Ends
  <2>2. Precedes(text[Len(text)], after, origin, Base)
    BY <1>5 DEF Chain
  <2> QED
    BY <1>1, <1>2, <1>3, <2>1, <2>2, PrecedesLater
<1>6. ASSUME NEW k \in DOMAIN replies
      PROVE  Continues(replies[k], text, origin', Base')
  <2>1. replies[k] \in Replies
    BY <1>1, ElementOfSeq, LenProperties
  <2>2. Continues(replies[k], text, origin, Base) /\ Sound(replies[k], written)
    BY DEF Chain, TextInv
  <2> QED
    BY <1>1, <1>2, <1>3, <1>4, <2>1, <2>2, ContinuesLater
<1>7. NoGapIn(text, origin')
  BY <1>1, <1>3, NoGapLater DEF Chain
<1> QED
  BY <1>5, <1>6, <1>7 DEF Chain

(* The reply to the one request of a chain continues the text.               *)
LEMMA ServedContinues ==
  ASSUME BufInv, PageType, BaseInv, Chain
  PROVE  Continues(Reply(after), text, origin, Base)
<1> DEFINE f == Reply(after)
           p == text[Len(text)]
           n == Len(f.text)
<1>1. /\ written \in Int /\ origin \in Int /\ total \in Int /\ after \in Nat
      /\ text \in Seq(Int)
  BY WAssumption, BoundAssumption DEF BufInv, BufType, PageType
<1>2. Base \in Int /\ Rounds(Base - origin) /\ Base - origin \in Nat
  <2>1. Rounds(Base - origin)
    BY DEF BaseInv
  <2> QED
    BY <1>1, <2>1, RoundsMod DEF Base
<1>3. f \in Replies
  BY <1>1, ReplyFacts
<1>4. PICK start \in 0 .. total :
        /\ f.next = start + n
        /\ ~f.dropped => start = after
        /\ \A i \in 1 .. n : f.text[i].pos = written - total + start + (i - 1)
  BY <1>1, ReplyFacts
<1> HIDE DEF f, p
<1>5. ASSUME f.text # << >>
      PROVE  n \in Nat \ {0} /\ f.text[1].pos = Base + start /\ f.text[n].pos = Base + start + (n - 1)
  <2>1. n \in Nat \ {0}
    BY <1>3, <1>5, LastOf DEF Replies
  <2>2. 1 \in 1 .. n /\ n \in 1 .. n
    BY <2>1
  <2> HIDE DEF n
  <2>3. f.text[1].pos = written - total + start + (1 - 1)
    BY <1>4, <2>2
  <2>4. f.text[n].pos = written - total + start + (n - 1)
    BY <1>4, <2>2
  <2> QED
    BY <1>1, <2>1, <2>3, <2>4 DEF Base
<1>6. ASSUME f.text # << >>
      PROVE  Precedes(f.text[n].pos, f.next, origin, Base)
  <2> DEFINE q == f.text[n].pos
  <2>1. n \in Nat /\ q = Base + start + (n - 1) /\ f.next = start + n
    BY <1>4, <1>5, <1>6
  <2> HIDE DEF q, n
  <2>2. q + 1 - f.next = Base /\ q + 1 - f.next - origin = Base - origin
    BY <1>1, <1>2, <2>1
  <2>3. Precedes(q, f.next, origin, Base)
    BY <1>2, <2>2 DEF Precedes
  <2> QED
    BY <2>3 DEF q
<1>7. ASSUME Ends(text), ~f.dropped
      PROVE  IF f.text = << >> THEN Precedes(p, f.next, origin, Base)
             ELSE RunsOn(p, f.text[1].pos, origin)
  <2>1. start = after /\ p \in Int /\ Precedes(p, after, origin, Base)
    BY <1>1, <1>4, <1>7, LastOf DEF Ends, Chain, p
  <2>2. CASE f.text = << >>
    <3>1. f.next = after
      BY <1>1, <1>4, <2>1, <2>2
    <3> QED
      BY <2>1, <2>2, <3>1
  <2>3. CASE f.text # << >>
    <3> DEFINE q == f.text[1].pos
    <3>1. q = Base + after
      BY <1>5, <2>1, <2>3
    <3> HIDE DEF q
    <3>2. CASE p < origin
      <4>1. q > p
        BY <1>1, <1>2, <2>1, <3>1, <3>2
      <4> QED
        BY <2>3, <3>2, <4>1 DEF RunsOn, q
    <3>3. CASE ~(p < origin)
      <4>1. Rounds(p + 1 - after - origin) /\ p + 1 - after <= Base
        BY <2>1, <3>3 DEF Precedes
      <4>2. p + 1 - after - origin <= Base - origin
        BY <1>1, <1>2, <2>1, <4>1
      <4>3. Rounds((Base - origin) - (p + 1 - after - origin))
        BY <1>2, <4>1, <4>2, RoundsDiff
      <4>4. (Base - origin) - (p + 1 - after - origin) = q - p - 1
        BY <1>1, <1>2, <2>1, <3>1
      <4>5. q - p - 1 \in Nat /\ (q - p - 1) % W = 0
        BY <4>3, <4>4, RoundsMod
      <4>6. q > p
        BY <1>1, <1>2, <2>1, <3>1, <4>5
      <4> QED
        BY <2>3, <4>5, <4>6 DEF RunsOn, q
    <3> QED
      BY <3>2, <3>3
  <2> QED
    BY <2>2, <2>3
<1> QED
  BY <1>6, <1>7 DEF Continues, f, p

(* A reply that continues the text leaves no gap in it, and ends before the  *)
(* next position.                                                            *)
LEMMA ArrivedContinues ==
  ASSUME PageType, Chain, ~mixed, NEW f \in Replies,
         Sound(f, written), Continues(f, text, origin, Base)
  PROVE  /\ NoGapIn(End(Whole(f)), origin)
         /\ Ends(End(Whole(f)))
              => Precedes(End(Whole(f))[Len(End(Whole(f)))], f.next, origin, Base)
<1> DEFINE s == Whole(f)
           t == Len(text)
           m == Len(Mark(f))
           c == Len(f.text)
<1>1. /\ s \in Seq(Int) /\ m \in {0, 1}
      /\ m = 1 <=> f.dropped /\ text # << >>
      /\ Len(s) = t + m + c
      /\ \A i \in 1 .. t : s[i] = text[i]
      /\ m = 1 => s[t + 1] = Gap
      /\ \A i \in 1 .. c : s[t + m + i] = f.text[i].pos
  BY WholeFacts DEF PageType
<1>2. t \in Nat /\ c \in Nat /\ DOMAIN f.text = 1 .. c /\ mixed \in BOOLEAN
  BY LenProperties DEF PageType, Replies
<1>3. t > 0 <=> text # << >>
  BY <1>2, EmptySeq DEF PageType
<1>4. c > 0 <=> f.text # << >>
  BY <1>2, EmptySeq DEF Replies
<1>5. \A i \in 1 .. c : f.text[i].pos = f.text[1].pos + (i - 1)
  BY <1>2 DEF Sound
<1>6. f.text # << >> => f.text[1].pos \in Int
  BY PosOf
<1>7. PICK k \in 0 .. Len(s) :
        /\ Len(End(s)) = Len(s) - k
        /\ \A i \in 1 .. Len(s) - k : End(s)[i] = s[k + i]
        /\ s # << >> => k < Len(s)
  BY <1>1, <1>2, EndFacts
<1> DEFINE l == Len(s)
           e == End(s)
<1>9. W \in Nat \ {0} /\ 0 % W = 0
  <2>1. W \in Nat \ {0}
    BY CapAssumption, WAssumption
  <2>2. 0 = 0 * W + 0 /\ 0 \in 0 .. W - 1 /\ 0 \in Int
    BY <2>1
  <2> QED
    BY <2>1, <2>2, Remainder
<1> HIDE DEF s, t, m, c, l, e
<1>8. s # << >> <=> Len(s) > 0
  BY <1>1, EmptySeq, LenProperties
<1>10. l = t + m + c /\ (m = 0 \/ m = 1) /\ m \in Int /\ l \in Nat
  BY <1>1, <1>2 DEF l
<1>11. ASSUME NEW i \in 1 .. l - 1
       PROVE  s[i] = Gap \/ s[i + 1] = Gap \/ RunsOn(s[i], s[i + 1], origin)
  <2>1. CASE i < t
    <3>1. i \in 1 .. t /\ i + 1 \in 1 .. t /\ i \in 1 .. t - 1
      BY <1>2, <1>10, <2>1
    <3>2. s[i] = text[i] /\ s[i + 1] = text[i + 1]
      BY <1>1, <3>1
    <3> QED
      BY <3>1, <3>2 DEF Chain, NoGapIn, t
  <2>2. CASE m = 1 /\ (i = t \/ i = t + 1)
    BY <1>1, <1>2, <2>2
  <2>3. CASE m = 0 /\ i = t
    <3>1. t > 0 /\ c > 0 /\ t \in 1 .. t /\ 1 \in 1 .. c
      BY <1>2, <1>10, <2>3
    <3>2. s[i] = text[t] /\ s[i + 1] = f.text[1].pos
      <4>1. t + m + 1 = i + 1
        BY <1>2, <2>3
      <4> QED
        BY <1>1, <2>3, <3>1, <4>1
    <3>3. text # << >> /\ f.text # << >> /\ ~f.dropped
      BY <1>1, <1>3, <1>4, <2>3, <3>1 DEF Replies
    <3>4. CASE text[t] = Gap
      BY <3>2, <3>4
    <3>5. CASE text[t] # Gap
      <4>1. Ends(text)
        BY <3>3, <3>5 DEF Ends, t
      <4>2. RunsOn(text[t], f.text[1].pos, origin)
        BY <3>3, <4>1 DEF Continues, t
      <4> QED
        BY <3>2, <4>2
    <3> QED
      BY <3>4, <3>5
  <2>4. CASE i > t + m
    <3> DEFINE j == i - t - m
    <3>0. i \in Int /\ i <= t + m + c - 1 /\ t \in Int /\ m \in Int /\ c \in Int
      BY <1>2, <1>10
    <3>1. j \in 1 .. c /\ j + 1 \in 1 .. c /\ t + m + j = i /\ t + m + (j + 1) = i + 1 /\ j \in Int
      BY ONLY <2>4, <3>0
    <3> HIDE DEF j
    <3>2. s[i] = f.text[j].pos /\ s[i + 1] = f.text[j + 1].pos
      BY <1>1, <3>1
    <3>3. f.text # << >>
      BY <1>2, <1>4, <3>1
    <3>4. s[i] = f.text[1].pos + (j - 1) /\ s[i + 1] = f.text[1].pos + ((j + 1) - 1)
      BY <1>5, <3>1, <3>2
    <3>5. s[i + 1] > s[i] /\ s[i + 1] - s[i] - 1 = 0
      BY <1>6, <3>1, <3>3, <3>4
    <3> QED
      BY <1>9, <3>5 DEF RunsOn
  <2> QED
    BY <1>2, <1>10, <2>1, <2>2, <2>3, <2>4
<1>12. Len(e) = l - k /\ \A i \in 1 .. l - k : e[i] = s[k + i]
  BY <1>7 DEF e, l
<1>13. k \in 0 .. l /\ (l > 0 => k < l)
  BY <1>7, <1>8 DEF l
<1>14. NoGapIn(e, origin)
  <2> SUFFICES ASSUME NEW i \in 1 .. Len(e) - 1
               PROVE  e[i] = Gap \/ e[i + 1] = Gap \/ RunsOn(e[i], e[i + 1], origin)
    BY DEF NoGapIn
  <2>0. i \in 1 .. l - k - 1 /\ l \in Int /\ k \in 0 .. l
    BY <1>10, <1>12, <1>13
  <2>1. i \in 1 .. l - k /\ i + 1 \in 1 .. l - k /\ k + i \in 1 .. l - 1 /\ k + (i + 1) = (k + i) + 1
    BY ONLY <2>0
  <2>2. e[i] = s[k + i] /\ e[i + 1] = s[(k + i) + 1]
    BY <1>12, <2>1
  <2> QED
    BY <1>11, <2>1, <2>2
<1>15. ASSUME Ends(e)
       PROVE  Precedes(e[Len(e)], f.next, origin, Base)
  <2>1. e \in Seq(Int) /\ e # << >>
    BY <1>1, <1>2, <1>15, EndFacts DEF Ends, e
  <2>2. l - k > 0 /\ l > 0
    <3>1. Len(e) \in Nat /\ Len(e) # 0
      BY <2>1, LenProperties, EmptySeq
    <3> QED
      BY <1>10, <1>12, <1>13, <3>1
  <2>3. e[Len(e)] = s[l] /\ s[l] # Gap
    <3>1. l - k \in 1 .. l - k /\ k + (l - k) = l
      BY <1>10, <1>13, <2>2
    <3>2. e[l - k] = s[l]
      BY <1>12, <3>1
    <3> QED
      BY <1>12, <1>15, <3>2 DEF Ends
  <2>4. CASE c > 0
    <3>1. c \in 1 .. c /\ t + m + c = l
      BY <1>2, <1>10, <2>4
    <3>2. s[l] = f.text[c].pos
      BY <1>1, <3>1
    <3>3. Precedes(f.text[c].pos, f.next, origin, Base)
      BY <1>4, <2>4 DEF Continues, c
    <3> QED
      BY <2>3, <3>2, <3>3
  <2>5. CASE c = 0
    <3>1. m = 0 /\ l = t /\ t \in 1 .. t
      <4>1. m # 1
        <5>1. ASSUME m = 1
              PROVE  FALSE
          <6>1. l = t + 1
            BY <1>2, <1>10, <2>5, <5>1
          <6> QED
            BY <1>1, <2>3, <5>1, <6>1
        <5> QED
          BY <5>1
      <4> QED
        BY <1>2, <1>10, <2>2, <2>5, <4>1
    <3>2. s[l] = text[t]
      BY <1>1, <3>1
    <3>3. text # << >> /\ ~f.dropped /\ f.text = << >>
      BY <1>1, <1>2, <1>3, <1>4, <2>2, <2>5, <3>1 DEF Replies
    <3>4. Ends(text)
      BY <2>3, <3>2, <3>3 DEF Ends, t
    <3>5. Precedes(text[t], f.next, origin, Base)
      BY <3>3, <3>4 DEF Continues, t
    <3> QED
      BY <2>3, <3>2, <3>5
  <2> QED
    BY <1>2, <2>4, <2>5
<1> QED
  BY <1>14, <1>15 DEF e, s

LEMMA ChainStep ==
  ASSUME BufInv, PageType, BaseInv, TextInv, ChainInv, [Next]_vars
  PROVE  ChainInv'
<1> SUFFICES ASSUME ~mixed'
             PROVE  Polls' <= 1 /\ Chain'
  BY DEF ChainInv
<1>0. /\ requests \in Seq(0 .. W - 1) /\ replies \in Seq(Replies) /\ text \in Seq(Int)
      /\ Len(requests) \in Nat /\ Len(replies) \in Nat /\ others \in Nat /\ mixed \in BOOLEAN
      /\ DOMAIN requests = 1 .. Len(requests) /\ DOMAIN replies = 1 .. Len(replies)
      /\ after \in Nat
  BY LenProperties, WAssumption DEF PageType
<1>1. CASE OpenViewer
  <2>1. Polls' <= 1
    <3>1. ~(Polls' <= Polls /\ UNCHANGED << opens, mixed >>)
      BY <1>1, BoundAssumption DEF OpenViewer, PageType
    <3> QED
      BY <3>1, PollsStep
  <2>2. requests = << >> /\ replies = << >>
    BY <1>1 DEF OpenViewer
  <2>3. requests' = << 0 >> /\ after' = 0 /\ text' = << >> /\ replies' = << >>
    BY <1>1, <2>2 DEF OpenViewer
  <2>4. \A i \in DOMAIN requests' : requests'[i] = after'
    BY <2>3
  <2>5. ~Ends(text)' /\ DOMAIN replies' = {}
    BY <2>3 DEF Ends
  <2>6. NoGapIn(text, origin)'
    <3>1. Len(text') = 0
      BY <2>3
    <3> QED
      BY <3>1 DEF NoGapIn
  <2> QED
    BY <2>1, <2>4, <2>5, <2>6 DEF Chain
<1>2. CASE ~OpenViewer
  <2>1. UNCHANGED mixed /\ Polls' <= Polls
    BY <1>2, PollsStep
  <2>2. Polls <= 1 /\ Chain /\ ~mixed
    BY <2>1 DEF ChainInv
  <2>3. Polls' <= 1
    <3>1. Polls \in Int /\ Polls' \in Int
      BY <1>0, PageTypeStep, LenProperties DEF Polls, PageType
    <3> QED
      BY <2>1, <2>2, <3>1
  <2>4. CASE Serve
    <3>1. PICK i \in DOMAIN requests : /\ requests' = RemoveAt(requests, i)
                                       /\ replies' = Append(replies, Reply(requests[i]))
      BY <2>4 DEF Serve
    <3>2. Len(requests) = 1 /\ Len(replies) = 0
      BY <1>0, <2>2, <3>1 DEF Polls
    <3>3. requests[i] = after
      BY <2>2 DEF Chain
    <3>4. Len(requests') = 0 /\ requests' \in Seq(0 .. W - 1)
      <4>1. /\ RemoveAt(requests, i) \in Seq(0 .. W - 1)
            /\ Len(RemoveAt(requests, i)) = Len(requests) - 1
        BY <1>0, RemoveAtFacts
      <4> QED
        BY <3>1, <3>2, <4>1
    <3>5. DOMAIN requests' = {}
      BY <3>4, LenProperties
    <3>6. replies' = << Reply(after) >>
      BY <1>0, <3>1, <3>2, <3>3, EmptySeq
    <3>7. Continues(Reply(after), text, origin, Base)
      BY <2>2, ServedContinues
    <3>8. UNCHANGED << after, text, origin, Base >>
      BY <2>4 DEF Serve, bufVars, Base
    <3>9. \A j \in DOMAIN replies' : Continues(replies'[j], text', origin', Base')
      BY <3>6, <3>7, <3>8
    <3>10. NoGapIn(text', origin') /\ (Ends(text') => Precedes(text'[Len(text')], after', origin', Base'))
      BY <2>2, <3>8 DEF Chain
    <3> QED
      BY <2>3, <3>5, <3>9, <3>10 DEF Chain
  <2>5. CASE Arrive
    <3>1. PICK i \in DOMAIN replies : /\ text' = Shown(replies[i]) /\ after' = replies[i].next
                                      /\ replies' = RemoveAt(replies, i)
                                      /\ UNCHANGED << requests, bufVars >>
      BY <2>5 DEF Arrive
    <3>2. Len(replies) = 1 /\ Len(requests) = 0
      BY <1>0, <2>2, <3>1 DEF Polls
    <3>3. Len(replies') = 0 /\ replies' \in Seq(Replies)
      BY <1>0, <3>1, <3>2, RemoveAtFacts
    <3>4. DOMAIN requests' = {} /\ DOMAIN replies' = {}
      BY <1>0, <3>1, <3>2, <3>3, LenProperties
    <3> DEFINE f == replies[i]
    <3>5. f \in Replies /\ Sound(f, written) /\ Continues(f, text, origin, Base)
      <4>1. f \in Replies
        BY <1>0, ElementOfSeq
      <4> QED
        BY <2>2, <4>1 DEF TextInv, Chain
    <3>6. text' = End(Whole(f)) /\ after' = f.next
      BY <3>1 DEF Shown, Whole, Mark
    <3> HIDE DEF f
    <3>7. /\ NoGapIn(text', origin)
          /\ Ends(text') => Precedes(text'[Len(text')], after', origin, Base)
      BY <2>2, <3>5, <3>6, ArrivedContinues
    <3>8. UNCHANGED << origin, Base >>
      BY <3>1 DEF bufVars, Base
    <3> QED
      BY <2>3, <3>4, <3>7, <3>8 DEF Chain
  <2>6. CASE ~Serve /\ ~Arrive
    <3>1. UNCHANGED << after, text >>
      BY <1>2, <2>6
         DEF Next, LogLine, PowerCycle, CloseViewer, TimerFires, FetchFails, vars, viewVars
    <3>2. \A j \in DOMAIN replies' : \E k \in DOMAIN replies : replies'[j] = replies[k]
      BY <2>6, RepliesStep
    <3>3. \A i \in DOMAIN requests' : requests'[i] = after
      <4>1. CASE TimerFires /\ open
        <5>1. requests' = Append(requests, after)
          BY <4>1 DEF TimerFires
        <5> QED
          BY <1>0, <2>2, <5>1 DEF Chain
      <4>2. CASE UNCHANGED requests
        BY <2>2, <4>2 DEF Chain
      <4> QED
        BY <1>2, <2>6, <4>1, <4>2
           DEF Next, LogLine, PowerCycle, CloseViewer, TimerFires, FetchFails, vars, viewVars
    <3> QED
      BY <2>2, <2>3, <3>1, <3>2, <3>3, ChainLater
  <2> QED
    BY <2>4, <2>5, <2>6
<1> QED
  BY <1>1, <1>2

-------------------------------------------------------------------------------
Inv == BufInv /\ PageType /\ PageInv

LEMMA InitInv == Init => Inv
<1> SUFFICES ASSUME Init
             PROVE  Inv
  OBVIOUS
<1>0. /\ W \in Nat \ {0} /\ 0 \in 0 .. W - 1 /\ 0 \in 0 .. MaxWritten /\ 0 \in 0 .. MaxOpens
      /\ 0 \in 0 .. 0 /\ 0 \in Nat
  BY CapAssumption, WAssumption, BoundAssumption
<1>1. BufInv
  BY BlankKeepsInv DEF Init, BufInit
<1>2. PageType
  <2>1. << >> \in Seq(0 .. W - 1) /\ << >> \in Seq(Replies) /\ << >> \in Seq(Int)
    OBVIOUS
  <2> QED
    BY <1>0, <2>1 DEF Init, BufInit, ViewInit, PageType
<1>3. requests = << >> /\ replies = << >> /\ text = << >> /\ Len(text) = 0
  BY DEF Init, ViewInit
<1>4. Polls = 0 /\ Polls <= opens
  BY DEF Init, ViewInit, Polls
<1>5. BaseInv
  BY NoRound DEF Init, BufInit, BaseInv, Base
<1>6. TextInv
  BY <1>3 DEF TextInv
<1>7. Chain
  BY <1>3 DEF Chain, Ends, NoGapIn
<1> QED
  BY <1>1, <1>2, <1>4, <1>5, <1>6, <1>7 DEF Inv, PageInv, ChainInv

LEMMA StepInv == Inv /\ [Next]_vars => Inv'
<1> SUFFICES ASSUME Inv, [Next]_vars
             PROVE  Inv'
  OBVIOUS
<1>1. BufInv /\ PageType /\ Polls <= opens /\ BaseInv /\ TextInv /\ ChainInv
  BY DEF Inv, PageInv
<1>2. BufInv' /\ PageType' /\ BaseInv' /\ TextInv' /\ ChainInv'
  BY <1>1, BufStep, PageTypeStep, BaseInvStep, TextStep, ChainStep
<1>3. Polls' <= opens'
  <2>1. Polls \in Int /\ opens \in Int
    <3>1. /\ Len(requests) \in Nat /\ Len(replies) \in Nat /\ others \in Nat /\ opens \in Int
      BY <1>1, LenProperties, BoundAssumption DEF PageType
    <3> QED
      BY <3>1 DEF Polls
  <2>2. Polls' \in Int
    <3>1. Len(requests') \in Nat /\ Len(replies') \in Nat /\ others' \in Nat
      BY <1>2, LenProperties DEF PageType
    <3> QED
      BY <3>1 DEF Polls
  <2>3. CASE Polls' <= Polls /\ UNCHANGED opens
    BY <1>1, <2>1, <2>2, <2>3
  <2>4. CASE Polls' <= Polls + 1 /\ opens' = opens + 1
    BY <1>1, <2>1, <2>2, <2>4
  <2> QED
    BY <1>1, <2>3, <2>4, PollsStep
<1> QED
  BY <1>2, <1>3 DEF Inv, PageInv

(* Every reachable state satisfies the invariant of the ring and the page    *)
(* (logbuf.c, index.html's pollLogs).                                        *)
THEOREM Invariance == Spec => []Inv
<1>1. Init => Inv
  BY InitInv
<1>2. Inv /\ [Next]_vars => Inv'
  BY StepInv
<1> QED
  BY <1>1, <1>2, PTL DEF Spec

(* For rings and positions of every size: a variable of the ring, the wire   *)
(* and the page holds a value of its kind, positions stay below W, and each  *)
(* opening has at most one poll (logbuf.c, logs_get_handler, pollLogs).      *)
THEOREM TypeCorrect == Spec => []TypeOK
<1>1. Inv => TypeOK
  <2> SUFFICES ASSUME Inv
               PROVE  TypeOK
    OBVIOUS
  <2>1. BufInv /\ PageType /\ TextInv /\ Polls <= opens
    BY DEF Inv, PageInv
  <2>2. total \in 0 .. W - 1 /\ DOMAIN ring = 0 .. Cap - 1
    BY <2>1, CapAssumption, WAssumption DEF BufInv, BufType
  <2>3. \A i \in DOMAIN requests : requests[i] \in 0 .. W - 1
    BY <2>1, ElementOfSeq, LenProperties DEF PageType
  <2>4. ASSUME NEW i \in DOMAIN replies
        PROVE  replies[i].next < W /\ Len(replies[i].text) < OutSize
    <3>1. replies[i] \in Replies
      BY <2>1, ElementOfSeq, LenProperties DEF PageType
    <3>2. replies[i].next \in 0 .. W - 1
      BY <3>1 DEF Replies
    <3>3. replies[i].next < W
      BY <3>2, WAssumption
    <3>4. Len(replies[i].text) < OutSize
      BY <2>1 DEF TextInv, Sound
    <3> QED
      BY <3>3, <3>4
  <2>5. /\ torn \in 0 .. W - 1 /\ written \in 0 .. MaxWritten /\ origin \in 0 .. written
        /\ open \in BOOLEAN /\ armed \in BOOLEAN /\ mixed \in BOOLEAN
        /\ others \in Nat /\ opens \in 0 .. MaxOpens /\ after \in 0 .. W - 1
    BY <2>1 DEF PageType
  <2> QED
    BY <2>1, <2>2, <2>3, <2>4, <2>5 DEF TypeOK
<1> QED
  BY <1>1, Invariance, PTL

(* For a ring of every size and for every number of bytes logged: the ring   *)
(* holds what was logged, also across the wrap of the count (logbuf_write).  *)
THEOREM RingAlwaysHolds == Spec => []RingHolds
<1>1. Inv => RingHolds
  BY InvGivesRingHolds DEF Inv
<1> QED
  BY <1>1, Invariance, PTL

(* What a request is sent is what was logged, whatever its position and      *)
(* however the request and the writers interleave (logbuf_read,              *)
(* logs_get_handler).                                                        *)
THEOREM AlwaysShowsWhatWasLogged == Spec => []ShowsWhatWasLogged
<1>1. Inv => ShowsWhatWasLogged
  BY DEF Inv, PageInv, TextInv, Sound, ShowsWhatWasLogged
<1> QED
  BY <1>1, Invariance, PTL

(* However often the viewer is opened and closed and whatever fails, no more *)
(* than one chain of polls is alive, unless it was opened while an earlier   *)
(* chain was (logsBtn.onclick, pollLogs).                                    *)
THEOREM AlwaysOneChain == Spec => []OneChain
<1>1. Inv => OneChain
  BY DEF Inv, PageInv, ChainInv, OneChain
<1> QED
  BY <1>1, Invariance, PTL

(* What one chain shows has no unmarked gap and no line twice, for every     *)
(* loss of replies, wrap of the ring and restart, and up to full rounds of   *)
(* the count (logbuf_read's `dropped', pollLogs).                            *)
THEOREM NoGapUnmarked == Spec => []NoSilentGap
<1>1. Inv => NoSilentGap
  BY DEF Inv, PageInv, ChainInv, Chain, NoGapIn, RunsOn, NoSilentGap, Follows
<1> QED
  BY <1>1, Invariance, PTL
====
