------------------------------ MODULE WireProofs ------------------------------
(***************************************************************************)
(* What holds of every session of Wire, for any codec, any frames and any  *)
(* way the bytes are cut.                                                  *)
(***************************************************************************)
EXTENDS Wire, SequenceTheorems, WellFoundedInduction, TLAPS

-------------------------------------------------------------------------------
(* Sequences of sequences.                                                   *)

(* Every set of numbers that is not empty has a least one.                   *)
LEMMA Least ==
  ASSUME NEW T \in SUBSET Nat, T # {}
  PROVE  \E x \in T : \A y \in T : x <= y
<1>1. PICK x \in T : \A y \in T : ~ (<< y, x >> \in OpToRel(<, Nat))
  BY NatLessThanWellFounded, WFMin
<1>2. ASSUME NEW y \in T
      PROVE  x <= y
  <2>1. ~ (<< y, x >> \in OpToRel(<, Nat))
    BY <1>1
  <2>2. ~ (y < x)
    BY <2>1 DEF OpToRel
  <2> QED
    BY <2>2
<1> QED
  BY <1>2

(* Induction on the numbers, for a set.                                      *)
LEMMA Induction ==
  ASSUME NEW T \in SUBSET Nat, 0 \in T, \A n \in T : n + 1 \in T
  PROVE  T = Nat
<1> SUFFICES ASSUME T # Nat
             PROVE  FALSE
  OBVIOUS
<1>1. PICK x \in Nat \ T : \A y \in Nat \ T : x <= y
  BY Least
<1>2. x # 0 /\ x - 1 \in Nat /\ ~ (x <= x - 1)
  BY <1>1
<1>3. x - 1 \in T
  BY <1>1, <1>2
<1>4. (x - 1) + 1 = x
  BY <1>1
<1> QED
  BY <1>1, <1>3, <1>4

(* Which two of three sequences are put together first does not matter.      *)
Glue(a, b) == a \o b

LEMMA Regrouped ==
  ASSUME NEW S, NEW a \in Seq(S), NEW b \in Seq(S), NEW c \in Seq(S)
  PROVE  Glue(a, Glue(b, c)) = Glue(Glue(a, b), c)
BY DEF Glue

(* The sequences f[1], f[2], ... are the first parts of s put together.      *)
Joins(f, s) == /\ f[1] = s[1]
               /\ \A i \in 1 .. Len(s) - 1 : f[i + 1] = f[i] \o s[i + 1]

LEMMA JoinsExist ==
  ASSUME NEW S, NEW s \in Seq(Seq(S)), s # << >>
  PROVE  \E f \in [1 .. Len(s) -> Seq(S)] : Joins(f, s)
<1> DEFINE Good(n) == \E f \in [1 .. Len(s) -> Seq(S)] :
                        /\ f[1] = s[1]
                        /\ \A i \in 1 .. Len(s) - 1 : i <= n => f[i + 1] = f[i] \o s[i + 1]
<1> DEFINE T == {n \in Nat : Good(n)}
<1>0. Len(s) \in Nat /\ Len(s) > 0 /\ \A i \in 1 .. Len(s) : s[i] \in Seq(S)
  BY EmptySeq, LenProperties, ElementOfSeq
<1>1. 0 \in T
  <2>1. /\ s \in [1 .. Len(s) -> Seq(S)]
        /\ \A i \in 1 .. Len(s) - 1 : ~ (i <= 0)
    BY <1>0, LenProperties
  <2> QED
    BY <2>1
<1>2. ASSUME NEW n \in T
      PROVE  n + 1 \in T
  <2>1. PICK f \in [1 .. Len(s) -> Seq(S)] :
          /\ f[1] = s[1]
          /\ \A i \in 1 .. Len(s) - 1 : i <= n => f[i + 1] = f[i] \o s[i + 1]
    OBVIOUS
  <2> DEFINE g == [i \in 1 .. Len(s) |-> IF i = n + 2 THEN f[n + 1] \o s[i] ELSE f[i]]
  <2>2. \A i \in 1 .. Len(s) : g[i] \in Seq(S)
    <3> TAKE i \in 1 .. Len(s)
    <3>1. CASE i = n + 2
      <4>0. n \in Nat /\ n + 1 \in 1 .. Len(s)
        BY <3>1, <1>0
      <4>1. g[i] = f[n + 1] \o s[i]
        BY <3>1
      <4>2. f[n + 1] \in Seq(S) /\ s[i] \in Seq(S)
        BY <4>0, <1>0
      <4>3. f[n + 1] \o s[i] \in Seq(S)
        BY <4>2, ConcatProperties
      <4> QED
        BY <4>1, <4>3
    <3>2. CASE i # n + 2
      <4>1. g[i] = f[i]
        BY <3>2
      <4> QED
        BY <4>1
    <3> QED
      BY <3>1, <3>2
  <2>3. g[1] = s[1]
    BY <2>1, <1>0
  <2>4. ASSUME NEW i \in 1 .. Len(s) - 1, i <= n + 1
        PROVE  g[i + 1] = g[i] \o s[i + 1]
    <3>1. i \in 1 .. Len(s) /\ i + 1 \in 1 .. Len(s) /\ i # n + 2
      BY <2>4, <1>0
    <3>2. g[i] = f[i]
      BY <3>1
    <3>3. CASE i = n + 1
      <4>1. i + 1 = n + 2
        BY <3>3
      <4>2. g[i + 1] = f[n + 1] \o s[i + 1]
        BY <4>1, <3>1
      <4> QED
        BY <4>2, <3>2, <3>3
    <3>4. CASE i # n + 1
      <4>1. i <= n /\ i + 1 # n + 2
        BY <2>4, <3>4, <1>0
      <4> QED
        BY <4>1, <3>1, <3>2, <2>1
    <3> QED
      BY <3>3, <3>4
  <2>5. g \in [1 .. Len(s) -> Seq(S)]
    BY <2>2
  <2> HIDE DEF g
  <2>6. Good(n + 1)
    BY <2>3, <2>4, <2>5
  <2> HIDE DEF Good
  <2> QED
    BY <2>6
<1> HIDE DEF Good
<1>3. T = Nat
  BY <1>1, <1>2, Induction
<1>4. Good(Len(s))
  BY <1>3, <1>0
<1> USE DEF Good
<1>5. \A i \in 1 .. Len(s) - 1 : i <= Len(s)
  BY <1>0
<1> QED
  BY <1>4, <1>5 DEF Joins

(* FlattenSeq is the last of them.                                           *)
LEMMA FlattenIsLast ==
  ASSUME NEW S, NEW s \in Seq(Seq(S)), s # << >>,
         NEW f \in [1 .. Len(s) -> Seq(S)], Joins(f, s)
  PROVE  FlattenSeq(s) = f[Len(s)]
<1>0. Len(s) \in Nat /\ Len(s) # 0 /\ Len(s) > 0
  BY EmptySeq, LenProperties
<1> DEFINE Unfolds(g) == g = [i \in 1 .. Len(s) |-> IF i = 1 THEN s[i] ELSE g[i - 1] \o s[i]]
<1> DEFINE c == CHOOSE g : Unfolds(g)
<1>1. FlattenSeq(s) = c[Len(s)]
  BY <1>0 DEF FlattenSeq
<1>2. Unfolds(f)
  <2>1. ASSUME NEW i \in 1 .. Len(s)
        PROVE  f[i] = IF i = 1 THEN s[i] ELSE f[i - 1] \o s[i]
    <3>1. CASE i = 1
      BY <3>1 DEF Joins
    <3>2. CASE i # 1
      <4>1. i - 1 \in 1 .. Len(s) - 1 /\ (i - 1) + 1 = i
        BY <3>2, <1>0
      <4> QED
        BY <4>1, <3>2 DEF Joins
    <3> QED
      BY <3>1, <3>2
  <2> QED
    BY <2>1
<1>3. Unfolds(c)
  BY <1>2
<1> HIDE DEF c
<1> DEFINE T == {n \in Nat : n + 1 \in 1 .. Len(s) => c[n + 1] = f[n + 1]}
<1>4. 0 \in T
  BY <1>3, <1>2, <1>0
<1>5. ASSUME NEW n \in T
      PROVE  n + 1 \in T
  <2> SUFFICES ASSUME (n + 1) + 1 \in 1 .. Len(s)
               PROVE  c[(n + 1) + 1] = f[(n + 1) + 1]
    OBVIOUS
  <2> DEFINE k == (n + 1) + 1
  <2>1. n + 1 \in 1 .. Len(s) /\ k # 1 /\ k - 1 = n + 1 /\ k \in 1 .. Len(s)
    BY <1>0
  <2>2. c[n + 1] = f[n + 1]
    BY <2>1
  <2> HIDE DEF k
  <2>3. c[k] = c[k - 1] \o s[k]
    BY <2>1, <1>3
  <2>4. f[k] = f[k - 1] \o s[k]
    BY <2>1, <1>2
  <2>5. c[k] = f[k]
    BY <2>1, <2>2, <2>3, <2>4
  <2> QED
    BY <2>5 DEF k
<1> HIDE DEF Unfolds
<1>6. T = Nat
  <2> HIDE DEF T
  <2>1. T \in SUBSET Nat
    BY DEF T
  <2> QED
    BY <2>1, <1>4, <1>5, Induction
<1>7. Len(s) - 1 \in Nat /\ (Len(s) - 1) + 1 = Len(s) /\ Len(s) \in 1 .. Len(s)
  BY <1>0
<1>8. Len(s) - 1 \in T
  BY <1>6, <1>7
<1>9. c[Len(s)] = f[Len(s)]
  BY <1>7, <1>8
<1> QED
  BY <1>9, <1>1

LEMMA FlattenInSeq ==
  ASSUME NEW S, NEW s \in Seq(Seq(S))
  PROVE  FlattenSeq(s) \in Seq(S)
<1>1. CASE s = << >>
  BY <1>1, EmptySeq DEF FlattenSeq
<1>2. CASE s # << >>
  <2>1. PICK f \in [1 .. Len(s) -> Seq(S)] : Joins(f, s)
    BY <1>2, JoinsExist
  <2>2. FlattenSeq(s) = f[Len(s)] /\ Len(s) \in 1 .. Len(s)
    BY <2>1, <1>2, FlattenIsLast, EmptySeq
  <2> QED
    BY <2>2
<1> QED
  BY <1>1, <1>2

LEMMA FlattenOfOne ==
  ASSUME NEW S, NEW s \in Seq(Seq(S)), Len(s) = 1
  PROVE  FlattenSeq(s) = s[1]
<1>1. s # << >>
  <2>1. Len(<< >>) = 0
    BY EmptySeq
  <2> QED
    BY <2>1
<1>2. PICK f \in [1 .. Len(s) -> Seq(S)] : Joins(f, s)
  BY <1>1, JoinsExist
<1>3. FlattenSeq(s) = f[Len(s)]
  BY <1>1, <1>2, FlattenIsLast
<1> QED
  BY <1>2, <1>3 DEF Joins

(* One more at the end.                                                      *)
LEMMA FlattenAppend ==
  ASSUME NEW S, NEW s \in Seq(Seq(S)), NEW e \in Seq(S)
  PROVE  FlattenSeq(Append(s, e)) = FlattenSeq(s) \o e
<1> DEFINE t == Append(s, e)
<1>0. /\ t \in Seq(Seq(S)) /\ t # << >> /\ Len(t) = Len(s) + 1 /\ Len(s) \in Nat
      /\ t[Len(s) + 1] = e /\ \A i \in 1 .. Len(s) : t[i] = s[i]
  BY AppendProperties, LenProperties
<1> HIDE DEF t
<1>1. CASE s = << >>
  <2>1. Len(t) = 1 /\ t[1] = e
    BY <1>0, <1>1
  <2>2. FlattenSeq(t) = e
    BY <1>0, <2>1, FlattenOfOne
  <2>3. FlattenSeq(s) = << >>
    BY <1>1 DEF FlattenSeq
  <2>4. << >> \o e = e
    BY ConcatEmptySeq
  <2> QED
    BY <2>2, <2>3, <2>4 DEF t
<1>2. CASE s # << >>
  <2>0. Len(s) > 0 /\ Len(s) \in 1 .. Len(s) /\ 1 \in 1 .. Len(s)
    BY <1>2, EmptySeq
  <2>1. PICK f \in [1 .. Len(s) -> Seq(S)] : Joins(f, s)
    BY <1>2, JoinsExist
  <2>2. FlattenSeq(s) = f[Len(s)]
    BY <1>2, <2>1, FlattenIsLast
  <2>3. f[Len(s)] \o e \in Seq(S)
    BY <2>0, ConcatProperties
  <2> DEFINE g == [i \in 1 .. Len(t) |-> IF i <= Len(s) THEN f[i] ELSE f[Len(s)] \o e]
  <2>4. g \in [1 .. Len(t) -> Seq(S)]
    <3>1. ASSUME NEW i \in 1 .. Len(t)
          PROVE  (IF i <= Len(s) THEN f[i] ELSE f[Len(s)] \o e) \in Seq(S)
      <4>1. CASE i <= Len(s)
        <5>1. i \in 1 .. Len(s)
          BY <4>1, <1>0
        <5>2. f[i] \in Seq(S)
          BY <5>1
        <5> QED
          BY <5>2, <4>1
      <4>2. CASE ~ (i <= Len(s))
        BY <4>2, <2>3
      <4> QED
        BY <4>1, <4>2
    <3> QED
      BY <3>1
  <2>5. /\ \A i \in 1 .. Len(s) : g[i] = f[i]
        /\ g[Len(s) + 1] = f[Len(s)] \o e
    BY <1>0
  <2> HIDE DEF g
  <2>6. Joins(g, t)
    <3>1. g[1] = t[1]
      BY <2>0, <2>1, <2>5, <1>0 DEF Joins
    <3>2. ASSUME NEW i \in 1 .. Len(t) - 1
          PROVE  g[i + 1] = g[i] \o t[i + 1]
      <4>0. i \in 1 .. Len(s) /\ g[i] = f[i]
        BY <1>0, <2>5
      <4>1. CASE i = Len(s)
        BY <4>1, <4>0, <2>5, <1>0
      <4>2. CASE i # Len(s)
        <5>1. i \in 1 .. Len(s) - 1 /\ i + 1 \in 1 .. Len(s)
          BY <4>0, <4>2, <1>0
        <5>2. f[i + 1] = f[i] \o s[i + 1]
          BY <5>1, <2>1 DEF Joins
        <5>3. g[i + 1] = f[i + 1] /\ t[i + 1] = s[i + 1]
          BY <5>1, <2>5, <1>0
        <5> QED
          BY <5>2, <5>3, <4>0
      <4> QED
        BY <4>1, <4>2
    <3> QED
      BY <3>1, <3>2 DEF Joins
  <2>7. FlattenSeq(t) = g[Len(t)]
    BY <2>4, <2>6, <1>0, FlattenIsLast
  <2> QED
    BY <2>7, <2>5, <2>2, <1>0 DEF t
<1> QED
  BY <1>1, <1>2

(* The first one off.                                                        *)
LEMMA FlattenFirst ==
  ASSUME NEW S, NEW s \in Seq(Seq(S)), s # << >>
  PROVE  FlattenSeq(s) = s[1] \o FlattenSeq(Tail(s))
<1> DEFINE t == Tail(s)
<1>0. /\ t \in Seq(Seq(S)) /\ Len(t) = Len(s) - 1 /\ Len(s) \in Nat /\ Len(s) > 0
      /\ \A i \in 1 .. Len(t) : t[i] = s[i + 1]
  BY HeadTailProperties, EmptySeq
<1>1. s[1] \in Seq(S)
  BY <1>0, ElementOfSeq
<1> HIDE DEF t
<1>2. CASE t = << >>
  <2>1. Len(s) = 1
    BY <1>0, <1>2
  <2>2. FlattenSeq(s) = s[1]
    BY <2>1, FlattenOfOne
  <2>3. FlattenSeq(t) = << >>
    BY <1>2 DEF FlattenSeq
  <2>4. s[1] \o << >> = s[1]
    BY <1>1, ConcatEmptySeq
  <2> QED
    BY <2>2, <2>3, <2>4 DEF t
<1>3. CASE t # << >>
  <2>0. Len(t) > 0 /\ Len(t) \in 1 .. Len(t) /\ 1 \in 1 .. Len(t)
    BY <1>3, <1>0, EmptySeq
  <2>1. PICK f \in [1 .. Len(t) -> Seq(S)] : Joins(f, t)
    BY <1>3, <1>0, JoinsExist
  <2>2. FlattenSeq(t) = f[Len(t)]
    BY <1>0, <1>3, <2>1, FlattenIsLast
  <2> DEFINE g == [i \in 1 .. Len(s) |-> IF i = 1 THEN s[1] ELSE s[1] \o f[i - 1]]
  <2>3. g \in [1 .. Len(s) -> Seq(S)]
    <3>1. ASSUME NEW i \in 1 .. Len(s)
          PROVE  (IF i = 1 THEN s[1] ELSE s[1] \o f[i - 1]) \in Seq(S)
      <4>1. CASE i = 1
        BY <4>1, <1>1
      <4>2. CASE i # 1
        <5>0. i - 1 \in 1 .. Len(t)
          BY <4>2, <1>0
        <5>1. f[i - 1] \in Seq(S)
          BY <5>0
        <5>2. s[1] \o f[i - 1] \in Seq(S)
          BY <5>1, <1>1, ConcatProperties
        <5> QED
          BY <5>2, <4>2
      <4> QED
        BY <4>1, <4>2
    <3> QED
      BY <3>1
  <2>4. g[1] = s[1] /\ \A i \in 1 .. Len(t) : g[i + 1] = s[1] \o f[i]
    <3>1. 1 \in 1 .. Len(s)
      BY <1>0
    <3>2. ASSUME NEW i \in 1 .. Len(t)
          PROVE  g[i + 1] = s[1] \o f[i]
      <4>1. i + 1 \in 1 .. Len(s) /\ i + 1 # 1 /\ (i + 1) - 1 = i
        BY <1>0
      <4> QED
        BY <4>1
    <3> QED
      BY <3>1, <3>2
  <2> HIDE DEF g
  <2>5. Joins(g, s)
    <3>1. ASSUME NEW i \in 1 .. Len(s) - 1
          PROVE  g[i + 1] = g[i] \o s[i + 1]
      <4>0. i \in 1 .. Len(t) /\ t[i] = s[i + 1] /\ g[i + 1] = s[1] \o f[i]
        BY <1>0, <2>4
      <4>1. CASE i = 1
        BY <4>1, <4>0, <2>1, <2>4 DEF Joins
      <4>2. CASE i # 1
        <5>1. i - 1 \in 1 .. Len(t) - 1 /\ i - 1 \in 1 .. Len(t) /\ (i - 1) + 1 = i
          BY <4>0, <4>2, <1>0
        <5>2. f[i] = f[i - 1] \o t[i]
          BY <5>1, <2>1 DEF Joins
        <5>3. g[i] = s[1] \o f[i - 1]
          BY <5>1, <2>4
        <5>4. f[i - 1] \in Seq(S) /\ t[i] \in Seq(S)
          BY <5>1, <4>0, <1>0, ElementOfSeq
        <5> DEFINE a == f[i - 1]
                   b == t[i]
                   c == s[1]
        <5>5. c \o (a \o b) = (c \o a) \o b
          <6>1. a \in Seq(S) /\ b \in Seq(S) /\ c \in Seq(S)
            BY <5>4, <1>1
          <6> HIDE DEF a, b, c
          <6>2. Glue(c, Glue(a, b)) = Glue(Glue(c, a), b)
            BY <6>1, Regrouped
          <6> QED
            BY <6>2 DEF Glue
        <5> QED
          BY <5>2, <5>3, <5>5, <4>0
      <4> QED
        BY <4>1, <4>2
    <3> QED
      BY <3>1, <2>4 DEF Joins
  <2>6. FlattenSeq(s) = g[Len(s)]
    BY <2>3, <2>5, FlattenIsLast
  <2>7. g[Len(s)] = s[1] \o f[Len(t)]
    <3>1. Len(s) = Len(t) + 1
      BY <1>0
    <3>2. g[Len(t) + 1] = s[1] \o f[Len(t)]
      BY <2>4, <2>0
    <3> QED
      BY <3>1, <3>2
  <2> QED
    BY <2>2, <2>6, <2>7 DEF t
<1> QED
  BY <1>2, <1>3

(* Appending leaves what is there where it is.                               *)
LEMMA AppendKeeps ==
  ASSUME NEW S, NEW s \in Seq(S), NEW e
  PROVE  \A i \in 1 .. Len(s) : Append(s, e)[i] = s[i]
<1>1. s \in Seq(S \cup {e}) /\ e \in S \cup {e}
  OBVIOUS
<1> QED
  BY <1>1, AppendProperties

LEMMA AppendLast ==
  ASSUME NEW S, NEW s \in Seq(S), NEW e
  PROVE  Append(s, e)[Len(s) + 1] = e /\ Len(Append(s, e)) = Len(s) + 1
<1>1. s \in Seq(S \cup {e}) /\ e \in S \cup {e}
  OBVIOUS
<1> QED
  BY <1>1, AppendProperties


(* Two ways of cutting a sequence at the same place.                         *)
LEMMA SameCut ==
  ASSUME NEW S, NEW a \in Seq(S), NEW b \in Seq(S), NEW c \in Seq(S), NEW d \in Seq(S),
         a \o b = c \o d, Len(a) = Len(c)
  PROVE  a = c /\ b = d
<1>1. \A i \in 1 .. Len(a) : a[i] = c[i]
  <2> TAKE i \in 1 .. Len(a)
  <2>1. (a \o b)[i] = a[i] /\ (c \o d)[i] = c[i]
    OBVIOUS
  <2> QED
    BY <2>1
<1>2. a = c
  BY <1>1, SeqEqual
<1> QED
  BY <1>2, ConcatSimplifications

-------------------------------------------------------------------------------
(* Length prefixes.                                                          *)

Byte == 0 .. 255

(* A whole prefix: the last byte, and only the last, is below 128.           *)
Whole(p) == /\ p \in Seq(Byte) /\ p # << >>
            /\ p[Len(p)] < 128
            /\ \A i \in 1 .. Len(p) - 1 : p[i] >= 128

LEMMA WholeFacts ==
  ASSUME NEW p, Whole(p)
  PROVE  /\ p \in Seq(Byte) /\ Len(p) \in Nat /\ Len(p) >= 1
         /\ \A i \in 1 .. Len(p) : p[i] \in Byte
         /\ p[Len(p)] < 128
         /\ \A i \in 1 .. Len(p) - 1 : p[i] >= 128
<1>1. p \in Seq(Byte) /\ p # << >>
  BY DEF Whole
<1>2. Len(p) \in Nat /\ Len(p) >= 1
  BY <1>1, EmptySeq
<1>3. \A i \in 1 .. Len(p) : p[i] \in Byte
  BY <1>1, ElementOfSeq
<1> QED
  BY <1>1, <1>2, <1>3 DEF Whole

LEMMA InFirst ==
  ASSUME NEW S, NEW a \in Seq(S), NEW b \in Seq(S), NEW i \in 1 .. Len(a)
  PROVE  (a \o b)[i] = a[i]
OBVIOUS

LEMMA NotBoth ==
  ASSUME NEW x \in Byte, x < 128, x >= 128
  PROVE  FALSE
BY DEF Byte

(* A stream has one whole prefix at most.                                    *)
LEMMA OnePrefix ==
  ASSUME NEW a, Whole(a), NEW b \in Seq(Byte), NEW c, Whole(c), NEW d \in Seq(Byte),
         a \o b = c \o d
  PROVE  a = c /\ b = d
<1>0. a \in Seq(Byte) /\ c \in Seq(Byte) /\ Len(a) \in Nat /\ Len(c) \in Nat
      /\ Len(a) >= 1 /\ Len(c) >= 1
  BY WholeFacts
<1>1. ~ (Len(a) < Len(c))
  <2> SUFFICES ASSUME Len(a) < Len(c)
               PROVE  FALSE
    OBVIOUS
  <2>1. Len(a) \in 1 .. Len(c) - 1 /\ Len(a) \in 1 .. Len(c) /\ Len(a) \in 1 .. Len(a)
    BY <1>0
  <2>2. c[Len(a)] >= 128 /\ a[Len(a)] < 128 /\ a[Len(a)] \in Byte
    BY <2>1, WholeFacts
  <2>3. (a \o b)[Len(a)] = a[Len(a)] /\ (c \o d)[Len(a)] = c[Len(a)]
    BY <2>1, <1>0, InFirst
  <2>4. a[Len(a)] = c[Len(a)]
    BY <2>3
  <2> QED
    BY <2>2, <2>4, NotBoth
<1>2. ~ (Len(c) < Len(a))
  <2> SUFFICES ASSUME Len(c) < Len(a)
               PROVE  FALSE
    OBVIOUS
  <2>1. Len(c) \in 1 .. Len(a) - 1 /\ Len(c) \in 1 .. Len(a) /\ Len(c) \in 1 .. Len(c)
    BY <1>0
  <2>2. a[Len(c)] >= 128 /\ c[Len(c)] < 128 /\ c[Len(c)] \in Byte
    BY <2>1, WholeFacts
  <2>3. (a \o b)[Len(c)] = a[Len(c)]
    BY <2>1, <1>0, InFirst
  <2>4. (c \o d)[Len(c)] = c[Len(c)]
    BY <2>1, <1>0, InFirst
  <2>5. a[Len(c)] = c[Len(c)]
    BY <2>3, <2>4
  <2> QED
    BY <2>2, <2>5, NotBoth
<1>3. Len(a) = Len(c)
  BY <1>0, <1>1, <1>2
<1> QED
  BY <1>0, <1>3, SameCut

(* It ends where its first varint ends.                                      *)
LEMMA EndOfPrefix ==
  ASSUME NEW a, Whole(a), NEW b \in Seq(Byte)
  PROVE  VarintEnd(a \o b) = Len(a)
<1> DEFINE s == a \o b
<1>0. a \in Seq(Byte) /\ Len(a) \in Nat /\ Len(a) >= 1 /\ Len(b) \in Nat
  BY WholeFacts, LenProperties
<1>1. Len(s) = Len(a) + Len(b) /\ \A i \in 1 .. Len(a) : s[i] = a[i]
  BY <1>0
<1> HIDE DEF s
<1> DEFINE Ends(i) == s[i] < 128 /\ \A j \in 1 .. i - 1 : s[j] >= 128
<1>2. Len(a) \in 1 .. Len(s) /\ Len(a) \in 1 .. Len(a)
  BY <1>0, <1>1
<1>3. Ends(Len(a))
  <2>1. \A j \in 1 .. Len(a) - 1 : j \in 1 .. Len(a) /\ a[j] >= 128
    BY <1>0, WholeFacts
  <2> QED
    BY <2>1, <1>1, <1>2, WholeFacts
<1>4. ASSUME NEW i \in 1 .. Len(s), Ends(i)
      PROVE  i = Len(a)
  <2>1. CASE i < Len(a)
    <3>1. i \in 1 .. Len(a) - 1 /\ i \in 1 .. Len(a)
      BY <2>1, <1>0
    <3>2. s[i] >= 128 /\ s[i] \in Byte
      BY <3>1, <1>1, WholeFacts
    <3>3. s[i] < 128
      BY <1>4
    <3> QED
      BY <3>2, <3>3, NotBoth
  <2>2. CASE i > Len(a)
    <3>1. Len(a) \in 1 .. i - 1
      BY <2>2, <1>0
    <3>2. s[Len(a)] >= 128 /\ s[Len(a)] < 128 /\ s[Len(a)] \in Byte
      BY <3>1, <1>4, <1>1, <1>2, WholeFacts
    <3> QED
      BY <3>2, NotBoth
  <2> QED
    BY <2>1, <2>2, <1>0
<1>5. VarintEnd(s) = CHOOSE i \in 1 .. Len(s) : Ends(i)
  BY <1>2, <1>3 DEF VarintEnd
<1> HIDE DEF Ends
<1>6. (CHOOSE i \in 1 .. Len(s) : Ends(i)) = Len(a)
  BY <1>2, <1>3, <1>4
<1> QED
  BY <1>5, <1>6 DEF s

LEMMA DigitsOf ==
  ASSUME NEW p \in Seq(Byte), NEW n \in 1 .. 5
  PROVE  LET w == [i \in DOMAIN p |-> p[i] % IF i = 5 THEN 16 ELSE 128]
         IN /\ DOMAIN w = 1 .. Len(p) /\ Len(w) = Len(p)
            /\ Digit(w, n) \in 0 .. 127
            /\ Digit(w, n) = IF n <= Len(p) THEN p[n] % IF n = 5 THEN 16 ELSE 128 ELSE 0
            /\ \A i \in 1 .. Len(p) : w[i] \in 0 .. 127
<1> DEFINE w == [i \in DOMAIN p |-> p[i] % IF i = 5 THEN 16 ELSE 128]
<1>1. DOMAIN p = 1 .. Len(p) /\ Len(p) \in Nat /\ \A i \in 1 .. Len(p) : p[i] \in Byte
  BY LenProperties, ElementOfSeq
<1>2. \A i \in 1 .. Len(p) : w[i] = p[i] % IF i = 5 THEN 16 ELSE 128
  BY <1>1
<1>3. \A i \in 1 .. Len(p) : w[i] \in 0 .. 127
  <2> TAKE i \in 1 .. Len(p)
  <2> DEFINE x == p[i]
  <2>1. x \in Byte /\ w[i] = x % IF i = 5 THEN 16 ELSE 128
    BY <1>1, <1>2
  <2> HIDE DEF x, w
  <2>2. x % 16 \in 0 .. 127 /\ x % 128 \in 0 .. 127
    BY <2>1 DEF Byte
  <2> QED
    BY <2>1, <2>2
<1>4. DOMAIN w = 1 .. Len(p)
  BY <1>1
<1>5. Len(w) = Len(p)
  <2>1. w = [i \in 1 .. Len(p) |-> p[i] % IF i = 5 THEN 16 ELSE 128]
    BY <1>1
  <2> QED
    BY <2>1, <1>1
<1> HIDE DEF w
<1>6. Digit(w, n) = IF n <= Len(p) THEN w[n] ELSE 0
  BY <1>5 DEF Digit
<1>7. n <= Len(p) => n \in 1 .. Len(p)
  BY <1>1
<1>8. Digit(w, n) \in 0 .. 127
  BY <1>3, <1>6, <1>7
<1>9. Digit(w, n) = IF n <= Len(p) THEN p[n] % IF n = 5 THEN 16 ELSE 128 ELSE 0
  BY <1>2, <1>6, <1>7
<1> QED
  BY <1>3, <1>4, <1>5, <1>8, <1>9 DEF w

LEMMA NumIsNat ==
  ASSUME NEW w, \A n \in 1 .. 5 : Digit(w, n) \in 0 .. 127
  PROVE  Num(w) \in Nat
<1>1. \A a, b \in Nat : a + 128 * b \in Nat
  OBVIOUS
<1>2. Digit(w, 1) \in Nat /\ Digit(w, 2) \in Nat /\ Digit(w, 3) \in Nat /\ Digit(w, 4) \in Nat
  OBVIOUS
<1>3. Digit(w, 3) + 128 * Digit(w, 4) \in Nat
  BY ONLY <1>1, <1>2, Zenon
<1>4. Digit(w, 2) + 128 * (Digit(w, 3) + 128 * Digit(w, 4)) \in Nat
  BY ONLY <1>1, <1>2, <1>3, Zenon
<1>5. Digit(w, 1) + 128 * (Digit(w, 2) + 128 * (Digit(w, 3) + 128 * Digit(w, 4))) \in Nat
  BY ONLY <1>1, <1>2, <1>4, Zenon
<1> QED
  BY <1>5 DEF Num

LEMMA FrameLengthIsNat ==
  ASSUME NEW p \in Seq(Byte)
  PROVE  FrameLength(p) \in Nat
<1> DEFINE w == [i \in DOMAIN p |-> p[i] % IF i = 5 THEN 16 ELSE 128]
<1>1. \A n \in 1 .. 5 : Digit(w, n) \in 0 .. 127
  BY DigitsOf
<1>2. FrameLength(p) = Num(w)
  BY DEF FrameLength
<1> HIDE DEF w
<1> QED
  BY <1>1, <1>2, NumIsNat

(* A prefix of five bytes at most gives the length it was made for.          *)
LEMMA GivesLength ==
  ASSUME NEW p, Whole(p), Len(p) <= 5, NEW n \in Nat, Gives(p, n)
  PROVE  FrameLength(p) = n
<1> DEFINE w == [i \in DOMAIN p |-> p[i] % IF i = 5 THEN 16 ELSE 128]
<1> DEFINE d == [i \in 1 .. 5 |-> IF i <= Len(p) THEN p[i] % 128 ELSE 0]
<1>0. p \in Seq(Byte) /\ Len(p) \in Nat
  BY WholeFacts
<1>1. d[5] % 16 = 0 /\ n = d[1] + 128 * (d[2] + 128 * (d[3] + 128 * d[4]))
  BY DEF Gives
<1>2. \A i \in 1 .. 4 : Digit(w, i) = d[i]
  <2> TAKE i \in 1 .. 4
  <2>1. i \in 1 .. 5 /\ i # 5
    OBVIOUS
  <2>2. Digit(w, i) = IF i <= Len(p) THEN p[i] % IF i = 5 THEN 16 ELSE 128 ELSE 0
    BY <1>0, <2>1, DigitsOf
  <2> QED
    BY <2>1, <2>2
<1>3. \A i \in DOMAIN w : ~ (i > 4 /\ w[i] # 0)
  <2> SUFFICES ASSUME NEW i \in DOMAIN w, i > 4
               PROVE  w[i] = 0
    OBVIOUS
  <2>1. DOMAIN p = 1 .. Len(p)
    BY <1>0, LenProperties
  <2>2. i = 5 /\ Len(p) = 5
    BY <2>1, <1>0
  <2>3. p[5] < 128 /\ p[5] \in Byte
    <3>1. 5 = Len(p) /\ 5 \in 1 .. Len(p)
      BY <2>2
    <3>2. p[Len(p)] < 128 /\ p[5] \in Byte
      BY <3>1, WholeFacts
    <3> QED
      BY <3>1, <3>2
  <2>4. d[5] = p[5] /\ w[i] = p[5] % 16
    BY <2>2, <2>3 DEF Byte
  <2> QED
    BY <2>4, <1>1
<1>4. FrameLength(p) = Num(w)
  BY DEF FrameLength
<1> HIDE DEF w, d
<1>5. Num(w) = d[1] + 128 * (d[2] + 128 * (d[3] + 128 * d[4]))
  BY <1>2, <1>3 DEF Num
<1> QED
  BY <1>1, <1>4, <1>5

LEMMA MaxIs ==
  ASSUME NEW T \in SUBSET Int, NEW x \in T, \A y \in T : x >= y
  PROVE  Max(T) = x
<1> DEFINE Top(z) == \A y \in T : z >= y
<1>1. Max(T) = CHOOSE z \in T : Top(z)
  BY DEF Max
<1>2. Top(x)
  OBVIOUS
<1>3. \A z \in T : Top(z) => z = x
  OBVIOUS
<1> HIDE DEF Top
<1> QED
  BY <1>1, <1>2, <1>3

LEMMA MinIs ==
  ASSUME NEW T \in SUBSET Int, NEW x \in T, \A y \in T : x <= y
  PROVE  Min(T) = x
<1> DEFINE Bottom(z) == \A y \in T : z <= y
<1>1. Min(T) = CHOOSE z \in T : Bottom(z)
  BY DEF Min
<1>2. Bottom(x)
  OBVIOUS
<1>3. \A z \in T : Bottom(z) => z = x
  OBVIOUS
<1> HIDE DEF Bottom
<1> QED
  BY <1>1, <1>2, <1>3

LEMMA MinOfTwo ==
  ASSUME NEW a \in Int, NEW b \in Int
  PROVE  Min({a, b}) \in {a, b} /\ Min({a, b}) <= a /\ Min({a, b}) <= b
<1>1. CASE a <= b
  <2>1. Min({a, b}) = a
    BY <1>1, MinIs
  <2> QED
    BY <2>1, <1>1
<1>2. CASE b <= a
  <2>1. Min({a, b}) = b
    BY <1>2, MinIs
  <2> QED
    BY <2>1, <1>2
<1> QED
  BY <1>1, <1>2

(* The prefixes the device itself writes.                                    *)
LEMMA ShortWord ==
  ASSUME NEW n \in 0 .. 512
  PROVE  /\ n = 0 => Word(n) = << >>
         /\ n # 0 /\ n < 128 => Word(n) = << n >>
         /\ n >= 128 => Word(n) = << n % 128, n \div 128 >>
<1> DEFINE w == << n % 128, (n \div 128) % 128, (n \div (128 * 128)) % 128,
                   n \div (128 * 128 * 128) >>
<1> DEFINE T == {0} \cup {i \in DOMAIN w : w[i] # 0}
<1>0. Word(n) = SubSeq(w, 1, Max(T))
  BY DEF Word, Trim
<1>1. n \div (128 * 128) = 0 /\ n \div (128 * 128 * 128) = 0
  OBVIOUS
<1>2. n \div 128 \in 0 .. 4 /\ (n \div 128) % 128 = n \div 128
  OBVIOUS
<1>3. DOMAIN w = 1 .. 4 /\ w[1] = n % 128 /\ w[2] = n \div 128 /\ w[3] = 0 /\ w[4] = 0
  BY <1>1, <1>2
<1>4. w \in Seq(Int) /\ Len(w) = 4
  BY <1>1, <1>2
<1> HIDE DEF w
<1>5. T \in SUBSET Int /\ 0 \in T /\ \A i \in T : i \in 1 .. 4 \/ i = 0
  BY <1>3
<1>6. CASE n = 0
  <2>1. w[1] = 0 /\ w[2] = 0
    BY <1>3, <1>6
  <2>2. \A i \in T : i = 0
    BY <2>1, <1>3
  <2> HIDE DEF T
  <2>3. Max(T) = 0
    BY <2>2, <1>5, MaxIs
  <2>4. SubSeq(w, 1, 0) = << >>
    BY SubSeqEmpty
  <2> QED
    BY <2>3, <2>4, <1>0, <1>6
<1>7. CASE n # 0 /\ n < 128
  <2>1. w[1] = n /\ w[2] = 0
    BY <1>3, <1>7
  <2>2. 1 \in T /\ \A i \in T : i = 0 \/ i = 1
    BY <2>1, <1>3, <1>7
  <2> HIDE DEF T
  <2>3. Max(T) = 1
    BY <2>2, <1>5, MaxIs
  <2>4. SubSeq(w, 1, 1) = << n >>
    <3>1. << n >> \in Seq(Int) /\ Len(<< n >>) = 1 /\ << n >>[1] = n
      OBVIOUS
    <3>2. \A i \in 1 .. 1 : w[i] \in Int
      BY <2>1
    <3>3. /\ SubSeq(w, 1, 1) \in Seq(Int) /\ Len(SubSeq(w, 1, 1)) = 1
          /\ \A i \in 1 .. 1 : SubSeq(w, 1, 1)[i] = w[1 + i - 1]
      BY <3>2, SubSeqProperties
    <3>4. SubSeq(w, 1, 1)[1] = n
      BY <3>3, <2>1
    <3>5. \A i \in 1 .. Len(SubSeq(w, 1, 1)) : SubSeq(w, 1, 1)[i] = << n >>[i]
      BY <3>1, <3>3, <3>4
    <3> QED
      BY ONLY <3>1, <3>3, <3>5, SeqEqual
  <2> QED
    BY <2>3, <2>4, <1>0, <1>7
<1>8. CASE n >= 128
  <2>1. w[1] = n % 128 /\ w[2] = n \div 128 /\ w[2] # 0
    BY <1>3, <1>8
  <2>2. 2 \in T /\ \A i \in T : i = 0 \/ i = 1 \/ i = 2
    BY <2>1, <1>3
  <2> HIDE DEF T
  <2>3. Max(T) = 2
    BY <2>2, <1>5, MaxIs
  <2> DEFINE a == n % 128
             b == n \div 128
  <2>4. SubSeq(w, 1, 2) = << a, b >>
    <3>0. a \in Int /\ b \in Int /\ w[1] = a /\ w[2] = b
      BY <2>1
    <3> HIDE DEF a, b
    <3>1. << a, b >> \in Seq(Int) /\ Len(<< a, b >>) = 2 /\ << a, b >>[1] = a /\ << a, b >>[2] = b
      BY <3>0
    <3>2. \A i \in 1 .. 2 : w[i] \in Int
      BY <3>0
    <3>3. /\ SubSeq(w, 1, 2) \in Seq(Int) /\ Len(SubSeq(w, 1, 2)) = 2
          /\ \A i \in 1 .. 2 : SubSeq(w, 1, 2)[i] = w[1 + i - 1]
      BY <3>2, SubSeqProperties
    <3>4. SubSeq(w, 1, 2)[1] = a /\ SubSeq(w, 1, 2)[2] = b
      BY <3>3, <3>0
    <3>5. \A i \in 1 .. Len(SubSeq(w, 1, 2)) : SubSeq(w, 1, 2)[i] = << a, b >>[i]
      BY <3>1, <3>3, <3>4
    <3> QED
      BY ONLY <3>1, <3>3, <3>5, SeqEqual
  <2> QED
    BY <2>3, <2>4, <1>0, <1>8
<1> QED
  BY <1>6, <1>7, <1>8

LEMMA WrittenPrefix ==
  ASSUME NEW n \in 0 .. 512
  PROVE  LET p == FrameVarintEncode(n)
         IN Whole(p) /\ Len(p) <= 5 /\ Gives(p, n) /\ (Len(p) > 1 => p[Len(p)] # 0)
<1> DEFINE p == FrameVarintEncode(n)
<1> DEFINE d == [i \in 1 .. 5 |-> IF i <= Len(p) THEN p[i] % 128 ELSE 0]
<1>1. CASE n < 128
  <2>1. p = << n >>
    <3>1. CASE n = 0
      <4>1. Word(n) = << >>
        BY <3>1, ShortWord
      <4> QED
        BY <4>1, <3>1 DEF FrameVarintEncode, EncodeVarint
    <3>2. CASE n # 0
      <4>1. Word(n) = << n >>
        BY <3>2, <1>1, ShortWord
      <4>2. [i \in DOMAIN << n >> |-> << n >>[i] + IF i < Len(<< n >>) THEN 128 ELSE 0] = << n >>
        OBVIOUS
      <4> QED
        BY <4>1, <4>2 DEF FrameVarintEncode, EncodeVarint
    <3> QED
      BY <3>1, <3>2
  <2>2. p \in Seq(Byte) /\ Len(p) = 1 /\ p[1] = n /\ p # << >>
    BY <2>1, <1>1 DEF Byte
  <2> HIDE DEF p
  <2>3. Whole(p)
    BY <2>2, <1>1 DEF Whole
  <2>4. d[1] = n /\ d[2] = 0 /\ d[3] = 0 /\ d[4] = 0 /\ d[5] = 0
    BY <2>2, <1>1
  <2> HIDE DEF d
  <2>5. d[5] % 16 = 0 /\ n = d[1] + 128 * (d[2] + 128 * (d[3] + 128 * d[4]))
    BY <2>4
  <2>6. Gives(p, n)
    BY <2>5 DEF Gives, d
  <2> QED
    BY <2>2, <2>3, <2>6 DEF p
<1>2. CASE n >= 128
  <2> DEFINE a == n % 128
             b == n \div 128
  <2>0. a \in 0 .. 127 /\ b \in 1 .. 4 /\ n = a + 128 * b
    BY <1>2
  <2>1. Word(n) = << a, b >>
    BY <1>2, ShortWord
  <2> HIDE DEF a, b
  <2>2. p = << a + 128, b >>
    <3>1. [i \in DOMAIN << a, b >> |-> << a, b >>[i] + IF i < Len(<< a, b >>) THEN 128 ELSE 0]
            = << a + 128, b >>
      BY <2>0
    <3> QED
      BY <2>1, <3>1 DEF FrameVarintEncode, EncodeVarint
  <2>3. p \in Seq(Byte) /\ Len(p) = 2 /\ p[1] = a + 128 /\ p[2] = b /\ p # << >>
    BY <2>2, <2>0 DEF Byte
  <2> HIDE DEF p
  <2>4. Whole(p)
    BY <2>3, <2>0 DEF Whole
  <2>5. d[1] = a /\ d[2] = b /\ d[3] = 0 /\ d[4] = 0 /\ d[5] = 0
    BY <2>3, <2>0
  <2> HIDE DEF d
  <2>6. d[5] % 16 = 0 /\ n = d[1] + 128 * (d[2] + 128 * (d[3] + 128 * d[4]))
    BY <2>5, <2>0
  <2>7. Gives(p, n)
    BY <2>6 DEF Gives, d
  <2> QED
    BY <2>3, <2>4, <2>7, <2>0 DEF p
<1> QED
  BY <1>1, <1>2

(* The frames of the TV.                                                     *)
LEMMA FrameFacts ==
  ASSUME NEW f \in DOMAIN Frames
  PROVE  /\ Whole(Frames[f].prefix) /\ Frames[f].payload \in Seq(Byte)
         /\ Raw(f) \in Seq(Byte) /\ Frames[f].session \in Sessions
         /\ Len(Frames[f].prefix) <= 5 =>
              FrameLength(Frames[f].prefix) = Len(Frames[f].payload)
<1>1. Whole(Frames[f].prefix) /\ Frames[f].payload \in Seq(Byte) /\ Frames[f].session \in Sessions
  BY FrameAssumption DEF Whole, Byte
<1>2. Raw(f) \in Seq(Byte)
  <2>1. Frames[f].prefix \in Seq(Byte)
    BY <1>1, WholeFacts
  <2> QED
    BY <2>1, <1>1, ConcatProperties DEF Raw
<1>3. Len(Frames[f].prefix) <= 5 => Gives(Frames[f].prefix, Len(Frames[f].payload))
  BY FrameAssumption
<1>4. Len(Frames[f].payload) \in Nat
  BY <1>1, LenProperties
<1> QED
  BY <1>1, <1>2, <1>3, <1>4, GivesLength

-------------------------------------------------------------------------------
(* The kinds of values.                                                      *)

Messages == {PbDecode(s, b) : s \in Sessions, b \in Seq(Byte)}

Said == OwnMessages
          \cup {Configured(bits) : bits \in SUBSET FEATURES_DEFAULT}
          \cup {Active(bits) : bits \in SUBSET FEATURES_DEFAULT}
          \cup {Pong(m) : m \in Messages}
          \cup {PairingRequest, PairingOptions, PairingConfiguration, PairingSecret}

Wired(s, m) == FrameVarintEncode(Len(PbEncode(s, m).v)) \o PbEncode(s, m).v

Whys == {"", "io", "closed", "write", "encode", "varint", "toobig", "decode", "status", "code",
         "paired"}

Utterances == [msg : Said, to : Nat]
Images     == {Wired(s, m) : s \in Sessions, m \in Said}

Readers == [at : {"poll", "prefix", "body", "down"}, first : Seq(Byte), prefix : Seq(Byte),
            body : Seq(Byte), why : Whys]

Types ==
  /\ session \in Sessions /\ closed \in BOOLEAN
  /\ sent \in Seq(DOMAIN Frames) /\ net \in Seq(Byte)
  /\ rx \in Readers
  /\ seen \in Seq(Messages)
  /\ features \subseteq FEATURES_DEFAULT
  /\ said \in Seq(Utterances)
  /\ out \in Seq(Images)
  /\ Len(said) = Len(out)

LEMMA DownIsReader ==
  ASSUME rx \in Readers, NEW why \in Whys
  PROVE  Down(why) \in Readers /\ Down(why).at = "down" /\ Down(why).why = why
         /\ Down(why).first = rx.first /\ Down(why).prefix = rx.prefix /\ Down(why).body = rx.body
BY DEF Down, Readers

LEMMA IdleIsReader ==
  /\ Idle \in Readers /\ Idle.why = ""
  /\ Idle.at = (IF session = "RemoteMessage" THEN "poll" ELSE "prefix")
  /\ Idle.first = << >> /\ Idle.prefix = << >> /\ Idle.body = << >>
<1> DEFINE where == IF session = "RemoteMessage" THEN "poll" ELSE "prefix"
<1>1. << >> \in Seq(Byte) /\ where \in {"poll", "prefix", "body", "down"}
  BY EmptySeq
<1>2. Idle = [at |-> where, first |-> << >>, prefix |-> << >>, body |-> << >>, why |-> ""]
  BY DEF Idle
<1> HIDE DEF where
<1>3. "" \in Whys
  BY DEF Whys
<1>4. Idle \in Readers
  BY <1>1, <1>2, <1>3 DEF Readers
<1>5. /\ Idle.why = "" /\ Idle.at = where
      /\ Idle.first = << >> /\ Idle.prefix = << >> /\ Idle.body = << >>
  BY <1>2
<1> QED
  BY <1>4, <1>5 DEF where

(* What sending comes to.                                                    *)
LEMMA Sending ==
  ASSUME Types, NEW m \in Said, NEW to \in Nat, NEW next \in Readers, SendMsg(m, to, next)
  PROVE  /\ rx' \in Readers
         /\ \/ rx' = Down("encode") /\ UNCHANGED << said, out >> /\ ~FrameSend(m).ok
            \/ rx' = Down("write") /\ UNCHANGED << said, out >>
            \/ /\ rx' = next /\ FrameSend(m).ok
               /\ said' = Append(said, [msg |-> m, to |-> to])
               /\ out' = Append(out, Wired(session, m))
         /\ said' \in Seq(Utterances)
         /\ out' \in Seq(Images)
         /\ Len(said') = Len(out')
<1>0. said \in Seq(Utterances) /\ out \in Seq(Images) /\ Len(said) = Len(out) /\ session \in Sessions
      /\ rx \in Readers
  BY DEF Types
<1>1. \/ ~FrameSend(m).ok /\ rx' = Down("encode") /\ UNCHANGED << said, out >>
      \/ /\ FrameSend(m).ok
         /\ said' = Append(said, [msg |-> m, to |-> to]) /\ out' = Append(out, FrameSend(m).v)
         /\ rx' = next
      \/ FrameSend(m).ok /\ rx' = Down("write") /\ UNCHANGED << said, out >>
  BY DEF SendMsg, SendFrame
<1>2. FrameSend(m).ok => FrameSend(m).v = Wired(session, m)
  BY DEF FrameSend, Wired
<1>3. Down("encode") \in Readers /\ Down("write") \in Readers
  <2>1. "encode" \in Whys /\ "write" \in Whys
    BY DEF Whys
  <2> QED
    BY <2>1, <1>0, DownIsReader
<1>4. [msg |-> m, to |-> to] \in Utterances /\ Wired(session, m) \in Images
  BY <1>0 DEF Utterances, Images
<1>5. /\ Append(said, [msg |-> m, to |-> to]) \in Seq(Utterances)
      /\ Len(Append(said, [msg |-> m, to |-> to])) = Len(said) + 1
  BY <1>0, <1>4, AppendProperties
<1>6. /\ Append(out, Wired(session, m)) \in Seq(Images)
      /\ Len(Append(out, Wired(session, m))) = Len(out) + 1
  BY <1>0, <1>4, AppendProperties
<1>7. CASE UNCHANGED << said, out >> /\ rx' \in {Down("encode"), Down("write")}
  BY <1>0, <1>1, <1>3, <1>7
<1>8. CASE /\ FrameSend(m).ok /\ rx' = next
           /\ said' = Append(said, [msg |-> m, to |-> to]) /\ out' = Append(out, FrameSend(m).v)
  BY <1>0, <1>2, <1>5, <1>6, <1>8
<1> QED
  BY <1>1, <1>7, <1>8

(* The part a handler acts on is one that is there.                          *)
LEMMA FirstPartIsThere ==
  ASSUME NEW m, NEW S, NEW names \in Seq(S)
  PROVE  \/ FirstPart(m, names) = "none" /\ \A i \in 1 .. Len(names) : names[i] \notin DOMAIN m
         \/ \E i \in 1 .. Len(names) : FirstPart(m, names) = names[i] /\ names[i] \in DOMAIN m
<1> DEFINE there == {i \in DOMAIN names : names[i] \in DOMAIN m}
<1>0. DOMAIN names = 1 .. Len(names) /\ Len(names) \in Nat
  BY LenProperties
<1>1. CASE there = {}
  <2>1. FirstPart(m, names) = "none"
    BY <1>1 DEF FirstPart
  <2> QED
    BY <2>1, <1>0, <1>1
<1>2. CASE there # {}
  <2>1. there \in SUBSET Nat
    BY <1>0
  <2> HIDE DEF there
  <2>2. PICK k \in there : \A j \in there : k <= j
    BY <2>1, <1>2, Least
  <2>3. Min(there) \in there
    BY <2>2 DEF Min
  <2>4. FirstPart(m, names) = names[Min(there)]
    BY <1>2 DEF FirstPart, there
  <2> DEFINE i == Min(there)
  <2>5. i \in 1 .. Len(names) /\ names[i] \in DOMAIN m
    BY <2>3, <1>0 DEF there
  <2> QED
    BY <2>4, <2>5
<1> QED
  BY <1>1, <1>2

LEMMA HandledNames ==
  /\ HandledParts \in Seq({"remote_configure", "remote_set_active", "remote_ping_request",
                            "remote_start", "remote_set_volume_level"}) /\ Len(HandledParts) = 5
  /\ HandledParts[1] = "remote_configure" /\ HandledParts[2] = "remote_set_active"
  /\ HandledParts[3] = "remote_ping_request" /\ HandledParts[4] = "remote_start"
  /\ HandledParts[5] = "remote_set_volume_level"
<1>1. HandledParts \in Seq({"remote_configure", "remote_set_active", "remote_ping_request",
                            "remote_start", "remote_set_volume_level"})
  BY DEF HandledParts
<1>2. Len(HandledParts) = 5
  BY DEF HandledParts
<1>3. /\ HandledParts[1] = "remote_configure" /\ HandledParts[2] = "remote_set_active"
      /\ HandledParts[3] = "remote_ping_request" /\ HandledParts[4] = "remote_start"
      /\ HandledParts[5] = "remote_set_volume_level"
  BY DEF HandledParts
<1> QED
  BY <1>1, <1>2, <1>3

LEMMA PairingNames ==
  /\ PairingParts \in Seq({"pairing_request_ack", "options", "configuration_ack", "secret_ack"}) /\ Len(PairingParts) = 4
  /\ PairingParts[1] = "pairing_request_ack" /\ PairingParts[2] = "options"
  /\ PairingParts[3] = "configuration_ack" /\ PairingParts[4] = "secret_ack"
<1>1. PairingParts \in Seq({"pairing_request_ack", "options", "configuration_ack", "secret_ack"})
  BY DEF PairingParts
<1>2. Len(PairingParts) = 4
  BY DEF PairingParts
<1>3. /\ PairingParts[1] = "pairing_request_ack" /\ PairingParts[2] = "options"
      /\ PairingParts[3] = "configuration_ack" /\ PairingParts[4] = "secret_ack"
  BY DEF PairingParts
<1> QED
  BY <1>1, <1>2, <1>3

(* What the two handlers come to.                                            *)
LEMMA RemoteHandling ==
  ASSUME Types, NEW m \in Messages, HandleRemote(m)
  PROVE  LET part == FirstPart(m, HandledParts) IN
         /\ features' \subseteq FEATURES_DEFAULT
         /\ status' = StatusAfter(part, m)
         /\ \/ part = "remote_configure" /\ Reply(Configured(features'))
            \/ part = "remote_set_active" /\ Reply(Active(features))
            \/ part = "remote_ping_request" /\ Reply(Pong(m))
            \/ /\ part \notin {"remote_configure", "remote_set_active", "remote_ping_request"}
               /\ rx' = Idle /\ UNCHANGED << said, out >>
<1> DEFINE part == FirstPart(m, HandledParts)
<1>1. features' = IF part = "remote_configure" THEN Narrowed(m[part].code1) ELSE features
  BY DEF HandleRemote
<1>2. status' = StatusAfter(part, m)
  BY DEF HandleRemote
<1>3. (CASE part = "remote_configure" -> Reply(Configured(features'))
         [] part = "remote_set_active" -> Reply(Active(features))
         [] part = "remote_ping_request" -> Reply(Pong(m))
         [] OTHER -> rx' = Idle /\ UNCHANGED << said, out >>)
  BY DEF HandleRemote
<1> HIDE DEF part
<1>4. \/ part = "remote_configure" /\ Reply(Configured(features'))
      \/ part = "remote_set_active" /\ Reply(Active(features))
      \/ part = "remote_ping_request" /\ Reply(Pong(m))
      \/ /\ part \notin {"remote_configure", "remote_set_active", "remote_ping_request"}
         /\ rx' = Idle /\ UNCHANGED << said, out >>
  BY <1>3
<1>5. features' \subseteq FEATURES_DEFAULT
  BY <1>1 DEF Narrowed, Types
<1> QED
  BY <1>2, <1>4, <1>5 DEF part

LEMMA PairingHandling ==
  ASSUME NEW m, HandlePairing(m)
  PROVE  /\ UNCHANGED << features, status >>
         /\ \/ \E n \in {PairingOptions, PairingConfiguration, PairingSecret} : Reply(n)
            \/ /\ rx' = Down("code") /\ UNCHANGED << said, out >>
               /\ "configuration_ack" \in DOMAIN m
            \/ /\ rx' = Down("paired") /\ UNCHANGED << said, out >>
               /\ "secret_ack" \in DOMAIN m
            \/ /\ rx' = Down("status") /\ UNCHANGED << said, out >>
               /\ m.status # Word(200)
            \/ rx' = Idle /\ UNCHANGED << said, out >>
<1> DEFINE first == FirstPart(m, PairingParts)
<1> DEFINE part == IF m.status = Word(200) THEN first ELSE "fault"
<1>1. UNCHANGED << features, status >>
  BY DEF HandlePairing
<1>2. (CASE part = "pairing_request_ack" -> Reply(PairingOptions)
         [] part = "options" -> Reply(PairingConfiguration)
         [] part = "configuration_ack" ->
              \/ Reply(PairingSecret)
              \/ rx' = Down("code") /\ UNCHANGED << said, out >>
         [] part = "secret_ack" -> rx' = Down("paired") /\ UNCHANGED << said, out >>
         [] part = "fault" -> rx' = Down("status") /\ UNCHANGED << said, out >>
         [] OTHER -> rx' = Idle /\ UNCHANGED << said, out >>)
  BY DEF HandlePairing
<1>3. \/ first = "none"
      \/ first \in {"pairing_request_ack", "options", "configuration_ack", "secret_ack"}
           /\ first \in DOMAIN m
  <2>1. \/ first = "none"
        \/ \E i \in 1 .. Len(PairingParts) : first = PairingParts[i] /\ PairingParts[i] \in DOMAIN m
    BY FirstPartIsThere, PairingNames
  <2> HIDE DEF first
  <2> QED
    BY <2>1, PairingNames
<1> HIDE DEF first
<1>4. part = "fault" => m.status # Word(200)
  BY <1>3
<1>5. part # "fault" => part = first
  OBVIOUS
<1> HIDE DEF part
<1> QED
  BY <1>1, <1>2, <1>3, <1>4, <1>5

(* What handling a frame comes to.                                           *)
LEMMA Handling ==
  ASSUME Types, Handle
  PROVE  LET m == PbDecode(session, rx.body)
             n == Len(seen) + 1
         IN /\ m \in Messages /\ seen' = Append(seen, m) /\ Len(seen') = n /\ n \in Nat
            /\ seen' \in Seq(Messages) /\ features' \subseteq FEATURES_DEFAULT
            /\ UNCHANGED << session, sent, net, closed >>
            /\ \/ rx' = Idle /\ UNCHANGED << said, out >>
               \/ /\ \E why \in {"code", "paired", "status", "decode"} : rx' = Down(why)
                  /\ UNCHANGED << said, out >>
               \/ \E x \in Said : SendMsg(x, n, Idle)
<1> DEFINE m == PbDecode(session, rx.body)
           n == Len(seen) + 1
<1>0. session \in Sessions /\ rx.body \in Seq(Byte) /\ seen \in Seq(Messages)
      /\ features \subseteq FEATURES_DEFAULT
  BY DEF Types, Readers
<1>1. m \in Messages
  BY <1>0 DEF Messages
<1>2. HandleDecoded(m) /\ UNCHANGED << session, sent, net, closed >>
  BY DEF Handle
<1> HIDE DEF m
<1>3. seen' = Append(seen, m)
  BY <1>2 DEF HandleDecoded
<1>4. Len(seen') = n /\ n \in Nat /\ seen' \in Seq(Messages)
  BY <1>3, <1>0, <1>1, AppendProperties, LenProperties
<1> HIDE DEF n
<1>5. \A x : Reply(x) => SendMsg(x, n, Idle)
  BY <1>4 DEF Reply
<1>6. CASE m # Refusal /\ session = "RemoteMessage" /\ HandleRemote(m)
  <2> DEFINE part == FirstPart(m, HandledParts)
  <2>1. /\ features' \subseteq FEATURES_DEFAULT
        /\ \/ part = "remote_configure" /\ Reply(Configured(features'))
           \/ part = "remote_set_active" /\ Reply(Active(features))
           \/ part = "remote_ping_request" /\ Reply(Pong(m))
           \/ rx' = Idle /\ UNCHANGED << said, out >>
    BY <1>6, <1>1, RemoteHandling
  <2>2. Configured(features') \in Said /\ Active(features) \in Said /\ Pong(m) \in Said
    BY <2>1, <1>0, <1>1 DEF Said
  <2> QED
    BY <2>1, <2>2, <1>1, <1>2, <1>3, <1>4, <1>5 DEF m, n
<1>7. CASE m # Refusal /\ session = "OuterMessage" /\ HandlePairing(m)
  <2>1. {PairingOptions, PairingConfiguration, PairingSecret} \subseteq Said
    BY DEF Said
  <2>2. /\ features' \subseteq FEATURES_DEFAULT
        /\ \/ \E x \in {PairingOptions, PairingConfiguration, PairingSecret} : Reply(x)
           \/ /\ \E why \in {"code", "paired", "status", "decode"} : rx' = Down(why)
              /\ UNCHANGED << said, out >>
           \/ rx' = Idle /\ UNCHANGED << said, out >>
    BY <1>7, <1>0, PairingHandling
  <2> QED
    BY <2>1, <2>2, <1>1, <1>2, <1>3, <1>4, <1>5 DEF m, n
<1>8. CASE /\ m = Refusal
           /\ rx' = IF session = "RemoteMessage" THEN Idle ELSE Down("decode")
           /\ UNCHANGED << features, status, said, out >>
  <2>1. rx' = Idle \/ rx' = Down("decode")
    BY <1>8
  <2>2. features' \subseteq FEATURES_DEFAULT /\ UNCHANGED << said, out >>
    BY <1>8, <1>0
  <2> QED
    BY <2>1, <2>2, <1>1, <1>2, <1>3, <1>4 DEF m, n
<1> QED
  BY <1>2, <1>6, <1>7, <1>8 DEF HandleDecoded

(* What the reader can be after a step of its own.                           *)
LEMMA ReaderParts ==
  ASSUME rx \in Readers, NEW at \in {"poll", "prefix", "body", "down"}, NEW why \in Whys,
         NEW first \in Seq(Byte), NEW prefix \in Seq(Byte), NEW body \in Seq(Byte)
  PROVE  /\ [rx EXCEPT !.at = at, !.first = first] \in Readers
         /\ [rx EXCEPT !.first = first, !.prefix = prefix] \in Readers
         /\ [rx EXCEPT !.first = first, !.prefix = prefix, !.at = at] \in Readers
         /\ [rx EXCEPT !.first = first, !.prefix = prefix, !.at = at, !.why = why] \in Readers
         /\ [rx EXCEPT !.body = body] \in Readers
BY DEF Readers

(* One byte of a prefix.                                                     *)
LEMMA PrefixByte ==
  ASSUME Types, ReadPrefix
  PROVE  /\ NextByte \in Byte
         /\ net' \in Seq(Byte)
         /\ rx.first # << >> => net' = net
         /\ rx.first = << >> => net # << >> /\ net' = Tail(net) /\ NextByte = Head(net)
         /\ Append(rx.prefix, NextByte) \in Seq(Byte)
<1>0. rx.first \in Seq(Byte) /\ rx.prefix \in Seq(Byte) /\ net \in Seq(Byte)
  BY DEF Types, Readers
<1>1. (rx.first # << >> \/ net # << >>) /\ net' = IF rx.first # << >> THEN net ELSE Tail(net)
  BY DEF ReadPrefix, HasByte
<1>2. CASE rx.first # << >>
  <2>1. NextByte = rx.first[1] /\ net' = net
    BY <1>1, <1>2 DEF NextByte
  <2>2. rx.first[1] \in Byte
    BY <1>0, <1>2, EmptySeq, ElementOfSeq
  <2>3. Append(rx.prefix, NextByte) \in Seq(Byte)
    BY <2>1, <2>2, <1>0, AppendProperties
  <2> QED
    BY <2>1, <2>2, <2>3, <1>0, <1>2
<1>3. CASE rx.first = << >>
  <2>1. NextByte = Head(net) /\ net' = Tail(net) /\ net # << >>
    BY <1>1, <1>3 DEF NextByte
  <2>2. Head(net) \in Byte /\ Tail(net) \in Seq(Byte)
    BY <2>1, <1>0, HeadTailProperties
  <2>3. Append(rx.prefix, NextByte) \in Seq(Byte)
    BY <2>1, <2>2, <1>0, AppendProperties
  <2> QED
    BY <2>1, <2>2, <2>3, <1>3
<1> QED
  BY <1>2, <1>3

(* The bytes of a read.                                                      *)
LEMMA BodyBytes ==
  ASSUME Types, ReadBody
  PROVE  \E k \in 1 .. Len(net) :
           /\ k <= Missing
           /\ rx' = [rx EXCEPT !.body = rx.body \o SubSeq(net, 1, k)]
           /\ net' = SubSeq(net, k + 1, Len(net))
           /\ SubSeq(net, 1, k) \in Seq(Byte) /\ Len(SubSeq(net, 1, k)) = k
           /\ net' \in Seq(Byte)
           /\ SubSeq(net, 1, k) \o net' = net
<1>0. rx.body \in Seq(Byte) /\ rx.prefix \in Seq(Byte) /\ net \in Seq(Byte) /\ net # << >>
  BY DEF Types, Readers, ReadBody
<1>1. Len(net) \in Nat /\ Len(net) > 0
  BY <1>0, EmptySeq
<1>2. Missing \in Int /\ Missing > 0
  <2>1. FrameLength(rx.prefix) \in Nat /\ Len(rx.body) \in Nat
    BY <1>0, FrameLengthIsNat, LenProperties
  <2> QED
    BY <2>1 DEF Missing, ReadBody
<1>3. /\ Min({Missing, Len(net)}) \in {Missing, Len(net)}
      /\ Min({Missing, Len(net)}) <= Missing /\ Min({Missing, Len(net)}) <= Len(net)
  <2>1. Missing \in Int /\ Len(net) \in Int
    BY <1>1, <1>2
  <2> QED
    BY ONLY <2>1, MinOfTwo
<1>4. PICK k \in {Min({Missing, Len(net)})} \cup
                   IF Len(rx.body) < MaxSingles THEN {1} ELSE {} :
        /\ rx' = [rx EXCEPT !.body = @ \o SubSeq(net, 1, k)]
        /\ net' = SubSeq(net, k + 1, Len(net))
  BY DEF ReadBody
<1>5. k \in 1 .. Len(net) /\ k <= Missing
  BY <1>1, <1>2, <1>3, <1>4
<1>6. \A i \in 1 .. Len(net) : net[i] \in Byte
  BY <1>0, ElementOfSeq
<1>7. SubSeq(net, 1, k) \in Seq(Byte) /\ Len(SubSeq(net, 1, k)) = k
  <2>1. \A i \in 1 .. k : net[i] \in Byte
    BY <1>5, <1>6
  <2> QED
    BY <2>1, <1>5, SubSeqProperties
<1>8. net' \in Seq(Byte)
  <2>1. \A i \in k + 1 .. Len(net) : net[i] \in Byte
    BY <1>5, <1>6
  <2>2. k + 1 \in Int /\ Len(net) \in Int
    BY <1>1, <1>5
  <2> QED
    BY <2>1, <2>2, <1>4, SubSeqProperties
<1>9. SubSeq(net, 1, k) \o net' = net
  <2>1. SubSeq(net, 1, k) \o SubSeq(net, k + 1, Len(net)) = SubSeq(net, 1, Len(net))
    <3>1. 1 \in 1 .. Len(net) + 1 /\ k \in 1 - 1 .. Len(net) /\ Len(net) \in k .. Len(net)
      BY <1>1, <1>5
    <3> QED
      BY <3>1, <1>0, ConcatAdjacentSubSeq
  <2>2. SubSeq(net, 1, Len(net)) = net
    BY <1>0, SubSeqFull
  <2> QED
    BY <2>1, <2>2, <1>4
<1> QED
  BY <1>4, <1>5, <1>7, <1>8, <1>9

LEMMA InitTypes == Init => Types
<1> SUFFICES ASSUME Init
             PROVE  Types
  OBVIOUS
<1> USE DEF Init
<1>1. session \in Sessions /\ closed \in BOOLEAN /\ features \subseteq FEATURES_DEFAULT
  OBVIOUS
<1>2. sent \in Seq(DOMAIN Frames) /\ net \in Seq(Byte) /\ seen \in Seq(Messages)
  BY EmptySeq
<1>3. /\ said \in Seq(Utterances)
      /\ out \in Seq(Images)
  BY EmptySeq
<1>4. rx \in Readers /\ Len(said) = Len(out)
  BY IdleIsReader
<1> QED
  BY <1>1, <1>2, <1>3, <1>4 DEF Types

LEMMA KeepsTypes ==
  ASSUME Types, [Next]_vars
  PROVE  Types'
<1>0. /\ session \in Sessions /\ closed \in BOOLEAN /\ sent \in Seq(DOMAIN Frames)
      /\ net \in Seq(Byte) /\ rx \in Readers /\ seen \in Seq(Messages)
      /\ features \subseteq FEATURES_DEFAULT
      /\ rx.first \in Seq(Byte) /\ rx.prefix \in Seq(Byte) /\ rx.body \in Seq(Byte)
  BY DEF Types, Readers
<1>a. << >> \in Seq(Byte) /\ "" \in Whys
  BY EmptySeq DEF Whys
<1>1. CASE PollFirst
  <2>1. net # << >> /\ net' = Tail(net)
        /\ rx' = [rx EXCEPT !.at = "prefix", !.first = << Head(net) >>]
    BY <1>1 DEF PollFirst
  <2>2. Head(net) \in Byte /\ Tail(net) \in Seq(Byte)
    BY <2>1, <1>0, HeadTailProperties
  <2>3. << Head(net) >> \in Seq(Byte)
    BY <2>2
  <2>4. rx' \in Readers
    BY <2>1, <2>3, <1>0, <1>a, ReaderParts
  <2> QED
    BY <2>1, <2>2, <2>4, <1>1 DEF PollFirst, Types
<1>2. CASE ReadPrefix
  <2> DEFINE prefix == Append(rx.prefix, NextByte)
  <2>1. prefix \in Seq(Byte) /\ net' \in Seq(Byte)
    BY <1>2, PrefixByte
  <2>2. \/ rx' = [rx EXCEPT !.first = << >>, !.prefix = prefix]
        \/ rx' = [rx EXCEPT !.first = << >>, !.prefix = prefix, !.at = "body"]
        \/ rx' = [rx EXCEPT !.first = << >>, !.prefix = prefix, !.at = "down", !.why = "varint"]
        \/ rx' = [rx EXCEPT !.first = << >>, !.prefix = prefix, !.at = "down", !.why = "toobig"]
    BY <1>2 DEF ReadPrefix
  <2>3. "varint" \in Whys /\ "toobig" \in Whys
    BY DEF Whys
  <2> HIDE DEF prefix
  <2>4. /\ [rx EXCEPT !.first = << >>, !.prefix = prefix] \in Readers
        /\ [rx EXCEPT !.first = << >>, !.prefix = prefix, !.at = "body"] \in Readers
    BY <2>1, <1>0, <1>a, ReaderParts
  <2>5. /\ [rx EXCEPT !.first = << >>, !.prefix = prefix, !.at = "down", !.why = "varint"] \in Readers
        /\ [rx EXCEPT !.first = << >>, !.prefix = prefix, !.at = "down", !.why = "toobig"] \in Readers
    BY <2>1, <2>3, <1>0, <1>a, ReaderParts
  <2>6. rx' \in Readers
    BY <2>2, <2>4, <2>5
  <2> QED
    BY <2>1, <2>6, <1>2 DEF ReadPrefix, Types
<1>3. CASE ReadBody
  <2>1. PICK k \in 1 .. Len(net) :
           /\ rx' = [rx EXCEPT !.body = rx.body \o SubSeq(net, 1, k)]
           /\ SubSeq(net, 1, k) \in Seq(Byte) /\ net' \in Seq(Byte)
    BY <1>3, BodyBytes
  <2>2. rx.body \o SubSeq(net, 1, k) \in Seq(Byte)
    BY <2>1, <1>0, ConcatProperties
  <2>3. rx' \in Readers
    BY <2>1, <2>2, <1>0, <1>a, ReaderParts
  <2> QED
    BY <2>1, <2>3, <1>3 DEF ReadBody, Types
<1>4. CASE Handle
  <2>1. /\ seen' \in Seq(Messages) /\ features' \subseteq FEATURES_DEFAULT
        /\ UNCHANGED << session, sent, net, closed >> /\ Len(seen) + 1 \in Nat
        /\ \/ rx' = Idle /\ UNCHANGED << said, out >>
           \/ /\ \E why \in {"code", "paired", "status", "decode"} : rx' = Down(why)
              /\ UNCHANGED << said, out >>
           \/ \E x \in Said : SendMsg(x, Len(seen) + 1, Idle)
    BY <1>4, Handling
  <2>2. Idle \in Readers
    BY IdleIsReader
  <2>3. {"code", "paired", "status", "decode"} \subseteq Whys
    BY DEF Whys
  <2>4. /\ rx' \in Readers
        /\ said' \in Seq(Utterances)
        /\ out' \in Seq(Images)
        /\ Len(said') = Len(out')
    <3>1. CASE rx' = Idle /\ UNCHANGED << said, out >>
      BY <3>1, <2>2 DEF Types
    <3>2. CASE /\ \E why \in {"code", "paired", "status", "decode"} : rx' = Down(why)
               /\ UNCHANGED << said, out >>
      <4>1. PICK why \in {"code", "paired", "status", "decode"} : rx' = Down(why)
        BY <3>2
      <4>2. Down(why) \in Readers
        BY <2>3, <1>0, DownIsReader
      <4> QED
        BY <4>1, <4>2, <3>2 DEF Types
    <3>3. CASE \E x \in Said : SendMsg(x, Len(seen) + 1, Idle)
      <4>1. PICK x \in Said : SendMsg(x, Len(seen) + 1, Idle)
        BY <3>3
      <4> QED
        BY <4>1, <2>1, <2>2, Sending
    <3> QED
      BY <2>1, <3>1, <3>2, <3>3
  <2> QED
    BY <2>1, <2>4, <1>0 DEF Types
<1>5. CASE SendQueued
  <2>1. PICK m \in OwnMessages : SendMsg(m, 0, rx)
    BY <1>5 DEF SendQueued
  <2>2. m \in Said
    BY DEF Said
  <2>3. /\ rx' \in Readers
        /\ said' \in Seq(Utterances)
        /\ out' \in Seq(Images)
        /\ Len(said') = Len(out')
    <3>1. 0 \in Nat
      OBVIOUS
    <3> QED
      BY <2>1, <2>2, <3>1, <1>0, Sending
  <2> QED
    BY <2>3, <1>5, <1>0 DEF SendQueued, Types
<1>6. CASE StartPairing
  <2>1. SendMsg(PairingRequest, 0, rx)
    BY <1>6 DEF StartPairing
  <2>2. PairingRequest \in Said
    BY DEF Said
  <2>3. /\ rx' \in Readers
        /\ said' \in Seq(Utterances)
        /\ out' \in Seq(Images)
        /\ Len(said') = Len(out')
    <3>1. 0 \in Nat
      OBVIOUS
    <3> QED
      BY <2>1, <2>2, <3>1, <1>0, Sending
  <2> QED
    BY <2>3, <1>6, <1>0 DEF StartPairing, Types
<1>7. CASE ReadFails
  <2>1. \E why \in {"io", "closed"} : rx' = Down(why)
    BY <1>7 DEF ReadFails
  <2>2. {"io", "closed"} \subseteq Whys
    BY DEF Whys
  <2>3. rx' \in Readers
    BY <2>1, <2>2, <1>0, DownIsReader
  <2> QED
    BY <2>3, <1>7 DEF ReadFails, Types
<1>8. CASE TvSend
  <2>1. PICK talk \in Talks : /\ Len(sent) < Len(talk)
                              /\ sent' = Append(sent, talk[Len(sent) + 1])
                              /\ net' = net \o Raw(talk[Len(sent) + 1])
    BY <1>8 DEF TvSend
  <2> DEFINE f == talk[Len(sent) + 1]
  <2>2. f \in DOMAIN Frames
    <3>1. talk \in Seq(DOMAIN Frames)
      BY TalkAssumption
    <3>2. Len(sent) + 1 \in 1 .. Len(talk)
      BY <2>1, <1>0, <3>1, LenProperties
    <3> QED
      BY <3>1, <3>2, ElementOfSeq
  <2> HIDE DEF f
  <2>3. Raw(f) \in Seq(Byte)
    BY <2>2, FrameFacts
  <2>4. net \o Raw(f) \in Seq(Byte)
    BY <2>3, <1>0, ConcatProperties
  <2>5. Append(sent, f) \in Seq(DOMAIN Frames)
    BY <2>2, <1>0, AppendProperties
  <2>6. sent' \in Seq(DOMAIN Frames) /\ net' \in Seq(Byte)
    BY <2>1, <2>4, <2>5 DEF f
  <2> QED
    BY <2>6, <1>8 DEF TvSend, Types
<1>9. CASE TvClose
  BY <1>9 DEF TvClose, Types
<1>10. CASE UNCHANGED vars
  BY <1>10 DEF vars, Types
<1> QED
  BY <1>1, <1>2, <1>3, <1>4, <1>5, <1>6, <1>7, <1>8, <1>9, <1>10 DEF Next, Device

-------------------------------------------------------------------------------
(* Where the reader is.                                                      *)

Pending == [i \in 1 .. Len(sent) - Len(seen) |-> Raw(sent[Len(seen) + i])]

AtPoll == session = "RemoteMessage" /\ rx.first = << >> /\ rx.prefix = << >> /\ rx.body = << >>

AtPrefix == /\ rx.body = << >> /\ Len(rx.first) <= 1
            /\ rx.first = << >> \/ rx.prefix = << >>
            /\ Len(rx.prefix) <= 4 /\ \A i \in 1 .. Len(rx.prefix) : rx.prefix[i] >= 128

AtBody == /\ rx.first = << >>
          /\ Whole(rx.prefix) /\ Len(rx.prefix) <= 5
          /\ FrameLength(rx.prefix) <= FRAME_MAX_MSG
          /\ Len(rx.body) <= FrameLength(rx.prefix)

(* What the reader holds in each of its places, and that with what is still  *)
(* to come it makes up the frames not handed up yet.                         *)
Place ==
  /\ Len(seen) <= Len(sent)
  /\ Len(rx.first) <= 1 /\ Len(rx.prefix) <= 5 /\ Len(rx.body) <= FRAME_MAX_MSG
  /\ rx.at # "down" => /\ rx.why = ""
                       /\ Taken \o net = FlattenSeq(Pending)
  /\ rx.at = "poll" => AtPoll
  /\ rx.at = "prefix" => AtPrefix
  /\ rx.at = "body" => AtBody

LEMMA PendingFacts ==
  ASSUME Types, Len(seen) <= Len(sent)
  PROVE  /\ Pending \in Seq(Seq(Byte)) /\ Len(Pending) = Len(sent) - Len(seen)
         /\ Len(seen) \in Nat /\ Len(sent) \in Nat
         /\ \A i \in 1 .. Len(sent) - Len(seen) : Pending[i] = Raw(sent[Len(seen) + i])
<1>0. seen \in Seq(Messages) /\ sent \in Seq(DOMAIN Frames)
  BY DEF Types
<1>1. Len(seen) \in Nat /\ Len(sent) \in Nat
  BY <1>0, LenProperties
<1> DEFINE n == Len(sent) - Len(seen)
           e(i) == Raw(sent[Len(seen) + i])
<1>2. n \in Nat
  BY <1>1
<1>3. \A i \in 1 .. n : e(i) \in Seq(Byte)
  <2> TAKE i \in 1 .. n
  <2>1. Len(seen) + i \in 1 .. Len(sent)
    BY <1>1
  <2>2. sent[Len(seen) + i] \in DOMAIN Frames
    BY <2>1, <1>0, ElementOfSeq
  <2> QED
    BY <2>2, FrameFacts
<1>4. Pending = [i \in 1 .. n |-> e(i)]
  BY DEF Pending
<1> HIDE DEF n, e
<1>5. [i \in 1 .. n |-> e(i)] \in Seq(Seq(Byte)) /\ Len([i \in 1 .. n |-> e(i)]) = n
      /\ \A i \in 1 .. n : [j \in 1 .. n |-> e(j)][i] = e(i)
  BY <1>2, <1>3
<1> QED
  BY <1>1, <1>4, <1>5 DEF n, e

(* The frame the reader is in.                                               *)
LEMMA InFrame ==
  ASSUME Types, Len(seen) <= Len(sent), NEW t \in Seq(Byte), t # << >>, t = FlattenSeq(Pending)
  PROVE  LET f    == sent[Len(seen) + 1]
             rest == FlattenSeq(Tail(Pending))
         IN /\ Len(seen) < Len(sent) /\ f \in DOMAIN Frames
            /\ rest \in Seq(Byte) /\ Tail(Pending) \in Seq(Seq(Byte))
            /\ t = Frames[f].prefix \o (Frames[f].payload \o rest)
<1> DEFINE f    == sent[Len(seen) + 1]
           rest == FlattenSeq(Tail(Pending))
<1>0. /\ Pending \in Seq(Seq(Byte)) /\ Len(Pending) = Len(sent) - Len(seen)
      /\ Len(seen) \in Nat /\ Len(sent) \in Nat
      /\ \A i \in 1 .. Len(sent) - Len(seen) : Pending[i] = Raw(sent[Len(seen) + i])
  BY PendingFacts
<1>1. Pending # << >>
  <2>1. Pending = << >> => FlattenSeq(Pending) = << >>
    BY DEF FlattenSeq
  <2> QED
    BY <2>1
<1>2. Len(Pending) > 0 /\ Len(seen) < Len(sent)
  BY <1>0, <1>1, EmptySeq
<1>3. Pending[1] = Raw(f)
  BY <1>0, <1>2
<1>4. f \in DOMAIN Frames
  <2>1. sent \in Seq(DOMAIN Frames) /\ Len(seen) + 1 \in 1 .. Len(sent)
    BY <1>0, <1>2 DEF Types
  <2> QED
    BY <2>1, ElementOfSeq
<1>5. Tail(Pending) \in Seq(Seq(Byte))
  BY <1>0, <1>1, HeadTailProperties
<1>6. rest \in Seq(Byte)
  BY <1>5, FlattenInSeq
<1>7. t = Raw(f) \o rest
  BY <1>0, <1>1, <1>3, FlattenFirst
<1> HIDE DEF f, rest
<1>8. Frames[f].prefix \in Seq(Byte) /\ Frames[f].payload \in Seq(Byte)
  BY <1>4, FrameFacts, WholeFacts
<1>9. t = Frames[f].prefix \o (Frames[f].payload \o rest)
  <2> DEFINE a == Frames[f].prefix
             b == Frames[f].payload
  <2>1. t = (a \o b) \o rest
    BY <1>7 DEF Raw
  <2>2. a \in Seq(Byte) /\ b \in Seq(Byte)
    BY <1>8
  <2> HIDE DEF a, b
  <2>3. (a \o b) \o rest = a \o (b \o rest)
    <3>1. Glue(a, Glue(b, rest)) = Glue(Glue(a, b), rest)
      BY <2>2, <1>6, Regrouped
    <3> QED
      BY <3>1 DEF Glue
  <2> QED
    BY <2>1, <2>3 DEF a, b
<1> QED
  BY <1>2, <1>4, <1>5, <1>6, <1>9 DEF f, rest

(* In the body, the prefix is that of the frame.                             *)
LEMMA InBody ==
  ASSUME Types, Place, rx.at = "body"
  PROVE  LET f    == sent[Len(seen) + 1]
             rest == FlattenSeq(Tail(Pending))
         IN /\ Len(seen) < Len(sent) /\ f \in DOMAIN Frames /\ rest \in Seq(Byte)
            /\ rx.prefix = Frames[f].prefix
            /\ FrameLength(rx.prefix) = Len(Frames[f].payload)
            /\ rx.body \o net = Frames[f].payload \o rest
            /\ Missing \in Nat
            /\ Missing = 0 => rx.body = Frames[f].payload /\ net = rest
<1> DEFINE f    == sent[Len(seen) + 1]
           rest == FlattenSeq(Tail(Pending))
           t    == rx.prefix \o (rx.body \o net)
<1>0. /\ rx.first = << >> /\ Whole(rx.prefix) /\ Len(rx.prefix) <= 5
      /\ Len(rx.body) <= FrameLength(rx.prefix) /\ Taken \o net = FlattenSeq(Pending)
      /\ Len(seen) <= Len(sent)
      /\ rx.prefix \in Seq(Byte) /\ rx.body \in Seq(Byte) /\ net \in Seq(Byte)
  BY DEF Place, AtBody, Types, Readers
<1>1. t = Taken \o net /\ t \in Seq(Byte) /\ t # << >>
  <2> DEFINE a == rx.prefix
             b == rx.body
  <2>1. Taken = (<< >> \o a) \o b
    BY <1>0 DEF Taken
  <2>2. a \in Seq(Byte) /\ b \in Seq(Byte) /\ net \in Seq(Byte) /\ Len(a) >= 1 /\ Len(a) \in Nat
    BY <1>0, WholeFacts
  <2> HIDE DEF a, b
  <2>3. << >> \o a = a
    BY <2>2, ConcatEmptySeq
  <2>4. (a \o b) \o net = a \o (b \o net)
    <3>1. Glue(a, Glue(b, net)) = Glue(Glue(a, b), net)
      BY <2>2, Regrouped
    <3> QED
      BY <3>1 DEF Glue
  <2>5. a \o (b \o net) \in Seq(Byte) /\ Len(a \o (b \o net)) >= 1
    BY <2>2
  <2>6. a \o (b \o net) # << >>
    BY <2>5, EmptySeq
  <2> QED
    BY <2>1, <2>3, <2>4, <2>5, <2>6 DEF a, b
<1> HIDE DEF t
<1>2. /\ Len(seen) < Len(sent) /\ f \in DOMAIN Frames /\ rest \in Seq(Byte)
      /\ t = Frames[f].prefix \o (Frames[f].payload \o rest)
  BY <1>0, <1>1, InFrame
<1> HIDE DEF f, rest
<1>3. Whole(Frames[f].prefix) /\ Frames[f].payload \in Seq(Byte)
  BY <1>2, FrameFacts
<1>4. rx.prefix = Frames[f].prefix /\ rx.body \o net = Frames[f].payload \o rest
  <2>1. rx.body \o net \in Seq(Byte) /\ Frames[f].payload \o rest \in Seq(Byte)
    BY <1>0, <1>2, <1>3, ConcatProperties
  <2> DEFINE a == rx.prefix
             b == rx.body \o net
             c == Frames[f].prefix
             d == Frames[f].payload \o rest
  <2>2. a \o b = c \o d
    BY <1>2 DEF t
  <2>3. Whole(a) /\ Whole(c) /\ b \in Seq(Byte) /\ d \in Seq(Byte)
    BY <2>1, <1>0, <1>3
  <2> HIDE DEF a, b, c, d
  <2>4. a = c /\ b = d
    BY ONLY <2>2, <2>3, OnePrefix
  <2> QED
    BY <2>4 DEF a, b, c, d
<1>5. FrameLength(rx.prefix) = Len(Frames[f].payload)
  BY <1>0, <1>2, <1>4, FrameFacts
<1>6. Len(rx.body) \in Nat /\ Len(Frames[f].payload) \in Nat
  BY <1>0, <1>3, LenProperties
<1>7. Missing \in Nat
  BY <1>0, <1>5, <1>6 DEF Missing
<1>8. ASSUME Missing = 0
      PROVE  rx.body = Frames[f].payload /\ net = rest
  <2>1. Len(rx.body) = Len(Frames[f].payload)
    BY <1>5, <1>6, <1>8 DEF Missing
  <2> QED
    BY <2>1, <1>0, <1>2, <1>3, <1>4, SameCut
<1> QED
  BY <1>2, <1>4, <1>5, <1>7, <1>8 DEF f, rest

(* How the frames to come change.                                            *)
LEMMA OneFewer ==
  ASSUME Types, Len(seen) < Len(sent), sent' = sent, Len(seen') = Len(seen) + 1
  PROVE  Pending' = Tail(Pending)
<1>0. /\ Pending \in Seq(Seq(Byte)) /\ Len(Pending) = Len(sent) - Len(seen)
      /\ Len(seen) \in Nat /\ Len(sent) \in Nat
      /\ \A i \in 1 .. Len(sent) - Len(seen) : Pending[i] = Raw(sent[Len(seen) + i])
  <2>1. Len(seen) <= Len(sent)
    <3>1. seen \in Seq(Messages) /\ sent \in Seq(DOMAIN Frames)
      BY DEF Types
    <3> QED
      BY <3>1, LenProperties
  <2> QED
    BY <2>1, PendingFacts
<1>1. Pending # << >>
  BY <1>0, EmptySeq
<1>2. /\ Tail(Pending) \in Seq(Seq(Byte)) /\ Len(Tail(Pending)) = Len(Pending) - 1
      /\ \A i \in 1 .. Len(Tail(Pending)) : Tail(Pending)[i] = Pending[i + 1]
  BY <1>0, <1>1, HeadTailProperties
<1> DEFINE n == Len(sent) - Len(seen) - 1
           e(i) == Raw(sent[Len(seen) + 1 + i])
<1>3. Pending' = [i \in 1 .. Len(sent') - Len(seen') |-> Raw(sent'[Len(seen') + i])]
  BY DEF Pending
<1>4. Len(sent') - Len(seen') = n /\ n \in Nat
  BY <1>0
<1>5. Pending' = [i \in 1 .. n |-> e(i)]
  BY <1>3, <1>4
<1>6. ASSUME NEW i \in 1 .. n
      PROVE  Tail(Pending)[i] = e(i)
  <2>1. i \in 1 .. Len(Tail(Pending)) /\ i + 1 \in 1 .. Len(sent) - Len(seen)
    BY <1>0, <1>2
  <2>2. Tail(Pending)[i] = Raw(sent[Len(seen) + (i + 1)])
    BY <2>1, <1>0, <1>2
  <2>3. Len(seen) + (i + 1) = Len(seen) + 1 + i
    BY <1>0
  <2> QED
    BY <2>2, <2>3
<1>7. Len(Tail(Pending)) = n
  BY <1>0, <1>2
<1>8. Tail(Pending) = [i \in 1 .. Len(Tail(Pending)) |-> Tail(Pending)[i]]
  BY <1>2, LenProperties
<1> HIDE DEF n, e
<1>9. [i \in 1 .. n |-> Tail(Pending)[i]] = [i \in 1 .. n |-> e(i)]
  BY <1>6
<1> QED
  BY <1>5, <1>7, <1>8, <1>9

LEMMA OneMore ==
  ASSUME Types, Len(seen) <= Len(sent), NEW f \in DOMAIN Frames, sent' = Append(sent, f), seen' = seen
  PROVE  Pending' = Append(Pending, Raw(f))
<1>0. /\ Pending \in Seq(Seq(Byte)) /\ Len(Pending) = Len(sent) - Len(seen)
      /\ Len(seen) \in Nat /\ Len(sent) \in Nat
      /\ \A i \in 1 .. Len(sent) - Len(seen) : Pending[i] = Raw(sent[Len(seen) + i])
  BY PendingFacts
<1>1. Raw(f) \in Seq(Byte)
  BY FrameFacts
<1> DEFINE p == Append(Pending, Raw(f))
<1>2. /\ p \in Seq(Seq(Byte)) /\ Len(p) = Len(Pending) + 1
      /\ \A i \in 1 .. Len(Pending) : p[i] = Pending[i]
      /\ p[Len(Pending) + 1] = Raw(f)
  BY <1>0, <1>1, AppendProperties
<1>3. sent \in Seq(DOMAIN Frames)
  BY DEF Types
<1>4. /\ Len(sent') = Len(sent) + 1 /\ sent'[Len(sent) + 1] = f
      /\ \A i \in 1 .. Len(sent) : sent'[i] = sent[i]
  BY <1>3, AppendProperties
<1> HIDE DEF p
<1> DEFINE n == Len(sent) - Len(seen) + 1
           e(i) == Raw(sent'[Len(seen) + i])
<1>5. Pending' = [i \in 1 .. Len(sent') - Len(seen') |-> Raw(sent'[Len(seen') + i])]
  BY DEF Pending
<1>6. Len(sent') - Len(seen') = n /\ n \in Nat /\ Len(p) = n
  BY <1>0, <1>2, <1>4
<1>7. Pending' = [i \in 1 .. n |-> e(i)]
  BY <1>5, <1>6
<1>8. ASSUME NEW i \in 1 .. n
      PROVE  p[i] = e(i)
  <2>1. CASE i = n
    <3>1. p[i] = Raw(f) /\ Len(seen) + i = Len(sent) + 1
      BY <2>1, <1>0, <1>2
    <3> QED
      BY <3>1, <1>4
  <2>2. CASE i # n
    <3>1. i \in 1 .. Len(Pending) /\ Len(seen) + i \in 1 .. Len(sent)
          /\ i \in 1 .. Len(sent) - Len(seen)
      BY <2>2, <1>0
    <3>2. p[i] = Raw(sent[Len(seen) + i])
      BY <3>1, <1>0, <1>2
    <3> QED
      BY <3>1, <3>2, <1>4
  <2> QED
    BY <2>1, <2>2
<1>9. p = [i \in 1 .. Len(p) |-> p[i]]
  BY <1>2, LenProperties
<1> HIDE DEF n, e
<1>10. [i \in 1 .. n |-> p[i]] = [i \in 1 .. n |-> e(i)]
  BY <1>8
<1> QED
  BY <1>6, <1>7, <1>9, <1>10 DEF p

LEMMA DownKeepsPlace ==
  ASSUME Types, Place, NEW why \in Whys, rx' = Down(why), Len(seen') <= Len(sent')
  PROVE  Place'
<1>1. rx \in Readers
  BY DEF Types
<1>2. /\ rx'.at = "down" /\ rx'.first = rx.first /\ rx'.prefix = rx.prefix /\ rx'.body = rx.body
  BY <1>1, DownIsReader
<1> QED
  BY <1>2 DEF Place

LEMMA SameKeepsPlace ==
  ASSUME Place, UNCHANGED << session, sent, net, rx, seen >>
  PROVE  Place'
BY DEF Place, Taken, Pending, AtPoll, AtPrefix, AtBody, Missing

LEMMA InitPlace == Init => Place
<1> SUFFICES ASSUME Init
             PROVE  Place
  OBVIOUS
<1>1. rx = Idle /\ sent = << >> /\ seen = << >> /\ net = << >> /\ session \in Sessions
  BY DEF Init
<1>2. /\ rx.why = "" /\ rx.at = (IF session = "RemoteMessage" THEN "poll" ELSE "prefix")
      /\ rx.first = << >> /\ rx.prefix = << >> /\ rx.body = << >>
  BY <1>1, IdleIsReader
<1>3. Len(<< >>) = 0
  BY EmptySeq
<1>4. Taken \o net = << >>
  <2>1. << >> \o << >> = << >>
    BY ConcatEmptySeq
  <2> QED
    BY <1>1, <1>2, <2>1 DEF Taken
<1>5. FlattenSeq(Pending) = << >>
  <2>1. Pending = << >>
    BY <1>1, <1>3 DEF Pending
  <2> QED
    BY <2>1 DEF FlattenSeq
<1>a. Len(rx.first) = 0 /\ Len(rx.prefix) = 0 /\ Len(rx.body) = 0
  BY <1>2, <1>3
<1>6. AtPrefix
  <2>1. Len(rx.first) <= 1 /\ Len(rx.prefix) <= 4
    BY <1>a
  <2>2. \A i \in 1 .. Len(rx.prefix) : rx.prefix[i] >= 128
    BY <1>a
  <2>3. rx.body = << >> /\ rx.first = << >>
    BY <1>2
  <2> QED
    BY <2>1, <2>2, <2>3 DEF AtPrefix
<1>7. rx.at = "poll" => AtPoll
  BY <1>2 DEF AtPoll
<1>8. rx.at \in {"poll", "prefix"}
  BY <1>2
<1> QED
  <2>1. Len(rx.first) <= 1 /\ Len(rx.prefix) <= 5 /\ Len(rx.body) <= FRAME_MAX_MSG
    BY <1>a DEF FRAME_MAX_MSG
  <2>2. Len(seen) <= Len(sent)
    BY <1>1, <1>3
  <2>3. rx.why = "" /\ Taken \o net = FlattenSeq(Pending)
    BY <1>2, <1>4, <1>5
  <2> QED
    BY <2>1, <2>2, <2>3, <1>6, <1>7, <1>8 DEF Place

LEMMA OneElement ==
  ASSUME NEW q \in Seq(Byte), q # << >>, Len(q) <= 1
  PROVE  q = << q[1] >>
<1>1. Len(q) \in Nat /\ Len(q) # 0
  BY EmptySeq
<1>2. Len(q) = 1
  BY <1>1
<1> QED
  BY <1>2

LEMMA TakenIs ==
  ASSUME Types
  PROVE  /\ Taken \in Seq(Byte)
         /\ rx.first = << >> /\ rx.body = << >> => Taken = rx.prefix
         /\ rx.prefix = << >> /\ rx.body = << >> => Taken = rx.first
         /\ rx.first = << >> => Taken = rx.prefix \o rx.body
<1> DEFINE a == rx.first
           b == rx.prefix
           c == rx.body
<1>1. a \in Seq(Byte) /\ b \in Seq(Byte) /\ c \in Seq(Byte)
  BY DEF Types, Readers
<1>2. Taken = (a \o b) \o c
  BY DEF Taken
<1> HIDE DEF a, b, c
<1>3. (a \o b) \o c \in Seq(Byte)
  BY <1>1, ConcatProperties
<1>4. << >> \o b = b /\ a \o << >> = a /\ b \o << >> = b
  BY <1>1, ConcatEmptySeq
<1>5. a = << >> /\ c = << >> => (a \o b) \o c = b
  BY <1>4
<1>6. b = << >> /\ c = << >> => (a \o b) \o c = a
  BY <1>4
<1>7. a = << >> => (a \o b) \o c = b \o c
  BY <1>4
<1> QED
  BY <1>2, <1>3, <1>5, <1>6, <1>7 DEF a, b, c

LEMMA PollKeepsPlace ==
  ASSUME Types, Types', Place, PollFirst
  PROVE  Place'
<1>0. /\ rx.at = "poll" /\ net # << >> /\ net' = Tail(net)
      /\ rx' = [rx EXCEPT !.at = "prefix", !.first = << Head(net) >>]
      /\ UNCHANGED << session, sent, seen >>
  BY DEF PollFirst
<1>1. AtPoll /\ rx.why = "" /\ Taken \o net = FlattenSeq(Pending) /\ Len(seen) <= Len(sent)
  BY <1>0 DEF Place
<1>2. rx \in Readers /\ net \in Seq(Byte)
  BY DEF Types
<1>3. /\ rx'.at = "prefix" /\ rx'.first = << Head(net) >> /\ rx'.why = ""
      /\ rx'.prefix = << >> /\ rx'.body = << >>
  BY <1>0, <1>1, <1>2 DEF Readers, AtPoll
<1>4. Taken = << >>
  BY <1>1, TakenIs DEF AtPoll
<1>5. Taken' = << Head(net) >>
  <2>1. Taken' = (rx'.first \o rx'.prefix) \o rx'.body
    BY DEF Taken
  <2>2. << Head(net) >> \in Seq({Head(net)})
    OBVIOUS
  <2>3. << Head(net) >> \o << >> = << Head(net) >>
    BY <2>2, ConcatEmptySeq
  <2> QED
    BY <2>1, <2>3, <1>3
<1>6. << Head(net) >> \o Tail(net) = << >> \o net
  BY <1>0, <1>2
<1>7. Pending' = Pending
  BY <1>0 DEF Pending
<1>8. Taken' \o net' = FlattenSeq(Pending')
  BY <1>0, <1>1, <1>4, <1>5, <1>6, <1>7
<1>9. Len(rx'.first) = 1 /\ Len(rx'.prefix) = 0 /\ Len(rx'.body) = 0
  BY <1>3
<1>10. AtPrefix'
  <2>1. Len(rx'.first) <= 1 /\ Len(rx'.prefix) <= 4
    BY <1>9
  <2>2. \A i \in 1 .. Len(rx'.prefix) : rx'.prefix[i] >= 128
    BY <1>9
  <2> QED
    BY <2>1, <2>2, <1>3 DEF AtPrefix
<1>11. Len(rx'.first) <= 1 /\ Len(rx'.prefix) <= 5 /\ Len(rx'.body) <= FRAME_MAX_MSG
  BY <1>9 DEF FRAME_MAX_MSG
<1> QED
  BY <1>0, <1>1, <1>3, <1>8, <1>10, <1>11 DEF Place

(* One byte of the prefix: what the prefix is then, and that nothing is lost. *)
LEMMA TakesPrefix ==
  ASSUME Types, Place, ReadPrefix
  PROVE  \E b \in Byte : \E p \in Seq(Byte) :
         /\ \/ /\ b >= 128 /\ Len(p) = 5
               /\ rx' = [rx EXCEPT !.first = << >>, !.prefix = p, !.at = "down", !.why = "varint"]
            \/ /\ b >= 128 /\ Len(p) # 5
               /\ rx' = [rx EXCEPT !.first = << >>, !.prefix = p]
            \/ /\ b < 128 /\ FrameLength(p) > FRAME_MAX_MSG
               /\ rx' = [rx EXCEPT !.first = << >>, !.prefix = p, !.at = "down", !.why = "toobig"]
            \/ /\ b < 128 /\ FrameLength(p) <= FRAME_MAX_MSG
               /\ rx' = [rx EXCEPT !.first = << >>, !.prefix = p, !.at = "body"]
         /\ Len(p) = Len(rx.prefix) + 1 /\ Len(rx.prefix) \in Nat /\ p[Len(p)] = b /\ p # << >>
         /\ \A i \in 1 .. Len(rx.prefix) : p[i] = rx.prefix[i] /\ p[i] >= 128
         /\ Len(p) \in Nat /\ Len(p) <= 5 /\ (Len(p) # 5 => Len(p) <= 4)
         /\ net' \in Seq(Byte) /\ p \o net' = FlattenSeq(Pending)
<1>p. PICK b, p : b = NextByte /\ p = Append(rx.prefix, b)
  OBVIOUS
<1>0. rx.at = "prefix" /\ UNCHANGED << session, sent, seen >>
  BY DEF ReadPrefix
<1>1. AtPrefix /\ rx.why = "" /\ Taken \o net = FlattenSeq(Pending) /\ Len(seen) <= Len(sent)
  BY <1>0 DEF Place
<1>2. rx \in Readers /\ net \in Seq(Byte) /\ rx.prefix \in Seq(Byte) /\ rx.first \in Seq(Byte)
  BY DEF Types, Readers
<1>3. /\ b \in Byte /\ p \in Seq(Byte) /\ net' \in Seq(Byte)
      /\ rx.first # << >> => net' = net
      /\ rx.first = << >> => net # << >> /\ net' = Tail(net) /\ b = Head(net)
  BY <1>p, PrefixByte
<1>4. rx.first # << >> => b = rx.first[1]
  BY <1>p DEF NextByte
<1>5. \/ /\ b >= 128 /\ Len(p) = 5
         /\ rx' = [rx EXCEPT !.first = << >>, !.prefix = p, !.at = "down", !.why = "varint"]
      \/ /\ b >= 128 /\ Len(p) # 5
         /\ rx' = [rx EXCEPT !.first = << >>, !.prefix = p]
      \/ /\ b < 128 /\ FrameLength(p) > FRAME_MAX_MSG
         /\ rx' = [rx EXCEPT !.first = << >>, !.prefix = p, !.at = "down", !.why = "toobig"]
      \/ /\ b < 128 /\ FrameLength(p) <= FRAME_MAX_MSG
         /\ rx' = [rx EXCEPT !.first = << >>, !.prefix = p, !.at = "body"]
  BY <1>p DEF ReadPrefix
<1>6. /\ Len(p) = Len(rx.prefix) + 1 /\ Len(rx.prefix) \in Nat /\ p[Len(p)] = b /\ p # << >>
      /\ \A i \in 1 .. Len(rx.prefix) : p[i] = rx.prefix[i]
  BY <1>p, <1>2, <1>3, AppendProperties, LenProperties
<1>7. FrameLength(p) \in Nat
  BY <1>3, FrameLengthIsNat
<1>a. Len(p) \in Nat /\ Len(p) <= 5 /\ (Len(p) # 5 => Len(p) <= 4)
  <2> DEFINE n == Len(rx.prefix)
             l == Len(p)
  <2>1. n \in Nat /\ n <= 4 /\ l = n + 1
    BY <1>1, <1>6 DEF AtPrefix
  <2> HIDE DEF n, l
  <2>2. l \in Nat /\ l <= 5 /\ (l # 5 => l <= 4)
    BY <2>1
  <2> QED
    BY <2>2 DEF l
<1>8. p \o net' = Taken \o net
  <2>1. CASE rx.first = << >>
    <3>1. Taken = rx.prefix
      BY <2>1, <1>1, TakenIs DEF AtPrefix
    <3>2. p \o Tail(net) = rx.prefix \o net
      <4> DEFINE q == rx.prefix
      <4>1. q \in Seq(Byte) /\ net \in Seq(Byte) /\ net # << >> /\ p = Append(q, Head(net))
        BY <1>p, <1>2, <1>3, <2>1
      <4> HIDE DEF q
      <4>2. Append(q, Head(net)) \o Tail(net) = q \o net
        BY ONLY <4>1
      <4> QED
        BY <4>1, <4>2 DEF q
    <3> QED
      BY <3>1, <3>2, <1>3, <2>1
  <2>2. CASE rx.first # << >>
    <3>1. rx.prefix = << >> /\ Len(rx.first) <= 1 /\ Taken = rx.first
      BY <2>2, <1>1, TakenIs DEF AtPrefix
    <3>2. p = << rx.first[1] >>
      BY <3>1, <1>p, <1>4, <2>2
    <3>3. rx.first = << rx.first[1] >>
      BY <3>1, <1>2, <2>2, OneElement
    <3> QED
      BY <3>1, <3>2, <3>3, <1>3, <2>2
  <2> QED
    BY <2>1, <2>2
<1>9. \A i \in 1 .. Len(rx.prefix) : rx.prefix[i] >= 128
  BY <1>1 DEF AtPrefix
<1>10. b \in Byte /\ p \in Seq(Byte)
  BY <1>3
<1> QED
  BY <1>1, <1>3, <1>5, <1>6, <1>8, <1>9, <1>10, <1>a

LEMMA PrefixKeepsPlace ==
  ASSUME Types, Types', Place, ReadPrefix
  PROVE  Place'
<1>0. rx.at = "prefix" /\ UNCHANGED << session, sent, seen >>
  BY DEF ReadPrefix
<1>1. AtPrefix /\ rx.why = "" /\ Len(seen) <= Len(sent)
  BY <1>0 DEF Place
<1>2. rx \in Readers
  BY DEF Types
<1>p. PICK b \in Byte, p \in Seq(Byte) :
      /\ \/ /\ b >= 128 /\ Len(p) = 5
            /\ rx' = [rx EXCEPT !.first = << >>, !.prefix = p, !.at = "down", !.why = "varint"]
         \/ /\ b >= 128 /\ Len(p) # 5
            /\ rx' = [rx EXCEPT !.first = << >>, !.prefix = p]
         \/ /\ b < 128 /\ FrameLength(p) > FRAME_MAX_MSG
            /\ rx' = [rx EXCEPT !.first = << >>, !.prefix = p, !.at = "down", !.why = "toobig"]
         \/ /\ b < 128 /\ FrameLength(p) <= FRAME_MAX_MSG
            /\ rx' = [rx EXCEPT !.first = << >>, !.prefix = p, !.at = "body"]
      /\ Len(p) = Len(rx.prefix) + 1 /\ Len(rx.prefix) \in Nat /\ p[Len(p)] = b /\ p # << >>
      /\ \A i \in 1 .. Len(rx.prefix) : p[i] = rx.prefix[i] /\ p[i] >= 128
      /\ Len(p) \in Nat /\ Len(p) <= 5 /\ (Len(p) # 5 => Len(p) <= 4)
      /\ p \o net' = FlattenSeq(Pending)
  BY TakesPrefix
<1>3. b \in Byte /\ p \in Seq(Byte)
  OBVIOUS
<1>5. \/ /\ b >= 128 /\ Len(p) = 5
         /\ rx' = [rx EXCEPT !.first = << >>, !.prefix = p, !.at = "down", !.why = "varint"]
      \/ /\ b >= 128 /\ Len(p) # 5
         /\ rx' = [rx EXCEPT !.first = << >>, !.prefix = p]
      \/ /\ b < 128 /\ FrameLength(p) > FRAME_MAX_MSG
         /\ rx' = [rx EXCEPT !.first = << >>, !.prefix = p, !.at = "down", !.why = "toobig"]
      \/ /\ b < 128 /\ FrameLength(p) <= FRAME_MAX_MSG
         /\ rx' = [rx EXCEPT !.first = << >>, !.prefix = p, !.at = "body"]
  BY <1>p
<1>6. /\ Len(p) = Len(rx.prefix) + 1 /\ Len(rx.prefix) \in Nat /\ p[Len(p)] = b /\ p # << >>
      /\ \A i \in 1 .. Len(rx.prefix) : p[i] = rx.prefix[i] /\ p[i] >= 128
  BY <1>p
<1>7. FrameLength(p) \in Nat
  BY FrameLengthIsNat
<1>a. Len(p) \in Nat /\ Len(p) <= 5 /\ (Len(p) # 5 => Len(p) <= 4)
  BY <1>p
<1>8. p \o net' = FlattenSeq(Pending)
  BY <1>p
<1>9. rx'.first = << >> /\ rx'.prefix = p /\ rx'.body = << >>
  BY <1>1, <1>2, <1>5 DEF Readers, AtPrefix
<1>10. Len(rx'.first) = 0 /\ Len(rx'.body) = 0 /\ Len(rx'.prefix) <= 5
  <2>1. Len(<< >>) = 0
    BY EmptySeq
  <2>2. Len(rx'.first) = 0 /\ Len(rx'.body) = 0
    BY <2>1, <1>9
  <2>3. Len(rx'.prefix) <= 5
    BY <1>3, <1>a, <1>9
  <2> QED
    BY <2>2, <2>3
<1>11. Taken' \o net' = FlattenSeq(Pending')
  <2>1. Taken' = (rx'.first \o rx'.prefix) \o rx'.body
    BY DEF Taken
  <2>2. (<< >> \o p) \o << >> = p
    BY <1>3, ConcatEmptySeq
  <2>3. Pending' = Pending
    BY <1>0 DEF Pending
  <2> QED
    BY <2>1, <2>2, <2>3, <1>1, <1>8, <1>9
<1>12. CASE rx' = [rx EXCEPT !.first = << >>, !.prefix = p, !.at = "down", !.why = "varint"]
  <2>1. rx'.at = "down"
    BY <1>12, <1>2 DEF Readers
  <2>2. Len(rx'.first) <= 1 /\ Len(rx'.prefix) <= 5 /\ Len(rx'.body) <= FRAME_MAX_MSG
    BY <1>10 DEF FRAME_MAX_MSG
  <2> QED
    BY <2>1, <2>2, <1>0, <1>1 DEF Place
<1>13. CASE b >= 128 /\ Len(p) # 5 /\ rx' = [rx EXCEPT !.first = << >>, !.prefix = p]
  <2>2. rx'.at = "prefix" /\ rx'.why = ""
    BY <1>13, <1>0, <1>1, <1>2 DEF Readers
  <2>3. AtPrefix'
    <3>1. Len(p) <= 4
      BY <1>13, <1>a
    <3>2. \A i \in 1 .. Len(p) : p[i] >= 128
      <4> TAKE i \in 1 .. Len(p)
      <4>1. CASE i = Len(p)
        BY <4>1, <1>6, <1>13
      <4>2. CASE i # Len(p)
        <5>1. i \in 1 .. Len(rx.prefix)
          BY <4>2, <1>6
        <5> QED
          BY <5>1, <1>1, <1>6 DEF AtPrefix
      <4> QED
        BY <4>1, <4>2
    <3>3. Len(rx'.first) <= 1
      BY <1>10
    <3> QED
      BY <3>1, <3>2, <3>3, <1>9 DEF AtPrefix
  <2>4. Len(rx'.first) <= 1 /\ Len(rx'.prefix) <= 5 /\ Len(rx'.body) <= FRAME_MAX_MSG
    BY <1>10 DEF FRAME_MAX_MSG
  <2> QED
    BY <2>2, <2>3, <2>4, <1>0, <1>1, <1>11 DEF Place
<1>14. CASE rx' = [rx EXCEPT !.first = << >>, !.prefix = p, !.at = "down", !.why = "toobig"]
  <2>2. rx'.at = "down"
    BY <1>14, <1>2 DEF Readers
  <2>3. Len(rx'.first) <= 1 /\ Len(rx'.prefix) <= 5 /\ Len(rx'.body) <= FRAME_MAX_MSG
    BY <1>10 DEF FRAME_MAX_MSG
  <2> QED
    BY <2>2, <2>3, <1>0, <1>1 DEF Place
<1>15. CASE /\ b < 128 /\ FrameLength(p) <= FRAME_MAX_MSG
            /\ rx' = [rx EXCEPT !.first = << >>, !.prefix = p, !.at = "body"]
  <2>2. rx'.at = "body" /\ rx'.why = ""
    BY <1>15, <1>1, <1>2 DEF Readers
  <2>3. Whole(p)
    <3>1. p[Len(p)] < 128
      BY <1>15, <1>3, <1>6 DEF Byte
    <3>2. \A i \in 1 .. Len(p) - 1 : p[i] >= 128
      <4> TAKE i \in 1 .. Len(p) - 1
      <4>1. i \in 1 .. Len(rx.prefix)
        BY <1>6
      <4> QED
        BY <4>1, <1>1, <1>6 DEF AtPrefix
    <3> QED
      BY <3>1, <3>2, <1>3, <1>6 DEF Whole
  <2>4. AtBody'
    <3>1. FrameLength(p) <= FRAME_MAX_MSG /\ 0 <= FrameLength(p)
      BY <1>7, <1>15 DEF FRAME_MAX_MSG
    <3> QED
      BY <3>1, <2>3, <1>9, <1>10 DEF AtBody
  <2>5. Len(rx'.first) <= 1 /\ Len(rx'.prefix) <= 5 /\ Len(rx'.body) <= FRAME_MAX_MSG
    BY <1>10 DEF FRAME_MAX_MSG
  <2> QED
    BY <2>2, <2>4, <2>5, <1>0, <1>1, <1>11 DEF Place
<1> QED
  BY <1>5, <1>12, <1>13, <1>14, <1>15

LEMMA BodyKeepsPlace ==
  ASSUME Types, Types', Place, ReadBody
  PROVE  Place'
<1>0. rx.at = "body" /\ UNCHANGED << session, sent, seen >>
  BY DEF ReadBody
<1>1. AtBody /\ rx.why = "" /\ Taken \o net = FlattenSeq(Pending) /\ Len(seen) <= Len(sent)
  BY <1>0 DEF Place
<1>2. rx \in Readers /\ rx.prefix \in Seq(Byte) /\ rx.body \in Seq(Byte) /\ net \in Seq(Byte)
  BY DEF Types, Readers
<1>3. PICK k \in 1 .. Len(net) :
        /\ k <= Missing
        /\ rx' = [rx EXCEPT !.body = rx.body \o SubSeq(net, 1, k)]
        /\ SubSeq(net, 1, k) \in Seq(Byte) /\ Len(SubSeq(net, 1, k)) = k
        /\ net' \in Seq(Byte) /\ SubSeq(net, 1, k) \o net' = net
  BY BodyBytes
<1>b. PICK s : s = SubSeq(net, 1, k)
  OBVIOUS
<1>4. /\ rx' = [rx EXCEPT !.body = rx.body \o s]
      /\ s \in Seq(Byte) /\ Len(s) = k /\ net' \in Seq(Byte) /\ s \o net' = net
  BY <1>3, <1>b
<1>5. /\ rx'.at = "body" /\ rx'.why = "" /\ rx'.first = << >> /\ rx'.prefix = rx.prefix
      /\ rx'.body = rx.body \o s
  BY <1>0, <1>1, <1>2, <1>4 DEF Readers, AtBody
<1>6. Taken' \o net' = Taken \o net
  <2>1. PICK p, q, r : p = rx.prefix /\ q = rx.body /\ r = net'
    OBVIOUS
  <2>2. p \in Seq(Byte) /\ q \in Seq(Byte) /\ s \in Seq(Byte) /\ r \in Seq(Byte)
    BY <2>1, <1>2, <1>4
  <2>3. Taken = p \o q
    BY <2>1, <1>1, TakenIs DEF AtBody
  <2>4. Taken' = (<< >> \o p) \o (q \o s)
    BY <2>1, <1>5 DEF Taken
  <2>5. << >> \o p = p
    BY <2>2, ConcatEmptySeq
  <2>6. p \o (q \o s) = (p \o q) \o s
    <3>1. Glue(p, Glue(q, s)) = Glue(Glue(p, q), s)
      BY <2>2, Regrouped
    <3> QED
      BY <3>1 DEF Glue
  <2>7. ((p \o q) \o s) \o r = (p \o q) \o (s \o r)
    <3>1. PICK pq : pq = p \o q
      OBVIOUS
    <3>2. pq \in Seq(Byte)
      BY <3>1, <2>2, ConcatProperties
    <3>3. Glue(pq, Glue(s, r)) = Glue(Glue(pq, s), r)
      BY <3>2, <2>2, Regrouped
    <3> QED
      BY <3>1, <3>3 DEF Glue
  <2> QED
    BY <2>1, <2>3, <2>4, <2>5, <2>6, <2>7, <1>4
<1>7. Pending' = Pending
  BY <1>0 DEF Pending
<1>8. Len(rx'.body) <= FrameLength(rx.prefix)
  <2>1. PICK n, l : n = Len(rx.body) /\ l = FrameLength(rx.prefix)
    OBVIOUS
  <2>2. n \in Nat /\ l \in Nat /\ k \in Int /\ k <= l - n
    BY <2>1, <1>2, <1>3, LenProperties, FrameLengthIsNat DEF Missing
  <2>3. Len(rx.body \o s) = n + k
    BY <2>1, <1>2, <1>4, ConcatProperties
  <2>4. n + k <= l
    BY <2>2
  <2> QED
    BY <2>1, <2>3, <2>4, <1>5
<1>9. AtBody'
  BY <1>1, <1>5, <1>8 DEF AtBody
<1>10. Len(rx'.first) <= 1 /\ Len(rx'.prefix) <= 5
  <2>1. Len(rx.first) <= 1 /\ rx'.first = rx.first
    BY <1>1, <1>5 DEF Place, AtBody
  <2> QED
    BY <2>1, <1>1, <1>5 DEF AtBody
<1>11. Len(rx'.body) <= FRAME_MAX_MSG
  <2>1. PICK n, l : n = Len(rx'.body) /\ l = FrameLength(rx.prefix)
    OBVIOUS
  <2>2. n \in Nat /\ l \in Nat /\ n <= l /\ l <= 512
    <3>1. rx'.body \in Seq(Byte)
      BY DEF Types, Readers
    <3> QED
      BY <2>1, <3>1, <1>1, <1>2, <1>8, LenProperties, FrameLengthIsNat DEF AtBody, FRAME_MAX_MSG
  <2>3. n <= 512
    BY <2>2
  <2> QED
    BY <2>1, <2>3 DEF FRAME_MAX_MSG
<1> QED
  BY <1>0, <1>1, <1>5, <1>6, <1>7, <1>9, <1>10, <1>11 DEF Place

(* Handing a frame up leaves exactly the frames after it.                    *)
LEMMA HandedUp ==
  ASSUME Types, Place, Handle
  PROVE  LET f == sent[Len(seen) + 1]
         IN /\ Len(seen) < Len(sent) /\ f \in DOMAIN Frames
            /\ rx.body = Frames[f].payload
            /\ net' = FlattenSeq(Pending')
<1> DEFINE f    == sent[Len(seen) + 1]
           rest == FlattenSeq(Tail(Pending))
<1>1. rx.at = "body" /\ Missing = 0
  BY DEF Handle
<1>2. /\ Len(seen) < Len(sent) /\ f \in DOMAIN Frames
      /\ rx.body = Frames[f].payload /\ net = rest
  BY <1>1, InBody
<1>3. Len(seen') = Len(seen) + 1 /\ sent' = sent /\ net' = net
  BY Handling
<1>4. Pending' = Tail(Pending)
  BY <1>2, <1>3, OneFewer
<1> QED
  BY <1>2, <1>3, <1>4

LEMMA IdleKeepsPlace ==
  ASSUME session \in Sessions, session' = session, rx' = Idle, net' = FlattenSeq(Pending'),
         net' \in Seq(Byte), Len(seen') <= Len(sent')
  PROVE  Place'
<1>1. /\ rx'.why = "" /\ rx'.at = (IF session = "RemoteMessage" THEN "poll" ELSE "prefix")
      /\ rx'.first = << >> /\ rx'.prefix = << >> /\ rx'.body = << >>
  BY IdleIsReader
<1>2. Len(rx'.first) = 0 /\ Len(rx'.prefix) = 0 /\ Len(rx'.body) = 0
  <2>1. Len(<< >>) = 0
    BY EmptySeq
  <2> QED
    BY <2>1, <1>1
<1>3. Taken' \o net' = net'
  <2>1. << >> \o << >> = << >> /\ << >> \o net' = net'
    BY ConcatEmptySeq
  <2> QED
    BY <2>1, <1>1 DEF Taken
<1>4. AtPrefix'
  <2>1. Len(rx'.first) <= 1 /\ Len(rx'.prefix) <= 4
    BY <1>2
  <2>2. \A i \in 1 .. Len(rx'.prefix) : rx'.prefix[i] >= 128
    BY <1>2
  <2> QED
    BY <2>1, <2>2, <1>1 DEF AtPrefix
<1>5. rx'.at = "poll" => AtPoll'
  BY <1>1 DEF AtPoll
<1>6. Len(rx'.first) <= 1 /\ Len(rx'.prefix) <= 5 /\ Len(rx'.body) <= FRAME_MAX_MSG
  BY <1>2 DEF FRAME_MAX_MSG
<1>7. rx'.at \in {"poll", "prefix"}
  BY <1>1
<1> QED
  BY <1>1, <1>3, <1>4, <1>5, <1>6, <1>7 DEF Place

LEMMA HandleKeepsPlace ==
  ASSUME Types, Types', Place, Handle
  PROVE  Place'
<1>1. Len(seen) < Len(sent) /\ net' = FlattenSeq(Pending')
  BY HandedUp
<1>2. /\ Len(seen') = Len(seen) + 1 /\ UNCHANGED << session, sent, net, closed >>
      /\ Len(seen) + 1 \in Nat
      /\ \/ rx' = Idle
         \/ \E why \in {"code", "paired", "status", "decode"} : rx' = Down(why)
         \/ \E x \in Said : SendMsg(x, Len(seen) + 1, Idle)
  BY Handling
<1>3. session \in Sessions /\ net' \in Seq(Byte) /\ Len(seen') <= Len(sent')
  <2>1. seen \in Seq(Messages) /\ sent \in Seq(DOMAIN Frames) /\ session \in Sessions
        /\ net' \in Seq(Byte)
    BY DEF Types
  <2>2. Len(seen) \in Nat /\ Len(sent) \in Nat
    BY <2>1, LenProperties
  <2>3. Len(seen) + 1 <= Len(sent)
    BY <2>2, <1>1
  <2> QED
    BY <2>1, <2>3, <1>2
<1>4. {"code", "paired", "status", "decode", "encode", "write"} \subseteq Whys
  BY DEF Whys
<1>5. rx' = Idle \/ \E why \in Whys : rx' = Down(why)
  <2>1. ASSUME NEW x \in Said, SendMsg(x, Len(seen) + 1, Idle)
        PROVE  rx' = Idle \/ rx' = Down("encode") \/ rx' = Down("write")
    BY <2>1, <1>2, IdleIsReader, Sending
  <2> QED
    BY <2>1, <1>2, <1>4
<1>6. CASE rx' = Idle
  BY <1>1, <1>2, <1>3, <1>6, IdleKeepsPlace
<1>7. CASE \E why \in Whys : rx' = Down(why)
  BY <1>3, <1>7, DownKeepsPlace
<1> QED
  BY <1>5, <1>6, <1>7

LEMMA TvSendKeepsPlace ==
  ASSUME Types, Types', Place, TvSend
  PROVE  Place'
<1>1. PICK talk \in Talks : /\ Len(sent) < Len(talk)
                            /\ sent' = Append(sent, talk[Len(sent) + 1])
                            /\ net' = net \o Raw(talk[Len(sent) + 1])
  BY DEF TvSend
<1>2. UNCHANGED << session, rx, seen >> /\ Len(seen) <= Len(sent)
  BY DEF TvSend, Place
<1>3. PICK f : f = talk[Len(sent) + 1]
  OBVIOUS
<1>4. /\ sent \in Seq(DOMAIN Frames) /\ net \in Seq(Byte) /\ seen \in Seq(Messages)
      /\ talk \in Seq(DOMAIN Frames)
  BY TalkAssumption DEF Types
<1>5. f \in DOMAIN Frames
  <2>1. Len(sent) + 1 \in 1 .. Len(talk)
    BY <1>1, <1>4, LenProperties
  <2> QED
    BY <2>1, <1>3, <1>4, ElementOfSeq
<1>6. Raw(f) \in Seq(Byte)
  BY <1>5, FrameFacts
<1>7. Pending' = Append(Pending, Raw(f)) /\ Pending \in Seq(Seq(Byte))
  BY <1>1, <1>2, <1>3, <1>5, OneMore, PendingFacts
<1>8. FlattenSeq(Pending') = FlattenSeq(Pending) \o Raw(f)
  BY <1>6, <1>7, FlattenAppend
<1>9. ASSUME Taken \o net = FlattenSeq(Pending)
      PROVE  Taken' \o net' = FlattenSeq(Pending')
  <2>1. PICK t, r : t = Taken /\ r = Raw(f)
    OBVIOUS
  <2>2. t \in Seq(Byte) /\ r \in Seq(Byte) /\ net \in Seq(Byte)
    BY <2>1, <1>4, <1>6, TakenIs
  <2>3. t \o (net \o r) = (t \o net) \o r
    <3>1. Glue(t, Glue(net, r)) = Glue(Glue(t, net), r)
      BY <2>2, Regrouped
    <3> QED
      BY <3>1 DEF Glue
  <2>4. Taken' = Taken /\ net' = net \o r
    BY <2>1, <1>1, <1>2, <1>3 DEF Taken
  <2> QED
    BY <2>1, <2>3, <2>4, <1>8, <1>9
<1>10. Len(seen') <= Len(sent')
  <2>1. Len(sent') = Len(sent) + 1 /\ Len(sent) \in Nat /\ Len(seen) \in Nat
    BY <1>1, <1>3, <1>4, <1>5, AppendProperties, LenProperties
  <2>2. Len(seen) <= Len(sent) + 1
    BY <2>1, <1>2
  <2> QED
    BY <2>1, <2>2, <1>2
<1> QED
  BY <1>2, <1>9, <1>10 DEF Place, AtPoll, AtPrefix, AtBody

LEMMA KeepsPlace ==
  ASSUME Types, Types', Place, [Next]_vars
  PROVE  Place'
<1>0. rx \in Readers /\ Len(seen) <= Len(sent)
  BY DEF Types, Place
<1>a. {"io", "closed", "encode", "write"} \subseteq Whys
  BY DEF Whys
<1>1. CASE PollFirst
  BY <1>1, PollKeepsPlace
<1>2. CASE ReadPrefix
  BY <1>2, PrefixKeepsPlace
<1>3. CASE ReadBody
  BY <1>3, BodyKeepsPlace
<1>4. CASE Handle
  BY <1>4, HandleKeepsPlace
<1>5. CASE SendQueued \/ StartPairing
  <2>1. PICK m \in Said : SendMsg(m, 0, rx)
    BY <1>5 DEF SendQueued, StartPairing, Said
  <2>2. UNCHANGED << session, sent, net, seen >>
    BY <1>5 DEF SendQueued, StartPairing
  <2>3. rx' = rx \/ rx' = Down("encode") \/ rx' = Down("write")
    BY <2>1, <1>0, Sending
  <2>4. CASE rx' = rx
    BY <2>2, <2>4, SameKeepsPlace
  <2>5. CASE rx' = Down("encode") \/ rx' = Down("write")
    <3>1. \E why \in Whys : rx' = Down(why)
      BY <2>5, <1>a
    <3> QED
      BY <3>1, <2>2, <1>0, DownKeepsPlace
  <2> QED
    BY <2>3, <2>4, <2>5
<1>6. CASE ReadFails
  <2>1. \E why \in Whys : rx' = Down(why)
    BY <1>6, <1>a DEF ReadFails
  <2>2. Len(seen') <= Len(sent')
    BY <1>0, <1>6 DEF ReadFails
  <2> QED
    BY <2>1, <2>2, DownKeepsPlace
<1>7. CASE TvSend
  BY <1>7, TvSendKeepsPlace
<1>8. CASE TvClose \/ UNCHANGED vars
  BY <1>8, SameKeepsPlace DEF TvClose, vars
<1> QED
  BY <1>1, <1>2, <1>3, <1>4, <1>5, <1>6, <1>7, <1>8 DEF Next, Device

-------------------------------------------------------------------------------
(* What the TV says.                                                         *)

Talking == /\ \E talk \in Talks : IsPrefix(sent, talk)
           /\ \A i \in 1 .. Len(sent) : Frames[sent[i]].session = session

LEMMA PrefixGrows ==
  ASSUME NEW S, NEW s \in Seq(S), NEW t \in Seq(S), IsPrefix(s, t), Len(s) < Len(t)
  PROVE  IsPrefix(Append(s, t[Len(s) + 1]), t)
<1>1. PICK n : n = Len(s)
  OBVIOUS
<1>2. n \in Nat /\ Len(t) \in Nat /\ n + 1 <= Len(t)
  BY <1>1, LenProperties
<1>3. PICK e : e = t[n + 1]
  OBVIOUS
<1>4. \A i \in 1 .. Len(t) : t[i] \in S
  BY ElementOfSeq
<1>5. e \in S
  BY <1>2, <1>3, <1>4
<1>6. PICK u : u = Append(s, e)
  OBVIOUS
<1>7. u \in Seq(S) /\ Len(u) = n + 1
  BY <1>1, <1>5, <1>6, AppendProperties
<1>8. SubSeq(u, 1, n + 1) = u /\ SubSeq(s, 1, n) = s
  BY <1>1, <1>7, SubSeqFull
<1>9. n + 1 \in 1 .. Len(t) /\ 1 \in 1 .. Len(t)
  BY <1>2
<1>10. SubSeq(t, 1, n + 1) = SubSeq(t, 1, n) \o << e >>
  <2>1. n + 1 \in 1 .. Len(t) /\ 1 <= n + 1
    BY <1>2
  <2>2. SubSeq(t, 1, n + 1) = SubSeq(t, 1, (n + 1) - 1) \o << t[n + 1] >>
    BY <1>9, <2>1, SubSeqRecursiveSecond
  <2>3. (n + 1) - 1 = n
    BY <1>2
  <2> QED
    BY <2>2, <2>3, <1>3
<1>11. SubSeq(t, 1, n) = s
  BY <1>1, <1>8 DEF IsPrefix
<1>12. u = s \o << e >>
  BY <1>5, <1>6, AppendIsConcat
<1> QED
  BY <1>1, <1>2, <1>3, <1>6, <1>7, <1>8, <1>10, <1>11, <1>12 DEF IsPrefix

LEMMA InitTalking == Init => Talking
<1> SUFFICES ASSUME Init
             PROVE  Talking
  OBVIOUS
<1>1. sent = << >>
  BY DEF Init
<1>2. PICK talk : talk \in Talks
  BY TalkAssumption
<1>3. talk \in Seq(DOMAIN Frames)
  BY <1>2, TalkAssumption
<1>4. Len(sent) = 0 /\ Len(talk) \in Nat
  BY <1>1, <1>3, EmptySeq, LenProperties
<1>5. IsPrefix(sent, talk)
  <2>1. SubSeq(sent, 1, 0) = << >> /\ SubSeq(talk, 1, 0) = << >>
    BY SubSeqEmpty
  <2> QED
    BY <2>1, <1>4 DEF IsPrefix
<1> QED
  BY <1>2, <1>4, <1>5 DEF Talking

LEMMA KeepsTalking ==
  ASSUME Types, Talking, [Next]_vars
  PROVE  Talking'
<1>1. session' = session
  BY DEF Next, Device, PollFirst, ReadPrefix, ReadBody, Handle, SendQueued, StartPairing,
         ReadFails, TvSend, TvClose, vars
<1>2. CASE TvSend
  <2>1. PICK talk \in Talks : /\ Frames[talk[1]].session = session
                              /\ Len(sent) < Len(talk) /\ IsPrefix(sent, talk)
                              /\ sent' = Append(sent, talk[Len(sent) + 1])
    BY <1>2 DEF TvSend
  <2>2. talk \in Seq(DOMAIN Frames) /\ sent \in Seq(DOMAIN Frames)
    BY <2>1, TalkAssumption DEF Types
  <2>3. PICK n, f : n = Len(sent) + 1 /\ f = talk[n]
    OBVIOUS
  <2>4. n \in 1 .. Len(talk) /\ Len(sent) \in Nat
    BY <2>1, <2>2, <2>3, LenProperties
  <2>5. f \in DOMAIN Frames /\ DOMAIN talk = 1 .. Len(talk)
    BY <2>2, <2>3, <2>4, ElementOfSeq, LenProperties
  <2>6. Frames[f].session = session
    BY <2>1, <2>3, <2>4, <2>5, TalkAssumption
  <2>7. IsPrefix(sent', talk)
    BY <2>1, <2>2, PrefixGrows
  <2>8. /\ Len(sent') = n /\ sent'[n] = f
        /\ \A i \in 1 .. Len(sent) : sent'[i] = sent[i]
    BY <2>1, <2>2, <2>3, <2>5, AppendProperties
  <2>9. ASSUME NEW i \in 1 .. Len(sent')
        PROVE  Frames[sent'[i]].session = session
    <3>1. i \in 1 .. Len(sent) \/ i = n
      BY <2>3, <2>4, <2>8
    <3>2. CASE i = n
      BY <3>2, <2>6, <2>8
    <3>3. CASE i \in 1 .. Len(sent)
      BY <3>3, <2>8 DEF Talking
    <3> QED
      BY <3>1, <3>2, <3>3
  <2> QED
    BY <2>1, <2>7, <2>9, <1>1 DEF Talking
<1>3. CASE sent' = sent
  BY <1>1, <1>3 DEF Talking
<1>4. TvSend \/ sent' = sent
  BY DEF Next, Device, PollFirst, ReadPrefix, ReadBody, Handle, SendQueued, StartPairing,
         ReadFails, TvClose, vars
<1> QED
  BY <1>2, <1>3, <1>4

(* What the device made of each frame is what the frame decodes to.          *)
Understood == \A i \in 1 .. Len(seen) : seen[i] = Decoded(sent[i])

LEMMA HandsUp ==
  ASSUME Types, Place, Talking, Handle
  PROVE  LET n == Len(seen) + 1
         IN /\ sent[n] \in DOMAIN Frames /\ n \in Nat /\ n <= Len(sent) /\ Len(sent) \in Nat
            /\ Frames[sent[n]].session = session
            /\ seen' = Append(seen, Decoded(sent[n])) /\ Len(seen') = n /\ sent' = sent
            /\ Decoded(sent[n]) = PbDecode(session, rx.body)
<1> DEFINE n == Len(seen) + 1
           f == sent[n]
<1>1. Len(seen) < Len(sent) /\ f \in DOMAIN Frames /\ rx.body = Frames[f].payload
  BY HandedUp
<1>2. /\ seen' = Append(seen, PbDecode(session, rx.body)) /\ Len(seen') = n /\ n \in Nat
      /\ sent' = sent
  BY Handling
<1>3. Len(seen) \in Nat /\ Len(sent) \in Nat
  BY LenProperties DEF Types
<1>4. n <= Len(sent) /\ n \in 1 .. Len(sent)
  BY <1>1, <1>3
<1>5. Frames[f].session = session
  BY <1>4 DEF Talking
<1>6. Decoded(f) = PbDecode(session, rx.body)
  BY <1>1, <1>5 DEF Decoded
<1> QED
  BY <1>1, <1>2, <1>3, <1>4, <1>5, <1>6

LEMMA KeepsUnderstood ==
  ASSUME Types, Place, Talking, Understood, [Next]_vars
  PROVE  Understood'
<1>0. /\ seen \in Seq(Messages) /\ sent \in Seq(DOMAIN Frames)
      /\ Len(seen) \in Nat /\ Len(sent) \in Nat /\ Len(seen) <= Len(sent)
  BY LenProperties DEF Types, Place
<1>1. CASE Handle
  <2> DEFINE n == Len(seen) + 1
  <2>1. /\ seen' = Append(seen, Decoded(sent[n])) /\ Len(seen') = n /\ sent' = sent /\ n \in Nat
    BY <1>1, HandsUp
  <2>2. PICK m : m = Decoded(sent[n])
    OBVIOUS
  <2>3. m \in Messages
    BY <1>1, <2>2, HandsUp, Handling
  <2>4. seen'[n] = m /\ \A i \in 1 .. Len(seen) : seen'[i] = seen[i]
    BY <1>0, <2>1, <2>2, <2>3, AppendProperties
  <2>5. ASSUME NEW i \in 1 .. Len(seen')
        PROVE  seen'[i] = Decoded(sent[i])
    <3>1. i = n \/ i \in 1 .. Len(seen)
      BY <1>0, <2>1
    <3> QED
      BY <3>1, <2>2, <2>4 DEF Understood
  <2> QED
    BY <2>1, <2>5 DEF Understood
<1>2. CASE TvSend
  <2>1. PICK f : sent' = Append(sent, f) /\ seen' = seen
    BY <1>2 DEF TvSend
  <2>2. \A i \in 1 .. Len(sent) : sent'[i] = sent[i]
    BY <1>0, <2>1, AppendKeeps
  <2> QED
    BY <1>0, <2>1, <2>2 DEF Understood
<1>3. CASE UNCHANGED << seen, sent >>
  BY <1>3 DEF Understood
<1>4. Handle \/ TvSend \/ UNCHANGED << seen, sent >>
  BY DEF Next, Device, PollFirst, ReadPrefix, ReadBody, SendQueued, StartPairing,
         ReadFails, TvClose, vars
<1> QED
  BY <1>1, <1>2, <1>3, <1>4

-------------------------------------------------------------------------------
(* The invariant every theorem rests on.                                     *)

Inv == Types /\ Place /\ Talking /\ Understood

LEMMA InitInv == Init => Inv
<1>1. ASSUME Init
      PROVE  Understood
  <2>1. Len(seen) = 0
    BY <1>1, EmptySeq DEF Init
  <2> QED
    BY <2>1 DEF Understood
<1> QED
  BY <1>1, InitTypes, InitPlace, InitTalking DEF Inv

LEMMA NextInv == Inv /\ [Next]_vars => Inv'
BY KeepsTypes, KeepsPlace, KeepsTalking, KeepsUnderstood DEF Inv

THEOREM Invariance == Spec => []Inv
BY InitInv, NextInv, PTL DEF Spec

(* Every variable holds a value of its kind; the reader is in one of its     *)
(* places and never holds more than fits (frame_recv, remote_session,        *)
(* pairing_run).                                                             *)
THEOREM TypeCorrect == Spec => []TypeOK
<1>1. Inv => TypeOK
  BY DEF Inv, Types, Readers, Place, Talking, TypeOK
<1> QED
  BY <1>1, Invariance, PTL

(* Whatever the codec does and however the bytes of the TV are cut, what the *)
(* reader holds and what is still to come are the frames not handed up yet   *)
(* (rx_read, read_full, frame_recv).                                         *)
THEOREM AlwaysInStep == Spec => []InStep
<1>1. Inv => InStep
  BY DEF Inv, Place, Pending, InStep
<1> QED
  BY <1>1, Invariance, PTL

-------------------------------------------------------------------------------
(* What the device says.                                                     *)

LEMMA SayableIsSaid ==
  ASSUME session \in Sessions
  PROVE  Sayable(session) \subseteq Said
<1>1. ASSUME NEW f \in DOMAIN Frames
      PROVE  Decoded(f) \in Messages
  BY <1>1, FrameFacts DEF Decoded, Messages
<1>2. CASE session = "RemoteMessage"
  <2> SUFFICES ASSUME NEW m \in Sayable(session)
               PROVE  m \in Said
    OBVIOUS
  <2>1. \/ m \in OwnMessages
        \/ m \in {Configured(bits) : bits \in SUBSET FEATURES_DEFAULT}
        \/ m \in {Active(bits) : bits \in SUBSET FEATURES_DEFAULT}
        \/ \E f \in DOMAIN Frames : m = Pong(Decoded(f))
    BY <1>2 DEF Sayable
  <2> QED
    BY <2>1, <1>1 DEF Said
<1>3. CASE session # "RemoteMessage"
  BY <1>3 DEF Sayable, Said
<1> QED
  BY <1>2, <1>3

(* A message the device can say goes out, unless the write fails.            *)
LEMMA Speaks ==
  ASSUME Types, CodecCarries, NEW m \in Sayable(session), NEW to \in Nat, NEW next \in Readers,
         SendMsg(m, to, next)
  PROVE  \/ rx' = Down("write") /\ UNCHANGED << said, out >>
         \/ /\ rx' = next
            /\ said' = Append(said, [msg |-> m, to |-> to])
            /\ out' = Append(out, Wired(session, m))
<1>1. session \in Sessions
  BY DEF Types
<1>2. PbEncode(session, m).ok /\ Len(PbEncode(session, m).v) <= FRAME_MAX_MSG
  BY <1>1 DEF CodecCarries
<1>3. FrameSend(m).ok
  BY <1>2 DEF FrameSend
<1>4. m \in Said
  BY <1>1, SayableIsSaid
<1> QED
  BY <1>3, <1>4, Sending

(* What the remote session makes of a frame ...                              *)
LEMMA Remote ==
  ASSUME Inv, Handle, session = "RemoteMessage"
  PROVE  LET n    == Len(seen) + 1
             m    == Decoded(sent[n])
             part == FirstPart(m, HandledParts)
         IN \/ m = Refusal /\ rx' = Idle /\ UNCHANGED << features, status, said, out >>
            \/ /\ m # Refusal /\ status' = StatusAfter(part, m)
               /\ \/ part = "remote_configure" /\ SendMsg(Configured(features'), n, Idle)
                  \/ part = "remote_set_active" /\ SendMsg(Active(features), n, Idle)
                  \/ part = "remote_ping_request" /\ SendMsg(Pong(m), n, Idle)
                  \/ /\ part \notin {"remote_configure", "remote_set_active",
                                     "remote_ping_request"}
                     /\ rx' = Idle /\ UNCHANGED << said, out >>
<1> DEFINE n    == Len(seen) + 1
           m    == Decoded(sent[n])
           part == FirstPart(m, HandledParts)
<1>1. Types /\ m = PbDecode(session, rx.body) /\ Len(seen') = n
  BY HandsUp DEF Inv
<1>2. m \in Messages
  BY <1>1, Handling
<1> HIDE DEF m, n
<1>3. HandleDecoded(m)
  BY <1>1 DEF Handle
<1>4. \A x : Reply(x) => SendMsg(x, n, Idle)
  BY <1>1 DEF Reply
<1>5. \/ m # Refusal /\ HandleRemote(m)
      \/ m = Refusal /\ rx' = Idle /\ UNCHANGED << features, status, said, out >>
  BY <1>3 DEF HandleDecoded
<1>6. CASE m # Refusal /\ HandleRemote(m)
  <2>1. /\ status' = StatusAfter(part, m)
        /\ \/ part = "remote_configure" /\ Reply(Configured(features'))
           \/ part = "remote_set_active" /\ Reply(Active(features))
           \/ part = "remote_ping_request" /\ Reply(Pong(m))
           \/ /\ part \notin {"remote_configure", "remote_set_active", "remote_ping_request"}
              /\ rx' = Idle /\ UNCHANGED << said, out >>
    BY <1>1, <1>2, <1>6, RemoteHandling
  <2> QED
    BY <2>1, <1>4, <1>6 DEF m, n
<1> QED
  BY <1>5, <1>6 DEF m, n

(* ... and what pairing makes of it.                                         *)
LEMMA Pairs ==
  ASSUME Inv, Handle, session = "OuterMessage"
  PROVE  LET n == Len(seen) + 1
             m == Decoded(sent[n])
         IN \/ /\ m = Refusal
               /\ rx' = Down("decode") /\ UNCHANGED << said, out >>
            \/ \E x \in {PairingOptions, PairingConfiguration, PairingSecret} : SendMsg(x, n, Idle)
            \/ /\ rx' = Down("code") /\ UNCHANGED << said, out >>
               /\ "configuration_ack" \in DOMAIN m
            \/ /\ rx' = Down("paired") /\ UNCHANGED << said, out >>
               /\ "secret_ack" \in DOMAIN m
            \/ /\ rx' = Down("status") /\ UNCHANGED << said, out >>
               /\ m.status # Word(200)
            \/ rx' = Idle /\ UNCHANGED << said, out >>
<1> DEFINE n == Len(seen) + 1
           m == Decoded(sent[n])
<1>1. m = PbDecode(session, rx.body) /\ Len(seen') = n
  BY HandsUp DEF Inv
<1> HIDE DEF m, n
<1>3. HandleDecoded(m)
  BY <1>1 DEF Handle
<1>4. \A x : Reply(x) => SendMsg(x, n, Idle)
  BY <1>1 DEF Reply
<1>5. \/ HandlePairing(m)
      \/ m = Refusal /\ rx' = Down("decode") /\ UNCHANGED << features, status, said, out >>
  BY <1>3 DEF HandleDecoded
<1>6. CASE HandlePairing(m)
  <2>1. \/ \E x \in {PairingOptions, PairingConfiguration, PairingSecret} : Reply(x)
        \/ /\ rx' = Down("code") /\ UNCHANGED << said, out >>
           /\ "configuration_ack" \in DOMAIN m
        \/ /\ rx' = Down("paired") /\ UNCHANGED << said, out >>
           /\ "secret_ack" \in DOMAIN m
        \/ /\ rx' = Down("status") /\ UNCHANGED << said, out >>
           /\ m.status # Word(200)
        \/ rx' = Idle /\ UNCHANGED << said, out >>
    BY <1>6, PairingHandling
  <2> QED
    BY <2>1, <1>4 DEF m, n
<1> QED
  BY <1>5, <1>6 DEF m, n

LEMMA AnsweredPartIsThere ==
  ASSUME NEW m, FirstPart(m, HandledParts) # "none"
  PROVE  FirstPart(m, HandledParts) \in DOMAIN m
BY FirstPartIsThere, HandledNames

(* Every message of the device is one it can say.                            *)
LEMMA AnswersWhatItCan ==
  ASSUME Inv, Handle
  PROVE  LET n == Len(seen) + 1
             m == Decoded(sent[n])
         IN \/ \E x \in Sayable(session) : SendMsg(x, n, Idle)
            \/ /\ UNCHANGED << said, out >>
               /\ \/ rx' = Idle
                  \/ rx' = Down("decode") /\ session = "OuterMessage" /\ m = Refusal
                  \/ rx' = Down("code") /\ "configuration_ack" \in DOMAIN m
                  \/ rx' = Down("paired") /\ "secret_ack" \in DOMAIN m
                  \/ rx' = Down("status") /\ m.status # Word(200)
<1> DEFINE n == Len(seen) + 1
           f == sent[n]
           m == Decoded(f)
<1>1. CASE session = "RemoteMessage"
  <2>0. features \subseteq FEATURES_DEFAULT /\ features' \subseteq FEATURES_DEFAULT
        /\ f \in DOMAIN Frames /\ Frames[f].session = session
    BY Handling, HandsUp DEF Inv, Types
  <2> DEFINE part == FirstPart(m, HandledParts)
  <2>1. \/ rx' = Idle /\ UNCHANGED << said, out >>
        \/ part = "remote_configure" /\ SendMsg(Configured(features'), n, Idle)
        \/ part = "remote_set_active" /\ SendMsg(Active(features), n, Idle)
        \/ part = "remote_ping_request" /\ SendMsg(Pong(m), n, Idle)
    BY <1>1, Remote
  <2>2. part = "remote_ping_request" => part \in DOMAIN m
    BY AnsweredPartIsThere
  <2> HIDE DEF n, part
  <2>3. Configured(features') \in Sayable(session) /\ Active(features) \in Sayable(session)
    BY <1>1, <2>0 DEF Sayable
  <2>4. part = "remote_ping_request" => Pong(m) \in Sayable(session)
    BY <1>1, <2>0, <2>2 DEF Sayable
  <2> HIDE DEF m
  <2> QED
    BY <2>1, <2>3, <2>4 DEF n, m
<1>2. CASE session = "OuterMessage"
  <2>1. {PairingOptions, PairingConfiguration, PairingSecret} \subseteq Sayable(session)
    BY <1>2 DEF Sayable
  <2> QED
    BY <1>2, <2>1, Pairs
<1> QED
  BY <1>1, <1>2 DEF Inv, Types, Sessions

LEMMA OpensWithWhatItCan ==
  ASSUME SendQueued \/ StartPairing
  PROVE  \E x \in Sayable(session) : SendMsg(x, 0, rx)
<1>1. CASE SendQueued
  <2>1. \E x \in OwnMessages : SendMsg(x, 0, rx)
    BY <1>1 DEF SendQueued
  <2>2. OwnMessages \subseteq Sayable(session)
    BY <1>1 DEF SendQueued, Sayable
  <2> QED
    BY <2>1, <2>2
<1>2. CASE StartPairing
  <2>1. SendMsg(PairingRequest, 0, rx)
    BY <1>2 DEF StartPairing
  <2>2. session # "RemoteMessage"
    BY <1>2 DEF StartPairing, Started
  <2>3. PairingRequest \in Sayable(session)
    BY <2>2 DEF Sayable
  <2> QED
    BY <2>1, <2>3
<1> QED
  BY <1>1, <1>2

-------------------------------------------------------------------------------
(* Why a session ends.                                                       *)

Newest == seen[Len(seen)]

Ended ==
  rx.at = "down" =>
    /\ rx.why \in Whys \ {"", "encode"}
    /\ rx.why = "toobig" => Len(seen) < Len(sent) /\ Len(Current.payload) > FRAME_MAX_MSG
    /\ rx.why = "varint" => Len(seen) < Len(sent) /\ Len(Current.prefix) > 5
    /\ rx.why \in {"decode", "status", "paired", "code"} => Len(seen) > 0
    /\ rx.why = "decode" => session = "OuterMessage" /\ Newest = Refusal
    /\ rx.why = "status" => Newest.status # Word(200)
    /\ rx.why = "paired" => "secret_ack" \in DOMAIN Newest
    /\ rx.why = "code"   => "configuration_ack" \in DOMAIN Newest
    /\ rx.why = "closed" => closed /\ net = << >>

(* A prefix that is refused is the beginning of the frame's.                 *)
LEMMA RefusesPrefix ==
  ASSUME Inv, ReadPrefix, rx'.at = "down"
  PROVE  /\ Len(seen) < Len(sent) /\ UNCHANGED << sent, seen >>
         /\ \/ rx'.why = "toobig" /\ Len(Current.payload) > FRAME_MAX_MSG
            \/ rx'.why = "varint" /\ Len(Current.prefix) > 5
<1>0. /\ rx \in Readers /\ UNCHANGED << sent, seen >> /\ Len(seen) <= Len(sent) /\ Types /\ Place
      /\ rx.at = "prefix"
  BY DEF Inv, Types, Place, ReadPrefix
<1>p. PICK b \in Byte, p \in Seq(Byte) :
      /\ \/ /\ b >= 128 /\ Len(p) = 5
            /\ rx' = [rx EXCEPT !.first = << >>, !.prefix = p, !.at = "down", !.why = "varint"]
         \/ /\ b >= 128 /\ Len(p) # 5
            /\ rx' = [rx EXCEPT !.first = << >>, !.prefix = p]
         \/ /\ b < 128 /\ FrameLength(p) > FRAME_MAX_MSG
            /\ rx' = [rx EXCEPT !.first = << >>, !.prefix = p, !.at = "down", !.why = "toobig"]
         \/ /\ b < 128 /\ FrameLength(p) <= FRAME_MAX_MSG
            /\ rx' = [rx EXCEPT !.first = << >>, !.prefix = p, !.at = "body"]
      /\ Len(p) = Len(rx.prefix) + 1 /\ Len(rx.prefix) \in Nat /\ p[Len(p)] = b /\ p # << >>
      /\ \A i \in 1 .. Len(rx.prefix) : p[i] = rx.prefix[i] /\ p[i] >= 128
      /\ Len(p) \in Nat /\ Len(p) <= 5 /\ (Len(p) # 5 => Len(p) <= 4)
      /\ net' \in Seq(Byte) /\ p \o net' = FlattenSeq(Pending)
  BY <1>0, TakesPrefix
<1>1. \/ b >= 128 /\ Len(p) = 5 /\ rx'.why = "varint"
      \/ b < 128 /\ FrameLength(p) > FRAME_MAX_MSG /\ rx'.why = "toobig"
  <2>1. [rx EXCEPT !.first = << >>, !.prefix = p].at = "prefix"
    BY <1>0 DEF Readers
  <2>2. [rx EXCEPT !.first = << >>, !.prefix = p, !.at = "body"].at = "body"
    BY <1>0 DEF Readers
  <2>3. /\ [rx EXCEPT !.first = << >>, !.prefix = p, !.at = "down", !.why = "varint"].why = "varint"
        /\ [rx EXCEPT !.first = << >>, !.prefix = p, !.at = "down", !.why = "toobig"].why = "toobig"
    BY <1>0 DEF Readers
  <2> QED
    BY <2>1, <2>2, <2>3, <1>p
<1> DEFINE t    == p \o net'
           f    == sent[Len(seen) + 1]
           rest == FlattenSeq(Tail(Pending))
<1>2. t \in Seq(Byte) /\ t # << >>
  <2>1. p \in Seq(Byte) /\ net' \in Seq(Byte) /\ Len(p) >= 1 /\ Len(p) \in Nat
    BY <1>p
  <2>2. t \in Seq(Byte) /\ Len(t) = Len(p) + Len(net') /\ Len(net') \in Nat
    BY <2>1, ConcatProperties, LenProperties
  <2>3. Len(t) >= 1
    BY <2>1, <2>2
  <2> QED
    BY <2>2, <2>3, EmptySeq
<1>3. t = FlattenSeq(Pending)
  BY <1>p
<1> HIDE DEF t
<1>4. /\ Len(seen) < Len(sent) /\ f \in DOMAIN Frames /\ rest \in Seq(Byte)
      /\ t = Frames[f].prefix \o (Frames[f].payload \o rest)
  BY <1>0, <1>2, <1>3, InFrame
<1> HIDE DEF f, rest
<1>5. PICK c, d : c = Frames[f].prefix /\ d = Frames[f].payload \o rest
  OBVIOUS
<1>6. Whole(c) /\ d \in Seq(Byte) /\ Frames[f].payload \in Seq(Byte)
  <2>1. Whole(c) /\ Frames[f].payload \in Seq(Byte)
    BY <1>4, <1>5, FrameFacts
  <2> QED
    BY <2>1, <1>4, <1>5, ConcatProperties
<1>7. p \o net' = c \o d
  BY <1>4, <1>5 DEF t
<1>8. Current = Frames[f]
  BY DEF Current, f
<1>9. CASE b >= 128 /\ Len(p) = 5 /\ rx'.why = "varint"
  <2>1. c \in Seq(Byte) /\ Len(c) \in Nat /\ Len(c) >= 1 /\ c[Len(c)] < 128
    BY <1>6, WholeFacts
  <2>2. \A i \in 1 .. Len(p) : p[i] >= 128
    BY <1>p, <1>9
  <2>3. ASSUME Len(c) <= 5
        PROVE  FALSE
    <3>1. PICK k : k = Len(c)
      OBVIOUS
    <3>a. k \in Nat /\ k >= 1 /\ k <= 5
      BY <3>1, <2>1, <2>3
    <3>b. k \in 1 .. k /\ k \in 1 .. 5
      BY <3>a
    <3>2. k \in 1 .. Len(p) /\ k \in 1 .. Len(c)
      BY <3>1, <3>b, <1>9
    <3>3. (p \o net')[k] = p[k]
      BY <3>2, <1>p, InFirst
    <3>4. (c \o d)[k] = c[k]
      BY <3>2, <2>1, <1>6, InFirst
    <3>5. p[k] = c[k] /\ p[k] >= 128 /\ c[k] < 128
      BY <3>1, <3>2, <3>3, <3>4, <2>1, <2>2, <1>7
    <3>6. c[k] \in Byte
      BY <3>2, <2>1, ElementOfSeq
    <3> QED
      BY <3>5, <3>6, NotBoth
  <2>4. Len(c) > 5
    BY <2>1, <2>3
  <2> QED
    BY <2>4, <1>0, <1>4, <1>5, <1>8, <1>9
<1>10. CASE b < 128 /\ FrameLength(p) > FRAME_MAX_MSG /\ rx'.why = "toobig"
  <2>1. Whole(p)
    <3>1. \A i \in 1 .. Len(p) - 1 : p[i] >= 128
      BY <1>p
    <3> QED
      BY <3>1, <1>p, <1>10 DEF Whole
  <2>2. p = c
    BY <2>1, <1>p, <1>6, <1>7, OnePrefix
  <2>3. FrameLength(p) = Len(Frames[f].payload)
    BY <2>2, <1>p, <1>4, <1>5, FrameFacts
  <2> QED
    BY <2>3, <1>0, <1>4, <1>8, <1>10
<1> QED
  BY <1>1, <1>9, <1>10

LEMMA LastIs ==
  ASSUME Inv, Handle
  PROVE  Newest' = Decoded(sent[Len(seen) + 1]) /\ Len(seen') > 0
<1>1. PICK n, m : n = Len(seen) + 1 /\ m = Decoded(sent[n])
  OBVIOUS
<1>2. seen' = Append(seen, m) /\ Len(seen') = n /\ m \in Messages
  BY <1>1, HandsUp, Handling DEF Inv
<1>3. seen \in Seq(Messages)
  BY DEF Inv, Types
<1>4. Len(seen) \in Nat
  BY <1>3, LenProperties
<1>5. seen'[n] = m
  BY <1>1, <1>2, <1>3, AppendProperties
<1>6. n > 0
  BY <1>1, <1>4
<1> QED
  BY <1>1, <1>2, <1>5, <1>6 DEF Newest

LEMMA StaysEnded ==
  ASSUME Inv, Ended, rx.at = "down", [Next]_vars
  PROVE  Ended'
<1>0. /\ sent \in Seq(DOMAIN Frames) /\ Len(seen) \in Nat /\ Len(sent) \in Nat
  BY LenProperties DEF Inv, Types
<1>1. TvSend \/ TvClose \/ UNCHANGED vars
  BY DEF Next, Device, PollFirst, ReadPrefix, ReadBody, Handle, SendQueued, StartPairing, ReadFails
<1>2. UNCHANGED << session, rx, seen >>
  BY <1>1 DEF TvSend, TvClose, vars
<1>3. Newest' = Newest
  BY <1>2 DEF Newest
<1>4. ASSUME Len(seen) < Len(sent)
      PROVE  Len(seen') < Len(sent') /\ Current' = Current
  <2>1. CASE sent' = sent
    BY <2>1, <1>2, <1>4 DEF Current
  <2>2. CASE TvSend
    <3>1. PICK f : sent' = Append(sent, f)
      BY <2>2 DEF TvSend
    <3>2. \A i \in 1 .. Len(sent) : sent'[i] = sent[i]
      BY <3>1, <1>0, AppendKeeps
    <3>3. Len(seen) + 1 \in 1 .. Len(sent)
      BY <1>0, <1>4
    <3>4. sent'[Len(seen) + 1] = sent[Len(seen) + 1]
      BY <3>2, <3>3
    <3>5. Len(sent') = Len(sent) + 1
      BY <3>1, <1>0
    <3>6. Len(seen) < Len(sent) + 1
      BY <1>0, <1>4
    <3> QED
      BY <3>4, <3>5, <3>6, <1>2 DEF Current
  <2> QED
    BY <2>1, <2>2, <1>1 DEF TvClose, vars
<1>5. ASSUME closed
      PROVE  UNCHANGED << closed, net >>
  BY <1>1, <1>5 DEF TvSend, TvClose, vars
<1> QED
  BY <1>2, <1>3, <1>4, <1>5 DEF Ended

LEMMA KeepsEnded ==
  ASSUME CodecCarries, Inv, Ended, [Next]_vars
  PROVE  Ended'
<1>0. Types /\ rx \in Readers
  BY DEF Inv, Types
<1>a. 0 \in Nat /\ Idle \in Readers /\ Idle.at \in {"poll", "prefix"}
  BY IdleIsReader
<1>b. ASSUME NEW why \in Whys, rx' = Down(why)
      PROVE  rx'.at = "down" /\ rx'.why = why
  BY <1>b, <1>0, DownIsReader
<1>c. Whys = {"", "io", "closed", "write", "encode", "varint", "toobig", "decode", "status", "code",
              "paired"}
  BY DEF Whys
<1>1. CASE rx.at = "down"
  BY <1>1, StaysEnded
<1>2. CASE rx.at # "down" /\ ReadPrefix
  <2> SUFFICES ASSUME rx'.at = "down"
               PROVE  Ended'
    BY DEF Ended
  <2>1. /\ Len(seen) < Len(sent) /\ UNCHANGED << sent, seen >>
        /\ \/ rx'.why = "toobig" /\ Len(Current.payload) > FRAME_MAX_MSG
           \/ rx'.why = "varint" /\ Len(Current.prefix) > 5
    BY <1>2, RefusesPrefix
  <2>2. Current' = Current
    BY <2>1 DEF Current
  <2> QED
    BY <2>1, <2>2, <1>c DEF Ended
<1>3. CASE rx'.at # "down"
  BY <1>3 DEF Ended
<1>4. CASE rx' = Down("write") \/ rx' = Down("io")
  <2>1. rx'.why \in {"write", "io"}
    BY <1>4, <1>b, <1>c
  <2> QED
    BY <2>1, <1>c DEF Ended
<1>5. CASE rx' = Down("closed") /\ closed /\ net = << >> /\ UNCHANGED << closed, net >>
  <2>1. rx'.why = "closed"
    BY <1>5, <1>b, <1>c
  <2> QED
    BY <2>1, <1>5, <1>c DEF Ended
<1>6. CASE Handle /\ rx' = Down("decode") /\ session = "OuterMessage"
             /\ Decoded(sent[Len(seen) + 1]) = Refusal
  <2>1. rx'.why = "decode"
    BY <1>6, <1>b, <1>c
  <2>2. Newest' = Refusal /\ Len(seen') > 0 /\ session' = session
    BY <1>6, LastIs DEF Handle
  <2> QED
    BY <2>1, <2>2, <1>6, <1>c DEF Ended
<1>7. CASE /\ Handle
           /\ \/ rx' = Down("code") /\ "configuration_ack" \in DOMAIN Decoded(sent[Len(seen) + 1])
              \/ rx' = Down("paired") /\ "secret_ack" \in DOMAIN Decoded(sent[Len(seen) + 1])
              \/ rx' = Down("status") /\ Decoded(sent[Len(seen) + 1]).status # Word(200)
  <2>1. PICK m : m = Decoded(sent[Len(seen) + 1])
    OBVIOUS
  <2>2. \/ rx'.why = "code" /\ "configuration_ack" \in DOMAIN m
        \/ rx'.why = "paired" /\ "secret_ack" \in DOMAIN m
        \/ rx'.why = "status" /\ m.status # Word(200)
    BY <2>1, <1>7, <1>b, <1>c
  <2>3. Newest' = m /\ Len(seen') > 0
    BY <2>1, <1>7, LastIs
  <2> QED
    BY <2>2, <2>3, <1>c DEF Ended
<1>8. ASSUME rx.at # "down", Next
      PROVE  Ended'
  <2>1. CASE PollFirst \/ ReadBody
    <3>1. CASE PollFirst
      <4>1. rx' = [rx EXCEPT !.at = "prefix", !.first = << Head(net) >>]
        BY <3>1 DEF PollFirst
      <4>2. rx'.at = "prefix"
        BY <4>1, <1>0 DEF Readers
      <4> QED
        BY <4>2, <1>3
    <3>2. CASE ReadBody
      <4>1. PICK k : rx' = [rx EXCEPT !.body = rx.body \o SubSeq(net, 1, k)]
        BY <3>2 DEF ReadBody
      <4>2. rx'.at = rx.at
        BY <4>1, <1>0 DEF Readers
      <4> QED
        BY <4>2, <1>3, <1>8
    <3> QED
      BY <2>1, <3>1, <3>2
  <2>2. CASE ReadFails
    <3>1. UNCHANGED << closed, net >>
      BY <2>2 DEF ReadFails
    <3>2. rx' = Down("io") \/ (closed /\ net = << >> /\ rx' = Down("closed"))
      BY <2>2 DEF ReadFails
    <3> QED
      BY <3>1, <3>2, <1>4, <1>5
  <2>3. CASE TvSend \/ TvClose
    <3>1. rx' = rx
      BY <2>3 DEF TvSend, TvClose
    <3> QED
      BY <3>1, <1>3, <1>8
  <2>4. CASE SendQueued \/ StartPairing
    <3>1. PICK x \in Sayable(session) : SendMsg(x, 0, rx)
      BY <2>4, OpensWithWhatItCan
    <3>2. rx' = Down("write") \/ rx' = rx
      BY <3>1, <1>0, <1>a, Speaks
    <3> QED
      BY <3>2, <1>3, <1>4, <1>8
  <2>5. CASE Handle
    <3>0. Len(seen) + 1 \in Nat
      BY LenProperties DEF Inv, Types
    <3>1. PICK n, m : n = Len(seen) + 1 /\ m = Decoded(sent[n])
      OBVIOUS
    <3>2. \/ \E x \in Sayable(session) : SendMsg(x, n, Idle)
          \/ /\ UNCHANGED << said, out >>
             /\ \/ rx' = Idle
                \/ rx' = Down("decode") /\ session = "OuterMessage" /\ m = Refusal
                \/ rx' = Down("code") /\ "configuration_ack" \in DOMAIN m
                \/ rx' = Down("paired") /\ "secret_ack" \in DOMAIN m
                \/ rx' = Down("status") /\ m.status # Word(200)
      BY <2>5, <3>1, AnswersWhatItCan
    <3>3. ASSUME NEW x \in Sayable(session), SendMsg(x, n, Idle)
          PROVE  rx' = Down("write") \/ rx' = Idle
      BY <3>0, <3>1, <3>3, <1>0, <1>a, Speaks
    <3> QED
      BY <3>1, <3>2, <3>3, <2>5, <1>3, <1>4, <1>6, <1>7, <1>a
  <2> QED
    BY <2>1, <2>2, <2>3, <2>4, <2>5, <1>2, <1>8 DEF Next, Device
<1>9. CASE UNCHANGED vars
  <2>1. rx' = rx
    BY <1>9 DEF vars
  <2> QED
    BY <2>1, <1>1, <1>3
<1> QED
  BY <1>1, <1>8, <1>9

LEMMA EndedForCause ==
  ASSUME CodecAgrees, Inv, Ended
  PROVE  EndsForCause
<1> SUFFICES ASSUME rx.at = "down"
             PROVE  EndsForCause
  BY DEF EndsForCause
<1> DEFINE meaning == Sense[sent[Len(seen)]]
<1>1. ASSUME Len(seen) > 0
      PROVE  Newest = meaning
  <2>1. /\ sent \in Seq(DOMAIN Frames) /\ Len(seen) \in Nat /\ Len(sent) \in Nat
        /\ Len(seen) <= Len(sent)
    BY LenProperties DEF Inv, Types, Place
  <2>2. Len(seen) \in 1 .. Len(seen) /\ Len(seen) \in 1 .. Len(sent)
    BY <1>1, <2>1
  <2>3. sent[Len(seen)] \in DOMAIN Frames
    BY <2>1, <2>2, ElementOfSeq
  <2> QED
    BY <2>2, <2>3 DEF Inv, Understood, Newest, CodecAgrees
<1>2. /\ rx.why \in Whys \ {"", "encode"}
      /\ rx.why = "toobig" => Len(Current.payload) > FRAME_MAX_MSG
      /\ rx.why = "varint" => Len(Current.prefix) > 5
      /\ rx.why = "decode" => session = "OuterMessage" /\ meaning = Refusal
      /\ rx.why = "status" => meaning.status # Word(200)
      /\ rx.why = "paired" => "secret_ack" \in DOMAIN meaning
      /\ rx.why = "code"   => "configuration_ack" \in DOMAIN meaning
      /\ rx.why = "closed" => closed /\ net = << >>
  BY <1>1 DEF Ended
<1> HIDE DEF meaning
<1>3. Whys \ {"", "encode"} = {"io", "closed", "write", "varint", "toobig", "decode", "status",
                               "code", "paired"}
  BY DEF Whys
<1>4. CASE rx.why = "toobig"
  BY <1>2, <1>4 DEF EndsForCause, meaning
<1>5. CASE rx.why = "varint"
  BY <1>2, <1>5 DEF EndsForCause, meaning
<1>6. CASE rx.why = "decode"
  BY <1>2, <1>6 DEF EndsForCause, meaning
<1>7. CASE rx.why = "status"
  BY <1>2, <1>7 DEF EndsForCause, meaning
<1>8. CASE rx.why = "paired"
  BY <1>2, <1>8 DEF EndsForCause, meaning
<1>9. CASE rx.why = "code"
  BY <1>2, <1>9 DEF EndsForCause, meaning
<1>10. CASE rx.why = "closed"
  BY <1>2, <1>10 DEF EndsForCause, meaning
<1>11. CASE rx.why \in {"io", "write"}
  BY <1>11 DEF EndsForCause
<1> QED
  BY <1>2, <1>3, <1>4, <1>5, <1>6, <1>7, <1>8, <1>9, <1>10, <1>11

(* With a codec that carries the device's messages and agrees with what the  *)
(* frames say, a session ends only for one of its causes, and none of them   *)
(* is a message of the device's own (frame_recv, frame_send, pairing_run,    *)
(* remote_session).                                                          *)
THEOREM AlwaysEndsForCause ==
  ASSUME CodecCarries, CodecAgrees
  PROVE  Spec => []EndsForCause
<1>1. Init => Ended
  <2>1. Init => rx.at # "down"
    BY IdleIsReader DEF Init
  <2> QED
    BY <2>1 DEF Ended
<1>2. Inv /\ Inv' /\ Ended /\ [Next]_vars => Ended'
  BY KeepsEnded
<1>3. Inv /\ Ended => EndsForCause
  BY EndedForCause
<1> QED
  BY <1>1, <1>2, <1>3, Invariance, PTL DEF Spec

-------------------------------------------------------------------------------
(* What is written reads back.                                               *)

LEMMA CutApart ==
  ASSUME NEW S, NEW a \in Seq(S), NEW b \in Seq(S)
  PROVE  /\ SubSeq(a \o b, 1, Len(a)) = a
         /\ SubSeq(a \o b, Len(a) + 1, Len(a \o b)) = b
<1>1. PICK s, k, l : s = a \o b /\ k = Len(a) /\ l = Len(b)
  OBVIOUS
<1>2. /\ s \in Seq(S) /\ Len(s) = k + l /\ k \in Nat /\ l \in Nat
      /\ \A i \in 1 .. k + l : s[i] \in S
      /\ \A i \in 1 .. k : s[i] = a[i]
      /\ \A i \in 1 .. l : s[k + i] = b[i]
  BY <1>1, ConcatProperties, LenProperties, ElementOfSeq
<1>3. SubSeq(s, 1, k) = a
  <2>1. PICK t : t = SubSeq(s, 1, k)
    OBVIOUS
  <2>2. t \in Seq(S) /\ Len(t) = k /\ \A i \in 1 .. k : t[i] = s[i]
    BY <1>2, <2>1, SubSeqProperties
  <2> QED
    BY <2>1, <2>2, <1>1, <1>2, SeqEqual
<1>4. SubSeq(s, k + 1, k + l) = b
  <2>1. PICK t : t = SubSeq(s, k + 1, k + l)
    OBVIOUS
  <2>2. \A i \in k + 1 .. k + l : s[i] \in S
    BY <1>2
  <2>3. t \in Seq(S) /\ Len(t) = l
    BY <1>2, <2>1, <2>2, SubSeqProperties
  <2>4. \A i \in 1 .. l : t[i] = s[k + i]
    BY <1>2, <2>1, SubSeqProperties
  <2>5. \A i \in 1 .. l : t[i] = b[i]
    BY <1>2, <2>4
  <2> QED
    BY <2>1, <2>3, <2>5, <1>1, SeqEqual
<1> QED
  BY <1>1, <1>2, <1>3, <1>4

(* A frame of the device reads back as its message.                          *)
LEMMA WiredReadsBack ==
  ASSUME CodecCarries, session \in Sessions, NEW m \in Sayable(session)
  PROVE  ReadsBackAs(Wired(session, m), m)
<1>1. PICK b, l : b = PbEncode(session, m).v /\ l = Len(b)
  OBVIOUS
<1>2. b \in Seq(Byte) /\ l <= FRAME_MAX_MSG /\ PbDecode(session, b) = m
  BY <1>1 DEF CodecCarries, Byte
<1>3. l \in 0 .. 512
  <2>1. l \in Nat
    BY <1>1, <1>2, LenProperties
  <2>2. l <= 512
    BY <1>2 DEF FRAME_MAX_MSG
  <2> QED
    BY <2>1, <2>2
<1>4. PICK p, k : p = FrameVarintEncode(l) /\ k = Len(p)
  OBVIOUS
<1>5. /\ Whole(p) /\ Len(p) <= 5 /\ Gives(p, l) /\ (Len(p) > 1 => p[Len(p)] # 0)
      /\ p \in Seq(Byte) /\ k \in Nat /\ k >= 1
  BY <1>3, <1>4, WrittenPrefix, WholeFacts
<1>6. PICK s : s = p \o b
  OBVIOUS
<1>7. s = Wired(session, m)
  BY <1>1, <1>4, <1>6 DEF Wired
<1>8. VarintEnd(s) = k
  BY <1>2, <1>4, <1>5, <1>6, EndOfPrefix
<1>9. SubSeq(s, 1, k) = p /\ SubSeq(s, k + 1, Len(s)) = b
  BY <1>2, <1>4, <1>5, <1>6, CutApart
<1>10. FrameLength(p) = l
  BY <1>3, <1>5, GivesLength
<1>11. Len(s) - k = l
  <2>1. Len(s) = k + l
    BY <1>1, <1>2, <1>4, <1>5, <1>6, ConcatProperties
  <2> QED
    BY <2>1, <1>3, <1>5
<1>12. k > 1 => s[k] # 0
  <2>1. k \in 1 .. Len(p)
    BY <1>4, <1>5
  <2>2. s[k] = p[k]
    BY <2>1, <1>2, <1>5, <1>6, InFirst
  <2> QED
    BY <2>2, <1>4, <1>5
<1> QED
  BY <1>2, <1>7, <1>8, <1>9, <1>10, <1>11, <1>12 DEF ReadsBackAs

Written == \A i \in 1 .. Len(out) : /\ said[i].msg \in Sayable(session)
                                    /\ out[i] = Wired(session, said[i].msg)

LEMMA KeepsWritten ==
  ASSUME CodecCarries, Inv, Written, [Next]_vars
  PROVE  Written'
<1>0. /\ Types /\ said \in Seq(Utterances) /\ out \in Seq(Images) /\ Len(out) \in Nat
      /\ Len(said) = Len(out) /\ rx \in Readers /\ Idle \in Readers /\ Len(seen) + 1 \in Nat
      /\ 0 \in Nat
  <2>1. /\ Types /\ said \in Seq(Utterances) /\ out \in Seq(Images) /\ seen \in Seq(Messages)
        /\ Len(said) = Len(out) /\ rx \in Readers
    BY DEF Inv, Types
  <2>2. Len(out) \in Nat /\ Len(seen) \in Nat
    BY <2>1, LenProperties
  <2>3. Len(seen) + 1 \in Nat /\ 0 \in Nat
    BY <2>2
  <2>4. Idle \in Readers
    BY IdleIsReader
  <2> QED
    BY <2>1, <2>2, <2>3, <2>4
<1>1. session' = session
  BY DEF Next, Device, PollFirst, ReadPrefix, ReadBody, Handle, SendQueued, StartPairing,
         ReadFails, TvSend, TvClose, vars
<1>2. CASE UNCHANGED << said, out >>
  BY <1>1, <1>2 DEF Written
<1>3. ASSUME NEW x \in Sayable(session), NEW to \in Nat, NEW next \in Readers,
             SendMsg(x, to, next)
      PROVE  Written'
  <2>1. CASE /\ said' = Append(said, [msg |-> x, to |-> to])
             /\ out' = Append(out, Wired(session, x))
    <3>1. PICK u, w, n : u = [msg |-> x, to |-> to] /\ w = Wired(session, x) /\ n = Len(out)
      OBVIOUS
    <3>2. u.msg = x
      BY <3>1
    <3>3. /\ said'[n + 1] = u /\ \A i \in 1 .. n : said'[i] = said[i]
      BY <2>1, <3>1, <1>0, AppendKeeps, AppendLast
    <3>4. /\ out'[n + 1] = w /\ Len(out') = n + 1 /\ \A i \in 1 .. n : out'[i] = out[i]
      BY <2>1, <3>1, <1>0, AppendKeeps, AppendLast
    <3>5. ASSUME NEW i \in 1 .. Len(out')
          PROVE  said'[i].msg \in Sayable(session) /\ out'[i] = Wired(session, said'[i].msg)
      <4>1. i = n + 1 \/ i \in 1 .. n
        BY <3>1, <3>4, <1>0
      <4>2. CASE i = n + 1
        BY <4>2, <3>1, <3>2, <3>3, <3>4
      <4>3. CASE i \in 1 .. n
        BY <4>3, <3>1, <3>3, <3>4 DEF Written
      <4> QED
        BY <4>1, <4>2, <4>3
    <3> QED
      BY <3>5, <1>1 DEF Written
  <2> QED
    BY <2>1, <1>0, <1>2, <1>3, Speaks
<1>4. CASE Handle
  BY <1>4, <1>0, <1>2, <1>3, AnswersWhatItCan
<1>5. CASE SendQueued \/ StartPairing
  BY <1>5, <1>0, <1>3, OpensWithWhatItCan
<1>6. Handle \/ SendQueued \/ StartPairing \/ UNCHANGED << said, out >>
  BY DEF Next, Device, PollFirst, ReadPrefix, ReadBody, ReadFails, TvSend, TvClose, vars
<1> QED
  BY <1>2, <1>4, <1>5, <1>6

(* With a codec that carries the device's messages, each frame it writes     *)
(* reads back as the message meant, for payloads of every length up to       *)
(* FRAME_MAX_MSG (frame_send, frame_varint_encode).                          *)
THEOREM AlwaysRoundTrip ==
  ASSUME CodecCarries
  PROVE  Spec => []RoundTrip
<1>1. Init => Written
  <2>1. Init => Len(out) = 0
    BY EmptySeq DEF Init
  <2> QED
    BY <2>1 DEF Written
<1>2. Inv /\ Written /\ [Next]_vars => Written'
  BY KeepsWritten
<1>3. Inv /\ Written => RoundTrip
  <2>1. ASSUME Inv, Written, NEW i \in DOMAIN out
        PROVE  ReadsBackAs(out[i], said[i].msg)
    <3>1. i \in 1 .. Len(out) /\ session \in Sessions
      BY <2>1, LenProperties DEF Inv, Types
    <3> QED
      BY <2>1, <3>1, WiredReadsBack DEF Written
  <2> QED
    BY <2>1 DEF RoundTrip
<1> QED
  BY <1>1, <1>2, <1>3, Invariance, PTL DEF Spec

-------------------------------------------------------------------------------
(* What the remote session shows and answers.                                *)

(* A message with one of the handled parts is handled as that part.          *)
LEMMA OnePart ==
  ASSUME NEW f \in DOMAIN Frames, Frames[f].session = "RemoteMessage",
         NEW i \in 1 .. 5, HandledParts[i] \in DOMAIN Decoded(f)
  PROVE  FirstPart(Decoded(f), HandledParts) = HandledParts[i]
<1>1. DOMAIN HandledParts = 1 .. 5 /\ Len(HandledParts) = 5
  <2>1. Len(HandledParts) = 5
    BY HandledNames
  <2> QED
    BY <2>1, HandledNames, LenProperties
<1>2. PICK j \in 1 .. 5 : /\ FirstPart(Decoded(f), HandledParts) = HandledParts[j]
                          /\ HandledParts[j] \in DOMAIN Decoded(f)
  BY <1>1, HandledNames, FirstPartIsThere
<1>3. {HandledParts[i], HandledParts[j]} \subseteq DOMAIN Decoded(f)
  BY <1>2
<1>4. i = j
  BY <1>1, <1>3, OnePartAssumption
<1> QED
  BY <1>2, <1>4

(* A frame with a volume is handled as one, and so is a ping.                *)
LEMMA HandledAsSuch ==
  ASSUME NEW f \in DOMAIN Frames, Frames[f].session = "RemoteMessage"
  PROVE  LET m    == Decoded(f)
             part == FirstPart(m, HandledParts)
         IN /\ IsVolume(m) <=> part = "remote_set_volume_level"
            /\ IsPing(m) <=> part = "remote_ping_request"
<1>1. 5 \in 1 .. 5 /\ 3 \in 1 .. 5
  OBVIOUS
<1>2. HandledParts[5] = "remote_set_volume_level" /\ HandledParts[3] = "remote_ping_request"
  BY HandledNames
<1>3. IsVolume(Decoded(f)) => FirstPart(Decoded(f), HandledParts) = "remote_set_volume_level"
  BY <1>1, <1>2, OnePart DEF IsVolume
<1>4. IsPing(Decoded(f)) => FirstPart(Decoded(f), HandledParts) = "remote_ping_request"
  BY <1>1, <1>2, OnePart DEF IsPing
<1>5. FirstPart(Decoded(f), HandledParts) # "none" =>
        FirstPart(Decoded(f), HandledParts) \in DOMAIN Decoded(f)
  BY AnsweredPartIsThere
<1> QED
  BY <1>3, <1>4, <1>5 DEF IsVolume, IsPing

LEMMA RefusalIsNothing == ~IsVolume(Refusal) /\ ~IsPing(Refusal)
<1>1. DOMAIN Refusal = {"refused"}
  BY DEF Refusal
<1> QED
  BY <1>1 DEF IsVolume, IsPing

Screen == {"power", "connected", "vol"}

LEMMA VolumeAfter ==
  ASSUME DOMAIN status = Screen, NEW part, NEW m
  PROVE  /\ DOMAIN StatusAfter(part, m) = Screen
         /\ StatusAfter(part, m).vol =
              IF part = "remote_set_volume_level"
              THEN << m[part].volume_level, m[part].volume_max, m[part].volume_muted >>
              ELSE status.vol
<1>1. CASE part = "remote_set_volume_level"
  <2>1. PICK v : v = << m[part].volume_level, m[part].volume_max, m[part].volume_muted >>
    OBVIOUS
  <2>2. StatusAfter(part, m) = [status EXCEPT !.vol = v]
    BY <1>1, <2>1 DEF StatusAfter
  <2>3. "vol" \in DOMAIN status
    BY DEF Screen
  <2> QED
    BY <2>1, <2>2, <2>3, <1>1
<1>2. CASE part = "remote_start"
  <2>1. PICK a : a = IF m[part].started THEN "on" ELSE "off"
    OBVIOUS
  <2>2. StatusAfter(part, m) = [status EXCEPT !.power = a, !.connected = TRUE]
    BY <1>2, <2>1 DEF StatusAfter
  <2>3. "vol" \in DOMAIN status
    BY DEF Screen
  <2>4. DOMAIN [status EXCEPT !.power = a, !.connected = TRUE] = DOMAIN status
    OBVIOUS
  <2>5. [status EXCEPT !.power = a, !.connected = TRUE].vol = status.vol
    BY <2>3
  <2> QED
    BY <2>2, <2>4, <2>5, <1>2
<1>3. CASE part \notin {"remote_start", "remote_set_volume_level"}
  <2>1. StatusAfter(part, m) = status
    BY <1>3 DEF StatusAfter
  <2> QED
    BY <2>1, <1>3
<1> QED
  BY <1>1, <1>2, <1>3

(* The volume shown is that of the last message with one.                    *)
LatestAt(k) == /\ IsVolume(seen[k]) /\ status.vol = VolumeOf(seen[k])
               /\ \A i \in 1 .. Len(seen) : IsVolume(seen[i]) => i <= k

Shown ==
  session = "RemoteMessage" =>
    /\ DOMAIN status = Screen
    /\ \/ status.vol = << >> /\ \A i \in 1 .. Len(seen) : ~IsVolume(seen[i])
       \/ \E k \in 1 .. Len(seen) : LatestAt(k)

LEMMA HandleKeepsShown ==
  ASSUME Inv, Shown, Handle
  PROVE  Shown'
<1> SUFFICES ASSUME session = "RemoteMessage", session' = session
             PROVE  Shown'
  BY DEF Handle, Shown
<1>1. PICK n, m : n = Len(seen) + 1 /\ m = Decoded(sent[n])
  OBVIOUS
<1>2. /\ seen' = Append(seen, m) /\ Len(seen') = n /\ n \in Nat
      /\ sent[n] \in DOMAIN Frames /\ Frames[sent[n]].session = "RemoteMessage"
  BY <1>1, HandsUp DEF Inv
<1>3. seen \in Seq(Messages) /\ Len(seen) \in Nat
  BY LenProperties DEF Inv, Types
<1>4. seen'[n] = m /\ \A i \in 1 .. Len(seen) : seen'[i] = seen[i]
  BY <1>1, <1>2, <1>3, AppendKeeps, AppendLast
<1>5. \A i \in 1 .. n : i = n \/ i \in 1 .. Len(seen)
  BY <1>1, <1>3
<1>6. DOMAIN status = Screen
  BY DEF Shown
<1>7. ASSUME ~IsVolume(m), DOMAIN status' = Screen, status'.vol = status.vol
      PROVE  Shown'
  <2>1. CASE status.vol = << >> /\ \A i \in 1 .. Len(seen) : ~IsVolume(seen[i])
    BY <2>1, <1>2, <1>4, <1>5, <1>7 DEF Shown
  <2>2. ASSUME NEW k \in 1 .. Len(seen), LatestAt(k)
        PROVE  Shown'
    <3>1. k \in 1 .. n
      BY <1>1, <1>3
    <3>2. IsVolume(seen'[k]) /\ status'.vol = VolumeOf(seen'[k])
      BY <2>2, <1>4, <1>7 DEF LatestAt
    <3>3. \A i \in 1 .. n : IsVolume(seen'[i]) => i <= k
      BY <2>2, <1>4, <1>5, <1>7 DEF LatestAt
    <3> QED
      BY <3>1, <3>2, <3>3, <1>2, <1>7 DEF Shown, LatestAt
  <2> QED
    BY <2>1, <2>2 DEF Shown
<1>8. ASSUME IsVolume(m), DOMAIN status' = Screen, status'.vol = VolumeOf(m)
      PROVE  Shown'
  <2>1. n \in 1 .. n /\ \A i \in 1 .. n : i <= n
    BY <1>1, <1>3
  <2> QED
    BY <2>1, <1>2, <1>4, <1>8 DEF Shown, LatestAt
<1>9. CASE m = Refusal /\ UNCHANGED status
  BY <1>9, <1>6, <1>7, RefusalIsNothing
<1>10. CASE m # Refusal /\ status' = StatusAfter(FirstPart(m, HandledParts), m)
  <2>1. PICK part : part = FirstPart(m, HandledParts)
    OBVIOUS
  <2>2. IsVolume(m) <=> part = "remote_set_volume_level"
    BY <2>1, <1>1, <1>2, HandledAsSuch
  <2>3. /\ DOMAIN status' = Screen
        /\ status'.vol = IF part = "remote_set_volume_level"
                         THEN << m[part].volume_level, m[part].volume_max, m[part].volume_muted >>
                         ELSE status.vol
    BY <2>1, <1>6, <1>10, VolumeAfter
  <2>4. CASE part = "remote_set_volume_level"
    <3>1. status'.vol = VolumeOf(m)
      BY <2>3, <2>4 DEF VolumeOf
    <3> QED
      BY <3>1, <2>2, <2>3, <2>4, <1>8
  <2>5. CASE part # "remote_set_volume_level"
    BY <2>2, <2>3, <2>5, <1>7
  <2> QED
    BY <2>4, <2>5
<1> QED
  BY <1>1, <1>9, <1>10, Remote

LEMMA KeepsShown ==
  ASSUME Inv, Shown, [Next]_vars
  PROVE  Shown'
<1>1. CASE Handle
  BY <1>1, HandleKeepsShown
<1>2. CASE UNCHANGED << session, seen, status >>
  BY <1>2 DEF Shown, LatestAt
<1>3. Handle \/ UNCHANGED << session, seen, status >>
  BY DEF Next, Device, PollFirst, ReadPrefix, ReadBody, SendQueued, StartPairing, ReadFails,
         TvSend, TvClose, vars
<1> QED
  BY <1>1, <1>2, <1>3

LEMMA ShownIsLatest ==
  ASSUME Inv, Shown
  PROVE  ShowsLatest
<1> SUFFICES ASSUME session = "RemoteMessage"
             PROVE  ShowsLatest
  BY DEF ShowsLatest
<1> DEFINE vols == {i \in DOMAIN seen : IsVolume(seen[i])}
<1>1. DOMAIN seen = 1 .. Len(seen) /\ Len(seen) \in Nat
  BY LenProperties DEF Inv, Types
<1>2. CASE status.vol = << >> /\ \A i \in 1 .. Len(seen) : ~IsVolume(seen[i])
  <2>1. vols = {}
    BY <1>1, <1>2
  <2> QED
    BY <2>1, <1>2 DEF ShowsLatest
<1>3. ASSUME NEW k \in 1 .. Len(seen), LatestAt(k)
      PROVE  ShowsLatest
  <2>1. k \in vols /\ vols \in SUBSET Int
    BY <1>1, <1>3 DEF LatestAt
  <2>2. \A y \in vols : k >= y
    BY <1>1, <1>3 DEF LatestAt
  <2> HIDE DEF vols
  <2>3. Max(vols) = k
    BY <2>1, <2>2, MaxIs
  <2> QED
    BY <2>1, <2>3, <1>3 DEF ShowsLatest, LatestAt, vols
<1> QED
  BY <1>2, <1>3 DEF Shown

(* The volume shown is the one of the last volume message decoded, whatever  *)
(* came in between, for any frames with at most one part each (handle_msg).  *)
THEOREM AlwaysShowsLatest == Spec => []ShowsLatest
<1>1. Init => Shown
  <2>1. ASSUME Init
        PROVE  Shown
    <3>1. Len(seen) = 0
      BY <2>1, EmptySeq DEF Init
    <3>2. DOMAIN status = Screen /\ status.vol = << >>
      BY <2>1 DEF Init, Screen
    <3> QED
      BY <3>1, <3>2 DEF Shown
  <2> QED
    BY <2>1
<1>2. Inv /\ Shown /\ [Next]_vars => Shown'
  BY KeepsShown
<1>3. Inv /\ Shown => ShowsLatest
  BY ShownIsLatest
<1> QED
  BY <1>1, <1>2, <1>3, Invariance, PTL DEF Spec

(* Of the messages the device can say only the answer to a ping is one.      *)
LEMMA Pongs ==
  /\ \A m : IsPong(Pong(m)) /\ Pong(m).remote_ping_response.val1 = m.remote_ping_request.val1
  /\ \A m \in OwnMessages : ~IsPong(m)
  /\ \A bits : ~IsPong(Configured(bits)) /\ ~IsPong(Active(bits))
<1>1. ASSUME NEW m
      PROVE  IsPong(Pong(m)) /\ Pong(m).remote_ping_response.val1 = m.remote_ping_request.val1
  <2>1. PICK v : v = [val1 |-> m.remote_ping_request.val1]
    OBVIOUS
  <2>2. Pong(m) = [n \in {"remote_ping_response"} |-> v]
    BY <2>1 DEF Pong, Part
  <2>3. "remote_ping_response" \in DOMAIN Pong(m) /\ Pong(m).remote_ping_response = v
    BY <2>2
  <2>4. v.val1 = m.remote_ping_request.val1
    BY <2>1
  <2> QED
    BY <2>3, <2>4 DEF IsPong
<1>2. \A name, v : DOMAIN Part(name, v) = {name}
  BY DEF Part
<1>3. ASSUME NEW m \in OwnMessages
      PROVE  ~IsPong(m)
  <2>1. \/ \E c \in Keys : m = KeyInject(c)
        \/ \E l \in Links : m = AppLink(l)
        \/ m = PingProbe
    BY DEF OwnMessages
  <2>2. \/ DOMAIN m = {"remote_key_inject"}
        \/ DOMAIN m = {"remote_app_link_launch_request"}
        \/ DOMAIN m = {"remote_ping_request"}
    BY <2>1, <1>2 DEF KeyInject, AppLink, PingProbe
  <2> QED
    BY <2>2 DEF IsPong
<1>4. ASSUME NEW bits
      PROVE  ~IsPong(Configured(bits)) /\ ~IsPong(Active(bits))
  <2>1. DOMAIN Configured(bits) = {"remote_configure"}
    BY <1>2 DEF Configured
  <2>2. DOMAIN Active(bits) = {"remote_set_active"}
    BY <1>2 DEF Active
  <2> QED
    BY <2>1, <2>2 DEF IsPong
<1> QED
  BY <1>1, <1>3, <1>4

PongAt(j) == j \in 1 .. Len(said) /\ IsPong(said[j].msg)

AnsweredBy(j, i) == PongAt(j) /\ Answers(j, i)

Unwritten == rx.at = "down" /\ rx.why = "write"

Answered ==
  session = "RemoteMessage" =>
    /\ \A j \in 1 .. Len(said) : said[j].to <= Len(seen)
    /\ \A i \in 1 .. Len(seen) : IsPing(seen[i]) =>
         (\E j \in 1 .. Len(said) : AnsweredBy(j, i)) \/ (i = Len(seen) /\ Unwritten)
    /\ \A j \in 1 .. Len(said) : PongAt(j) => \E i \in 1 .. Len(seen) : AnsweredBy(j, i)
    /\ \A j, k \in 1 .. Len(said) : PongAt(j) /\ PongAt(k) /\ j < k => said[j].to < said[k].to

(* One more message said.                                                    *)
LEMMA SaysMore ==
  ASSUME Types, NEW m \in Said, NEW to \in Nat, said' = Append(said, [msg |-> m, to |-> to])
  PROVE  LET l == Len(said) + 1
         IN /\ l \in Nat /\ Len(said) \in Nat /\ Len(said') = l
            /\ said'[l].msg = m /\ said'[l].to = to
            /\ \A j \in 1 .. Len(said) : said'[j] = said[j] /\ said[j].to \in Nat
            /\ \A j \in 1 .. l : j = l \/ j \in 1 .. Len(said)
<1>1. said \in Seq(Utterances)
  BY DEF Types
<1>2. Len(said) \in Nat
  BY <1>1, LenProperties
<1>3. PICK u, l : u = [msg |-> m, to |-> to] /\ l = Len(said) + 1
  OBVIOUS
<1>4. u.msg = m /\ u.to = to
  BY <1>3
<1>5. said'[l] = u /\ Len(said') = l /\ \A j \in 1 .. Len(said) : said'[j] = said[j]
  BY <1>1, <1>3, AppendKeeps, AppendLast
<1>6. ASSUME NEW j \in 1 .. Len(said)
      PROVE  said[j].to \in Nat
  <2>1. said[j] \in Utterances
    BY <1>1, ElementOfSeq
  <2> QED
    BY <2>1 DEF Utterances
<1>7. l \in Nat /\ \A j \in 1 .. l : j = l \/ j \in 1 .. Len(said)
  BY <1>2, <1>3
<1> QED
  BY <1>2, <1>3, <1>4, <1>5, <1>6, <1>7

(* A message of its own is no answer and changes none.                       *)
LEMMA OwnKeepsAnswered ==
  ASSUME Inv, Answered, CodecCarries, SendQueued
  PROVE  Answered'
<1>1. /\ session = "RemoteMessage" /\ rx.at = "poll" /\ UNCHANGED << session, seen >>
      /\ Types /\ rx \in Readers /\ 0 \in Nat
  BY DEF SendQueued, Inv, Types
<1>2. PICK m \in OwnMessages : SendMsg(m, 0, rx)
  BY DEF SendQueued
<1>3. m \in Sayable(session) /\ m \in Said /\ ~IsPong(m)
  BY <1>1, Pongs DEF Sayable, Said
<1>4. \/ UNCHANGED said
      \/ said' = Append(said, [msg |-> m, to |-> 0])
  BY <1>1, <1>2, <1>3, Speaks
<1>5. ~Unwritten
  BY <1>1 DEF Unwritten
<1>6. CASE UNCHANGED said
  BY <1>1, <1>5, <1>6 DEF Answered, AnsweredBy, PongAt, Answers
<1>7. CASE said' = Append(said, [msg |-> m, to |-> 0])
  <2>1. PICK l : l = Len(said) + 1
    OBVIOUS
  <2>2. /\ l \in Nat /\ Len(said) \in Nat /\ Len(said') = l
        /\ said'[l].msg = m /\ said'[l].to = 0
        /\ \A j \in 1 .. Len(said) : said'[j] = said[j] /\ said[j].to \in Nat
        /\ \A j \in 1 .. l : j = l \/ j \in 1 .. Len(said)
    BY <2>1, <1>1, <1>3, <1>7, SaysMore
  <2>3. Len(said) <= l /\ Len(seen) \in Nat /\ \A j \in 1 .. Len(said) : j \in 1 .. l
    <3>1. Len(seen) \in Nat
      BY LenProperties DEF Inv, Types
    <3> QED
      BY <3>1, <2>1, <2>2
  <2>4. \A j : PongAt(j)' <=> PongAt(j)
    BY <2>2, <2>3, <1>3 DEF PongAt
  <2>5. \A j, i : AnsweredBy(j, i)' <=> AnsweredBy(j, i)
    BY <2>2, <2>4, <1>1 DEF AnsweredBy, Answers, PongAt
  <2>6. \A j \in 1 .. l : said'[j].to <= Len(seen)
    BY <2>2, <2>3, <1>1 DEF Answered
  <2>7. \A i \in 1 .. Len(seen) : IsPing(seen[i]) => \E j \in 1 .. l : AnsweredBy(j, i)'
    BY <2>3, <2>5, <1>1, <1>5 DEF Answered
  <2>8. \A j \in 1 .. l : PongAt(j)' => \E i \in 1 .. Len(seen) : AnsweredBy(j, i)'
    BY <2>4, <2>5, <1>1 DEF Answered, PongAt
  <2>9. \A j, k \in 1 .. l : PongAt(j)' /\ PongAt(k)' /\ j < k => said'[j].to < said'[k].to
    BY <2>2, <2>4, <1>1 DEF Answered, PongAt
  <2> QED
    BY <2>2, <2>6, <2>7, <2>8, <2>9, <1>1 DEF Answered
<1> QED
  BY <1>4, <1>6, <1>7

(* A message handed up that is no ping, or whose answer could not be written,*)
(* changes no answer ...                                                     *)
LEMMA QuietKeepsAnswered ==
  ASSUME Inv, Answered, session = "RemoteMessage", session' = session, ~Unwritten,
         NEW m, seen' = Append(seen, m), said' = said, ~IsPing(m) \/ Unwritten'
  PROVE  Answered'
<1>1. PICK n : n = Len(seen) + 1
  OBVIOUS
<1>2. seen \in Seq(Messages)
  BY DEF Inv, Types
<1>3. Len(seen) \in Nat
  BY <1>2, LenProperties
<1>4. /\ Len(seen') = n /\ seen'[n] = m /\ \A i \in 1 .. Len(seen) : seen'[i] = seen[i]
  BY <1>1, <1>2, AppendKeeps, AppendLast
<1>5. n \in Nat /\ \A i \in 1 .. n : i = n \/ i \in 1 .. Len(seen)
  BY <1>1, <1>3
<1>6. \A i \in 1 .. Len(seen) : i \in 1 .. n
  BY <1>1, <1>3
<1>7. \A i \in 1 .. Len(seen) : \A j : AnsweredBy(j, i) => AnsweredBy(j, i)'
  BY <1>4 DEF AnsweredBy, Answers, PongAt
<1>8. \A j : PongAt(j)' <=> PongAt(j)
  BY DEF PongAt
<1>9. \A j \in 1 .. Len(said) : said[j].to <= n
  <2> TAKE j \in 1 .. Len(said)
  <2>1. said[j].to \in Nat /\ said[j].to <= Len(seen)
    <3>1. said[j] \in Utterances
      BY ElementOfSeq DEF Inv, Types
    <3> QED
      BY <3>1 DEF Answered, Utterances
  <2> QED
    BY <2>1, <1>1, <1>3
<1>10. ASSUME NEW i \in 1 .. n, IsPing(seen'[i])
       PROVE  (\E j \in 1 .. Len(said) : AnsweredBy(j, i)') \/ (i = n /\ Unwritten')
  <2>1. CASE i = n
    BY <2>1, <1>4, <1>10
  <2>2. CASE i \in 1 .. Len(seen)
    BY <2>2, <1>4, <1>7, <1>10 DEF Answered
  <2> QED
    BY <2>1, <2>2, <1>5
<1>11. \A j \in 1 .. Len(said) : PongAt(j)' => \E i \in 1 .. n : AnsweredBy(j, i)'
  BY <1>6, <1>7, <1>8 DEF Answered
<1>12. \A j, k \in 1 .. Len(said) : PongAt(j)' /\ PongAt(k)' /\ j < k => said[j].to < said[k].to
  BY <1>8 DEF Answered
<1> QED
  BY <1>4, <1>9, <1>10, <1>11, <1>12 DEF Answered

(* ... and with an answer that is one exactly to a ping, all is answered.    *)
LEMMA ReplyKeepsAnswered ==
  ASSUME Inv, Answered, session = "RemoteMessage", session' = session, ~Unwritten,
         NEW m, seen' = Append(seen, m), NEW x \in Said,
         said' = Append(said, [msg |-> x, to |-> Len(seen) + 1]),
         IsPong(x) <=> IsPing(m),
         IsPing(m) => x.remote_ping_response.val1 = m.remote_ping_request.val1
  PROVE  Answered'
<1>1. PICK n, l : n = Len(seen) + 1 /\ l = Len(said) + 1
  OBVIOUS
<1>2. seen \in Seq(Messages) /\ Types
  BY DEF Inv, Types
<1>3. Len(seen) \in Nat
  BY <1>2, LenProperties
<1>4. /\ Len(seen') = n /\ seen'[n] = m /\ \A i \in 1 .. Len(seen) : seen'[i] = seen[i]
  BY <1>1, <1>2, AppendKeeps, AppendLast
<1>5. n \in Nat /\ n \in 1 .. n /\ \A i \in 1 .. n : i = n \/ i \in 1 .. Len(seen)
  BY <1>1, <1>3
<1>6. \A i \in 1 .. Len(seen) : i \in 1 .. n
  BY <1>1, <1>3
<1>a. /\ l \in Nat /\ Len(said) \in Nat /\ Len(said') = l
      /\ said'[l].msg = x /\ said'[l].to = n
      /\ \A j \in 1 .. Len(said) : said'[j] = said[j] /\ said[j].to \in Nat
      /\ \A j \in 1 .. l : j = l \/ j \in 1 .. Len(said)
  BY <1>1, <1>2, <1>5, SaysMore
<1>b. l \in 1 .. l /\ \A j \in 1 .. Len(said) : j \in 1 .. l /\ j < l
  BY <1>1, <1>a
<1>7. \A i \in 1 .. Len(seen) : \A j : AnsweredBy(j, i) => AnsweredBy(j, i)'
  BY <1>4, <1>a, <1>b DEF AnsweredBy, Answers, PongAt
<1>8. /\ \A j \in 1 .. Len(said) : PongAt(j)' <=> PongAt(j)
      /\ PongAt(l)' <=> IsPing(m)
  BY <1>a, <1>b DEF PongAt
<1>c. IsPing(m) => AnsweredBy(l, n)'
  BY <1>4, <1>8, <1>a DEF AnsweredBy, Answers
<1>d. \A j \in 1 .. Len(said) : said[j].to < n
  <2> TAKE j \in 1 .. Len(said)
  <2>1. said[j].to \in Nat /\ said[j].to <= Len(seen)
    BY <1>a DEF Answered
  <2> QED
    BY <2>1, <1>1, <1>3
<1>9. \A j \in 1 .. l : said'[j].to <= n
  <2> TAKE j \in 1 .. l
  <2>1. CASE j = l
    BY <2>1, <1>5, <1>a
  <2>2. CASE j \in 1 .. Len(said)
    <3>1. PICK t : t = said[j].to
      OBVIOUS
    <3>2. t < n /\ t \in Nat /\ said'[j].to = t
      BY <3>1, <2>2, <1>a, <1>d
    <3>3. t <= n
      BY <3>2, <1>5
    <3> QED
      BY <3>2, <3>3
  <2> QED
    BY <2>1, <2>2, <1>a
<1>10. ASSUME NEW i \in 1 .. n, IsPing(seen'[i])
       PROVE  \E j \in 1 .. l : AnsweredBy(j, i)'
  <2>1. CASE i = n
    BY <2>1, <1>4, <1>10, <1>b, <1>c
  <2>2. CASE i \in 1 .. Len(seen)
    BY <2>2, <1>4, <1>7, <1>10, <1>b DEF Answered
  <2> QED
    BY <2>1, <2>2, <1>5
<1>11. ASSUME NEW j \in 1 .. l, PongAt(j)'
       PROVE  \E i \in 1 .. n : AnsweredBy(j, i)'
  <2>1. CASE j = l
    BY <2>1, <1>11, <1>5, <1>8, <1>c
  <2>2. CASE j \in 1 .. Len(said)
    BY <2>2, <1>11, <1>6, <1>7, <1>8 DEF Answered
  <2> QED
    BY <2>1, <2>2, <1>a
<1>12. ASSUME NEW j \in 1 .. l, NEW k \in 1 .. l, PongAt(j)', PongAt(k)', j < k
       PROVE  said'[j].to < said'[k].to
  <2>1. j \in 1 .. Len(said)
    BY <1>1, <1>12, <1>a
  <2>2. CASE k = l
    BY <2>1, <2>2, <1>a, <1>d
  <2>3. CASE k \in 1 .. Len(said)
    BY <2>1, <2>3, <1>8, <1>12, <1>a DEF Answered
  <2> QED
    BY <2>2, <2>3, <1>a
<1> QED
  BY <1>4, <1>9, <1>10, <1>11, <1>12, <1>a DEF Answered

LEMMA HandleKeepsAnswered ==
  ASSUME Inv, Answered, CodecCarries, Handle
  PROVE  Answered'
<1> SUFFICES ASSUME session = "RemoteMessage", session' = session
             PROVE  Answered'
  BY DEF Handle, Answered
<1>1. PICK n, m, part : /\ n = Len(seen) + 1 /\ m = Decoded(sent[n])
                        /\ part = FirstPart(m, HandledParts)
  OBVIOUS
<1>2. /\ seen' = Append(seen, m) /\ n \in Nat
      /\ sent[n] \in DOMAIN Frames /\ Frames[sent[n]].session = "RemoteMessage"
  BY <1>1, HandsUp DEF Inv
<1>3. IsPing(m) <=> part = "remote_ping_request"
  BY <1>1, <1>2, HandledAsSuch
<1>4. ~Unwritten
  BY DEF Handle, Unwritten
<1>5. Types /\ rx \in Readers /\ session \in Sessions
  BY DEF Inv, Types
<1>6. rx' = Down("write") => Unwritten'
  <2>1. "write" \in Whys
    BY DEF Whys
  <2> QED
    BY <2>1, <1>5, DownIsReader DEF Unwritten
<1>7. ASSUME said' = said, ~IsPing(m) \/ Unwritten'
      PROVE  Answered'
  BY <1>2, <1>4, <1>7, QuietKeepsAnswered
<1>8. ASSUME NEW x \in Sayable(session), SendMsg(x, n, Idle), IsPong(x) <=> IsPing(m),
             IsPing(m) => x.remote_ping_response.val1 = m.remote_ping_request.val1
      PROVE  Answered'
  <2>1. x \in Said
    BY <1>5, SayableIsSaid
  <2>2. Idle \in Readers
    BY IdleIsReader
  <2>3. \/ rx' = Down("write") /\ said' = said
        \/ said' = Append(said, [msg |-> x, to |-> n])
    BY <1>2, <1>5, <1>8, <2>2, Speaks
  <2>4. CASE rx' = Down("write") /\ said' = said
    BY <2>4, <1>6, <1>7
  <2>5. CASE said' = Append(said, [msg |-> x, to |-> n])
    BY <2>1, <2>5, <1>1, <1>2, <1>4, <1>8, ReplyKeepsAnswered
  <2> QED
    BY <2>3, <2>4, <2>5
<1>9. features \subseteq FEATURES_DEFAULT /\ features' \subseteq FEATURES_DEFAULT
  BY <1>5, Handling DEF Types
<1>10. Configured(features') \in Sayable(session) /\ Active(features) \in Sayable(session)
  BY <1>9 DEF Sayable
<1>11. part = "remote_ping_request" => Pong(m) \in Sayable(session)
  <2>1. part = "remote_ping_request" => part \in DOMAIN m
    BY <1>1, AnsweredPartIsThere
  <2> QED
    BY <2>1, <1>1, <1>2 DEF Sayable
<1>12. \/ m = Refusal /\ said' = said
       \/ part = "remote_configure" /\ SendMsg(Configured(features'), n, Idle)
       \/ part = "remote_set_active" /\ SendMsg(Active(features), n, Idle)
       \/ part = "remote_ping_request" /\ SendMsg(Pong(m), n, Idle)
       \/ part # "remote_ping_request" /\ said' = said
  BY <1>1, Remote
<1>13. CASE m = Refusal /\ said' = said
  BY <1>13, <1>7, RefusalIsNothing
<1>14. CASE part = "remote_configure" /\ SendMsg(Configured(features'), n, Idle)
  BY <1>14, <1>3, <1>8, <1>10, Pongs
<1>15. CASE part = "remote_set_active" /\ SendMsg(Active(features), n, Idle)
  BY <1>15, <1>3, <1>8, <1>10, Pongs
<1>16. CASE part = "remote_ping_request" /\ SendMsg(Pong(m), n, Idle)
  BY <1>16, <1>3, <1>8, <1>11, Pongs
<1>17. CASE part # "remote_ping_request" /\ said' = said
  BY <1>17, <1>3, <1>7
<1> QED
  BY <1>12, <1>13, <1>14, <1>15, <1>16, <1>17

LEMMA KeepsAnswered ==
  ASSUME Inv, Answered, CodecCarries, [Next]_vars
  PROVE  Answered'
<1>1. CASE Handle
  BY <1>1, HandleKeepsAnswered
<1>2. CASE SendQueued
  BY <1>2, OwnKeepsAnswered
<1>3. CASE StartPairing
  <2>1. session' = session /\ session # "RemoteMessage"
    BY <1>3 DEF StartPairing, Started
  <2> QED
    BY <2>1 DEF Answered
<1>4. CASE UNCHANGED << session, seen, said >> /\ (~Unwritten \/ rx' = rx)
  BY <1>4 DEF Answered, AnsweredBy, PongAt, Answers, Unwritten
<1>5. \/ Handle \/ SendQueued \/ StartPairing
      \/ UNCHANGED << session, seen, said >> /\ (~Unwritten \/ rx' = rx)
  BY DEF Next, Device, PollFirst, ReadPrefix, ReadBody, ReadFails, TvSend, TvClose, vars, Unwritten
<1> QED
  BY <1>1, <1>2, <1>3, <1>4, <1>5

LEMMA AnsweredIsAnswered ==
  ASSUME Inv, Answered
  PROVE  PingsAnswered
<1> SUFFICES ASSUME session = "RemoteMessage"
             PROVE  PingsAnswered
  BY DEF PingsAnswered
<1> DEFINE pongs == {j \in DOMAIN said : IsPong(said[j].msg)}
<1>1. DOMAIN said = 1 .. Len(said) /\ DOMAIN seen = 1 .. Len(seen)
  BY LenProperties DEF Inv, Types
<1>2. \A j : j \in pongs <=> j \in 1 .. Len(said) /\ PongAt(j)
  BY <1>1 DEF PongAt
<1> HIDE DEF pongs
<1>3. \A i \in DOMAIN seen : IsPing(seen[i]) => \/ \E j \in pongs : Answers(j, i)
                                                \/ i = Len(seen) /\ rx.why = "write"
  BY <1>1, <1>2 DEF Answered, AnsweredBy, Unwritten
<1>4. \A j \in pongs : \E i \in DOMAIN seen : Answers(j, i)
  BY <1>1, <1>2 DEF Answered, AnsweredBy
<1>5. \A j, k \in pongs : j < k => said[j].to < said[k].to
  BY <1>2 DEF Answered
<1> QED
  BY <1>3, <1>4, <1>5 DEF PingsAnswered, pongs

(* Every ping the remote session decodes is answered once, in order and with *)
(* its number, for any number of pings and of the device's own messages in   *)
(* between (handle_msg, send_msg).                                           *)
THEOREM AlwaysPingsAnswered ==
  ASSUME CodecCarries
  PROVE  Spec => []PingsAnswered
<1>1. Init => Answered
  <2>1. ASSUME Init
        PROVE  Answered
    <3>1. Len(seen) = 0 /\ Len(said) = 0
      BY <2>1, EmptySeq DEF Init
    <3> QED
      BY <3>1 DEF Answered
  <2> QED
    BY <2>1
<1>2. Inv /\ Answered /\ [Next]_vars => Answered'
  BY KeepsAnswered
<1>3. Inv /\ Answered => PingsAnswered
  BY AnsweredIsAnswered
<1> QED
  BY <1>1, <1>2, <1>3, Invariance, PTL DEF Spec

-------------------------------------------------------------------------------
(* The message channel.                                                      *)

Up == rx.at # "down"

LEMMA Steps ==
  ASSUME CodecAgrees, Inv, Next
  PROVE  \/ Channel!Next
         \/ UNCHANGED << sent, seen, Up >>
<1>0. Up \in BOOLEAN /\ Up' \in BOOLEAN
  BY DEF Up
<1>1. CASE TvSend
  <2>1. /\ \E f \in DOMAIN Frames : sent' = Append(sent, f)
        /\ UNCHANGED << seen, rx >>
    <3>1. PICK talk \in Talks : /\ Len(sent) < Len(talk)
                                /\ sent' = Append(sent, talk[Len(sent) + 1])
      BY <1>1 DEF TvSend
    <3>2. talk \in Seq(DOMAIN Frames) /\ Len(sent) \in Nat
      BY <3>1, TalkAssumption, LenProperties DEF Inv, Types
    <3>3. Len(sent) + 1 \in 1 .. Len(talk)
      BY <3>1, <3>2, LenProperties
    <3>4. talk[Len(sent) + 1] \in DOMAIN Frames
      BY <3>2, <3>3, ElementOfSeq
    <3> QED
      BY <3>1, <3>4, <1>1 DEF TvSend
  <2> QED
    BY <2>1 DEF Channel!Next, Channel!Send
<1>2. CASE Handle
  <2>1. rx.at = "body"
    BY <1>2 DEF Handle
  <2>2. PICK n : n = Len(seen) + 1
    OBVIOUS
  <2>3. sent[n] \in DOMAIN Frames /\ n <= Len(sent) /\ Len(sent) \in Nat
        /\ seen' = Append(seen, Decoded(sent[n])) /\ sent' = sent
    BY <1>2, <2>2, HandsUp DEF Inv
  <2>4. seen' = Append(seen, Sense[sent[n]])
    BY <2>3 DEF CodecAgrees
  <2>5. Len(seen) \in Nat
    BY LenProperties DEF Inv, Types
  <2>6. Len(seen) < Len(sent)
    BY <2>2, <2>3, <2>5
  <2> QED
    BY <2>1, <2>2, <2>3, <2>4, <2>6 DEF Channel!Next, Channel!HandUp
<1>3. CASE UNCHANGED << sent, seen >> /\ (Up \/ UNCHANGED rx)
  <2>1. CASE Up /\ ~Up'
    BY <2>1, <1>3 DEF Channel!Next, Channel!End, Up
  <2>2. CASE Up' = Up
    BY <2>2, <1>3
  <2>3. Up' = Up \/ (Up /\ ~Up')
    BY <1>3 DEF Up
  <2> QED
    BY <2>1, <2>2, <2>3
<1>4. TvSend \/ Handle \/ (UNCHANGED << sent, seen >> /\ (Up \/ UNCHANGED rx))
  BY DEF Next, Device, PollFirst, ReadPrefix, ReadBody, SendQueued, StartPairing, ReadFails,
         TvClose, Up
<1> QED
  BY <1>1, <1>2, <1>3, <1>4

(* With a codec that agrees with what the frames say, every session is one   *)
(* of the message channel: each frame is handed up once, in order, with its  *)
(* meaning, until the session ends (frame_recv, pb_decode).                  *)
THEOREM Implementation ==
  ASSUME CodecAgrees
  PROVE  Spec => ImplementsChannel
<1>1. Init => Channel!Init
  <2>1. ASSUME Init
        PROVE  Channel!Init
    <3>1. rx.at # "down"
      BY <2>1, IdleIsReader DEF Init
    <3> QED
      BY <2>1, <3>1 DEF Init, Channel!Init
  <2> QED
    BY <2>1
<1>2. Inv /\ [Next]_vars => [Channel!Next]_<< sent, seen, rx.at # "down" >>
  <2>1. ASSUME Inv, Next
        PROVE  [Channel!Next]_<< sent, seen, rx.at # "down" >>
    BY <2>1, Steps DEF Up
  <2>2. ASSUME UNCHANGED vars
        PROVE  UNCHANGED << sent, seen, rx.at # "down" >>
    BY <2>2 DEF vars
  <2> QED
    BY <2>1, <2>2
<1> QED
  BY <1>1, <1>2, Invariance, PTL DEF Spec, ImplementsChannel, Channel!Spec
===============================================================================
