----------------------------- MODULE Codec_proofs -----------------------------
(***************************************************************************)
(* Whatever bytes a reader gets, parse() meets no element that             *)
(* messageCategory() did not see, and reads no more than three bytes       *)
(* beyond the message.  Elements of any content are unpacked as they were  *)
(* packed, the reader is told the message's length, and a message that     *)
(* arrives as it was packed is understood.                                 *)
(***************************************************************************)
EXTENDS Codec, SequenceTheorems, WellFoundedInduction, TLAPS

-----------------------------------------------------------------------------
(* Sequences put together.  What holds of a part of any length is shown by *)
(* induction over the set of the lengths of which it holds.                *)

\* A set of numbers in which each is followed by the next, up to most.
LEMMA EachFollowed ==
  ASSUME NEW most \in Nat, NEW T, 1 \in T, \A n \in 1..(most - 1) : n \in T => n + 1 \in T
  PROVE  \A n \in 1..most : n \in T
  <1> DEFINE R == OpToRel(<, Nat)
             U == (1..most) \ T
  <1>1. \A x, y \in Nat : x < y => <<x, y>> \in R
    BY DEF OpToRel
  <1>2. IsWellFoundedOn(R, Nat)
    BY NatLessThanWellFounded
  <1> HIDE DEF R
  <1>3. ASSUME U # {} PROVE FALSE
    <2>1. U \subseteq Nat
      OBVIOUS
    <2> HIDE DEF U
    <2>2. PICK m \in U : \A k \in U : ~ (<<k, m>> \in R)
      BY <1>2, <1>3, <2>1, WFMin
    <2>3. m \in 1..most /\ m \notin T
      BY DEF U
    <2>4. m - 1 \in 1..(most - 1) /\ m - 1 + 1 = m /\ m - 1 \in Nat /\ m \in Nat
          /\ m - 1 < m /\ m - 1 \in 1..most
      BY <2>3
    <2>5. m - 1 \notin T
      BY <2>3, <2>4
    <2>6. m - 1 \in U
      BY <2>4, <2>5 DEF U
    <2> QED
      BY <1>1, <2>2, <2>4, <2>6
  <1> QED
    BY <1>3

\* f holds what FlattenSeq() makes of the first sequences of s, up to n.
Flattens(s, n, f) == f = [i \in 1..n |-> IF i = 1 THEN s[i] ELSE f[i-1] \o s[i]]

\* There is such a function ..
LEMMA FlattenExists ==
  ASSUME NEW s, NEW most \in Nat \ {0}
  PROVE  \E f : Flattens(s, most, f)
  <1> DEFINE T == {n \in 1..most : \E f : Flattens(s, n, f)}
  <1>1. 1 \in T
    <2> DEFINE f == [i \in 1..1 |-> s[i]]
    <2>1. Flattens(s, 1, f)
      BY DEF Flattens
    <2> QED
      BY <2>1
  <1>2. ASSUME NEW n \in 1..(most - 1), n \in T
        PROVE  n + 1 \in T
    <2>1. PICK f : Flattens(s, n, f)
      BY <1>2
    <2> DEFINE g == [i \in 1..(n + 1) |-> IF i = n + 1 THEN f[n] \o s[n + 1] ELSE f[i]]
    <2>2. n \in Nat /\ 1 <= n /\ n + 1 \in 1..most
      OBVIOUS
    <2>3. \A i \in 1..(n + 1) : g[i] = IF i = n + 1 THEN f[n] \o s[n + 1] ELSE f[i]
      OBVIOUS
    <2>4. g = [i \in 1..(n + 1) |-> g[i]]
      OBVIOUS
    <2> HIDE DEF g
    <2>5. \A i \in 1..n : g[i] = f[i] /\ f[i] = IF i = 1 THEN s[i] ELSE f[i - 1] \o s[i]
      <3>1. \A i \in 1..n : f[i] = IF i = 1 THEN s[i] ELSE f[i - 1] \o s[i]
        BY <2>1 DEF Flattens
      <3>2. \A i \in 1..n : i \in 1..(n + 1) /\ i # n + 1
        BY <2>2
      <3> QED
        BY <2>3, <3>1, <3>2
    <2>6. ASSUME NEW i \in 1..(n + 1)
          PROVE  g[i] = IF i = 1 THEN s[i] ELSE g[i - 1] \o s[i]
      <3>1. CASE i = n + 1
        <4>1. i # 1 /\ i - 1 = n /\ n \in 1..n
          BY <2>2, <3>1
        <4>2. g[i] = f[n] \o s[i] /\ g[n] = f[n]
          BY <2>3, <2>5, <3>1, <4>1
        <4> QED
          BY <4>1, <4>2
      <3>2. CASE i = 1
        <4>1. 1 \in 1..n
          BY <2>2
        <4> QED
          BY <2>5, <3>2, <4>1
      <3>3. CASE i # 1 /\ i # n + 1
        <4>1. i \in 1..n /\ i - 1 \in 1..n
          BY <2>2, <3>3
        <4> QED
          BY <2>5, <3>3, <4>1
      <3> QED
        BY <3>1, <3>2, <3>3
    <2>7. Flattens(s, n + 1, g)
      BY <2>4, <2>6 DEF Flattens
    <2> QED
      BY <2>2, <2>7
  <1>3. most \in Nat /\ most \in 1..most
    OBVIOUS
  <1> HIDE DEF T
  <1>4. most \in T
    BY <1>1, <1>2, <1>3, EachFollowed
  <1> QED
    BY <1>4 DEF T

\* .. and FlattenSeq() returns the last of its values.
LEMMA FlattenUnfolds ==
  ASSUME NEW s, Len(s) \in Nat \ {0}
  PROVE  \E f : Flattens(s, Len(s), f) /\ FlattenSeq(s) = f[Len(s)]
  <1> DEFINE f == CHOOSE f : f = [i \in 1..Len(s) |-> IF i = 1 THEN s[i] ELSE f[i-1] \o s[i]]
  <1>1. \E g : Flattens(s, Len(s), g)
    BY FlattenExists
  <1>2. Flattens(s, Len(s), f)
    BY <1>1 DEF Flattens
  <1>3. FlattenSeq(s) = f[Len(s)]
    BY DEF FlattenSeq
  <1> QED
    BY <1>2, <1>3

\* The i-th of the sequences s begins behind at[i] elements.
Begins(s, at) ==
  /\ at \in [1..Len(s) -> Nat] /\ at[1] = 0
  /\ \A i \in 1..(Len(s) - 1) : at[i + 1] = at[i] + Len(s[i])

\* The first n of the sequences s stand in t, one by one.
Placed(s, at, n, t) ==
  \A i \in 1..n : \A k \in 1..Len(s[i]) : t[at[i] + k] = s[i][k]

\* A sequence begins behind the end of each before it.
LEMMA BeginsBehind ==
  ASSUME NEW S, NEW s \in Seq(Seq(S)), NEW at, Begins(s, at)
  PROVE  \A n \in 1..Len(s) : \A i \in 1..(n - 1) : at[i] + Len(s[i]) <= at[n]
  <1> DEFINE T == {n \in 1..Len(s) : \A i \in 1..(n - 1) : at[i] + Len(s[i]) <= at[n]}
  <1>1. CASE Len(s) = 0
    BY <1>1
  <1>2. CASE Len(s) # 0
    <2>1. Len(s) \in Nat /\ Len(s) >= 1
      BY <1>2, LenProperties
    <2>2. 1 \in T
      BY <2>1
    <2>3. ASSUME NEW n \in 1..(Len(s) - 1), n \in T
          PROVE  n + 1 \in T
      <3>1. n \in 1..Len(s) /\ n + 1 \in 1..Len(s) /\ n \in Nat
        BY <2>1
      <3>2. \A i \in 1..Len(s) : at[i] \in Nat /\ Len(s[i]) \in Nat
        BY ElementOfSeq, LenProperties DEF Begins
      <3>3. at[n + 1] = at[n] + Len(s[n])
        BY DEF Begins
      <3>4. ASSUME NEW i \in 1..n
            PROVE  at[i] + Len(s[i]) <= at[n + 1]
        <4>1. CASE i = n
          BY <3>1, <3>2, <3>3, <4>1
        <4>2. CASE i # n
          <5>1. i \in 1..(n - 1) /\ i \in 1..Len(s)
            BY <2>1, <3>1, <4>2
          <5>2. at[i] + Len(s[i]) <= at[n]
            BY <2>3, <5>1
          <5>3. at[i] \in Nat /\ Len(s[i]) \in Nat /\ at[n] \in Nat /\ Len(s[n]) \in Nat
            BY <3>1, <3>2, <5>1
          <5> QED
            BY <3>3, <5>2, <5>3
        <4> QED
          BY <4>1, <4>2
      <3>5. n + 1 - 1 = n
        BY <3>1
      <3> QED
        BY <3>1, <3>4, <3>5
    <2> HIDE DEF T
    <2>4. \A n \in 1..Len(s) : n \in T
      BY <2>1, <2>2, <2>3, EachFollowed
    <2> QED
      BY <2>4 DEF T
  <1> QED
    BY <1>1, <1>2

\* A position of a part that is put behind b others, among them all and in the part.
LEMMA WithinNext ==
  ASSUME NEW b \in Nat, NEW c \in Nat, NEW k \in Nat, 1 <= k, k <= c
  PROVE  b + k \in 1..(b + c) /\ ~ (b + k <= b) /\ (b + k) - b = k
  OBVIOUS

\* The same for a part that lies in front.
LEMMA WithinFront ==
  ASSUME NEW a \in Nat, NEW l \in Nat, NEW b \in Nat, NEW c \in Nat, a + l <= b,
         NEW k \in Nat, 1 <= k, k <= l
  PROVE  a + k \in 1..(b + c) /\ a + k <= b
  OBVIOUS

\* Sequences in their places, and one more behind them.
LEMMA OneMorePlaced ==
  ASSUME NEW S, NEW s \in Seq(Seq(S)), NEW at, Begins(s, at),
         NEW n \in 1..Len(s), NEW p \in Seq(S), Len(p) = at[n], Placed(s, at, n - 1, p)
  PROVE  /\ p \o s[n] \in Seq(S)
         /\ Len(p \o s[n]) = at[n] + Len(s[n])
         /\ Placed(s, at, n, p \o s[n])
  <1>1. s[n] \in Seq(S) /\ Len(s) \in Nat
    BY ElementOfSeq, LenProperties
  <1>2. /\ p \o s[n] \in Seq(S)
        /\ Len(p \o s[n]) = at[n] + Len(s[n])
        /\ \A j \in 1..(at[n] + Len(s[n])) :
             (p \o s[n])[j] = IF j <= at[n] THEN p[j] ELSE s[n][j - at[n]]
    <2>1. /\ p \o s[n] \in Seq(S)
          /\ Len(p \o s[n]) = Len(p) + Len(s[n])
          /\ \A j \in 1..(Len(p) + Len(s[n])) :
               (p \o s[n])[j] = IF j <= Len(p) THEN p[j] ELSE s[n][j - Len(p)]
      BY <1>1, ConcatProperties
    <2> QED
      BY <2>1
  <1>3. \A i \in 1..Len(s) : at[i] \in Nat /\ Len(s[i]) \in Nat
    BY ElementOfSeq, LenProperties DEF Begins
  <1>4. ASSUME NEW i \in 1..n, NEW k \in 1..Len(s[i])
        PROVE  (p \o s[n])[at[i] + k] = s[i][k]
    <2>1. i \in 1..Len(s) /\ at[i] \in Nat /\ at[n] \in Nat /\ Len(s[i]) \in Nat
          /\ Len(s[n]) \in Nat /\ k \in Nat /\ 1 <= k /\ k <= Len(s[i])
      <3>1. i \in 1..Len(s)
        BY <1>1
      <3> QED
        BY <1>3, <3>1
    <2>2. CASE i = n
      <3> DEFINE j == at[n] + k
      <3>1. j \in 1..(at[n] + Len(s[n])) /\ ~ (j <= at[n]) /\ j - at[n] = k
        <4>1. /\ at[n] \in Nat /\ Len(s[n]) \in Nat
              /\ k \in Nat /\ 1 <= k /\ k <= Len(s[n])
          BY <2>1, <2>2
        <4> QED
          BY <4>1, WithinNext
      <3>2. (p \o s[n])[j] = s[n][k]
        <4> HIDE DEF j
        <4> QED
          BY <1>2, <3>1
      <3> QED
        BY <2>2, <3>2
    <2>3. CASE i # n
      <3>1. i \in 1..(n - 1)
        BY <1>1, <2>3
      <3>2. at[i] + Len(s[i]) <= at[n]
        BY <3>1, BeginsBehind
      <3>3. at[i] + k \in 1..(at[n] + Len(s[n])) /\ at[i] + k <= at[n]
        BY <2>1, <3>2, WithinFront
      <3>4. (p \o s[n])[at[i] + k] = p[at[i] + k]
        BY <1>2, <3>3
      <3> QED
        BY <3>1, <3>4 DEF Placed
    <2> QED
      BY <2>2, <2>3
  <1> QED
    BY <1>2, <1>4 DEF Placed

\* FlattenSeq(): sequences put together stand there one by one.
LEMMA FlattenPlaces ==
  ASSUME NEW S, NEW s \in Seq(Seq(S)), Len(s) # 0, NEW at, Begins(s, at)
  PROVE  /\ FlattenSeq(s) \in Seq(S)
         /\ Len(FlattenSeq(s)) = at[Len(s)] + Len(s[Len(s)])
         /\ Placed(s, at, Len(s), FlattenSeq(s))
  <1>0. Len(s) \in Nat \ {0} /\ 1 \in 1..Len(s) /\ Len(s) \in 1..Len(s)
    BY LenProperties
  <1>1. PICK f : Flattens(s, Len(s), f) /\ FlattenSeq(s) = f[Len(s)]
    BY <1>0, FlattenUnfolds
  <1>2. \A i \in 1..Len(s) : f[i] = IF i = 1 THEN s[i] ELSE f[i - 1] \o s[i]
    BY <1>1 DEF Flattens
  <1> DEFINE Holds(n) == /\ f[n] \in Seq(S)
                         /\ Len(f[n]) = at[n] + Len(s[n])
                         /\ Placed(s, at, n, f[n])
             T == {n \in 1..Len(s) : Holds(n)}
  <1>3. 1 \in T
    <2>1. f[1] = s[1] /\ s[1] \in Seq(S) /\ Len(s[1]) \in Nat /\ at[1] = 0
      BY <1>0, <1>2, ElementOfSeq, LenProperties DEF Begins
    <2>2. \A k \in 1..Len(s[1]) : 0 + k = k
      BY <2>1
    <2>3. Placed(s, at, 1, s[1])
      BY <2>1, <2>2 DEF Placed
    <2> QED
      BY <1>0, <2>1, <2>3
  <1>4. ASSUME NEW n \in 1..(Len(s) - 1), n \in T
        PROVE  n + 1 \in T
    <2> DEFINE m == n + 1
    <2>1. n \in Nat /\ m \in 1..Len(s) /\ m # 1 /\ m - 1 = n
      BY <1>0
    <2>2. at[m] = at[n] + Len(s[n])
      BY DEF Begins
    <2>3. f[n] \in Seq(S) /\ Len(f[n]) = at[m] /\ Placed(s, at, m - 1, f[n])
      BY <1>4, <2>1, <2>2
    <2> HIDE DEF m
    <2>4. f[m] = f[n] \o s[m]
      BY <1>2, <2>1
    <2>5. /\ f[n] \o s[m] \in Seq(S)
          /\ Len(f[n] \o s[m]) = at[m] + Len(s[m])
          /\ Placed(s, at, m, f[n] \o s[m])
      BY <2>1, <2>3, OneMorePlaced
    <2>6. Holds(m)
      BY <2>4, <2>5
    <2> QED
      BY <2>1, <2>6 DEF m
  <1> HIDE DEF T
  <1>5. \A n \in 1..Len(s) : n \in T
    BY <1>0, <1>3, <1>4, EachFollowed
  <1>6. Holds(Len(s))
    BY <1>0, <1>5 DEF T
  <1> QED
    BY <1>1, <1>6

\* The fields of an element fill it, except those of a location.
LEMMA SizeIsLength ==
  ASSUME NEW i \in Ids \ Payloads
  PROVE  /\ ElementLength(i) \in Nat
         /\ i # eMoLocationInfo => Size(i) = ElementLength(i)
         /\ i = eMoLocationInfo => Size(i) = ElementLength(i) + 3
  <1> USE DEF Size, Layout, ElementLength, Copied, Swapped, Field, Last, eMoHeader,
              eMoLocationInfo, eMoConfirmation, eMtHeader, eMtConfirmationMsg, eMtMsgPriority
  <1>1. CASE i = eMoHeader
    BY <1>1 DEF IEMoHeader
  <1>2. CASE i = eMoLocationInfo
    BY <1>2 DEF IEMoLocationInfo
  <1>3. CASE i = eMoConfirmation
    BY <1>3 DEF IEMoConfirmation
  <1>4. CASE i = eMtHeader
    BY <1>4 DEF IEMtHeader
  <1>5. CASE i = eMtConfirmationMsg
    BY <1>5 DEF IEMtConfirmationMsg
  <1>6. CASE i = eMtMsgPriority
    BY <1>6 DEF IEMtPriority
  <1>7. i \in {eMoHeader, eMoLocationInfo, eMoConfirmation, eMtHeader,
               eMtConfirmationMsg, eMtMsgPriority}
    BY Zenon DEF Ids
  <1> QED
    BY <1>1, <1>2, <1>3, <1>4, <1>5, <1>6, <1>7

-----------------------------------------------------------------------------
(* The bytes of an element.                                                *)

\* What packInto() and unpack() do to a field of a layout.
Conversion(i, f) ==
  \/ f.out \in {"copy", "swap"} /\ f.in = f.out
  \/ i = eMoLocationInfo /\ f.out = "swap16" /\ f.width = 4
  \/ i = eMtHeader /\ f = Field(19, 2, "flags", "copy")

\* The fields of an element lie one behind the other.
LEMMA LayoutFields ==
  ASSUME NEW i \in Ids \ Payloads
  PROVE  /\ Len(Layout(i)) \in Nat \ {0}
         /\ DOMAIN Layout(i) = 1..Len(Layout(i))
         /\ \A k \in 1..Len(Layout(i)) : /\ Layout(i)[k].at \in Nat /\ Layout(i)[k].width \in Nat
                                         /\ Conversion(i, Layout(i)[k])
         /\ Layout(i)[1].at = 0
         /\ \A k \in 1..(Len(Layout(i)) - 1) :
              Layout(i)[k + 1].at = Layout(i)[k].at + Layout(i)[k].width
         /\ i = eMtHeader => /\ Len(Layout(i)) = 3
                             /\ \A k \in 1..2 : Layout(i)[k].out # "flags"
  <1> USE DEF Layout, Copied, Swapped, Field, Conversion, eMoHeader, eMoLocationInfo,
              eMoConfirmation, eMtHeader, eMtConfirmationMsg, eMtMsgPriority
  <1>1. CASE i = eMoHeader
    BY <1>1 DEF IEMoHeader
  <1>2. CASE i = eMoLocationInfo
    BY <1>2 DEF IEMoLocationInfo
  <1>3. CASE i = eMoConfirmation
    BY <1>3 DEF IEMoConfirmation
  <1>4. CASE i = eMtHeader
    BY <1>4 DEF IEMtHeader
  <1>5. CASE i = eMtConfirmationMsg
    BY <1>5 DEF IEMtConfirmationMsg
  <1>6. CASE i = eMtMsgPriority
    BY <1>6 DEF IEMtPriority
  <1>7. i \in {eMoHeader, eMoLocationInfo, eMoConfirmation, eMtHeader,
               eMtConfirmationMsg, eMtMsgPriority}
    BY Zenon DEF Ids
  <1> QED
    BY <1>1, <1>2, <1>3, <1>4, <1>5, <1>6, <1>7

\* htonl(), htons(): what is swapped twice is as it was.
LEMMA SwappedTwice ==
  ASSUME NEW f \in Seq(Byte)
  PROVE  Reverse(f) \in Seq(Byte) /\ Len(Reverse(f)) = Len(f) /\ Reverse(Reverse(f)) = f
  <1>1. Len(f) \in Nat /\ \A i \in 1..Len(f) : f[i] \in Byte
    BY LenProperties, ElementOfSeq
  <1>2. Reverse(f) = [i \in 1..Len(f) |-> f[(Len(f) - i) + 1]]
    BY DEF Reverse
  <1>3. \A i \in 1..Len(f) : (Len(f) - i) + 1 \in 1..Len(f) /\ (Len(f) - ((Len(f) - i) + 1)) + 1 = i
    BY <1>1
  <1>4. Reverse(f) \in Seq(Byte) /\ Len(Reverse(f)) = Len(f)
    <2>1. Reverse(f) \in [1..Len(f) -> Byte]
      BY <1>1, <1>2, <1>3
    <2> QED
      BY <1>1, <2>1, SeqDef, LenProperties
  <1> DEFINE r == Reverse(f)
  <1>5. Reverse(r) = [i \in 1..Len(r) |-> r[(Len(r) - i) + 1]]
    BY DEF Reverse
  <1>6. \A i \in 1..Len(f) : r[i] = f[(Len(f) - i) + 1]
    BY <1>2
  <1> HIDE DEF r
  <1>7. Len(r) = Len(f)
    BY <1>4 DEF r
  <1>8. \A i \in 1..Len(f) : Reverse(r)[i] = f[i]
    BY <1>3, <1>5, <1>6, <1>7
  <1>9. Reverse(r) = f
    <2>1. f = [i \in 1..Len(f) |-> f[i]]
      BY SeqDef, LenProperties
    <2> QED
      BY <1>3, <1>5, <1>6, <1>7, <2>1
  <1> QED
    BY <1>4, <1>9 DEF r

\* A field keeps its size, and if it is not one of the flags its value.
LEMMA Converted ==
  ASSUME NEW i, NEW l, Conversion(i, l), NEW f \in Seq(Byte), Len(f) = l.width
  PROVE  /\ Convert(l.out, f) \in Seq(Byte)
         /\ Len(Convert(l.out, f)) = l.width
         /\ i # eMoLocationInfo /\ (l.out = "flags" => f = <<0, 0>>) =>
              Convert(l.in, Convert(l.out, f)) = f
  <1>1. CASE l.out = "copy" /\ l.in = "copy"
    BY <1>1 DEF Convert
  <1>2. CASE l.out = "swap" /\ l.in = "swap"
    BY <1>2, SwappedTwice DEF Convert
  <1>3. CASE i = eMoLocationInfo /\ l.out = "swap16" /\ l.width = 4
    <2>1. f[1] \in Byte /\ f[2] \in Byte /\ 0 \in Byte
      <3>1. 1 \in 1..Len(f) /\ 2 \in 1..Len(f)
        BY <1>3
      <3> QED
        BY <3>1, ElementOfSeq DEF Byte
    <2>2. Convert(l.out, f) = <<f[2], f[1], 0, 0>>
      BY <1>3 DEF Convert
    <2>3. <<f[2], f[1], 0, 0>> \in Seq(Byte) /\ Len(<<f[2], f[1], 0, 0>>) = 4
      BY <2>1
    <2> QED
      BY <1>3, <2>2, <2>3
  <1>4. CASE i = eMtHeader /\ l = Field(19, 2, "flags", "copy")
    <2>1. l.out = "flags" /\ l.in = "copy" /\ l.width = 2
      BY <1>4 DEF Field
    <2> DEFINE b == f[1]
               v == 8 * ((b % 64) \div 8) + (b % 4)
    <2>2. b \in Byte
      <3>1. 1 \in 1..Len(f)
        BY <1>4, <2>1
      <3> QED
        BY <3>1, ElementOfSeq
    <2>3. Convert(l.out, f) = <<0, v>>
      BY <2>1 DEF Convert
    <2>4. f = <<0, 0>> => b = 0
      OBVIOUS
    <2> HIDE DEF b
    <2>5. v \in Byte /\ 0 \in Byte /\ (b = 0 => v = 0)
      BY <2>2 DEF Byte
    <2> HIDE DEF v
    <2>6. <<0, v>> \in Seq(Byte) /\ Len(<<0, v>>) = 2
      BY <2>5
    <2>7. f = <<0, 0>> => Convert(l.in, Convert(l.out, f)) = f
      BY <2>1, <2>3, <2>4, <2>5 DEF Convert
    <2> QED
      BY <1>4, <2>1, <2>3, <2>6, <2>7
  <1> QED
    BY <1>1, <1>2, <1>3, <1>4 DEF Conversion

\* The fields of an element as they are packed, and what follows its header.
Fields(e) == [i \in DOMAIN e.content |-> Convert(Layout(e.id)[i].out, e.content[i])]
Body(e) == IF e.id \in Payloads THEN e.content[1] ELSE FlattenSeq(Fields(e))

\* The fields are packed one behind the other.
LEMMA FieldsPlaced ==
  ASSUME NEW e \in Element, e.id \notin Payloads
  PROVE  /\ Body(e) \in Seq(Byte)
         /\ Len(Body(e)) = Size(e.id)
         /\ \A i \in 1..Len(Layout(e.id)) :
              /\ e.content[i] \in Seq(Byte) /\ Len(e.content[i]) = Layout(e.id)[i].width
              /\ Len(Fields(e)[i]) = Layout(e.id)[i].width
              /\ Layout(e.id)[i].at + Layout(e.id)[i].width <= Size(e.id)
              /\ \A k \in 1..Layout(e.id)[i].width :
                   Body(e)[Layout(e.id)[i].at + k] = Fields(e)[i][k]
  <1> DEFINE ls == Layout(e.id)
             fs == Fields(e)
             at == [i \in 1..Len(ls) |-> ls[i].at]
  <1>1. e.id \in Ids \ Payloads /\ e.content \in Seq(Seq(Byte)) /\ Len(e.content) = Len(ls)
        /\ DOMAIN e.content = 1..Len(ls)
        /\ \A i \in 1..Len(ls) : e.content[i] \in Seq(Byte) /\ Len(e.content[i]) = ls[i].width
    <2>1. e.id \in Ids \ Payloads /\ e.content \in Seq(Seq(Byte)) /\ HasLayout(e)
      BY DEF Element
    <2>2. DOMAIN e.content = 1..Len(e.content)
      BY <2>1, LenProperties
    <2>3. \A i \in 1..Len(e.content) : e.content[i] \in Seq(Byte)
      BY <2>1, ElementOfSeq
    <2> QED
      BY <2>1, <2>2, <2>3 DEF HasLayout
  <1>2. /\ Len(ls) \in Nat \ {0}
        /\ \A k \in 1..Len(ls) : /\ ls[k].at \in Nat /\ ls[k].width \in Nat
                                 /\ Conversion(e.id, ls[k])
        /\ ls[1].at = 0
        /\ \A k \in 1..(Len(ls) - 1) : ls[k + 1].at = ls[k].at + ls[k].width
    BY <1>1, LayoutFields
  <1>3. Size(e.id) = ls[Len(ls)].at + ls[Len(ls)].width
    BY DEF Size, Last
  <1> HIDE DEF ls
  <1>4. fs = [i \in 1..Len(ls) |-> Convert(ls[i].out, e.content[i])]
    BY <1>1 DEF Fields, ls
  <1> HIDE DEF fs
  <1>5. \A i \in 1..Len(ls) : fs[i] \in Seq(Byte) /\ Len(fs[i]) = ls[i].width
    <2> TAKE i \in 1..Len(ls)
    <2>1. fs[i] = Convert(ls[i].out, e.content[i])
      BY <1>4
    <2> QED
      BY <1>1, <1>2, <2>1, Converted
  <1>6. fs \in Seq(Seq(Byte)) /\ Len(fs) = Len(ls)
    <2>1. fs \in [1..Len(ls) -> Seq(Byte)]
      BY <1>4, <1>5
    <2> QED
      BY <1>2, <2>1, SeqDef, LenProperties
  <1>7. Begins(fs, at)
    <2>1. \A i \in 1..(Len(ls) - 1) : i \in 1..Len(ls) /\ i + 1 \in 1..Len(ls)
      BY <1>2
    <2>2. 1 \in 1..Len(ls)
      BY <1>2
    <2> QED
      BY <1>2, <1>5, <1>6, <2>1, <2>2 DEF Begins
  <1>8. /\ FlattenSeq(fs) \in Seq(Byte)
        /\ Len(FlattenSeq(fs)) = at[Len(fs)] + Len(fs[Len(fs)])
        /\ Placed(fs, at, Len(fs), FlattenSeq(fs))
    BY <1>2, <1>6, <1>7, FlattenPlaces
  <1>9. Body(e) = FlattenSeq(fs)
    BY DEF Body, fs
  <1>10. Len(ls) \in 1..Len(ls)
    BY <1>2
  <1>11. Len(Body(e)) = Size(e.id)
    BY <1>3, <1>5, <1>6, <1>8, <1>9, <1>10
  <1>12. ASSUME NEW i \in 1..Len(ls)
         PROVE  ls[i].at + ls[i].width <= Size(e.id)
    <2>1. CASE i = Len(ls)
      BY <1>2, <1>3, <1>10, <2>1
    <2>2. CASE i # Len(ls)
      <3>1. i \in 1..(Len(fs) - 1)
        BY <1>2, <1>6, <2>2
      <3>2. at[i] + Len(fs[i]) <= at[Len(fs)]
        BY <1>6, <1>7, <1>10, <3>1, BeginsBehind
      <3>3. ls[i].at + ls[i].width <= ls[Len(ls)].at
        BY <1>5, <1>6, <1>10, <3>2
      <3> QED
        BY <1>2, <1>3, <1>10, <3>3
    <2> QED
      BY <2>1, <2>2
  <1>13. \A i \in 1..Len(ls) : \A k \in 1..ls[i].width : Body(e)[ls[i].at + k] = fs[i][k]
    BY <1>5, <1>6, <1>8, <1>9 DEF Placed
  <1> QED
    BY <1>1, <1>5, <1>8, <1>9, <1>11, <1>12, <1>13 DEF ls, fs

\* A payload that two bytes can count.
Counted(e) == e.id \in Payloads => Len(e.content[1]) < 65536

\* The header of an element.
HeaderOf(e) == <<e.id, getLength(e) \div 256, getLength(e) % 256>>

\* A number that two bytes hold.
LEMMA Remainder ==
  ASSUME NEW x \in Nat
  PROVE  x % 65536 \in Nat /\ x % 65536 < 65536 /\ (x < 65536 => x % 65536 = x)
  OBVIOUS

\* The length in two bytes, high and low.
LEMMA TwoBytes ==
  ASSUME NEW x \in Nat, x < 65536
  PROVE  x \div 256 \in Byte /\ x % 256 \in Byte /\ Word(x \div 256, x % 256) = x
  BY DEF Byte, Word

\* packInto(): the header, then the content.
LEMMA PackedBytes ==
  ASSUME NEW e \in Element
  PROVE  /\ Pack(e) \in Seq(Byte)
         /\ Len(Body(e)) \in Nat
         /\ Len(Pack(e)) = 3 + Len(Body(e))
         /\ Pack(e)[1] = e.id /\ Word(Pack(e)[2], Pack(e)[3]) = getLength(e)
         /\ \A k \in 1..Len(Body(e)) : Pack(e)[3 + k] = Body(e)[k]
         /\ getLength(e) \in Nat
         /\ e.id # eMoLocationInfo => getLength(e) = Len(Body(e)) % 65536
         /\ e.id # eMoLocationInfo /\ Counted(e) => getLength(e) = Len(Body(e))
  <1> DEFINE h == HeaderOf(e)
  <1>1. e.id \in Ids /\ e.content \in Seq(Seq(Byte)) /\ HasLayout(e)
    BY DEF Element
  <1>2. Body(e) \in Seq(Byte) /\ Len(Body(e)) \in Nat
    <2>1. CASE e.id \in Payloads
      <3>1. Len(e.content) = 1
        BY <1>1, <2>1 DEF HasLayout
      <3>2. 1 \in 1..Len(e.content)
        BY <3>1
      <3>3. e.content[1] \in Seq(Byte)
        BY <1>1, <3>2, ElementOfSeq
      <3> QED
        BY <2>1, <3>3, LenProperties DEF Body
    <2>2. CASE e.id \notin Payloads
      BY <2>2, FieldsPlaced, LenProperties
    <2> QED
      BY <2>1, <2>2
  <1>3. /\ getLength(e) \in Nat /\ getLength(e) < 65536
        /\ e.id # eMoLocationInfo => getLength(e) = Len(Body(e)) % 65536
        /\ e.id # eMoLocationInfo /\ Counted(e) => getLength(e) = Len(Body(e))
    <2>1. CASE e.id \in Payloads
      <3>1. getLength(e) = Len(Body(e)) % 65536
        BY <2>1 DEF getLength, Body
      <3>2. Counted(e) => Len(Body(e)) < 65536
        BY <2>1 DEF Counted, Body
      <3>3. Len(Body(e)) % 65536 \in Nat /\ Len(Body(e)) % 65536 < 65536
            /\ (Len(Body(e)) < 65536 => Len(Body(e)) % 65536 = Len(Body(e)))
        BY <1>2, Remainder
      <3> QED
        BY <3>1, <3>2, <3>3
    <2>2. CASE e.id \notin Payloads
      <3>1. getLength(e) = ElementLength(e.id)
        BY <2>2 DEF getLength
      <3>2. e.id # eMoLocationInfo => Len(Body(e)) = ElementLength(e.id)
        BY <1>1, <2>2, FieldsPlaced, SizeIsLength
      <3>4. ElementLength(e.id) \in 1..28
        <4>1. e.id \in {eMoHeader, eMoLocationInfo, eMoConfirmation, eMtHeader,
                        eMtConfirmationMsg, eMtMsgPriority}
          BY <1>1, <2>2 DEF Ids
        <4>2. ElementLength(e.id) \in {28, 11, 1, 21, 25, 2}
          BY <4>1 DEF ElementLength, eMoHeader, eMoLocationInfo, eMoConfirmation,
               eMtHeader, eMtConfirmationMsg, eMtMsgPriority
        <4> QED
          BY <4>2
      <3>5. getLength(e) \in Nat /\ getLength(e) < 65536
        BY <3>1, <3>4
      <3>6. getLength(e) % 65536 = getLength(e)
        BY <3>5, Remainder
      <3> QED
        BY <3>1, <3>2, <3>5, <3>6
    <2> QED
      BY <2>1, <2>2
  <1>4. Pack(e) = h \o Body(e)
    BY DEF Pack, Body, Fields, HeaderOf
  <1>5. h \in Seq(Byte) /\ Len(h) = 3 /\ h[1] = e.id /\ Word(h[2], h[3]) = getLength(e)
    <2>1. e.id \in Byte
      BY <1>1 DEF Ids, Payloads, Byte, eMoPayload, eMtPayload, eMoHeader, eMoLocationInfo,
           eMoConfirmation, eMtHeader, eMtConfirmationMsg, eMtMsgPriority
    <2>2. /\ getLength(e) \div 256 \in Byte /\ getLength(e) % 256 \in Byte
          /\ Word(getLength(e) \div 256, getLength(e) % 256) = getLength(e)
      BY <1>3, TwoBytes
    <2>3. /\ h \in Seq(Byte) /\ Len(h) = 3 /\ h[1] = e.id
          /\ h[2] = getLength(e) \div 256 /\ h[3] = getLength(e) % 256
      BY <2>1, <2>2 DEF HeaderOf
    <2> QED
      BY <2>2, <2>3
  <1> HIDE DEF h
  <1>6. /\ Pack(e) \in Seq(Byte) /\ Len(Pack(e)) = 3 + Len(Body(e))
        /\ \A i \in 1..(3 + Len(Body(e))) :
             Pack(e)[i] = IF i <= 3 THEN h[i] ELSE Body(e)[i - 3]
    <2> DEFINE b == Body(e)
    <2>1. b \in Seq(Byte) /\ Len(b) \in Nat
      BY <1>2
    <2> HIDE DEF b
    <2>2. /\ h \o b \in Seq(Byte) /\ Len(h \o b) = Len(h) + Len(b)
          /\ \A i \in 1..(Len(h) + Len(b)) :
               (h \o b)[i] = IF i <= Len(h) THEN h[i] ELSE b[i - Len(h)]
      BY <1>5, <2>1, ConcatProperties
    <2> QED
      BY <1>4, <1>5, <2>2 DEF b
  <1>7. Pack(e)[1] = h[1] /\ Pack(e)[2] = h[2] /\ Pack(e)[3] = h[3]
    BY <1>2, <1>6
  <1>8. ASSUME NEW k \in 1..Len(Body(e))
        PROVE  Pack(e)[3 + k] = Body(e)[k]
    <2> DEFINE i == 3 + k
    <2>1. i \in 1..(3 + Len(Body(e))) /\ ~ (i <= 3) /\ i - 3 = k
      BY <1>2
    <2> HIDE DEF i
    <2>2. Pack(e)[i] = Body(e)[k]
      BY <1>6, <2>1
    <2> QED
      BY <2>2 DEF i
  <1>9. getLength(e) \in Nat
    BY <1>3
  <1> QED
    BY <1>2, <1>3, <1>5, <1>6, <1>7, <1>8, <1>9

-----------------------------------------------------------------------------
(* What unpack() makes of an element.                                      *)

\* d begins with the element e, behind its id.
Starts(d, e) ==
  /\ Len(d) >= Len(Body(e)) + 2
  /\ d[1] = Pack(e)[2] /\ d[2] = Pack(e)[3]
  /\ \A k \in 1..Len(Body(e)) : d[2 + k] = Body(e)[k]

\* The bytes of d behind the first m, where those of s stand behind the first n.
LEMMA PartOf ==
  ASSUME NEW S, NEW d \in Seq(S), NEW s \in Seq(S), NEW m \in Nat, m + Len(s) <= Len(d),
         \A k \in 1..Len(s) : d[m + k] = s[k]
  PROVE  SubSeq(d, m + 1, m + Len(s)) = s
  <1>1. Len(s) \in Nat /\ Len(d) \in Nat
    BY LenProperties
  <1> DEFINE q == SubSeq(d, m + 1, m + Len(s))
  <1>2. CASE Len(s) = 0
    <2>1. ~ (m + 1 <= m + Len(s))
      BY <1>1, <1>2
    <2>2. q = << >>
      <3>1. \A i \in (m + 1)..(m + Len(s)) : d[i] \in S
        BY <1>1, <2>1
      <3>2. q \in Seq(S) /\ Len(q) = 0
        BY <1>1, <2>1, <3>1, SubSeqProperties
      <3> QED
        BY <3>2, EmptySeq
    <2> QED
      BY <1>2, <2>2, EmptySeq
  <1>3. CASE Len(s) # 0
    <2>1. \A i \in (m + 1)..(m + Len(s)) : d[i] \in S
      <3> TAKE i \in (m + 1)..(m + Len(s))
      <3>1. i \in 1..Len(d)
        BY <1>1
      <3> QED
        BY <3>1, ElementOfSeq
    <2>2. m + 1 \in Int /\ m + Len(s) \in Int /\ m + 1 <= m + Len(s)
          /\ m + Len(s) - (m + 1) + 1 = Len(s)
      BY <1>1, <1>3
    <2>3. /\ q \in Seq(S) /\ Len(q) = Len(s)
          /\ \A i \in 1..Len(s) : q[i] = d[m + 1 + i - 1]
      BY <2>1, <2>2, SubSeqProperties
    <2>4. \A i \in 1..Len(s) : m + 1 + i - 1 = m + i
      BY <1>1
    <2>5. \A i \in 1..Len(s) : q[i] = s[i]
      BY <2>3, <2>4
    <2> HIDE DEF q
    <2>6. q = s
      BY <2>3, <2>5, SeqEqual
    <2> QED
      BY <2>6 DEF q
  <1> QED
    BY <1>2, <1>3

\* A position of a field, as a position of the element it belongs to.
LEMMA FieldWithin ==
  ASSUME NEW a \in Nat, NEW w \in Nat, NEW l \in Nat, a + w <= l, NEW k \in 1..w
  PROVE  a + k \in 1..l /\ a + 2 + k = 2 + (a + k)
  OBVIOUS

\* unpack(): a field is found where it was packed.
LEMMA FieldUnpacked ==
  ASSUME NEW e \in Element, e.id \notin Payloads, e.id # eMoLocationInfo, Faithful(e),
         NEW d \in Seq(Byte), Starts(d, e), NEW i \in 1..Len(Layout(e.id))
  PROVE  LET f == Layout(e.id)[i]
         IN  Convert(f.in, SubSeq(d, f.at + 3, f.at + f.width + 2)) = e.content[i]
  <1> DEFINE f == Layout(e.id)[i]
             s == Fields(e)[i]
             c == e.content[i]
  <1>1. e.id \in Ids \ Payloads /\ Len(Layout(e.id)) \in Nat
    BY LayoutFields DEF Element
  <1>2. /\ c \in Seq(Byte) /\ Len(c) = f.width
        /\ Len(s) = f.width /\ f.at + f.width <= Len(Body(e))
        /\ \A k \in 1..f.width : Body(e)[f.at + k] = s[k]
    BY FieldsPlaced
  <1>3. f.at \in Nat /\ f.width \in Nat /\ Conversion(e.id, f) /\ Len(Body(e)) \in Nat
        /\ Len(d) \in Nat
    BY <1>1, LayoutFields, PackedBytes, LenProperties
  <1>4. s = Convert(f.out, c)
    <2>1. DOMAIN e.content = 1..Len(Layout(e.id))
      BY <1>1, LenProperties DEF Element, HasLayout
    <2> QED
      BY <2>1 DEF Fields
  <1>5. f.out = "flags" => c = <<0, 0>>
    <2> SUFFICES ASSUME f.out = "flags"
                 PROVE  c = <<0, 0>>
      OBVIOUS
    <2>1. e.id = eMtHeader
      BY <1>3 DEF Conversion
    <2>2. i \in 1..3 /\ i \notin 1..2
      BY <1>1, <2>1, LayoutFields
    <2>3. i = 3
      BY <2>2
    <2> QED
      BY <2>1, <2>3 DEF Faithful
  <1> HIDE DEF f, c
  <1>6. s \in Seq(Byte) /\ Convert(f.in, s) = c
    BY <1>2, <1>3, <1>4, <1>5, Converted
  <1> HIDE DEF s
  <1>7. SubSeq(d, f.at + 3, f.at + f.width + 2) = s
    <2> DEFINE m == f.at + 2
    <2>1. m \in Nat /\ m + Len(s) <= Len(d) /\ m + 1 = f.at + 3 /\ m + Len(s) = f.at + f.width + 2
      <3>1. Len(d) >= Len(Body(e)) + 2
        BY DEF Starts
      <3>2. f.at \in Nat /\ f.width \in Nat /\ Len(s) = f.width
            /\ f.at + f.width <= Len(Body(e)) /\ Len(Body(e)) \in Nat /\ Len(d) \in Nat
        BY <1>2, <1>3
      <3> DEFINE a == f.at
                 w == f.width
                 l == Len(Body(e))
                 n == Len(d)
      <3>3. /\ a \in Nat /\ w \in Nat /\ l \in Nat /\ n \in Nat
            /\ a + w <= l /\ l + 2 <= n
        BY <3>1, <3>2
      <3> HIDE DEF a, w, l, n
      <3>4. a + 2 \in Nat
        BY <3>3
      <3>5. a + 2 + w <= n
        BY <3>3
      <3>6. a + 2 + 1 = a + 3
        BY <3>3
      <3>7. a + 2 + w = a + w + 2
        BY <3>3
      <3> QED
        BY <3>2, <3>4, <3>5, <3>6, <3>7, Zenon DEF a, w, n
    <2>2. ASSUME NEW k \in 1..Len(s) PROVE d[m + k] = s[k]
      <3> DEFINE j == f.at + k
      <3>1. j \in 1..Len(Body(e)) /\ m + k = 2 + j
        <4> DEFINE a == f.at
                   w == f.width
                   l == Len(Body(e))
        <4>1. a \in Nat /\ w \in Nat /\ l \in Nat /\ a + w <= l /\ k \in 1..w
          BY <1>2, <1>3, Zenon
        <4> HIDE DEF a, w, l
        <4>2. a + k \in 1..l /\ a + 2 + k = 2 + (a + k)
          BY <4>1, FieldWithin
        <4> QED
          BY <4>2, Zenon DEF a, l
      <3>2. Body(e)[j] = s[k]
        BY <1>2
      <3> HIDE DEF j, m
      <3>3. d[2 + j] = Body(e)[j]
        BY <3>1 DEF Starts
      <3> QED
        BY <3>1, <3>2, <3>3
    <2> HIDE DEF m
    <2>3. SubSeq(d, m + 1, m + Len(s)) = s
      BY <1>6, <2>1, <2>2, PartOf
    <2> QED
      BY <2>1, <2>3
  <1> QED
    BY <1>6, <1>7 DEF f, c

\* The most that a payload may have, two bytes can count.
LEMMA PayloadsCountable ==
  ASSUME NEW i
  PROVE  MaxPayloadLength(i) \in Nat /\ MaxPayloadLength(i) < 65536
  <1>1. MaxMoPayload \in Nat /\ MaxMoPayload < 65536
    BY ElementAssumption
  <1>2. MaxMtPayload \in Nat /\ MaxMtPayload < 65536
    BY ElementAssumption
  <1>3. CASE i = eMoPayload
    BY <1>1, <1>3 DEF MaxPayloadLength
  <1>4. CASE i # eMoPayload
    BY <1>2, <1>4 DEF MaxPayloadLength
  <1> QED
    BY <1>3, <1>4

\* unpack(): an element that packs and unpacks alike is accepted, consumed just as
\* far as it goes, and is what it was.
LEMMA UnpacksAlike ==
  ASSUME NEW e \in Element, Faithful(e), NEW d \in Seq(Byte), Starts(d, e),
         NEW size \in Int, size >= Len(Body(e)) + 2
  PROVE  /\ Accepts(e.id, d, size)
         /\ Consumes(e.id, d) = Len(Body(e)) + 2
         /\ Unpacked(e.id, d) = e
  <1>1. /\ e.id \in Ids /\ e.content \in Seq(Seq(Byte)) /\ HasLayout(e)
        /\ e = [id |-> e.id, content |-> e.content]
        /\ e.id # eMoLocationInfo
    BY DEF Element, Faithful
  <1>2. Len(d) \in Nat /\ Len(Body(e)) \in Nat
    BY PackedBytes, LenProperties
  <1>3. CASE e.id \in Payloads
    <2> DEFINE p == e.content[1]
    <2>1. Len(p) \in 1..MaxPayloadLength(e.id) /\ Body(e) = p
      BY <1>3 DEF Faithful, Body
    <2>2. MaxPayloadLength(e.id) \in Nat /\ MaxPayloadLength(e.id) < 65536
      BY PayloadsCountable
    <2>3. Counted(e)
      BY <2>1, <2>2 DEF Counted
    <2>4. Length(d) = Len(p)
      BY <1>1, <2>1, <2>3, PackedBytes DEF Length, Starts
    <2>5. Accepts(e.id, d, size) /\ Consumes(e.id, d) = Len(p) + 2
      BY <1>2, <1>3, <2>1, <2>2, <2>4 DEF Accepts, AcceptsPayload, Consumes
    <2>6. p \in Seq(Byte)
      <3>1. Len(e.content) = 1
        BY <1>1, <1>3 DEF HasLayout
      <3>2. 1 \in 1..Len(e.content)
        BY <3>1
      <3> QED
        BY <1>1, <3>2, ElementOfSeq
    <2>7. SubSeq(d, 3, Len(p) + 2) = p
      <3>1. Len(p) \in Nat
        BY <2>6, LenProperties
      <3>2. 2 + Len(p) <= Len(d) /\ 2 + 1 = 3 /\ 2 + Len(p) = Len(p) + 2
        BY <1>2, <2>1, <3>1 DEF Starts
      <3>3. \A k \in 1..Len(p) : d[2 + k] = p[k]
        BY <2>1 DEF Starts
      <3>4. SubSeq(d, 2 + 1, 2 + Len(p)) = p
        <4> HIDE DEF p
        <4> QED
          BY <2>6, <3>2, <3>3, PartOf
      <3> QED
        BY <3>2, <3>4
    <2>8. e.content = <<p>>
      <3>1. Len(e.content) = 1
        BY <1>1, <1>3 DEF HasLayout
      <3> QED
        BY <1>1, <3>1
    <2>9. Unpacked(e.id, d) = [id |-> e.id, content |-> <<SubSeq(d, 3, Length(d) + 2)>>]
      BY <1>3 DEF Unpacked
    <2> QED
      BY <1>1, <2>1, <2>4, <2>5, <2>7, <2>8, <2>9
  <1>4. CASE e.id \notin Payloads
    <2>1. /\ Len(Body(e)) = Size(e.id) /\ Size(e.id) = ElementLength(e.id)
          /\ ElementLength(e.id) \in Nat
      BY <1>1, <1>4, FieldsPlaced, SizeIsLength
    <2>2. Counted(e)
      BY <1>4 DEF Counted
    <2>3. Length(d) = ElementLength(e.id)
      BY <1>1, <2>1, <2>2, PackedBytes DEF Length, Starts
    <2>4. Accepts(e.id, d, size) /\ Consumes(e.id, d) = Len(Body(e)) + 2
      BY <1>2, <1>4, <2>1, <2>3 DEF Accepts, Consumes
    <2> DEFINE ls == Layout(e.id)
               Unpack(i) == Convert(ls[i].in, SubSeq(d, ls[i].at + 3, ls[i].at + ls[i].width + 2))
    <2>5. \A i \in 1..Len(ls) : Unpack(i) = e.content[i]
      BY <1>1, <1>4, FieldUnpacked
    <2>6. DOMAIN ls = 1..Len(ls)
      BY <1>1, <1>4, LayoutFields
    <2>7. Unpacked(e.id, d) = [id |-> e.id, content |-> [i \in DOMAIN ls |-> Unpack(i)]]
      BY <1>4 DEF Unpacked
    <2>8. e.content = [i \in 1..Len(ls) |-> e.content[i]]
      <3>1. Len(e.content) = Len(ls)
        BY <1>1, <1>4 DEF HasLayout
      <3> QED
        BY <1>1, <3>1, SeqDef, LenProperties
    <2>9. [i \in DOMAIN ls |-> Unpack(i)] = e.content
      BY <2>5, <2>6, <2>8
    <2> QED
      BY <1>1, <2>4, <2>7, <2>9
  <1> QED
    BY <1>3, <1>4

\* unpack(): a payload that is empty is not found.
LEMMA EmptyRefused ==
  ASSUME NEW e \in Element, e.id \in Payloads, Len(e.content[1]) = 0,
         NEW d, Starts(d, e), NEW size
  PROVE  ~ Accepts(e.id, d, size)
  <1>1. Counted(e) /\ Len(Body(e)) = 0 /\ e.id # eMoLocationInfo
    BY DEF Counted, Body, Payloads, eMoPayload, eMtPayload, eMoLocationInfo
  <1>2. Length(d) = 0
    BY <1>1, PackedBytes DEF Length, Starts
  <1>3. MaxPayloadLength(e.id) \in Nat
    BY PayloadsCountable
  <1> QED
    BY <1>2, <1>3 DEF Accepts, AcceptsPayload

-----------------------------------------------------------------------------
(* The reader.                                                             *)

Steps == {"pack", "classify", "parse", "done"}

\* What unpack() leaves behind.
Unpackings == {Unpacked(i, d) : i \in Ids, d \in Seq(Byte)}

BufferOK ==
  /\ raw \in Seq(Byte)
  /\ beyond \in Seq(Byte) /\ Len(beyond) = 3

SenderOK ==
  /\ elements \in Seq(Element)
  /\ packed \in 0..Len(elements)

\* The id at a position, and where the length found there leads.
IdAt(pos) == From(pos)[1]
NextOf(pos) == pos + HeaderSize + Length(From(pos + 1))

\* messageCategory() goes from each element that it saw to the next.
Walk ==
  /\ step = "pack" => walked = {} /\ currPos = 0
  /\ step = "classify" =>
       /\ category = "eUnknownMessage" => walked = {}
       /\ 0 \in walked \/ currPos = 0
       /\ \A p \in walked : NextOf(p) \in walked \/ NextOf(p) = currPos
  /\ step \in {"classify", "parse"} =>
       \A p \in walked : p < Len(raw) /\ CategoryOf(IdAt(p)) = category

NoLocation == eMoLocationInfo \notin IdsOf(out)

\* parse() is at an element that messageCategory() saw, until it meets a location.
Follows ==
  /\ step # "parse" => (out # <<>> => step = "done")
  /\ step = "parse" =>
       /\ category = wanted
       /\ \A p \in walked : NextOf(p) \in walked \/ NextOf(p) >= Len(raw)
       /\ NoLocation => currPos \in walked \/ currPos >= Len(raw)

CodecInv ==
  /\ BufferOK /\ SenderOK
  /\ step \in Steps /\ currPos \in Nat /\ walked \subseteq Nat
  /\ out \in Seq(Unpackings)
  /\ Walk /\ Follows /\ OwnElements /\ Overread

-----------------------------------------------------------------------------
\* Two bytes make a length.
LEMMA LengthIsNatural ==
  ASSUME NEW d \in Seq(Byte), Len(d) >= 2
  PROVE  d[1] \in Byte /\ Length(d) \in Nat
  <1>1. d[1] \in Byte /\ d[2] \in Byte
    BY LenProperties, ElementOfSeq
  <1>2. \A h, l \in Byte : Word(h, l) \in Nat
    BY DEF Word, Byte
  <1> QED
    BY <1>1, <1>2 DEF Length

\* The end of a sequence.
LEMMA EndOfSeq ==
  ASSUME NEW S, NEW s \in Seq(S), NEW m \in 1..Len(s)
  PROVE  SubSeq(s, m, Len(s)) \in Seq(S) /\ Len(SubSeq(s, m, Len(s))) = Len(s) - m + 1
  <1>1. Len(s) \in Nat
    BY LenProperties
  <1>2. \A i \in m..Len(s) : s[i] \in S
    <2> TAKE i \in m..Len(s)
    <2>1. i \in 1..Len(s)
      BY <1>1
    <2> QED
      BY <2>1, ElementOfSeq
  <1> QED
    BY <1>1, <1>2, SubSeqProperties

\* The bytes from a position within the message on.
LEMMA FromBytes ==
  ASSUME BufferOK, NEW pos \in Nat, pos <= Len(raw)
  PROVE  /\ From(pos) \in Seq(Byte)
         /\ Len(From(pos)) = Len(raw) + 3 - pos
         /\ From(pos)[1] \in Byte
         /\ Length(From(pos)) \in Nat
  <1> DEFINE s == raw \o beyond
  <1>1. Len(raw) \in Nat
    BY LenProperties DEF BufferOK
  <1>2. s \in Seq(Byte) /\ Len(s) = Len(raw) + 3
    <2>1. raw \in Seq(Byte) /\ beyond \in Seq(Byte) /\ Len(beyond) = 3
      BY DEF BufferOK
    <2>2. raw \o beyond \in Seq(Byte) /\ Len(raw \o beyond) = Len(raw) + Len(beyond)
      BY <2>1, ConcatProperties, Zenon
    <2> QED
      BY <2>1, <2>2
  <1> HIDE DEF s
  <1>3. pos + 1 \in 1..Len(s)
    <2>1. Len(s) = Len(raw) + 3
      BY <1>2
    <2> QED
      BY <1>1, <2>1
  <1>4. From(pos) = SubSeq(s, pos + 1, Len(s))
    <2>1. From(pos) = SubSeq(s, pos + 1, Len(raw) + 3)
      BY DEF From, s
    <2>2. Len(s) = Len(raw) + 3
      BY <1>2
    <2> QED
      BY <2>1, <2>2, Zenon
  <1>5. From(pos) \in Seq(Byte) /\ Len(From(pos)) = Len(s) - (pos + 1) + 1
    BY <1>2, <1>3, <1>4, EndOfSeq
  <1>6. Len(From(pos)) = Len(raw) + 3 - pos /\ Len(From(pos)) >= 2
    BY <1>1, <1>2, <1>5
  <1> QED
    BY <1>5, <1>6, LengthIsNatural

\* An element that is accepted is consumed to its end, a location to three bytes
\* beyond, and the end is at most two bytes, or three, beyond the message.
LEMMA Consumed ==
  ASSUME NEW i \in Ids, NEW d, Length(d) \in Nat, NEW size \in Int, Accepts(i, d, size)
  PROVE  /\ Consumes(i, d) \in Nat
         /\ i # eMoLocationInfo => /\ Consumes(i, d) = Length(d) + 2
                                   /\ Consumes(i, d) <= size + 2
         /\ Consumes(i, d) <= size + 3
  <1>1. CASE i \in Payloads
    <2>1. i # eMoLocationInfo
      BY <1>1 DEF Payloads, eMoPayload, eMtPayload, eMoLocationInfo
    <2> QED
      BY <1>1, <2>1 DEF Accepts, AcceptsPayload, Consumes
  <1>2. CASE i \notin Payloads
    BY <1>2, SizeIsLength DEF Accepts, Consumes
  <1> QED
    BY <1>1, <1>2

\* What packInto() keeps of a payload.
LEMMA TruncatedIsBytes ==
  ASSUME NEW c \in Seq(Byte), NEW most \in Nat
  PROVE  /\ Truncated(c, most) \in Seq(Byte)
         /\ Len(c) < 65536 => Len(Truncated(c, most)) <= most
  <1>1. Len(c) \in Nat
    BY LenProperties
  <1>2. CASE Len(c) % 65536 > most
    <2>1. most <= Len(c)
      <3>1. \A n \in Nat : n % 65536 <= n
        OBVIOUS
      <3>2. Len(c) % 65536 <= Len(c) /\ Len(c) % 65536 \in Nat
        BY <1>1, <3>1
      <3> QED
        BY <1>1, <1>2, <3>2
    <2>2. \A i \in 1..most : i \in 1..Len(c)
      BY <1>1, <2>1
    <2>3. \A i \in 1..most : c[i] \in Byte
      BY <2>2, ElementOfSeq
    <2>4. /\ SubSeq(c, 1, most) \in Seq(Byte)
          /\ Len(SubSeq(c, 1, most)) = IF 1 <= most THEN most - 1 + 1 ELSE 0
      BY <2>3, SubSeqProperties
    <2>5. Len(SubSeq(c, 1, most)) <= most
      BY <2>4
    <2> QED
      BY <1>2, <2>4, <2>5 DEF Truncated
  <1>3. CASE ~ (Len(c) % 65536 > most)
    <2>1. Len(c) % 65536 \in Nat /\ (Len(c) < 65536 => Len(c) % 65536 = Len(c))
      BY <1>1, Remainder
    <2>2. Len(c) < 65536 => Len(c) <= most
      BY <1>1, <1>3, <2>1
    <2> QED
      BY <1>3, <2>2 DEF Truncated
  <1> QED
    BY <1>2, <1>3

\* A payload that is not too long.
Fitting(e) == e.id \in Payloads => Len(e.content[1]) <= MaxPayloadLength(e.id)

\* packInto() changes the content of an element, but not what it is, and leaves no
\* more of a payload than is allowed.
LEMMA NormalIsElement ==
  ASSUME NEW e \in Element
  PROVE  /\ Normal(e) \in Element /\ Normal(e).id = e.id
         /\ Counted(e) => Fitting(Normal(e))
  <1>1. /\ e.id \in Ids /\ e.content \in Seq(Seq(Byte)) /\ Len(e.content) \in Nat
        /\ HasLayout(e) /\ DOMAIN e.content = 1..Len(e.content)
    BY LenProperties DEF Element
  <1>2. ASSUME 1 \in 1..Len(e.content),
               NEW c \in Seq(Byte), e.id \notin Payloads => Len(c) = Len(e.content[1])
        PROVE  /\ [e EXCEPT !.content[1] = c] \in Element
               /\ [e EXCEPT !.content[1] = c].content[1] = c
    <2> DEFINE t == [e.content EXCEPT ![1] = c]
               u == [e EXCEPT !.content[1] = c]
    <2>1. /\ t \in Seq(Seq(Byte)) /\ Len(t) = Len(e.content) /\ DOMAIN t = 1..Len(e.content)
          /\ \A i \in 1..Len(e.content) : t[i] = IF i = 1 THEN c ELSE e.content[i]
      BY <1>1, <1>2, ExceptSeq
    <2>2. u = [id |-> e.id, content |-> t]
      BY DEF Element
    <2> HIDE DEF t, u
    <2>3. u \in [id : Ids, content : Seq(Seq(Byte))] /\ u.id = e.id /\ u.content = t
      BY <1>1, <2>1, <2>2
    <2>4. HasLayout(u)
      <3>1. CASE e.id \in Payloads
        BY <1>1, <2>1, <2>3, <3>1 DEF HasLayout
      <3>2. CASE e.id \notin Payloads
        <4>1. /\ Len(e.content) = Len(Layout(e.id))
              /\ \A i \in 1..Len(e.content) : Len(e.content[i]) = Layout(e.id)[i].width
          BY <1>1, <3>2 DEF HasLayout
        <4>2. \A i \in 1..Len(e.content) : Len(t[i]) = Len(e.content[i])
          BY <1>2, <2>1, <3>2
        <4> QED
          BY <2>1, <2>3, <3>2, <4>1, <4>2 DEF HasLayout
      <3> QED
        BY <3>1, <3>2
    <2>5. u \in Element /\ u.content[1] = c
      BY <1>2, <2>1, <2>3, <2>4 DEF Element
    <2> QED
      BY <2>5 DEF u
  <1>3. CASE e.id \in Payloads
    <2>1. MaxPayloadLength(e.id) \in Nat
      BY PayloadsCountable
    <2>2. Len(e.content) = 1
      BY <1>1, <1>3 DEF HasLayout
    <2>3. 1 \in 1..Len(e.content)
      BY <2>2
    <2>4. e.content[1] \in Seq(Byte)
      BY <1>1, <2>3, ElementOfSeq
    <2> DEFINE c == Truncated(e.content[1], MaxPayloadLength(e.id))
    <2>5. /\ c \in Seq(Byte)
          /\ Len(e.content[1]) < 65536 => Len(c) <= MaxPayloadLength(e.id)
      BY <2>1, <2>4, TruncatedIsBytes
    <2>6. Normal(e) = [e EXCEPT !.content[1] = c]
      <3>1. e.id # eMtMsgPriority
        BY <1>3 DEF eMtMsgPriority, Payloads, eMoPayload, eMtPayload
      <3> QED
        BY <1>3, <3>1 DEF Normal
    <2> HIDE DEF c
    <2>7. Normal(e) \in Element /\ Normal(e).content[1] = c
      BY <1>2, <1>3, <2>3, <2>5, <2>6
    <2>8. Normal(e).id = e.id
      BY <2>6
    <2> QED
      BY <2>5, <2>7, <2>8 DEF Fitting, Counted
  <1>4. CASE e.id = eMtMsgPriority
    <2>1. e.id \notin Payloads
      BY <1>4 DEF eMtMsgPriority, Payloads, eMoPayload, eMtPayload
    <2>2. Len(e.content) = 1 /\ Layout(e.id)[1].width = 2
      BY <1>1, <1>4, <2>1 DEF HasLayout, Layout, IEMtPriority, Swapped, Field, eMoHeader,
         eMoLocationInfo, eMoConfirmation, eMtHeader, eMtConfirmationMsg, eMtMsgPriority
    <2>3. 1 \in 1..Len(e.content)
      BY <2>2
    <2>4. e.content[1] \in Seq(Byte) /\ Len(e.content[1]) = 2
      BY <1>1, <2>1, <2>2, <2>3, ElementOfSeq DEF HasLayout
    <2>5. <<5, 0>> \in Seq(Byte) /\ Len(<<5, 0>>) = 2
      BY DEF Byte
    <2>6. Clamped(e.content[1]) \in Seq(Byte) /\ Len(Clamped(e.content[1])) = 2
      BY <2>4, <2>5 DEF Clamped
    <2>7. Normal(e) = [e EXCEPT !.content[1] = Clamped(e.content[1])]
      BY <1>4, <2>1 DEF Normal
    <2>8. Normal(e) \in Element
      BY <1>2, <2>3, <2>4, <2>6, <2>7
    <2>9. Normal(e).id = e.id
      BY <2>7
    <2> QED
      BY <2>1, <2>8, <2>9 DEF Fitting
  <1> QED
    BY <1>3, <1>4 DEF Normal, Fitting

-----------------------------------------------------------------------------
\* The messages that are packed, and the bytes that come from elsewhere.
LEMMA InitCorrect ==
  ASSUME Init
  PROVE  CodecInv
  <1>1. BufferOK
    <2>1. <<>> \in Seq(Byte)
      BY EmptySeq
    <2> QED
      BY <2>1, CodecAssumption DEF Init, BufferOK
  <1>2. SenderOK
    <2>1. CASE elements \in Composed
      <3>1. elements \in Seq(Element) /\ packed = 0
        BY <2>1, CodecAssumption DEF Init
      <3> QED
        BY <3>1, LenProperties DEF SenderOK
    <2>2. CASE elements = <<>> /\ step = "classify"
      <3>1. elements \in Seq(Element) /\ packed = 0
        BY <2>2, EmptySeq DEF Init
      <3> QED
        BY <3>1, LenProperties DEF SenderOK
    <2> QED
      BY <2>1, <2>2 DEF Init
  <1>3. out \in Seq(Unpackings) /\ Len(out) = 0 /\ DOMAIN out = 1..Len(out)
    BY EmptySeq, LenProperties DEF Init
  <1>4. /\ step \in {"pack", "classify"} /\ step \in Steps /\ currPos = 0 /\ walked = {}
        /\ out = <<>>
    BY DEF Init, Steps
  <1>5. Walk
    BY <1>4 DEF Walk
  <1>6. OwnElements /\ Overread /\ Follows
    BY <1>3, <1>4 DEF OwnElements, Overread, Follows
  <1> QED
    BY <1>1, <1>2, <1>3, <1>4, <1>5, <1>6 DEF CodecInv

\* A turn of serialize() leaves the reader alone.
LEMMA PackElementCorrect ==
  ASSUME CodecInv, PackElement
  PROVE  CodecInv'
  <1>1. /\ elements \in Seq(Element) /\ packed + 1 \in 1..Len(elements) /\ Len(elements) \in Nat
    <2>1. /\ elements \in Seq(Element) /\ packed \in 0..Len(elements) /\ packed < Len(elements)
      BY DEF CodecInv, SenderOK, PackElement
    <2>2. Len(elements) \in Nat
      BY <2>1, LenProperties
    <2> QED
      BY <2>1, <2>2
  <1> DEFINE e == Normal(elements[packed + 1])
  <1>2. e \in Element
    BY <1>1, ElementOfSeq, NormalIsElement
  <1>3. elements' = [elements EXCEPT ![packed + 1] = e] /\ raw' = raw \o Pack(e)
    BY DEF PackElement
  <1> HIDE DEF e
  <1>4. Pack(e) \in Seq(Byte)
    BY <1>2, PackedBytes
  <1>5. BufferOK'
    BY <1>3, <1>4, ConcatProperties DEF CodecInv, BufferOK, PackElement
  <1>6. SenderOK'
    <2>1. elements' \in Seq(Element) /\ Len(elements') = Len(elements)
      BY <1>1, <1>2, <1>3, ExceptSeq
    <2>2. packed' = packed + 1
      BY DEF PackElement
    <2> QED
      BY <1>1, <2>1, <2>2 DEF CodecInv, SenderOK
  <1>7. step = "pack" /\ UNCHANGED <<step, currPos, category, walked, out, wanted>>
    BY DEF PackElement, reader
  <1>8. Walk' /\ Follows'
    BY <1>7 DEF CodecInv, Walk, Follows
  <1>9. OwnElements' /\ Overread'
    BY <1>7 DEF CodecInv, OwnElements, Overread
  <1> QED
    BY <1>5, <1>6, <1>7, <1>8, <1>9 DEF CodecInv

\* Nor does sending the message.
LEMMA SendCorrect ==
  ASSUME CodecInv, Send
  PROVE  CodecInv'
  <1>1. raw \in Seq(Byte) /\ Len(raw) \in Nat /\ DOMAIN raw = 1..Len(raw)
    BY LenProperties DEF CodecInv, BufferOK
  <1>2. raw' \in Seq(Byte)
    <2>1. CASE raw' = raw
      BY <1>1, <2>1
    <2>2. ASSUME NEW k \in 0..(Len(raw) - 1), raw' = SubSeq(raw, 1, k)
          PROVE  raw' \in Seq(Byte)
      <3>1. \A i \in 1..k : i \in 1..Len(raw)
        BY <1>1
      <3>2. \A i \in 1..k : raw[i] \in Byte
        BY <1>1, <3>1, ElementOfSeq
      <3> QED
        BY <2>2, <3>2, SubSeqProperties
    <2>3. ASSUME NEW k \in DOMAIN raw, NEW b \in DamagedBytes, raw' = [raw EXCEPT ![k] = b]
          PROVE  raw' \in Seq(Byte)
      BY <1>1, <2>3, CodecAssumption, ExceptSeq
    <2> QED
      BY <2>1, <2>2, <2>3 DEF Send
  <1>3. BufferOK'
    BY <1>2 DEF CodecInv, BufferOK, Send
  <1>4. /\ step = "pack" /\ step' = "classify"
        /\ UNCHANGED <<elements, packed, currPos, category, walked, out, wanted>>
    BY DEF Send, sender
  <1>5. SenderOK' /\ step' \in Steps
    BY <1>4 DEF CodecInv, SenderOK, Steps
  <1>6. Walk' /\ Follows'
    BY <1>4 DEF CodecInv, Walk, Follows
  <1>7. OwnElements' /\ Overread'
    BY <1>4 DEF CodecInv, OwnElements, Overread
  <1> QED
    BY <1>3, <1>4, <1>5, <1>6, <1>7 DEF CodecInv

\* messageCategory() takes an element of the category found so far.
LEMMA ElementSeenCorrect ==
  ASSUME CodecInv, ElementSeen
  PROVE  CodecInv'
  <1>1. /\ step = "classify" /\ Len(raw) \in Nat /\ currPos \in Nat /\ currPos < Len(raw)
        /\ UNCHANGED <<elements, packed, raw, beyond, wanted, step, out>>
    BY LenProperties DEF CodecInv, BufferOK, ElementSeen, sender, buffer
  <1>2. Length(data) \in Nat
    BY <1>1, FromBytes DEF CodecInv, data
  <1>3. /\ IdAt(currPos) = id /\ NextOf(currPos) = currPos'
        /\ walked' = walked \union {currPos} /\ category' = CategoryOf(id)
        /\ currPos' \in Nat
    BY <1>1, <1>2 DEF ElementSeen, IdAt, NextOf, id, data, HeaderSize
  <1>4. category # "eUnknownMessage" => category' = category
    BY <1>3 DEF ElementSeen, Fits
  <1>5. \A p : IdAt(p)' = IdAt(p) /\ NextOf(p)' = NextOf(p) /\ Len(raw') = Len(raw)
    BY <1>1 DEF IdAt, NextOf, From
  <1>6. Walk'
    <2>1. 0 \in walked' \/ currPos' = 0
      BY <1>1, <1>3 DEF CodecInv, Walk
    <2>2. category' # "eUnknownMessage"
      BY <1>3 DEF ElementSeen, Fits
    <2>3. \A p \in walked' : NextOf(p) \in walked' \/ NextOf(p) = currPos'
      BY <1>1, <1>3 DEF CodecInv, Walk
    <2>4. \A p \in walked' : p < Len(raw) /\ CategoryOf(IdAt(p)) = category'
      <3> TAKE p \in walked'
      <3>1. CASE p = currPos
        BY <1>1, <1>3, <3>1
      <3>2. CASE p \in walked
        BY <1>1, <1>4, <3>2 DEF CodecInv, Walk
      <3> QED
        BY <1>3, <3>1, <3>2
    <2> QED
      BY <1>1, <1>5, <2>1, <2>2, <2>3, <2>4 DEF Walk
  <1>7. BufferOK' /\ SenderOK' /\ Follows' /\ OwnElements' /\ Overread'
    BY <1>1 DEF CodecInv, BufferOK, SenderOK, Follows, OwnElements, Overread
  <1> QED
    BY <1>1, <1>3, <1>6, <1>7 DEF CodecInv

\* A message that is refused by messageCategory().
LEMMA MessageUnknownCorrect ==
  ASSUME CodecInv, MessageUnknown
  PROVE  CodecInv'
  <1>1. /\ step = "classify" /\ step' = "done"
        /\ UNCHANGED <<elements, packed, raw, beyond, wanted, currPos, walked, out>>
    BY DEF MessageUnknown, Ends, sender, buffer
  <1>2. BufferOK' /\ SenderOK' /\ step' \in Steps
    BY <1>1 DEF CodecInv, BufferOK, SenderOK, Steps
  <1>3. Walk' /\ Follows' /\ OwnElements' /\ Overread'
    BY <1>1 DEF CodecInv, Walk, Follows, OwnElements, Overread
  <1> QED
    BY <1>1, <1>2, <1>3 DEF CodecInv

\* messageCategory() returns, and parse() begins at an element that it saw.
LEMMA ClassifiedCorrect ==
  ASSUME CodecInv, Classified
  PROVE  CodecInv'
  <1>1. /\ step = "classify" /\ currPos >= Len(raw) /\ Len(raw) \in Nat /\ currPos \in Nat
        /\ UNCHANGED <<elements, packed, raw, beyond, wanted, category, walked, out>>
    BY LenProperties DEF CodecInv, BufferOK, Classified, sender, buffer
  <1>2. BufferOK' /\ SenderOK' /\ step' \in Steps /\ currPos' \in Nat
    BY <1>1 DEF CodecInv, BufferOK, SenderOK, Steps, Classified, Ends
  <1>3. out = <<>>
    BY <1>1 DEF CodecInv, Follows
  <1>4. CASE category = wanted
    <2>1. step' = "parse" /\ currPos' = 0
      BY <1>4 DEF Classified
    <2>2. \A p : IdAt(p)' = IdAt(p) /\ NextOf(p)' = NextOf(p) /\ Len(raw') = Len(raw)
      BY <1>1 DEF IdAt, NextOf, From
    <2>3. Walk'
      BY <1>1, <2>1, <2>2 DEF CodecInv, Walk
    <2>4. Follows'
      <3>1. \A p \in walked : NextOf(p) \in walked \/ NextOf(p) >= Len(raw)
        BY <1>1 DEF CodecInv, Walk
      <3>2. 0 \in walked \/ 0 >= Len(raw)
        BY <1>1 DEF CodecInv, Walk
      <3> QED
        BY <1>1, <1>4, <2>1, <2>2, <3>1, <3>2 DEF Follows
    <2>5. OwnElements' /\ Overread'
      BY <1>1, <2>1 DEF CodecInv, OwnElements, Overread
    <2> QED
      BY <1>1, <1>2, <2>3, <2>4, <2>5 DEF CodecInv
  <1>5. CASE category # wanted
    <2>1. step' = "done" /\ currPos' = currPos
      BY <1>5 DEF Classified, Ends
    <2>2. Walk' /\ Follows' /\ OwnElements' /\ Overread'
      BY <1>1, <1>3, <2>1 DEF CodecInv, Walk, Follows, OwnElements, Overread
    <2> QED
      BY <1>1, <1>2, <2>2 DEF CodecInv
  <1> QED
    BY <1>4, <1>5

\* parse() takes an element: as long as there was no location, one that
\* messageCategory() saw.
LEMMA ElementParsedCorrect ==
  ASSUME CodecInv, ElementParsed
  PROVE  CodecInv'
  <1> DEFINE e == Unpacked(id, data)
             size == Len(raw) - currPos - 1
  <1>1. /\ step = "parse" /\ Len(raw) \in Nat /\ currPos \in Nat /\ currPos < Len(raw)
        /\ UNCHANGED <<elements, packed, raw, beyond, wanted, step, category, walked>>
        /\ out' = Append(out, e) /\ currPos' = currPos + 1 + Consumes(id, data)
        /\ id \in Ids /\ Accepts(id, data, size)
    BY LenProperties DEF CodecInv, BufferOK, ElementParsed, Parses, sender, buffer
  <1>2. data \in Seq(Byte) /\ Length(data) \in Nat /\ size \in Int
    BY <1>1, FromBytes DEF CodecInv, data
  <1>3. /\ Consumes(id, data) \in Nat
        /\ id # eMoLocationInfo => /\ Consumes(id, data) = Length(data) + 2
                                  /\ Consumes(id, data) <= size + 2
        /\ Consumes(id, data) <= size + 3
    <2> HIDE DEF size
    <2> QED
      BY <1>1, <1>2, Consumed
  <1>4. currPos' \in Nat /\ (id # eMoLocationInfo => currPos' = NextOf(currPos))
    <2>1. NextOf(currPos) = currPos + 3 + Length(data)
      BY DEF NextOf, data, HeaderSize
    <2>2. /\ Consumes(id, data) \in Nat
          /\ id # eMoLocationInfo => Consumes(id, data) = Length(data) + 2
      BY <1>3
    <2>3. currPos \in Nat /\ currPos' = currPos + 1 + Consumes(id, data)
      BY <1>1
    <2> HIDE DEF size, e
    <2> QED
      BY <1>2, <2>1, <2>2, <2>3
  <1>5. e \in Unpackings /\ e.id = id
    <2>1. e \in Unpackings
      BY <1>1, <1>2 DEF Unpackings
    <2>2. e.id = id
      BY DEF Unpacked
    <2> QED
      BY <2>1, <2>2
  <1> HIDE DEF e
  <1>6. /\ out' \in Seq(Unpackings) /\ Len(out) \in Nat /\ Len(out') = Len(out) + 1
        /\ \A i \in 1..Len(out) : out'[i] = out[i]
        /\ out'[Len(out) + 1] = e
        /\ DOMAIN out = 1..Len(out) /\ DOMAIN out' = 1..Len(out')
    BY <1>1, <1>5, AppendProperties, LenProperties DEF CodecInv
  <1>7. IdsOf(out') = IdsOf(out) \union {id}
    <2>1. DOMAIN out' = DOMAIN out \union {Len(out) + 1}
      BY <1>6
    <2>2. \A i \in DOMAIN out' : out'[i].id = IF i \in DOMAIN out THEN out[i].id ELSE id
      BY <1>5, <1>6, <2>1
    <2>3. Len(out) + 1 \notin DOMAIN out
      BY <1>6
    <2> QED
      BY <2>1, <2>2, <2>3 DEF IdsOf
  <1>8. BufferOK' /\ SenderOK' /\ Walk'
    BY <1>1 DEF CodecInv, BufferOK, SenderOK, Walk, IdAt, NextOf, From
  <1>9. Follows'
    <2>1. \A p : NextOf(p)' = NextOf(p) /\ Len(raw') = Len(raw)
      BY <1>1 DEF NextOf, From
    <2>2. NoLocation' => currPos' \in walked \/ currPos' >= Len(raw)
      <3> SUFFICES ASSUME NoLocation'
                   PROVE  currPos' \in walked \/ currPos' >= Len(raw)
        OBVIOUS
      <3>1. NoLocation /\ id # eMoLocationInfo
        BY <1>7 DEF NoLocation
      <3>2. currPos \in walked
        BY <1>1, <3>1 DEF CodecInv, Follows
      <3>3. NextOf(currPos) \in walked \/ NextOf(currPos) >= Len(raw)
        BY <1>1, <3>2 DEF CodecInv, Follows
      <3> QED
        BY <1>4, <3>1, <3>3
    <2> QED
      BY <1>1, <2>1, <2>2 DEF CodecInv, Follows
  <1>10. OwnElements'
    <2> SUFFICES ASSUME NEW i \in DOMAIN out',
                        \A j \in 1..(i - 1) : out'[j].id # eMoLocationInfo
                 PROVE  CategoryOf(out'[i].id) = wanted
      BY <1>1 DEF OwnElements
    <2>1. CASE i \in 1..Len(out)
      BY <1>6, <2>1 DEF CodecInv, OwnElements
    <2>2. CASE i = Len(out) + 1
      <3>1. \A j \in DOMAIN out : out[j].id # eMoLocationInfo
        BY <1>6, <2>2
      <3>2. currPos \in walked
        BY <1>1, <3>1 DEF CodecInv, Follows, NoLocation, IdsOf
      <3>3. CategoryOf(id) = category /\ category = wanted
        BY <1>1, <3>2 DEF CodecInv, Walk, Follows, IdAt, id
      <3> QED
        BY <1>5, <1>6, <2>2, <3>3
    <2> QED
      BY <1>6, <2>1, <2>2
  <1>11. Overread'
    BY <1>1, <1>3, <1>7 DEF Overread
  <1> QED
    BY <1>1, <1>4, <1>6, <1>8, <1>9, <1>10, <1>11 DEF CodecInv

\* A message that parse() refuses, or returns.
LEMMA ParseEndsCorrect ==
  ASSUME CodecInv, ParseFails \/ Parsed
  PROVE  CodecInv'
  <1>1. /\ step' = "done" /\ (out' = out \/ out' = <<>>)
        /\ UNCHANGED <<elements, packed, raw, beyond, wanted, currPos, walked>>
    BY DEF ParseFails, Parsed, Ends, sender, buffer
  <1>2. out' \in Seq(Unpackings) /\ OwnElements'
    <2>1. CASE out' = out
      BY <1>1, <2>1 DEF CodecInv, OwnElements
    <2>2. CASE out' = <<>>
      <3>1. <<>> \in Seq(Unpackings) /\ Len(<<>>) = 0
        BY EmptySeq
      <3>2. DOMAIN out' = {}
        BY <2>2, <3>1, LenProperties
      <3> QED
        BY <2>2, <3>1, <3>2 DEF OwnElements
    <2> QED
      BY <1>1, <2>1, <2>2
  <1>3. BufferOK' /\ SenderOK' /\ step' \in Steps
    BY <1>1 DEF CodecInv, BufferOK, SenderOK, Steps
  <1>4. Walk' /\ Follows' /\ Overread'
    BY <1>1 DEF Walk, Follows, Overread
  <1> QED
    BY <1>1, <1>2, <1>3, <1>4 DEF CodecInv

\* A step that leaves the codec alone.
LEMMA StutterCorrect ==
  ASSUME CodecInv, UNCHANGED vars
  PROVE  CodecInv'
  <1>1. UNCHANGED <<elements, packed, raw, beyond, wanted, step, currPos, category, walked, out>>
    BY DEF vars, sender, buffer, reader
  <1> QED
    BY <1>1 DEF CodecInv, BufferOK, SenderOK, Walk, Follows, NoLocation, IdsOf, OwnElements,
                Overread, IdAt, NextOf, From

-----------------------------------------------------------------------------
\* The inductive invariant of packing, classifying and parsing.
THEOREM CodecCorrect == Spec => []CodecInv
  <1>1. CodecInv /\ [Next]_vars => CodecInv'
    BY PackElementCorrect, SendCorrect, ElementSeenCorrect, MessageUnknownCorrect,
       ClassifiedCorrect, ElementParsedCorrect, ParseEndsCorrect, StutterCorrect DEF Next
  <1> QED
    BY <1>1, InitCorrect, PTL DEF Spec

\* parse(): whatever bytes a reader gets, up to the first location it meets only
\* elements of the category that messageCategory() found.
THEOREM ParsesOwnElements == Spec => []OwnElements
  <1>1. CodecInv => OwnElements
    BY DEF CodecInv
  <1> QED
    BY <1>1, CodecCorrect, PTL

\* parse(): whatever bytes a reader gets, it goes no more than three bytes beyond
\* the message, and two if there is no location.
THEOREM OverreadIsBounded == Spec => []Overread
  <1>1. CodecInv => Overread
    BY DEF CodecInv
  <1> QED
    BY <1>1, CodecCorrect, PTL

-----------------------------------------------------------------------------
(* What is packed is unpacked.                                             *)

\* packInto(), unpack(): for elements of any content, however they are packed together.
THEOREM UnpacksWhatWasPacked == Spec => []RoundTrip
  <1>1. ASSUME CodecInv, NEW i \in 1..packed, Faithful(elements[i])
        PROVE  LET bytes == Tail(Pack(elements[i]))
               IN  /\ Accepts(elements[i].id, bytes \o beyond, Len(bytes))
                   /\ Consumes(elements[i].id, bytes \o beyond) = Len(bytes)
                   /\ Unpacked(elements[i].id, bytes \o beyond) = elements[i]
    <2> DEFINE e == elements[i]
               bytes == Tail(Pack(e))
               d == bytes \o beyond
    <2>1. e \in Element /\ beyond \in Seq(Byte)
      <3>1. i \in 1..Len(elements) /\ elements \in Seq(Element)
        BY <1>1, LenProperties DEF CodecInv, SenderOK
      <3> QED
        BY <1>1, <3>1, ElementOfSeq DEF CodecInv, BufferOK
    <2> HIDE DEF e
    <2>2. /\ Pack(e) \in Seq(Byte) /\ Len(Body(e)) \in Nat /\ Len(Pack(e)) = 3 + Len(Body(e))
          /\ \A k \in 1..Len(Body(e)) : Pack(e)[3 + k] = Body(e)[k]
      BY <2>1, PackedBytes
    <2>3. /\ bytes \in Seq(Byte) /\ Len(bytes) = Len(Body(e)) + 2
          /\ \A k \in 1..Len(bytes) : bytes[k] = Pack(e)[k + 1]
      <3>1. Pack(e) # << >>
        BY <2>2, EmptySeq
      <3> QED
        BY <2>2, <3>1, HeadTailProperties
    <2> HIDE DEF bytes
    <2>4. /\ d \in Seq(Byte) /\ Len(d) >= Len(bytes)
          /\ \A k \in 1..Len(bytes) : d[k] = bytes[k]
      <3>1. Len(bytes) \in Nat /\ Len(beyond) \in Nat
        BY <2>1, <2>3, LenProperties
      <3>2. /\ d \in Seq(Byte) /\ Len(d) = Len(bytes) + Len(beyond)
            /\ \A k \in 1..(Len(bytes) + Len(beyond)) :
                 d[k] = IF k <= Len(bytes) THEN bytes[k] ELSE beyond[k - Len(bytes)]
        BY <2>1, <2>3, ConcatProperties
      <3> HIDE DEF d
      <3> QED
        BY <3>1, <3>2
    <2> HIDE DEF d
    <2>5. Starts(d, e)
      <3>1. 1 \in 1..Len(bytes) /\ 2 \in 1..Len(bytes) /\ 1 + 1 = 2 /\ 2 + 1 = 3
        BY <2>2, <2>3
      <3>2. d[1] = Pack(e)[2] /\ d[2] = Pack(e)[3]
        BY <2>3, <2>4, <3>1
      <3>3. ASSUME NEW k \in 1..Len(Body(e)) PROVE d[2 + k] = Body(e)[k]
        <4> DEFINE j == 2 + k
        <4>1. j \in 1..Len(bytes) /\ j + 1 = 3 + k
          BY <2>2, <2>3
        <4> HIDE DEF j
        <4>2. d[j] = Pack(e)[3 + k]
          BY <2>3, <2>4, <4>1
        <4> QED
          BY <2>2, <4>2 DEF j
      <3> QED
        BY <2>3, <2>4, <3>2, <3>3 DEF Starts
    <2>6. /\ Accepts(e.id, d, Len(bytes)) /\ Consumes(e.id, d) = Len(Body(e)) + 2
          /\ Unpacked(e.id, d) = e
      <3>1. Faithful(e)
        BY <1>1 DEF e
      <3>2. Len(bytes) \in Int /\ Len(bytes) >= Len(Body(e)) + 2
        BY <2>2, <2>3
      <3> QED
        BY <2>1, <2>4, <2>5, <3>1, <3>2, UnpacksAlike
    <2> QED
      BY <2>3, <2>6 DEF e, bytes, d
  <1>2. CodecInv => RoundTrip
    BY <1>1 DEF RoundTrip
  <1> QED
    BY <1>2, CodecCorrect, PTL

-----------------------------------------------------------------------------
(* The length of a message.                                                *)

\* The length is kept in two bytes.
AnnouncedRemainder ==
  step = "pack" /\ eMoLocationInfo \notin IdsOf(elements) => m_length = Len(raw) % 65536

\* To add a length that has lost its multiples of 65536 does not show.
LEMMA RemaindersAdd ==
  ASSUME NEW a \in Nat, NEW b \in Nat
  PROVE  ((a % 65536) + ((b % 65536) + 3)) % 65536 = (a + (3 + b)) % 65536
  OBVIOUS

\* serialize() adds up what packInto() puts down.
LEMMA PackAnnounces ==
  ASSUME CodecInv, AnnouncedRemainder, PackElement
  PROVE  AnnouncedRemainder'
  <1> SUFFICES ASSUME eMoLocationInfo \notin IdsOf(elements)'
               PROVE  m_length' = Len(raw') % 65536
    BY DEF AnnouncedRemainder
  <1>1. /\ elements \in Seq(Element) /\ packed + 1 \in 1..Len(elements) /\ Len(elements) \in Nat
        /\ raw \in Seq(Byte) /\ Len(raw) \in Nat
    <2>1. /\ elements \in Seq(Element) /\ packed \in 0..Len(elements) /\ packed < Len(elements)
          /\ raw \in Seq(Byte)
      BY DEF CodecInv, SenderOK, BufferOK, PackElement
    <2>2. Len(elements) \in Nat /\ Len(raw) \in Nat
      BY <2>1, LenProperties
    <2> QED
      BY <2>1, <2>2
  <1> DEFINE e == Normal(elements[packed + 1])
  <1>2. e \in Element /\ e.id = elements[packed + 1].id
    BY <1>1, ElementOfSeq, NormalIsElement
  <1>3. /\ elements' = [elements EXCEPT ![packed + 1] = e] /\ raw' = raw \o Pack(e)
        /\ m_length' = (m_length + FullLength(e)) % 65536 /\ step = "pack"
    BY DEF PackElement
  <1> HIDE DEF e
  <1>4. IdsOf(elements') = IdsOf(elements)
    <2>1. DOMAIN elements' = DOMAIN elements
      BY <1>3
    <2>2. \A i \in DOMAIN elements : elements'[i].id = elements[i].id
      BY <1>2, <1>3
    <2> QED
      BY <2>1, <2>2 DEF IdsOf
  <1>5. m_length = Len(raw) % 65536
    BY <1>3, <1>4 DEF AnnouncedRemainder
  <1>6. e.id # eMoLocationInfo
    <2>1. DOMAIN elements = 1..Len(elements)
      BY <1>1, LenProperties
    <2> QED
      BY <1>1, <1>2, <1>4, <2>1 DEF IdsOf
  <1>7. /\ Pack(e) \in Seq(Byte) /\ Len(Body(e)) \in Nat
        /\ Len(Pack(e)) = 3 + Len(Body(e)) /\ getLength(e) = Len(Body(e)) % 65536
    BY <1>2, <1>6, PackedBytes
  <1>8. Len(raw') = Len(raw) + (3 + Len(Body(e)))
    <2> DEFINE p == Pack(e)
    <2>1. Len(raw \o p) = Len(raw) + Len(p)
      <3> HIDE DEF p
      <3>1. p \in Seq(Byte)
        BY <1>7 DEF p
      <3> QED
        BY <1>1, <3>1, ConcatProperties
    <2> QED
      BY <1>3, <1>7, <2>1
  <1>9. FullLength(e) = (Len(Body(e)) % 65536) + 3
    BY <1>7 DEF FullLength, HeaderSize
  <1> QED
    BY <1>1, <1>3, <1>5, <1>7, <1>8, <1>9, RemaindersAdd

\* serialize(): as long as two bytes can hold it, the reader of a message is told its
\* length, for elements of any content.
THEOREM AnnouncesLength == Spec => [](Len(raw) < 65536 => AnnouncedLength)
  <1>1. Init => AnnouncedRemainder
    <2>1. Len(<<>>) % 65536 = 0
      BY EmptySeq
    <2> QED
      BY <2>1 DEF Init, AnnouncedRemainder
  <1>2. CodecInv /\ AnnouncedRemainder /\ [Next]_vars => AnnouncedRemainder'
    <2>1. CASE PackElement
      BY <2>1, PackAnnounces
    <2>2. CASE Send \/ ElementSeen \/ MessageUnknown \/ Classified \/ ElementParsed
               \/ ParseFails \/ Parsed
      <3>1. step' # "pack"
        BY <2>2 DEF Send, ElementSeen, MessageUnknown, Classified, ElementParsed, ParseFails,
                    Parsed, Ends
      <3> QED
        BY <3>1 DEF AnnouncedRemainder
    <2>3. CASE UNCHANGED vars
      BY <2>3 DEF AnnouncedRemainder, vars, sender, buffer, reader
    <2> QED
      BY <2>1, <2>2, <2>3 DEF Next
  <1>3. CodecInv /\ AnnouncedRemainder => (Len(raw) < 65536 => AnnouncedLength)
    <2> SUFFICES ASSUME CodecInv, AnnouncedRemainder, Len(raw) < 65536
                 PROVE  AnnouncedLength
      OBVIOUS
    <2>1. Len(raw) \in Nat
      BY LenProperties DEF CodecInv, BufferOK
    <2>2. Len(raw) % 65536 = Len(raw)
      BY <2>1, Remainder
    <2> QED
      BY <2>2 DEF AnnouncedRemainder, AnnouncedLength
  <1> QED
    BY <1>1, <1>2, <1>3, CodecCorrect, PTL DEF Spec

-----------------------------------------------------------------------------
(* What is understood.                                                     *)

\* Where each element begins that was packed, and the message ends.
Laid(at) ==
  /\ at \in [1..(packed + 1) -> Nat] /\ at[1] = 0 /\ at[packed + 1] = Len(raw)
  /\ \A i \in 1..packed :
       /\ at[i + 1] = at[i] + Len(Pack(elements[i])) /\ at[i + 1] <= Len(raw)
       /\ \A k \in 1..Len(Pack(elements[i])) : raw[at[i] + k] = Pack(elements[i])[k]

\* The reader is at the n-th element, or at the end.
At(at, n) == n \in 1..(packed + 1) /\ currPos = at[n]

\* messageCategory() went through n - 1 elements of one category, ..
Classifies(at) ==
  \E n \in 1..(packed + 1) :
    /\ At(at, n)
    /\ \A i \in 1..(n - 1) : CategoryOf(elements[i].id) = category
    /\ n = 1 => category = "eUnknownMessage"

\* .. and parse() has those before the n-th, since they are all of that waited for.
ParsesOn(at) ==
  \E n \in 1..(packed + 1) :
    /\ At(at, n)
    /\ Len(out) = n - 1
    /\ \A i \in 1..(n - 1) : out[i] = elements[i] /\ Faithful(elements[i])

\* The message as it was packed, and where its reader is.
Traced ==
  /\ \A i \in 1..packed : Fitting(elements[i])
  /\ step # "pack" => packed = Len(elements)
  /\ step = "parse" => \A i \in 1..Len(elements) : CategoryOf(elements[i].id) = wanted
  /\ step # "done" =>
       \E at : /\ Laid(at)
               /\ step = "classify" => Classifies(at)
               /\ step = "parse" => ParsesOn(at)

Sound == sound /\ eMoLocationInfo \notin IdsOf(elements)

TraceInv ==
  /\ wanted \in {"eMoMessage", "eMtConfirmMessage"}
  /\ \A i \in 1..Len(elements) : Counted(elements[i])
  /\ step = "pack" => sound /\ category = "eUnknownMessage"
  /\ Sound => Traced /\ Understood

\* The payloads that are packed are less than 64 KiB long.
PayloadsCounted == \A m \in Composed : \A i \in 1..Len(m) : Counted(m[i])

\* Every element is of a category.
LEMMA HasCategory ==
  ASSUME NEW i \in Ids
  PROVE  /\ CategoryOf(i) # "eUnknownMessage"
         /\ CategoryOf(i) \in {"eMoMessage", "eMtConfirmMessage"} => i # eMtHeader
  BY DEF Ids, Payloads, CategoryOf, IsMoElem, IsMtElem, IsMtConfirm, eMoHeader, eMoPayload,
         eMoLocationInfo, eMoConfirmation, eMtHeader, eMtPayload, eMtConfirmationMsg,
         eMtMsgPriority

\* The positions behind the id byte of an element, as positions of the element and of the bytes.
LEMMA BehindId ==
  ASSUME NEW l \in Nat, NEW m \in Nat, NEW c \in Nat, NEW k \in 1..(2 + l), c + 3 + l <= m
  PROVE  /\ k + 1 \in 1..(3 + l) /\ c + 1 + k = c + (k + 1)
         /\ k \in 1..(m + 3 - (c + 1))
  <1>1. k + 1 \in 1..(3 + l)
    OBVIOUS
  <1>2. c + 1 + k = c + (k + 1)
    OBVIOUS
  <1>3. k \in 1..(m + 3 - (c + 1))
    OBVIOUS
  <1> QED
    BY <1>1, <1>2, <1>3

\* What the reader finds at the n-th element.
LEMMA FoundAt ==
  ASSUME CodecInv, NEW at, Laid(at), NEW n \in 1..packed, currPos = at[n]
  PROVE  /\ elements[n] \in Element
         /\ id = elements[n].id
         /\ data \in Seq(Byte) /\ Starts(data, elements[n])
         /\ Len(raw) - currPos - 1 \in Int
         /\ Len(raw) - currPos - 1 >= Len(Body(elements[n])) + 2
         /\ Len(Body(elements[n])) \in Nat
         /\ at[n + 1] = currPos + 3 + Len(Body(elements[n]))
         /\ currPos < Len(raw)
  <1> DEFINE e == elements[n]
             b == Body(e)
             s == raw \o beyond
  <1>1. /\ Len(raw) \in Nat /\ raw \in Seq(Byte) /\ beyond \in Seq(Byte) /\ Len(beyond) = 3
        /\ e \in Element /\ packed \in Nat
    <2>1. elements \in Seq(Element) /\ packed \in 0..Len(elements)
      BY DEF CodecInv, SenderOK
    <2>2. Len(elements) \in Nat
      BY <2>1, LenProperties
    <2>3. n \in 1..Len(elements)
      BY <2>1, <2>2
    <2>4. e \in Element
      BY <2>1, <2>3, ElementOfSeq
    <2> QED
      BY <2>1, <2>4, LenProperties DEF CodecInv, BufferOK
  <1>2. /\ at[n + 1] = currPos + Len(Pack(e)) /\ at[n + 1] <= Len(raw)
        /\ \A k \in 1..Len(Pack(e)) : raw[currPos + k] = Pack(e)[k]
    BY DEF Laid
  <1>3. currPos \in Nat
    <2>1. n \in 1..(packed + 1)
      BY <1>1
    <2> QED
      BY <2>1 DEF Laid
  <1> HIDE DEF e
  <1>4. /\ Pack(e) \in Seq(Byte) /\ Len(b) \in Nat /\ Len(Pack(e)) = 3 + Len(b)
        /\ Pack(e)[1] = e.id /\ \A k \in 1..Len(b) : Pack(e)[3 + k] = b[k]
    BY <1>1, PackedBytes
  <1> HIDE DEF b
  <1>5. /\ currPos + 3 + Len(b) <= Len(raw) /\ currPos < Len(raw)
        /\ at[n + 1] = currPos + 3 + Len(b)
    <2>1. currPos + (3 + Len(b)) <= Len(raw) /\ at[n + 1] = currPos + (3 + Len(b))
      BY <1>2, <1>4
    <2> QED
      BY <1>1, <1>3, <1>4, <2>1
  <1>6. /\ currPos \in Nat /\ Len(raw) \in Nat /\ Len(b) \in Nat
        /\ currPos + 3 + Len(b) <= Len(raw)
    BY <1>1, <1>3, <1>4, <1>5
  <1>7. /\ s \in Seq(Byte) /\ Len(s) = Len(raw) + 3
        /\ \A j \in 1..Len(raw) : s[j] = raw[j]
    <2>1. /\ s \in Seq(Byte) /\ Len(s) = Len(raw) + Len(beyond)
          /\ \A j \in 1..(Len(raw) + Len(beyond)) :
               s[j] = IF j <= Len(raw) THEN raw[j] ELSE beyond[j - Len(raw)]
      BY <1>1, ConcatProperties
    <2> HIDE DEF s
    <2> QED
      BY <1>1, <2>1
  <1> HIDE DEF s
  <1>8. ASSUME NEW p \in Nat, p <= Len(raw)
        PROVE  /\ From(p) \in Seq(Byte) /\ Len(From(p)) = Len(raw) + 3 - p
               /\ \A k \in 1..(Len(raw) + 3 - p) : From(p)[k] = s[p + k]
    <2>1. From(p) \in Seq(Byte) /\ Len(From(p)) = Len(raw) + 3 - p
      BY <1>8, FromBytes DEF CodecInv
    <2>2. From(p) = SubSeq(s, p + 1, Len(raw) + 3)
      BY DEF From, s
    <2>3. \A j \in (p + 1)..(Len(raw) + 3) : s[j] \in Byte
      <3> TAKE j \in (p + 1)..(Len(raw) + 3)
      <3>1. j \in 1..Len(s)
        BY <1>1, <1>7
      <3> QED
        BY <1>7, <3>1, ElementOfSeq
    <2>4. \A k \in 1..(Len(raw) + 3 - (p + 1) + 1) :
            SubSeq(s, p + 1, Len(raw) + 3)[k] = s[p + 1 + k - 1]
      BY <1>1, <2>3, SubSeqProperties
    <2>5. /\ Len(raw) + 3 - (p + 1) + 1 = Len(raw) + 3 - p
          /\ \A k \in 1..(Len(raw) + 3 - p) : p + 1 + k - 1 = p + k
      BY <1>1
    <2> QED
      BY <2>1, <2>2, <2>4, <2>5
  <1>9. ASSUME NEW k \in 1..(3 + Len(b))
        PROVE  s[currPos + k] = Pack(e)[k]
    <2> DEFINE j == currPos + k
    <2>1. j \in 1..Len(raw)
      BY <1>6
    <2>2. raw[j] = Pack(e)[k]
      BY <1>2, <1>4
    <2> HIDE DEF j
    <2>3. s[j] = raw[j]
      BY <1>7, <2>1
    <2> QED
      BY <2>2, <2>3 DEF j
  <1>10. id = e.id
    <2>1. From(currPos)[1] = s[currPos + 1] /\ s[currPos + 1] = Pack(e)[1]
      <3>1. 1 \in 1..(Len(raw) + 3 - currPos) /\ 1 \in 1..(3 + Len(b)) /\ currPos <= Len(raw)
        BY <1>6
      <3> QED
        BY <1>3, <1>8, <1>9, <3>1
    <2> QED
      BY <1>4, <2>1 DEF id
  <1> DEFINE p == currPos + 1
  <1>11. p \in Nat /\ p <= Len(raw)
    BY <1>6
  <1>12. data = From(p)
    BY DEF data
  <1>13. ASSUME NEW k \in 1..(2 + Len(b))
         PROVE  data[k] = Pack(e)[k + 1]
    <2> DEFINE j == k + 1
    <2>1. j \in 1..(3 + Len(b)) /\ p + k = currPos + j /\ k \in 1..(Len(raw) + 3 - p)
      <3> DEFINE l == Len(b)
                 m == Len(raw)
      <3>1. /\ l \in Nat /\ m \in Nat /\ currPos \in Nat /\ currPos + 3 + l <= m
            /\ k \in 1..(2 + l)
        BY <1>6, Zenon
      <3> HIDE DEF l, m
      <3>2. \A c \in Nat : \A i \in 1..(2 + l) : c + 3 + l <= m =>
              /\ i + 1 \in 1..(3 + l) /\ c + 1 + i = c + (i + 1)
              /\ i \in 1..(m + 3 - (c + 1))
        BY <3>1, BehindId
      <3>3. /\ k + 1 \in 1..(3 + l) /\ currPos + 1 + k = currPos + (k + 1)
            /\ k \in 1..(m + 3 - (currPos + 1))
        BY <3>1, <3>2, Zenon
      <3> QED
        BY <3>3, Zenon DEF l, m
    <2> HIDE DEF p, j
    <2>2. data[k] = s[p + k]
      BY <1>8, <1>11, <1>12, <2>1
    <2>3. s[currPos + j] = Pack(e)[j]
      BY <1>9, <2>1
    <2> QED
      BY <2>1, <2>2, <2>3 DEF j
  <1>14. data \in Seq(Byte) /\ Len(data) >= Len(b) + 2
    <2>1. data \in Seq(Byte) /\ Len(data) = Len(raw) + 3 - p
      BY <1>8, <1>11, <1>12
    <2>2. Len(raw) + 3 - p >= Len(b) + 2
      BY <1>6
    <2> HIDE DEF p
    <2> QED
      BY <2>1, <2>2
  <1>15. data[1] = Pack(e)[2] /\ data[2] = Pack(e)[3]
    <2>1. 1 \in 1..(2 + Len(b)) /\ 2 \in 1..(2 + Len(b)) /\ 1 + 1 = 2 /\ 2 + 1 = 3
      BY <1>4
    <2> QED
      BY <1>13, <2>1
  <1>16. ASSUME NEW k \in 1..Len(b) PROVE data[2 + k] = b[k]
    <2> DEFINE j == 2 + k
    <2>1. j \in 1..(2 + Len(b)) /\ j + 1 = 3 + k
      BY <1>4
    <2> HIDE DEF j
    <2>2. data[j] = Pack(e)[j + 1]
      BY <1>13, <2>1
    <2>3. Pack(e)[3 + k] = b[k]
      BY <1>4
    <2> QED
      BY <2>1, <2>2, <2>3 DEF j
  <1>17. Starts(data, e)
    BY <1>14, <1>15, <1>16 DEF Starts, b
  <1>18. Len(raw) - currPos - 1 \in Int /\ Len(raw) - currPos - 1 >= Len(b) + 2
    BY <1>6
  <1> QED
    BY <1>1, <1>4, <1>5, <1>10, <1>14, <1>17, <1>18 DEF e, b

\* Whether the reader is at an element, or at the end.
LEMMA WhichElement ==
  ASSUME CodecInv, NEW at, Laid(at), NEW n, At(at, n)
  PROVE  /\ currPos < Len(raw) => n \in 1..packed
         /\ currPos >= Len(raw) => n = packed + 1
  <1>1. packed \in Nat /\ currPos = at[n] /\ n \in 1..(packed + 1) /\ Len(raw) \in Nat
    <2>1. Len(elements) \in Nat /\ packed \in 0..Len(elements) /\ Len(raw) \in Nat
      BY LenProperties DEF CodecInv, SenderOK, BufferOK
    <2> QED
      BY <2>1 DEF At
  <1>2. CASE n = packed + 1
    <2>1. currPos = Len(raw)
      BY <1>1, <1>2 DEF Laid
    <2> QED
      BY <1>1, <1>2, <2>1
  <1>3. CASE n \in 1..packed
    <2>1. currPos < Len(raw)
      BY <1>1, <1>3, FoundAt
    <2>2. currPos \in Nat
      BY DEF CodecInv
    <2> QED
      BY <1>1, <1>3, <2>1, <2>2
  <1> QED
    BY <1>1, <1>2, <1>3

\* None of a sound message's elements is a location, and all are counted.
LEMMA SoundElement ==
  ASSUME CodecInv, TraceInv, Sound, NEW i \in 1..Len(elements)
  PROVE  /\ elements[i] \in Element /\ elements[i].id \in Ids
         /\ elements[i].id # eMoLocationInfo /\ Counted(elements[i])
  <1>1. elements \in Seq(Element) /\ DOMAIN elements = 1..Len(elements)
    BY LenProperties DEF CodecInv, SenderOK
  <1>2. elements[i] \in Element
    BY <1>1, ElementOfSeq
  <1> QED
    BY <1>1, <1>2 DEF Element, TraceInv, Sound, IdsOf

\* A step of the reader.
LEMMA TraceFrame ==
  ASSUME TraceInv, UNCHANGED <<elements, packed, raw, sound, wanted>>, step' # "pack",
         Sound => Traced' /\ Understood'
  PROVE  TraceInv'
  BY DEF TraceInv, Sound, IdsOf, Counted

\* Nothing has been packed or read when the first step is taken.
LEMMA TraceInit ==
  ASSUME Init, PayloadsCounted
  PROVE  TraceInv
  <1>1. CASE elements \in Composed /\ raw = <<>> /\ sound = TRUE /\ step = "pack"
    <2>1. \A i \in 1..Len(elements) : Counted(elements[i])
      BY <1>1 DEF PayloadsCounted
    <2> DEFINE at == [i \in 1..(0 + 1) |-> 0]
    <2>2. packed = 0 /\ Len(raw) = 0
      BY <1>1, EmptySeq DEF Init
    <2>3. Laid(at)
      BY <2>2 DEF Laid
    <2>4. Traced /\ Understood
      BY <1>1, <2>2, <2>3 DEF Traced, Understood
    <2> QED
      BY <1>1, <2>1, <2>4 DEF Init, TraceInv
  <1>2. CASE elements = <<>> /\ sound = FALSE /\ step = "classify"
    <2>1. Len(elements) = 0
      BY <1>2, EmptySeq
    <2> QED
      BY <1>2, <2>1 DEF Init, TraceInv, Sound
  <1> QED
    BY <1>1, <1>2 DEF Init

\* A payload that is not too long can be counted.
LEMMA FittingIsCounted ==
  ASSUME NEW e \in Element, Fitting(e)
  PROVE  Counted(e)
  <1> SUFFICES ASSUME e.id \in Payloads
               PROVE  Len(e.content[1]) < 65536
    BY DEF Counted
  <1>1. Len(e.content[1]) <= MaxPayloadLength(e.id)
    BY DEF Fitting
  <1>2. MaxPayloadLength(e.id) \in Nat /\ MaxPayloadLength(e.id) < 65536
    BY PayloadsCountable
  <1>3. Len(e.content[1]) \in Nat
    BY PackedBytes DEF Body
  <1> QED
    BY <1>1, <1>2, <1>3

\* serialize() lays the elements one behind the other.
LEMMA TracePack ==
  ASSUME CodecInv, TraceInv, PackElement
  PROVE  TraceInv'
  <1>1. /\ elements \in Seq(Element) /\ packed + 1 \in 1..Len(elements) /\ Len(elements) \in Nat
        /\ packed \in Nat /\ raw \in Seq(Byte) /\ Len(raw) \in Nat
    <2>1. /\ elements \in Seq(Element) /\ packed \in 0..Len(elements) /\ packed < Len(elements)
          /\ raw \in Seq(Byte)
      BY DEF CodecInv, SenderOK, BufferOK, PackElement
    <2>2. Len(elements) \in Nat /\ Len(raw) \in Nat
      BY <2>1, LenProperties
    <2> QED
      BY <2>1, <2>2
  <1> DEFINE e == Normal(elements[packed + 1])
  <1>2. /\ e \in Element /\ e.id = elements[packed + 1].id /\ Fitting(e)
    BY <1>1, ElementOfSeq, NormalIsElement DEF TraceInv
  <1>3. /\ elements' = [elements EXCEPT ![packed + 1] = e] /\ raw' = raw \o Pack(e)
        /\ packed' = packed + 1
        /\ step = "pack" /\ UNCHANGED <<beyond, sound, wanted, step, category>>
    BY DEF PackElement, reader
  <1> HIDE DEF e
  <1>4. /\ Len(elements') = Len(elements)
        /\ \A i \in 1..Len(elements) : elements'[i] = IF i = packed + 1 THEN e ELSE elements[i]
    BY <1>1, <1>2, <1>3, ExceptSeq
  <1>5. IdsOf(elements') = IdsOf(elements)
    <2>1. DOMAIN elements' = DOMAIN elements
      BY <1>3
    <2>2. \A i \in DOMAIN elements : elements'[i].id = elements[i].id
      BY <1>2, <1>3
    <2> QED
      BY <2>1, <2>2 DEF IdsOf
  <1>6. \A i \in 1..Len(elements') : Counted(elements'[i])
    BY <1>2, <1>4, FittingIsCounted DEF TraceInv
  <1>7. ASSUME Sound
        PROVE  Traced'
    <2>1. \A i \in 1..packed' : Fitting(elements'[i])
      <3> TAKE i \in 1..packed'
      <3>1. i \in 1..Len(elements) /\ (i = packed + 1 \/ i \in 1..packed)
        BY <1>1, <1>3
      <3> QED
        BY <1>2, <1>4, <1>7, <3>1 DEF TraceInv, Traced
    <2>2. PICK at : Laid(at)
      BY <1>3, <1>7 DEF TraceInv, Traced
    <2> DEFINE p == Pack(e)
               last == packed + 1
    <2>3. p \in Seq(Byte) /\ Len(p) \in Nat
      BY <1>2, PackedBytes, LenProperties
    <2>4. last \in Nat /\ last + 1 # 1 /\ 1 \in 1..last /\ last \in 1..(packed + 1)
      BY <1>1
    <2>5. at \in [1..last -> Nat] /\ at[1] = 0 /\ at[last] = Len(raw)
      BY <2>2 DEF Laid
    <2> HIDE DEF p
    <2>6. /\ raw' \in Seq(Byte) /\ Len(raw') = Len(raw) + Len(p)
          /\ \A i \in 1..Len(raw) : raw'[i] = raw[i]
          /\ \A k \in 1..Len(p) : raw'[Len(raw) + k] = p[k]
      <3>1. /\ raw \o p \in Seq(Byte) /\ Len(raw \o p) = Len(raw) + Len(p)
            /\ \A i \in 1..(Len(raw) + Len(p)) :
                 (raw \o p)[i] = IF i <= Len(raw) THEN raw[i] ELSE p[i - Len(raw)]
        BY <1>1, <2>3, ConcatProperties
      <3>2. raw' = raw \o p
        BY <1>3 DEF p
      <3>3. \A i \in 1..Len(raw) : raw'[i] = raw[i]
        BY <1>1, <2>3, <3>1, <3>2
      <3>4. ASSUME NEW k \in 1..Len(p) PROVE raw'[Len(raw) + k] = p[k]
        <4> DEFINE j == Len(raw) + k
        <4>1. j \in 1..(Len(raw) + Len(p)) /\ ~ (j <= Len(raw)) /\ j - Len(raw) = k
          BY <1>1, <2>3
        <4> HIDE DEF j
        <4>2. raw'[j] = p[k]
          BY <3>1, <3>2, <4>1
        <4> QED
          BY <4>2 DEF j
      <3> QED
        BY <3>1, <3>2, <3>3, <3>4
    <2>a. PICK at2 : at2 = [i \in 1..(last + 1) |-> IF i = last + 1 THEN Len(raw') ELSE at[i]]
      OBVIOUS
    <2>7. /\ at2 \in [1..(last + 1) -> Nat] /\ at2[1] = 0 /\ at2[last + 1] = Len(raw')
          /\ \A i \in 1..last : at2[i] = at[i]
      <3>1. Len(raw') \in Nat
        BY <1>1, <2>3, <2>6
      <3>2. \A i \in 1..last : i \in 1..(last + 1) /\ i # last + 1
        BY <2>4
      <3>3. \A i \in 1..(last + 1) : i = last + 1 \/ i \in 1..last
        BY <2>4
      <3>4. last + 1 \in 1..(last + 1) /\ 1 \in 1..(last + 1)
        BY <2>4
      <3> HIDE DEF last
      <3> QED
        BY <2>4, <2>5, <2>a, <3>1, <3>2, <3>3, <3>4
    <2>8. ASSUME NEW i \in 1..last
          PROVE  LET q == Pack(elements'[i])
                 IN  /\ at2[i + 1] = at2[i] + Len(q) /\ at2[i + 1] <= Len(raw')
                     /\ \A k \in 1..Len(q) : raw'[at2[i] + k] = q[k]
      <3>1. CASE i = last
        <4>1. elements'[i] = e
          BY <1>1, <1>4, <3>1
        <4>2. at2[i] = Len(raw) /\ at2[i + 1] = Len(raw')
          BY <2>5, <2>7, <3>1
        <4>3. Len(raw') <= Len(raw')
          BY <1>1, <2>3, <2>6
        <4> QED
          BY <2>6, <4>1, <4>2, <4>3 DEF p
      <3>2. CASE i # last
        <4>1. i \in 1..packed /\ i + 1 \in 1..last /\ i \in 1..Len(elements) /\ i # packed + 1
          BY <1>1, <3>2
        <4>2. elements'[i] = elements[i]
          BY <1>4, <4>1
        <4> DEFINE q == Pack(elements[i])
        <4>3. /\ at[i + 1] = at[i] + Len(q) /\ at[i + 1] <= Len(raw)
              /\ \A k \in 1..Len(q) : raw[at[i] + k] = q[k]
          BY <2>2, <4>1 DEF Laid
        <4>4. at2[i] = at[i] /\ at2[i + 1] = at[i + 1] /\ at[i] \in Nat /\ at[i + 1] \in Nat
          BY <2>5, <2>7, <4>1
        <4>5. Len(q) \in Nat
          BY <1>1, <4>1, ElementOfSeq, PackedBytes, LenProperties
        <4> HIDE DEF q
        <4>6. at2[i + 1] <= Len(raw')
          BY <1>1, <2>3, <2>6, <4>3, <4>4
        <4>7. ASSUME NEW k \in 1..Len(q) PROVE raw'[at2[i] + k] = q[k]
          <5>1. at[i] + k \in 1..Len(raw)
            BY <1>1, <4>3, <4>4, <4>5
          <5> QED
            BY <2>6, <4>3, <4>4, <5>1
        <4> QED
          BY <4>2, <4>3, <4>4, <4>6, <4>7 DEF q
      <3> QED
        BY <3>1, <3>2
    <2>9. Laid(at2)'
      BY <1>3, <2>7, <2>8 DEF Laid
    <2> QED
      BY <1>3, <2>1, <2>9 DEF Traced
  <1>8. Understood' /\ (Sound' => Sound)
    BY <1>3, <1>5 DEF Understood, Sound
  <1> QED
    BY <1>3, <1>6, <1>7, <1>8 DEF TraceInv

\* The message goes to the reader as it is, or is not sound any more.
LEMMA TraceSend ==
  ASSUME CodecInv, TraceInv, Send
  PROVE  TraceInv'
  <1>1. /\ step = "pack" /\ step' = "classify" /\ packed = Len(elements)
        /\ UNCHANGED <<elements, packed, wanted, currPos, category, out>>
        /\ sound' => raw' = raw /\ sound
    BY DEF Send, sender, TraceInv
  <1>2. ASSUME Sound'
        PROVE  Traced' /\ Understood'
    <2>1. Sound /\ raw' = raw
      BY <1>1, <1>2 DEF Sound, IdsOf
    <2>2. Traced
      BY <2>1 DEF TraceInv
    <2>3. PICK at : Laid(at)
      BY <1>1, <2>2 DEF Traced
    <2>4. Laid(at)'
      BY <1>1, <2>1, <2>3 DEF Laid
    <2>5. Classifies(at)'
      <3>1. 1 \in 1..(packed + 1)
        BY <1>1, LenProperties DEF CodecInv, SenderOK
      <3>2. At(at, 1)'
        BY <1>1, <2>3, <3>1 DEF CodecInv, Walk, At, Laid
      <3>3. category' = "eUnknownMessage"
        BY <1>1 DEF TraceInv
      <3>4. \A i \in 1..(1 - 1) : FALSE
        OBVIOUS
      <3> QED
        BY <1>1, <3>1, <3>2, <3>3, <3>4 DEF Classifies
    <2>6. Traced'
      BY <1>1, <2>2, <2>4, <2>5 DEF Traced
    <2> QED
      BY <1>1, <2>6 DEF Understood
  <1> QED
    BY <1>1, <1>2 DEF TraceInv

\* messageCategory() goes on to the next element.
LEMMA TraceSeen ==
  ASSUME CodecInv, TraceInv, ElementSeen
  PROVE  TraceInv'
  <1>1. /\ step = "classify" /\ step' = "classify" /\ currPos < Len(raw) /\ Fits
        /\ category' = CategoryOf(id) /\ currPos' = currPos + 3 + Length(data)
        /\ UNCHANGED <<elements, packed, raw, sound, wanted, out>>
    BY DEF ElementSeen, sender, buffer, HeaderSize
  <1>2. ASSUME Sound
        PROVE  Traced' /\ Understood'
    <2>1. Traced /\ packed = Len(elements)
      BY <1>1, <1>2 DEF TraceInv, Traced
    <2>2. PICK at : Laid(at) /\ Classifies(at)
      BY <1>1, <2>1 DEF Traced
    <2>3. PICK n \in 1..(packed + 1) :
            /\ At(at, n)
            /\ \A i \in 1..(n - 1) : CategoryOf(elements[i].id) = category
            /\ n = 1 => category = "eUnknownMessage"
      BY <2>2 DEF Classifies
    <2>4. n \in 1..packed /\ packed \in Nat
      <3>1. packed \in Nat
        BY <2>1, LenProperties DEF CodecInv, SenderOK
      <3> QED
        BY <1>1, <2>2, <2>3, <3>1, WhichElement
    <2>5. currPos = at[n]
      BY <2>3 DEF At
    <2>6. /\ id = elements[n].id /\ Starts(data, elements[n])
          /\ at[n + 1] = currPos + 3 + Len(Body(elements[n]))
      BY <2>2, <2>4, <2>5, FoundAt
    <2>7. Length(data) = Len(Body(elements[n]))
      <3>1. elements[n] \in Element /\ elements[n].id # eMoLocationInfo /\ Counted(elements[n])
        BY <1>2, <2>1, <2>4, SoundElement
      <3> QED
        BY <2>6, <3>1, PackedBytes DEF Length, Starts
    <2>8. At(at, n + 1)'
      BY <1>1, <2>4, <2>6, <2>7 DEF At
    <2>9. \A i \in 1..n : CategoryOf(elements[i].id) = category'
      <3> TAKE i \in 1..n
      <3>1. CASE i = n
        BY <1>1, <2>6, <3>1
      <3>2. CASE i # n
        <4>1. i \in 1..(n - 1) /\ i \in 1..Len(elements)
          BY <2>1, <2>4, <3>2
        <4>2. CategoryOf(elements[i].id) = category
          BY <2>3, <4>1
        <4>3. category # "eUnknownMessage"
          BY <1>2, <4>1, <4>2, SoundElement, HasCategory
        <4> QED
          BY <1>1, <4>2, <4>3 DEF Fits
      <3> QED
        BY <3>1, <3>2
    <2>10. Classifies(at)'
      <3>1. n + 1 \in 1..(packed + 1) /\ n + 1 - 1 = n /\ n + 1 # 1
        BY <2>4
      <3> QED
        BY <1>1, <2>8, <2>9, <3>1 DEF Classifies
    <2>11. Laid(at)'
      BY <1>1, <2>2 DEF Laid
    <2>12. Traced'
      BY <1>1, <2>1, <2>10, <2>11 DEF Traced
    <2> QED
      BY <1>1, <2>12 DEF Understood
  <1> QED
    BY <1>1, <1>2, TraceFrame

\* messageCategory() does not know a message of elements of two categories.
LEMMA TraceUnknown ==
  ASSUME CodecInv, TraceInv, MessageUnknown
  PROVE  TraceInv'
  <1>1. /\ step = "classify" /\ step' = "done" /\ currPos < Len(raw) /\ ~ Fits
        /\ outcome' = "refused"
        /\ UNCHANGED <<elements, packed, raw, sound, wanted>>
    BY DEF MessageUnknown, Ends, sender, buffer
  <1>2. ASSUME Sound
        PROVE  Traced' /\ Understood'
    <2>1. Traced /\ packed = Len(elements)
      BY <1>1, <1>2 DEF TraceInv, Traced
    <2>2. PICK at : Laid(at) /\ Classifies(at)
      BY <1>1, <2>1 DEF Traced
    <2>3. PICK n \in 1..(packed + 1) :
            /\ At(at, n)
            /\ \A i \in 1..(n - 1) : CategoryOf(elements[i].id) = category
            /\ n = 1 => category = "eUnknownMessage"
      BY <2>2 DEF Classifies
    <2>4. n \in 1..packed /\ packed \in Nat
      <3>1. packed \in Nat
        BY <2>1, LenProperties DEF CodecInv, SenderOK
      <3> QED
        BY <1>1, <2>2, <2>3, <3>1, WhichElement
    <2>5. currPos = at[n]
      BY <2>3 DEF At
    <2>6. id = elements[n].id
      BY <2>2, <2>4, <2>5, FoundAt
    <2>7. category # "eUnknownMessage" /\ category # CategoryOf(elements[n].id)
      <3>1. elements[n].id \in Ids
        BY <1>2, <2>1, <2>4, SoundElement
      <3> QED
        BY <1>1, <2>6, <3>1, HasCategory DEF Fits
    <2>8. 1 \in 1..(n - 1) /\ 1 \in 1..Len(elements) /\ n \in 1..Len(elements)
      BY <2>1, <2>3, <2>4, <2>7
    <2>9. CategoryOf(elements[1].id) = category
      BY <2>3, <2>8
    <2>10. ~ Understandable
      <3>1. DOMAIN elements = 1..Len(elements)
        BY LenProperties DEF CodecInv, SenderOK
      <3> QED
        BY <2>7, <2>8, <2>9, <3>1 DEF Understandable
    <2>11. Understandable' = Understandable
      BY <1>1 DEF Understandable, IdsOf
    <2>12. Understood'
      BY <1>1, <2>10, <2>11 DEF Understood
    <2> QED
      BY <1>1, <2>1, <2>12 DEF Traced
  <1> QED
    BY <1>1, <1>2, TraceFrame

\* messageCategory() returns the category of all elements.
LEMMA TraceClassified ==
  ASSUME CodecInv, TraceInv, Classified
  PROVE  TraceInv'
  <1>1. /\ step = "classify" /\ step' \in {"parse", "done"} /\ currPos >= Len(raw)
        /\ UNCHANGED <<elements, packed, raw, sound, wanted, out>>
        /\ category = wanted => step' = "parse" /\ currPos' = 0
        /\ category # wanted => step' = "done" /\ outcome' = "refused"
    BY DEF Classified, Ends, sender, buffer
  <1>2. ASSUME Sound
        PROVE  Traced' /\ Understood'
    <2>1. Traced /\ packed = Len(elements)
      BY <1>1, <1>2 DEF TraceInv, Traced
    <2>2. PICK at : Laid(at) /\ Classifies(at)
      BY <1>1, <2>1 DEF Traced
    <2>3. PICK n \in 1..(packed + 1) :
            /\ At(at, n)
            /\ \A i \in 1..(n - 1) : CategoryOf(elements[i].id) = category
            /\ n = 1 => category = "eUnknownMessage"
      BY <2>2 DEF Classifies
    <2>4. n = packed + 1 /\ packed \in Nat /\ DOMAIN elements = 1..Len(elements)
      BY <1>1, <2>1, <2>2, <2>3, WhichElement, LenProperties DEF CodecInv, SenderOK
    <2>5. /\ \A i \in 1..Len(elements) : CategoryOf(elements[i].id) = category
          /\ Len(elements) = 0 => category = "eUnknownMessage"
      <3>1. n - 1 = Len(elements)
        BY <2>1, <2>4
      <3> QED
        BY <2>1, <2>3, <2>4, <3>1
    <2>6. CASE category = wanted
      <3>1. out = <<>> /\ Len(out) = 0
        BY <1>1, EmptySeq DEF CodecInv, Follows
      <3>2. Laid(at)'
        BY <1>1, <2>2 DEF Laid
      <3>3. ParsesOn(at)'
        <4>1. 1 \in 1..(packed + 1) /\ 1 - 1 = 0
          BY <2>4
        <4>2. At(at, 1)'
          BY <1>1, <2>2, <2>6, <4>1 DEF At, Laid
        <4>3. \A i \in 1..(1 - 1) : FALSE
          OBVIOUS
        <4> QED
          BY <1>1, <3>1, <4>1, <4>2, <4>3 DEF ParsesOn
      <3>4. Traced'
        BY <1>1, <2>1, <2>5, <2>6, <3>2, <3>3 DEF Traced
      <3> QED
        BY <1>1, <2>6, <3>4 DEF Understood
    <2>7. CASE category # wanted
      <3>1. ~ Understandable
        <4>1. CASE Len(elements) = 0
          <5>1. IdsOf(elements) = {}
            BY <2>4, <4>1 DEF IdsOf
          <5> QED
            BY <5>1 DEF Understandable
        <4>2. CASE Len(elements) # 0
          <5>1. 1 \in 1..Len(elements)
            BY <2>1, <2>4, <4>2
          <5> QED
            BY <2>4, <2>5, <2>7, <5>1 DEF Understandable
        <4> QED
          BY <4>1, <4>2
      <3>2. Understandable' = Understandable
        BY <1>1 DEF Understandable, IdsOf
      <3>3. Understood'
        BY <1>1, <2>7, <3>1, <3>2 DEF Understood
      <3> QED
        BY <1>1, <2>1, <2>7, <3>3 DEF Traced
    <2> QED
      BY <2>6, <2>7
  <1> QED
    BY <1>1, <1>2, TraceFrame

\* Of a message that is waited for, unpack() finds the elements that unpack alike.
LEMMA ParsesFaithful ==
  ASSUME CodecInv, TraceInv, Sound, step = "parse",
         NEW at, Laid(at), NEW n \in 1..packed, currPos = at[n]
  PROVE  /\ Parses <=> Faithful(elements[n])
         /\ Parses => /\ Unpacked(id, data) = elements[n]
                      /\ currPos + 1 + Consumes(id, data) = at[n + 1]
  <1> DEFINE e == elements[n]
             size == Len(raw) - currPos - 1
  <1>1. /\ e \in Element /\ id = e.id /\ data \in Seq(Byte) /\ Starts(data, e)
        /\ size \in Int /\ size >= Len(Body(e)) + 2 /\ Len(Body(e)) \in Nat
        /\ at[n + 1] = currPos + 3 + Len(Body(e))
    BY FoundAt
  <1>2. n \in 1..Len(elements)
    BY DEF TraceInv, Traced
  <1>3. e.id \in Ids /\ e.id # eMoLocationInfo /\ Fitting(e) /\ CategoryOf(e.id) = wanted
    BY <1>2, SoundElement DEF TraceInv, Traced
  <1>4. e.id # eMtHeader
    BY <1>3, HasCategory DEF TraceInv
  <1>5. currPos \in Nat
    BY DEF CodecInv
  <1> HIDE DEF e, size
  <1>6. Parses <=> Accepts(e.id, data, size)
    BY <1>1, <1>3 DEF Parses, size
  <1>7. CASE Faithful(e)
    <2>1. /\ Accepts(e.id, data, size) /\ Consumes(e.id, data) = Len(Body(e)) + 2
          /\ Unpacked(e.id, data) = e
      BY <1>1, <1>7, UnpacksAlike
    <2>2. id = e.id
      BY <1>1
    <2>3. currPos + 1 + (Len(Body(e)) + 2) = at[n + 1]
      <3> DEFINE l == Len(Body(e))
      <3>1. l \in Nat /\ at[n + 1] = currPos + 3 + l
        BY <1>1
      <3> HIDE DEF l
      <3>2. currPos + 1 + (l + 2) = currPos + 3 + l
        <4>1. l \in Nat
          BY <3>1
        <4> QED
          BY <1>5, <4>1
      <3>3. currPos + 1 + (l + 2) = at[n + 1]
        BY <3>1, <3>2, Zenon
      <3> QED
        BY <3>3 DEF l
    <2>4. currPos + 1 + Consumes(id, data) = at[n + 1]
      BY <2>1, <2>2, <2>3
    <2>5. Parses /\ Unpacked(id, data) = e
      BY <1>6, <2>1, <2>2
    <2> QED
      BY <1>7, <2>4, <2>5 DEF e
  <1>8. CASE ~ Faithful(e)
    <2>1. e.id \in Payloads /\ Len(e.content[1]) \notin 1..MaxPayloadLength(e.id)
      BY <1>3, <1>4, <1>8 DEF Faithful
    <2>2. Len(e.content[1]) <= MaxPayloadLength(e.id) /\ MaxPayloadLength(e.id) \in Nat
      BY <1>3, <2>1, PayloadsCountable DEF Fitting
    <2>3. Len(e.content[1]) \in Nat
      BY <1>1, <2>1 DEF Body
    <2>4. Len(e.content[1]) = 0
      BY <2>1, <2>2, <2>3
    <2>5. ~ Accepts(e.id, data, size)
      BY <1>1, <2>1, <2>4, EmptyRefused
    <2> QED
      BY <1>6, <1>8, <2>5 DEF e
  <1> QED
    BY <1>7, <1>8

\* parse() goes on to the next element.
LEMMA TraceParsed ==
  ASSUME CodecInv, TraceInv, ElementParsed
  PROVE  TraceInv'
  <1>1. /\ step = "parse" /\ step' = "parse" /\ currPos < Len(raw) /\ Parses
        /\ out' = Append(out, Unpacked(id, data)) /\ currPos' = currPos + 1 + Consumes(id, data)
        /\ UNCHANGED <<elements, packed, raw, sound, wanted>>
    BY DEF ElementParsed, sender, buffer
  <1>2. ASSUME Sound
        PROVE  Traced' /\ Understood'
    <2>1. Traced /\ packed = Len(elements)
      BY <1>1, <1>2 DEF TraceInv, Traced
    <2>2. PICK at : Laid(at) /\ ParsesOn(at)
      BY <1>1, <2>1 DEF Traced
    <2>3. PICK n \in 1..(packed + 1) :
            /\ At(at, n)
            /\ Len(out) = n - 1
            /\ \A i \in 1..(n - 1) : out[i] = elements[i] /\ Faithful(elements[i])
      BY <2>2 DEF ParsesOn
    <2>4. n \in 1..packed /\ packed \in Nat
      <3>1. packed \in Nat
        BY <2>1, LenProperties DEF CodecInv, SenderOK
      <3> QED
        BY <1>1, <2>2, <2>3, <3>1, WhichElement
    <2>5. currPos = at[n]
      BY <2>3 DEF At
    <2>6. /\ Faithful(elements[n]) /\ Unpacked(id, data) = elements[n]
          /\ currPos' = at[n + 1]
      BY <1>1, <1>2, <2>2, <2>4, <2>5, ParsesFaithful
    <2>7. /\ Len(out') = n
          /\ \A i \in 1..n : out'[i] = elements[i] /\ Faithful(elements[i])
      <3>1. Unpacked(id, data) \in Unpackings
        <4>1. id \in Ids /\ data \in Seq(Byte)
          BY <1>1, <2>2, <2>4, <2>5, FoundAt DEF Parses
        <4> QED
          BY <4>1 DEF Unpackings
      <3>2. /\ Len(out') = Len(out) + 1 /\ Len(out) = n - 1
            /\ \A i \in 1..Len(out) : out'[i] = out[i]
            /\ out'[Len(out) + 1] = elements[n]
        BY <1>1, <2>3, <2>6, <3>1, AppendProperties DEF CodecInv
      <3>3. n - 1 + 1 = n /\ \A i \in 1..n : i = n \/ i \in 1..(n - 1)
        BY <2>4
      <3> QED
        BY <2>3, <2>6, <3>2, <3>3
    <2>8. ParsesOn(at)'
      <3>1. n + 1 \in 1..(packed + 1) /\ n + 1 - 1 = n
        BY <2>4
      <3>2. At(at, n + 1)'
        BY <1>1, <2>6, <3>1 DEF At
      <3> QED
        BY <1>1, <2>7, <3>1, <3>2 DEF ParsesOn
    <2>9. Laid(at)'
      BY <1>1, <2>2 DEF Laid
    <2>10. Traced'
      BY <1>1, <2>1, <2>8, <2>9 DEF Traced
    <2> QED
      BY <1>1, <2>10 DEF Understood
  <1> QED
    BY <1>1, <1>2, TraceFrame

\* parse() refuses a message for an element that does not unpack as it packs.
LEMMA TraceFails ==
  ASSUME CodecInv, TraceInv, ParseFails
  PROVE  TraceInv'
  <1>1. /\ step = "parse" /\ step' = "done" /\ currPos < Len(raw) /\ ~ Parses
        /\ outcome' = "refused"
        /\ UNCHANGED <<elements, packed, raw, sound, wanted>>
    BY DEF ParseFails, Ends, sender, buffer
  <1>2. ASSUME Sound
        PROVE  Traced' /\ Understood'
    <2>1. Traced /\ packed = Len(elements)
      BY <1>1, <1>2 DEF TraceInv, Traced
    <2>2. PICK at : Laid(at) /\ ParsesOn(at)
      BY <1>1, <2>1 DEF Traced
    <2>3. PICK n \in 1..(packed + 1) : At(at, n)
      BY <2>2 DEF ParsesOn
    <2>4. n \in 1..packed /\ DOMAIN elements = 1..Len(elements)
      BY <1>1, <2>2, <2>3, WhichElement, LenProperties DEF CodecInv, SenderOK
    <2>5. ~ Faithful(elements[n])
      BY <1>1, <1>2, <2>2, <2>3, <2>4, ParsesFaithful DEF At
    <2>6. ~ Understandable
      BY <2>1, <2>4, <2>5 DEF Understandable
    <2>7. Understandable' = Understandable
      BY <1>1 DEF Understandable, IdsOf
    <2>8. Understood'
      BY <1>1, <2>6, <2>7 DEF Understood
    <2> QED
      BY <1>1, <2>1, <2>8 DEF Traced
  <1> QED
    BY <1>1, <1>2, TraceFrame

\* parse() returns the elements that were packed, if they are what a message must have.
LEMMA TraceEnds ==
  ASSUME CodecInv, TraceInv, Parsed
  PROVE  TraceInv'
  <1>1. /\ step = "parse" /\ step' = "done" /\ currPos >= Len(raw)
        /\ Required \subseteq IdsOf(out) => outcome' = "parsed" /\ out' = out
        /\ ~ (Required \subseteq IdsOf(out)) => outcome' = "refused"
        /\ UNCHANGED <<elements, packed, raw, sound, wanted>>
    BY DEF Parsed, Ends, sender, buffer
  <1>2. ASSUME Sound
        PROVE  Traced' /\ Understood'
    <2>1. Traced /\ packed = Len(elements)
      BY <1>1, <1>2 DEF TraceInv, Traced
    <2>2. PICK at : Laid(at) /\ ParsesOn(at)
      BY <1>1, <2>1 DEF Traced
    <2>3. PICK n \in 1..(packed + 1) :
            /\ At(at, n)
            /\ Len(out) = n - 1
            /\ \A i \in 1..(n - 1) : out[i] = elements[i] /\ Faithful(elements[i])
      BY <2>2 DEF ParsesOn
    <2>4. n = packed + 1 /\ packed \in Nat /\ DOMAIN elements = 1..Len(elements)
      BY <1>1, <2>1, <2>2, <2>3, WhichElement, LenProperties DEF CodecInv, SenderOK
    <2>5. Len(out) = Len(elements)
          /\ \A i \in 1..Len(elements) : out[i] = elements[i] /\ Faithful(elements[i])
      <3>1. n - 1 = Len(elements)
        BY <2>1, <2>4
      <3> QED
        BY <2>3, <3>1
    <2>6. out = elements
      <3>1. out \in Seq(Unpackings) /\ elements \in Seq(Element)
        BY DEF CodecInv, SenderOK
      <3>2. out = [i \in 1..Len(out) |-> out[i]]
        BY <3>1, SeqDef, LenProperties
      <3>3. elements = [i \in 1..Len(elements) |-> elements[i]]
        BY <3>1, SeqDef, LenProperties
      <3> QED
        BY <2>5, <3>2, <3>3
    <2>7. \A i \in DOMAIN elements :
            /\ elements[i].id \in Ids /\ Faithful(elements[i])
            /\ CategoryOf(elements[i].id) = wanted
      BY <1>1, <1>2, <2>1, <2>4, <2>5, SoundElement DEF Traced
    <2>8. Understandable <=> Required \subseteq IdsOf(elements)
      BY <2>7 DEF Understandable, Required
    <2>9. Understandable' = Understandable
      BY <1>1 DEF Understandable, IdsOf
    <2>10. Understood'
      BY <1>1, <2>6, <2>8, <2>9 DEF Understood
    <2> QED
      BY <1>1, <2>1, <2>10 DEF Traced
  <1> QED
    BY <1>1, <1>2, TraceFrame

\* A step that leaves every variable alone keeps it too.
LEMMA TraceStutter ==
  ASSUME TraceInv, UNCHANGED vars
  PROVE  TraceInv'
  <1>1. UNCHANGED <<elements, packed, raw, sound, wanted, step, currPos, category, out, outcome>>
    BY DEF vars, sender, buffer, reader
  <1>2. Sound' = Sound /\ Understood' = Understood
    BY <1>1 DEF Sound, Understood, Understandable, IdsOf
  <1>3. Traced' = Traced
    BY <1>1 DEF Traced, Laid, Classifies, ParsesOn, At
  <1> QED
    BY <1>1, <1>2, <1>3 DEF TraceInv

\* messageCategory(), parse(): a message of any elements, the location apart, that
\* arrives as it was packed is parsed to its elements if it is of the kind waited
\* for, whole, and packs and unpacks alike; otherwise it is refused.
THEOREM UnderstandsOwnMessages == ASSUME PayloadsCounted PROVE Spec => []Understood
  <1>1. Init => TraceInv
    BY TraceInit
  <1>2. CodecInv /\ TraceInv /\ [Next]_vars => TraceInv'
    BY TracePack, TraceSend, TraceSeen, TraceUnknown, TraceClassified, TraceParsed,
       TraceFails, TraceEnds, TraceStutter DEF Next
  <1>3. TraceInv => Understood
    BY DEF TraceInv, Understood, Sound
  <1> QED
    BY <1>1, <1>2, <1>3, CodecCorrect, PTL DEF Spec
=============================================================================
