------------------------- MODULE ModemAnswers_proofs -------------------------
(***************************************************************************)
(* How far answers lag behind.  What is outstanding, read into the buffer  *)
(* or still to come, can be given levels: a level is a command not after   *)
(* the one that is answered, and rises behind every piece that ends an     *)
(* answer.  A read that succeeds takes an answer's end and so raises the   *)
(* lowest level by one, as the next command does the newest; only a        *)
(* command that is cut short leaves the lowest level where it was.         *)
(***************************************************************************)
EXTENDS Modem_proofs, SequenceTheorems

Texts == {"OK", "ERROR", "READY", "line", "data"}
Piece == [n : Nat, text : Texts]

Ending(piece) == piece.text \in {"OK", "ERROR", "READY"}

Levels(s, d, low) ==
  \A i \in 1..Len(s) :
    /\ low <= d[i] /\ d[i] <= s[i].n
    /\ \A j \in 1..Len(s) : i < j => d[i] <= d[j] /\ (Ending(s[i]) => d[i] < d[j])

Leveled(s, low, top) ==
  /\ \E d \in [1..Len(s) -> Int] : Levels(s, d, low)
  /\ \A i \in 1..Len(s) : s[i].n <= top

\* t is what is left of s when the first m pieces are taken.
Left(t, s, m) == /\ Len(t) = Len(s) - m
                 /\ \A i \in 1..Len(t) : t[i] = s[m + i]

\* What remains keeps its levels, and is above the ends that were taken.
LEMMA TakenFromFront ==
  ASSUME NEW s \in Seq(Piece), NEW t \in Seq(Piece), NEW m \in 0..Len(s), Left(t, s, m),
         NEW low \in Int, NEW top \in Int, Leveled(s, low, top),
         NEW low2 \in Int, NEW top2 \in Int, top <= top2,
         low2 <= low \/ (low2 <= low + 1 /\ \E i \in 1..m : Ending(s[i]))
  PROVE  Leveled(t, low2, top2)
  <1>1. Len(s) \in Nat /\ Len(t) \in Nat /\ Len(t) = Len(s) - m /\ m \in Nat
    BY LenProperties DEF Left
  <1>2. PICK d \in [1..Len(s) -> Int] : Levels(s, d, low)
    BY DEF Leveled
  <1> DEFINE e == [i \in 1..Len(t) |-> d[m + i]]
  <1>3. \A i \in 1..Len(t) : m + i \in 1..Len(s) /\ t[i] = s[m + i] /\ e[i] = d[m + i]
    BY <1>1 DEF Left
  <1>4. e \in [1..Len(t) -> Int]
    BY <1>3
  <1>5. \A i \in 1..Len(t) : low2 <= d[m + i]
    <2>1. CASE low2 <= low
      <3> TAKE i \in 1..Len(t)
      <3>1. m + i \in 1..Len(s)
        BY <1>3
      <3>2. low <= d[m + i] /\ d[m + i] \in Int
        BY <1>2, <3>1 DEF Levels
      <3> QED
        BY <2>1, <3>2
    <2>2. ASSUME NEW k \in 1..m, Ending(s[k]), low2 <= low + 1
          PROVE  \A i \in 1..Len(t) : low2 <= d[m + i]
      <3> TAKE i \in 1..Len(t)
      <3>1. k \in 1..Len(s) /\ m + i \in 1..Len(s) /\ k < m + i
        BY <1>1, <1>3
      <3>2. low <= d[k] /\ d[k] < d[m + i]
        BY <1>2, <2>2, <3>1 DEF Levels
      <3>3. d[k] \in Int /\ d[m + i] \in Int
        BY <3>1
      <3> QED
        BY <2>2, <3>2, <3>3
    <2> QED
      BY <2>1, <2>2
  <1>6. \A i, j \in 1..Len(t) : i < j => e[i] <= e[j] /\ (Ending(t[i]) => e[i] < e[j])
    <2> SUFFICES ASSUME NEW i \in 1..Len(t), NEW j \in 1..Len(t), i < j
                 PROVE  e[i] <= e[j] /\ (Ending(t[i]) => e[i] < e[j])
      OBVIOUS
    <2>1. m + i < m + j
      BY <1>1
    <2> QED
      BY <1>2, <1>3, <2>1 DEF Levels
  <1>7. \A i \in 1..Len(t) : e[i] <= t[i].n
    BY <1>2, <1>3 DEF Levels
  <1>8. Levels(t, e, low2)
    BY <1>3, <1>5, <1>6, <1>7 DEF Levels
  <1>9. \A i \in 1..Len(t) : t[i].n <= top2
    <2> TAKE i \in 1..Len(t)
    <2>1. t[i].n <= top /\ t[i] \in Piece
      BY <1>3, ElementOfSeq DEF Leveled
    <2> QED
      BY <2>1 DEF Piece
  <1> HIDE DEF e
  <1> QED
    BY <1>4, <1>8, <1>9 DEF Leveled

\* An answer to command k comes behind what is outstanding, of which the levels
\* are below k, or can be lowered by one.
LEMMA AnsweredBehind ==
  ASSUME NEW s \in Seq(Piece), NEW new \in Seq(Piece), NEW k \in Nat,
         NEW low \in Int, low <= k,
         Leveled(s, low, k - 1) \/ Leveled(s, low + 1, k),
         \A i \in 1..Len(new) : new[i].n = k /\ (Ending(new[i]) => i = Len(new))
  PROVE  Leveled(s \o new, low, k)
  <1> DEFINE t == s \o new
  <1>1. /\ Len(s) \in Nat /\ Len(new) \in Nat /\ t \in Seq(Piece) /\ Len(t) = Len(s) + Len(new)
        /\ \A i \in 1..Len(t) : t[i] = IF i <= Len(s) THEN s[i] ELSE new[i - Len(s)]
    BY LenProperties, ConcatProperties
  <1> HIDE DEF t
  <1>2. \A i \in 1..Len(s) : s[i].n \in Int
    <2> TAKE i \in 1..Len(s)
    <2>1. s[i] \in Piece
      BY ElementOfSeq
    <2> QED
      BY <2>1 DEF Piece
  <1>3. \E d \in [1..Len(s) -> Int] : Levels(s, d, low) /\ \A i \in 1..Len(s) : d[i] < k
    <2>1. \A i \in 1..Len(s) : s[i].n \in Int
      BY <1>2
    <2>2. CASE Leveled(s, low, k - 1)
      <3>1. PICK d \in [1..Len(s) -> Int] : Levels(s, d, low)
        BY <2>2 DEF Leveled
      <3>2. \A i \in 1..Len(s) : d[i] <= s[i].n /\ s[i].n <= k - 1 /\ d[i] \in Int
        BY <2>2, <3>1 DEF Leveled, Levels
      <3>3. \A i \in 1..Len(s) : d[i] < k
        BY <2>1, <3>2
      <3> QED
        BY <3>1, <3>3
    <2>3. CASE Leveled(s, low + 1, k)
      <3>1. PICK d \in [1..Len(s) -> Int] : Levels(s, d, low + 1)
        BY <2>3 DEF Leveled
      <3> DEFINE e == [i \in 1..Len(s) |-> d[i] - 1]
      <3>2. e \in [1..Len(s) -> Int]
        OBVIOUS
      <3>3. \A i \in 1..Len(s) : d[i] <= s[i].n /\ s[i].n <= k /\ d[i] \in Int /\ low + 1 <= d[i]
        BY <2>3, <3>1 DEF Leveled, Levels
      <3>4. \A i \in 1..Len(s) : low <= e[i] /\ e[i] <= s[i].n /\ e[i] < k
        BY <2>1, <3>3
      <3>5. \A i, j \in 1..Len(s) : i < j => e[i] <= e[j] /\ (Ending(s[i]) => e[i] < e[j])
        <4> TAKE i, j \in 1..Len(s)
        <4>1. e[i] = d[i] - 1 /\ e[j] = d[j] - 1 /\ d[i] \in Int /\ d[j] \in Int
          OBVIOUS
        <4>2. i < j => d[i] <= d[j] /\ (Ending(s[i]) => d[i] < d[j])
          BY <3>1 DEF Levels
        <4> HIDE DEF e
        <4> QED
          BY <4>1, <4>2
      <3>6. Levels(s, e, low)
        BY <3>4, <3>5 DEF Levels
      <3> QED
        BY <3>2, <3>4, <3>6
    <2> QED
      BY <2>2, <2>3
  <1>4. PICK d \in [1..Len(s) -> Int] : Levels(s, d, low) /\ \A i \in 1..Len(s) : d[i] < k
    BY <1>3
  <1> DEFINE e == [i \in 1..Len(t) |-> IF i <= Len(s) THEN d[i] ELSE k]
  <1>5. e \in [1..Len(t) -> Int]
    BY <1>1
  <1>6. ASSUME NEW i \in 1..Len(t)
        PROVE  low <= e[i] /\ e[i] <= t[i].n /\ t[i].n <= k
    <2>1. CASE i <= Len(s)
      <3>1. i \in 1..Len(s) /\ t[i] = s[i] /\ e[i] = d[i]
        BY <1>1, <2>1
      <3>2. s[i].n <= k
        <4>1. s[i].n \in Int
          BY <1>2, <3>1
        <4>2. s[i].n <= k - 1 \/ s[i].n <= k
          BY <3>1 DEF Leveled
        <4> QED
          BY <4>1, <4>2
      <3> QED
        BY <1>4, <3>1, <3>2 DEF Levels
    <2>2. CASE i > Len(s)
      <3>1. i - Len(s) \in 1..Len(new) /\ t[i] = new[i - Len(s)] /\ e[i] = k
        BY <1>1, <2>2
      <3>2. t[i].n = k
        BY <3>1
      <3> QED
        BY <3>1, <3>2
    <2> QED
      BY <1>1, <2>1, <2>2
  <1>7. ASSUME NEW i \in 1..Len(t), NEW j \in 1..Len(t), i < j
        PROVE  e[i] <= e[j] /\ (Ending(t[i]) => e[i] < e[j])
    <2>1. CASE j <= Len(s)
      <3>1. i \in 1..Len(s) /\ j \in 1..Len(s) /\ t[i] = s[i] /\ e[i] = d[i] /\ e[j] = d[j]
        BY <1>1, <1>7, <2>1
      <3> QED
        BY <1>4, <1>7, <3>1 DEF Levels
    <2>2. CASE i <= Len(s) /\ j > Len(s)
      <3>1. i \in 1..Len(s) /\ e[i] = d[i] /\ e[j] = k
        BY <1>1, <2>2
      <3>2. d[i] < k /\ d[i] \in Int
        BY <1>4, <3>1
      <3> QED
        BY <3>1, <3>2
    <2>3. CASE i > Len(s)
      <3>1. e[i] = k /\ e[j] = k
        BY <1>1, <1>7, <2>3
      <3>2. i - Len(s) \in 1..Len(new) /\ t[i] = new[i - Len(s)] /\ i - Len(s) # Len(new)
        BY <1>1, <1>7, <2>3
      <3>3. ~ Ending(t[i])
        BY <3>2
      <3> QED
        BY <3>1, <3>3
    <2> QED
      BY <1>1, <2>1, <2>2, <2>3
  <1>8. Levels(t, e, low)
    BY <1>6, <1>7 DEF Levels
  <1> HIDE DEF e
  <1> QED
    BY <1>5, <1>6, <1>8 DEF Leveled, t

\* What is outstanding, part by part.
LEMMA ThreeParts ==
  ASSUME NEW a \in Seq(Piece), NEW b \in Seq(Piece), NEW p \in Seq(Piece)
  PROVE  LET s == a \o (b \o p)
         IN  /\ s \in Seq(Piece)
             /\ Len(s) = Len(a) + Len(b) + Len(p)
             /\ \A i \in 1..Len(s) :
                  s[i] = IF i <= Len(a) THEN a[i]
                         ELSE IF i <= Len(a) + Len(b) THEN b[i - Len(a)]
                         ELSE p[i - (Len(a) + Len(b))]
  <1> DEFINE t == b \o p
             s == a \o t
  <1>1. Len(a) \in Nat /\ Len(b) \in Nat /\ Len(p) \in Nat
    BY LenProperties
  <1>2. /\ t \in Seq(Piece) /\ Len(t) = Len(b) + Len(p)
        /\ \A i \in 1..Len(t) : t[i] = IF i <= Len(b) THEN b[i] ELSE p[i - Len(b)]
    BY ConcatProperties
  <1> HIDE DEF t
  <1>3. /\ s \in Seq(Piece) /\ Len(s) = Len(a) + Len(t)
        /\ \A i \in 1..Len(s) : s[i] = IF i <= Len(a) THEN a[i] ELSE t[i - Len(a)]
    <2>1. t \in Seq(Piece)
      BY <1>2
    <2> QED
      BY <2>1, ConcatProperties
  <1> HIDE DEF s
  <1>4. Len(s) = Len(a) + Len(b) + Len(p)
    BY <1>1, <1>2, <1>3
  <1>5. ASSUME NEW i \in 1..Len(s), i > Len(a)
        PROVE  s[i] = IF i <= Len(a) + Len(b) THEN b[i - Len(a)]
                      ELSE p[i - (Len(a) + Len(b))]
    <2>1. i - Len(a) \in 1..Len(t) /\ s[i] = t[i - Len(a)]
      BY <1>1, <1>2, <1>3, <1>5
    <2>2. (i - Len(a)) - Len(b) = i - (Len(a) + Len(b))
      BY <1>1
    <2>3. i - Len(a) <= Len(b) <=> i <= Len(a) + Len(b)
      BY <1>1
    <2> QED
      BY <1>2, <2>1, <2>2, <2>3
  <1>6. \A i \in 1..Len(s) :
          s[i] = IF i <= Len(a) THEN a[i]
                 ELSE IF i <= Len(a) + Len(b) THEN b[i - Len(a)]
                 ELSE p[i - (Len(a) + Len(b))]
    BY <1>1, <1>3, <1>5
  <1> QED
    BY <1>3, <1>4, <1>6 DEF s, t

\* Some of the first part is taken.
LEMMA FirstPartTaken ==
  ASSUME NEW a \in Seq(Piece), NEW b \in Seq(Piece), NEW p \in Seq(Piece),
         NEW m \in 0..Len(a), NEW a2 \in Seq(Piece), Left(a2, a, m)
  PROVE  Left(a2 \o (b \o p), a \o (b \o p), m)
  <1> DEFINE s == a \o (b \o p)
             t == a2 \o (b \o p)
  <1>1. Len(a) \in Nat /\ Len(b) \in Nat /\ Len(p) \in Nat /\ Len(a2) = Len(a) - m
    BY LenProperties DEF Left
  <1>2. /\ Len(s) = Len(a) + Len(b) + Len(p)
        /\ \A i \in 1..Len(s) :
             s[i] = IF i <= Len(a) THEN a[i]
                    ELSE IF i <= Len(a) + Len(b) THEN b[i - Len(a)]
                    ELSE p[i - (Len(a) + Len(b))]
    BY ThreeParts
  <1>3. /\ Len(t) = Len(a2) + Len(b) + Len(p)
        /\ \A i \in 1..Len(t) :
             t[i] = IF i <= Len(a2) THEN a2[i]
                    ELSE IF i <= Len(a2) + Len(b) THEN b[i - Len(a2)]
                    ELSE p[i - (Len(a2) + Len(b))]
    BY ThreeParts
  <1> HIDE DEF s, t
  <1>4. ASSUME NEW i \in 1..Len(t)
        PROVE  t[i] = s[m + i]
    <2>1. /\ m + i \in 1..Len(s)
          /\ i <= Len(a2) <=> m + i <= Len(a)
          /\ i <= Len(a2) + Len(b) <=> m + i <= Len(a) + Len(b)
          /\ i - Len(a2) = (m + i) - Len(a)
          /\ i - (Len(a2) + Len(b)) = (m + i) - (Len(a) + Len(b))
      BY <1>1, <1>2, <1>3
    <2>2. i <= Len(a2) => a2[i] = a[m + i]
      BY <1>1 DEF Left
    <2> QED
      BY <1>2, <1>3, <2>1, <2>2
  <1>5. Len(t) = Len(s) - m
    BY <1>1, <1>2, <1>3
  <1> QED
    BY <1>4, <1>5 DEF Left, s, t

\* Some of the second part is taken, the first being empty, or both are dropped.
LEMMA LineTaken ==
  ASSUME NEW b \in Seq(Piece), NEW p \in Seq(Piece),
         NEW m \in 0..Len(b), NEW b2 \in Seq(Piece), Left(b2, b, m)
  PROVE  Left(<<>> \o (b2 \o p), <<>> \o (b \o p), m)
  <1> DEFINE e == <<>>
  <1>1. e \in Seq(Piece) /\ Len(e) = 0
    BY EmptySeq
  <1> HIDE DEF e
  <1>2. Left(b2 \o (e \o p), b \o (e \o p), m)
    BY <1>1, FirstPartTaken
  <1>3. e \o p = p
    BY ConcatEmptySeq DEF e
  <1>4. e \o (b2 \o p) = b2 \o p /\ e \o (b \o p) = b \o p
    BY ConcatEmptySeq, ConcatProperties DEF e
  <1> QED
    BY <1>2, <1>3, <1>4 DEF e

\* The first piece is taken.
LEMMA TailLeft ==
  ASSUME NEW s \in Seq(Piece), s # <<>>
  PROVE  Tail(s) \in Seq(Piece) /\ Left(Tail(s), s, 1) /\ 1 \in 0..Len(s) /\ Head(s) = s[1]
  <1>1. /\ Len(s) \in Nat /\ Len(s) # 0 /\ Tail(s) \in Seq(Piece)
        /\ Len(Tail(s)) = Len(s) - 1 /\ Head(s) = s[1]
        /\ \A i \in 1..Len(Tail(s)) : Tail(s)[i] = s[i + 1]
    BY EmptySeq, LenProperties, HeadTailProperties
  <1> QED
    BY <1>1 DEF Left

\* All is taken.
LEMMA AllLeft ==
  ASSUME NEW s \in Seq(Piece)
  PROVE  <<>> \in Seq(Piece) /\ Left(<<>>, s, Len(s)) /\ Len(s) \in 0..Len(s)
  BY EmptySeq, LenProperties DEF Left

\* Pieces one behind the other.
Chained(x, y) == x \o y

\* Joining pieces gives pieces, whichever two are joined first.
LEMMA ChainedPieces ==
  ASSUME NEW x \in Seq(Piece), NEW y \in Seq(Piece), NEW z \in Seq(Piece)
  PROVE  /\ Chained(x, y) \in Seq(Piece)
         /\ Chained(Chained(x, y), z) = Chained(x, Chained(y, z))
  <1>1. x \o y \in Seq(Piece)
    BY ConcatProperties
  <1>2. (x \o y) \o z = x \o (y \o z)
    BY ConcatAssociative
  <1> QED
    BY <1>1, <1>2 DEF Chained

LEMMA Associative ==
  ASSUME NEW x \in Seq(Piece), NEW y \in Seq(Piece), NEW z \in Seq(Piece)
  PROVE  (x \o y) \o z = x \o (y \o z)
  BY ChainedPieces DEF Chained

\* Of four rows of pieces, the two in the middle may be joined first.
LEMMA Regrouped ==
  ASSUME NEW x \in Seq(Piece), NEW y \in Seq(Piece), NEW z \in Seq(Piece), NEW w \in Seq(Piece)
  PROVE  Chained(Chained(x, y), Chained(z, w)) = Chained(x, Chained(Chained(y, z), w))
  <1>1. Chained(z, w) \in Seq(Piece)
    BY ChainedPieces
  <1>2. Chained(Chained(x, y), Chained(z, w)) = Chained(x, Chained(y, Chained(z, w)))
    BY <1>1, ChainedPieces
  <1>3. Chained(Chained(y, z), w) = Chained(y, Chained(z, w))
    BY ChainedPieces
  <1> QED
    BY <1>2, <1>3

\* What arrives moves from the line to the buffer.
LEMMA Arrived ==
  ASSUME NEW a \in Seq(Piece), NEW b \in Seq(Piece), NEW p \in Seq(Piece), NEW k \in 1..Len(b)
  PROVE  /\ a \o SubSeq(b, 1, k) \in Seq(Piece)
         /\ SubSeq(b, k + 1, Len(b)) \in Seq(Piece)
         /\ (a \o SubSeq(b, 1, k)) \o (SubSeq(b, k + 1, Len(b)) \o p) = a \o (b \o p)
  <1> DEFINE f == SubSeq(b, 1, k)
             g == SubSeq(b, k + 1, Len(b))
  <1>1. Len(b) \in Nat /\ k \in Nat /\ \A i \in 1..Len(b) : b[i] \in Piece
    BY LenProperties, ElementOfSeq
  <1>2. f \in Seq(Piece)
    <2>1. \A i \in 1..k : b[i] \in Piece
      BY <1>1
    <2> QED
      BY <1>1, <2>1, SubSeqProperties
  <1>3. g \in Seq(Piece)
    <2>1. \A i \in (k + 1)..Len(b) : b[i] \in Piece
      BY <1>1
    <2>2. k + 1 \in Int /\ Len(b) \in Int
      BY <1>1
    <2> QED
      BY <2>1, <2>2, SubSeqProperties
  <1>4. f \o g = b
    <2>1. 1 \in 1..(Len(b) + 1) /\ k \in (1 - 1)..Len(b) /\ Len(b) \in k..Len(b)
      BY <1>1
    <2>2. SubSeq(b, 1, k) \o SubSeq(b, k + 1, Len(b)) = SubSeq(b, 1, Len(b))
      BY <2>1, ConcatAdjacentSubSeq
    <2> QED
      BY <2>2, SubSeqFull
  <1> HIDE DEF f, g
  <1>5. Chained(a, f) \in Seq(Piece)
    BY <1>2, ChainedPieces
  <1>6. Chained(Chained(a, f), Chained(g, p)) = Chained(a, Chained(Chained(f, g), p))
    BY <1>2, <1>3, Regrouped
  <1>7. Chained(f, g) = b
    BY <1>4, Zenon DEF Chained
  <1>8. Chained(Chained(a, f), Chained(g, p)) = Chained(a, Chained(b, p))
    BY <1>6, <1>7
  <1>9. /\ a \o f \in Seq(Piece) /\ g \in Seq(Piece)
        /\ (a \o f) \o (g \o p) = a \o (b \o p)
    BY <1>3, <1>5, <1>8, Zenon DEF Chained
  <1> QED
    BY <1>9, Zenon DEF f, g

\* What the modem sends moves on to the line.
LEMMA Sent ==
  ASSUME NEW b \in Seq(Piece), NEW p \in Seq(Piece), p # <<>>
  PROVE  /\ Append(b, Head(p)) \in Seq(Piece)
         /\ Append(b, Head(p)) \o Tail(p) = b \o p
  <1> DEFINE h == <<Head(p)>>
  <1>1. Head(p) \in Piece /\ Tail(p) \in Seq(Piece)
    BY HeadTailProperties
  <1>2. h \in Seq(Piece)
    BY <1>1
  <1>3. Append(b, Head(p)) = b \o h /\ Append(b, Head(p)) \in Seq(Piece)
    BY <1>1, AppendIsConcat, AppendProperties
  <1>4. h \o Tail(p) = p
    <2>1. 1 \in 1..Len(p) /\ Len(p) \in 1..Len(p) /\ Head(p) = p[1]
      BY LenProperties, EmptySeq
    <2>2. SubSeq(p, 1, Len(p)) = <<p[1]>> \o SubSeq(p, 1 + 1, Len(p))
      BY <2>1, SubSeqRecursiveFirst
    <2>3. SubSeq(p, 1, Len(p)) = p /\ Tail(p) = SubSeq(p, 2, Len(p))
      BY SubSeqFull, TailIsSubSeq
    <2> QED
      BY <2>1, <2>2, <2>3
  <1> HIDE DEF h
  <1>5. (b \o h) \o Tail(p) = b \o (h \o Tail(p))
    BY <1>1, <1>2, Associative
  <1> QED
    BY <1>3, <1>4, <1>5

-----------------------------------------------------------------------------
(* What is left of the programs.                                           *)

MessageReads == {<<"write", "any", "data", "OK">>, <<"any", "data", "OK">>}

Remaining == MessageReads \union
  {<<>>, <<"write", "OK">>, <<"OK">>, <<"data", "OK">>,
   <<"write", "any", "any", "OK">>, <<"any", "any", "OK">>, <<"any", "OK">>,
   <<"write", "READY", "payload", "OK">>, <<"READY", "payload", "OK">>,
   <<"payload", "OK">>}

\* Nothing is expected: the last answer was taken to its end.
Slack(r) == IF r \in {<<>>, <<"payload", "OK">>} THEN 1 ELSE 0

\* Every command begins with a write, while an answer may still be expected.
LEMMA ProgramsRemain ==
  ASSUME NEW name
  PROVE  /\ Program(name) \in Remaining
         /\ Program(name) # <<>> /\ Head(Program(name)) = "write"
         /\ Slack(Program(name)) = 0
         /\ name = "GetSignalQuality" => Program(name) \notin MessageReads
  BY DEF Program, GetSignalQuality, WriteMessage, ReadMessage, Plain, Remaining,
         MessageReads, Slack

\* Only a read up to OK or READY leaves nothing expected.
LEMMA ProgramSteps ==
  ASSUME NEW r \in Remaining, r # <<>>
  PROVE  /\ Tail(r) \in Remaining
         /\ Head(r) \in {"write", "payload", "any", "data", "OK", "READY"}
         /\ Slack(r) = IF Head(r) = "payload" THEN 1 ELSE 0
         /\ Slack(Tail(r)) = IF Head(r) \in {"OK", "READY"} THEN 1 ELSE 0
         /\ Tail(r) # <<>> => Head(Tail(r)) # "write"
         /\ Tail(r) # <<>> /\ Head(Tail(r)) = "data" => Head(r) = "any" /\ r \in MessageReads
         /\ r \notin MessageReads => Tail(r) \notin MessageReads
  <1>1. CASE r = <<"write", "any", "data", "OK">>
    <2>1. Head(r) = "write" /\ Tail(r) = <<"any", "data", "OK">>
      BY <1>1
    <2>2. <<"any", "data", "OK">> # <<>> /\ Head(<<"any", "data", "OK">>) = "any"
      OBVIOUS
    <2> QED
      BY <1>1, <2>1, <2>2 DEF Remaining, MessageReads, Slack
  <1>2. CASE r = <<"any", "data", "OK">>
    <2>1. Head(r) = "any" /\ Tail(r) = <<"data", "OK">>
      BY <1>2
    <2>2. <<"data", "OK">> # <<>> /\ Head(<<"data", "OK">>) = "data"
      OBVIOUS
    <2> QED
      BY <1>2, <2>1, <2>2 DEF Remaining, MessageReads, Slack
  <1>3. CASE r = <<"write", "OK">>
    <2>1. Head(r) = "write" /\ Tail(r) = <<"OK">>
      BY <1>3
    <2>2. <<"OK">> # <<>> /\ Head(<<"OK">>) = "OK"
      OBVIOUS
    <2> QED
      BY <1>3, <2>1, <2>2 DEF Remaining, MessageReads, Slack
  <1>4. CASE r = <<"OK">>
    <2>1. Head(r) = "OK" /\ Tail(r) = <<>>
      BY <1>4
    <2> QED
      BY <1>4, <2>1 DEF Remaining, MessageReads, Slack
  <1>5. CASE r = <<"data", "OK">>
    <2>1. Head(r) = "data" /\ Tail(r) = <<"OK">>
      BY <1>5
    <2>2. <<"OK">> # <<>> /\ Head(<<"OK">>) = "OK"
      OBVIOUS
    <2> QED
      BY <1>5, <2>1, <2>2 DEF Remaining, MessageReads, Slack
  <1>6. CASE r = <<"write", "any", "any", "OK">>
    <2>1. Head(r) = "write" /\ Tail(r) = <<"any", "any", "OK">>
      BY <1>6
    <2>2. <<"any", "any", "OK">> # <<>> /\ Head(<<"any", "any", "OK">>) = "any"
      OBVIOUS
    <2> QED
      BY <1>6, <2>1, <2>2 DEF Remaining, MessageReads, Slack
  <1>7. CASE r = <<"any", "any", "OK">>
    <2>1. Head(r) = "any" /\ Tail(r) = <<"any", "OK">>
      BY <1>7
    <2>2. <<"any", "OK">> # <<>> /\ Head(<<"any", "OK">>) = "any"
      OBVIOUS
    <2> QED
      BY <1>7, <2>1, <2>2 DEF Remaining, MessageReads, Slack
  <1>8. CASE r = <<"any", "OK">>
    <2>1. Head(r) = "any" /\ Tail(r) = <<"OK">>
      BY <1>8
    <2>2. <<"OK">> # <<>> /\ Head(<<"OK">>) = "OK"
      OBVIOUS
    <2> QED
      BY <1>8, <2>1, <2>2 DEF Remaining, MessageReads, Slack
  <1>9. CASE r = <<"write", "READY", "payload", "OK">>
    <2>1. Head(r) = "write" /\ Tail(r) = <<"READY", "payload", "OK">>
      BY <1>9
    <2>2. <<"READY", "payload", "OK">> # <<>> /\ Head(<<"READY", "payload", "OK">>) = "READY"
      OBVIOUS
    <2> QED
      BY <1>9, <2>1, <2>2 DEF Remaining, MessageReads, Slack
  <1>10. CASE r = <<"READY", "payload", "OK">>
    <2>1. Head(r) = "READY" /\ Tail(r) = <<"payload", "OK">>
      BY <1>10
    <2>2. <<"payload", "OK">> # <<>> /\ Head(<<"payload", "OK">>) = "payload"
      OBVIOUS
    <2> QED
      BY <1>10, <2>1, <2>2 DEF Remaining, MessageReads, Slack
  <1>11. CASE r = <<"payload", "OK">>
    <2>1. Head(r) = "payload" /\ Tail(r) = <<"OK">>
      BY <1>11
    <2>2. <<"OK">> # <<>> /\ Head(<<"OK">>) = "OK"
      OBVIOUS
    <2> QED
      BY <1>11, <2>1, <2>2 DEF Remaining, MessageReads, Slack
  <1> QED
    BY <1>1, <1>2, <1>3, <1>4, <1>5, <1>6, <1>7, <1>8, <1>9, <1>10, <1>11
    DEF Remaining, MessageReads

\* An answer carries its command's number, and ends with its end.
LEMMA AnswerPieces ==
  ASSUME NEW name, NEW written, NEW answer \in Answers(name, written), NEW k \in Nat
  PROVE  /\ Pieces(k, answer) \in Seq(Piece)
         /\ \A i \in 1..Len(Pieces(k, answer)) :
              /\ Pieces(k, answer)[i].n = k
              /\ Ending(Pieces(k, answer)[i]) => i = Len(Pieces(k, answer))
  <1> DEFINE new == Pieces(k, answer)
  <1>1. answer \in {<<>>, <<"ERROR">>, <<"OK">>, <<"READY">>, <<"line", "OK">>,
                    <<"line", "line", "OK">>, <<"line", "data", "OK">>}
    BY DEF Answers
  <1>2. answer \in Seq(Texts)
    <2>1. \A t \in Texts :
            /\ <<t>> \in Seq(Texts)
            /\ \A u \in Texts : /\ <<t, u>> \in Seq(Texts)
                               /\ \A v \in Texts : <<t, u, v>> \in Seq(Texts)
      OBVIOUS
    <2>2. {"ERROR", "OK", "READY", "line", "data"} \subseteq Texts /\ <<>> \in Seq(Texts)
      BY DEF Texts
    <2> QED
      BY <1>1, <2>1, <2>2
  <1>3. Len(answer) \in Nat /\ DOMAIN answer = 1..Len(answer)
        /\ \A i \in 1..Len(answer) : answer[i] \in Texts
    BY <1>2, LenProperties, ElementOfSeq
  <1>4. new = [i \in 1..Len(answer) |-> [n |-> k, text |-> answer[i]]]
    BY <1>3 DEF Pieces
  <1>5. new \in Seq(Piece) /\ Len(new) = Len(answer)
    <2>1. \A i \in 1..Len(answer) : [n |-> k, text |-> answer[i]] \in Piece
      BY <1>3 DEF Piece
    <2> QED
      BY <1>3, <1>4, <2>1
  <1>6. \A i \in 1..Len(answer) : answer[i] \in {"OK", "ERROR", "READY"} => i = Len(answer)
    <2>1. ASSUME NEW t, answer = <<t>> \/ answer = <<>>
          PROVE  \A i \in 1..Len(answer) : i = Len(answer)
      BY <2>1
    <2>2. ASSUME NEW t, answer = <<"line", t, "OK">>, t # "OK", t # "ERROR", t # "READY"
          PROVE  \A i \in 1..Len(answer) :
                   answer[i] \in {"OK", "ERROR", "READY"} => i = Len(answer)
      BY <2>2
    <2>3. CASE answer = <<"line", "OK">>
      BY <2>3
    <2> QED
      BY <1>1, <2>1, <2>2, <2>3
  <1>7. \A i \in 1..Len(new) : new[i].n = k /\ new[i].text = answer[i]
    BY <1>4, <1>5
  <1> QED
    BY <1>5, <1>6, <1>7 DEF Ending

-----------------------------------------------------------------------------
(* The inductive invariant.                                                *)

\* A buffer that is no longer read is of no account.
Unread(c) == IF todo[c] = <<>> THEN <<>> ELSE buf[c]

Outstanding(c) == Unread(c) \o (line \o pending)

Lowest(c) == issued - cutShort + Slack(todo[c])

Newest(c) == IF todo[c] # <<>> /\ Head(todo[c]) = "write" THEN issued - 1 ELSE issued

LagTypes ==
  /\ call \in [Callers -> [name : {"none"} \union Commands, n : Nat]]
  /\ todo \in [Callers -> Remaining]
  /\ buf \in [Callers -> Seq(Piece)]
  /\ failed \in [Callers -> BOOLEAN]
  /\ heard \in [Callers -> Nat]
  /\ pending \in Seq(Piece) /\ line \in Seq(Piece)
  /\ issued \in Nat /\ cutShort \in Nat
  /\ ~ port => line = <<>>

\* Only reads up to a delimiter end with a thread; one that succeeded found it.
Reads(c) ==
  phase[c] \in {"wait", "join"} =>
    /\ todo[c] # <<>> /\ Head(todo[c]) \in {"any", "OK", "READY"}
    /\ complete[c] /\ ~ failed[c] => Found(c)

Commanded(c) ==
  /\ call[c].n = issued
  /\ todo[c] # <<>> /\ Head(todo[c]) = "data" => buf[c] = <<>>
  /\ call[c].name = "GetSignalQuality" => todo[c] \notin MessageReads
  /\ heard[c] # 0 => issued - heard[c] <= cutShort

Lags(c) == Leveled(Outstanding(c), Lowest(c), Newest(c))

LagInv == /\ LagTypes
          /\ \A c \in Callers : Reads(c) /\ Commanded(c) /\ Lags(c)

OutstandingTyped(c) ==
  /\ Unread(c) \in Seq(Piece) /\ Outstanding(c) \in Seq(Piece)
  /\ Lowest(c) \in Int /\ Newest(c) \in Int

\* What is outstanding is a sequence of pieces, before a step and after it.
LEMMA OutstandingType ==
  ASSUME NEW c \in Callers
  PROVE  /\ LagTypes => OutstandingTyped(c)
         /\ LagTypes' => OutstandingTyped(c)'
  <1>1. ASSUME LagTypes PROVE OutstandingTyped(c)
    <2>1. Unread(c) \in Seq(Piece)
      BY <1>1, EmptySeq DEF LagTypes, Unread
    <2>2. line \o pending \in Seq(Piece)
      BY <1>1, ConcatProperties DEF LagTypes
    <2>3. Outstanding(c) \in Seq(Piece)
      BY <2>1, <2>2, ConcatProperties DEF Outstanding
    <2> QED
      BY <1>1, <2>1, <2>3 DEF LagTypes, Lowest, Newest, Slack, OutstandingTyped
  <1>2. LagTypes => OutstandingTyped(c)
    BY <1>1
  <1> QED
    BY <1>2, PTL

\* A step that takes pieces from the front, and raises the lowest level only behind
\* an end that it took, leaves the rest with its levels.
LEMMA LagsOn ==
  ASSUME LagTypes, LagTypes', NEW c \in Callers, Lags(c),
         NEW m \in 0..Len(Outstanding(c)), Left(Outstanding(c)', Outstanding(c), m),
         Newest(c) <= Newest(c)',
         \/ Lowest(c)' <= Lowest(c)
         \/ Lowest(c)' <= Lowest(c) + 1 /\ \E i \in 1..m : Ending(Outstanding(c)[i])
  PROVE  Lags(c)'
  <1>1. /\ Outstanding(c) \in Seq(Piece) /\ Outstanding(c)' \in Seq(Piece)
        /\ Lowest(c) \in Int /\ Newest(c) \in Int
        /\ Lowest(c)' \in Int /\ Newest(c)' \in Int
    BY OutstandingType DEF OutstandingTyped
  <1> QED
    BY <1>1, TakenFromFront DEF Lags

\* The first piece is not of a command before the lowest level.
LEMMA FirstLevel ==
  ASSUME NEW s \in Seq(Piece), s # <<>>, NEW low \in Int, NEW top, Leveled(s, low, top)
  PROVE  low <= s[1].n
  <1>1. 1 \in 1..Len(s)
    BY EmptySeq
  <1>2. PICK d \in [1..Len(s) -> Int] : Levels(s, d, low)
    BY DEF Leveled
  <1>3. low <= d[1] /\ d[1] <= s[1].n /\ d[1] \in Int /\ s[1] \in Piece
    BY <1>1, <1>2, ElementOfSeq DEF Levels
  <1> QED
    BY <1>3 DEF Piece

-----------------------------------------------------------------------------
LEMMA LagInit == Init => LagInv
  <1> SUFFICES ASSUME Init PROVE LagInv
    OBVIOUS
  <1>1. /\ pending = <<>> /\ line = <<>> /\ issued = 0 /\ cutShort = 0
        /\ \A c \in Callers : todo[c] = <<>> /\ heard[c] = 0 /\ phase[c] = "run" /\ call[c].n = 0
    BY DEF Init
  <1>2. LagTypes
    <2>1. <<>> \in Seq(Piece) /\ <<>> \in Remaining
      BY DEF Remaining
    <2> QED
      BY <2>1 DEF Init, LagTypes
  <1>3. ASSUME NEW c \in Callers PROVE Reads(c) /\ Commanded(c) /\ Lags(c)
    <2>1. Reads(c) /\ Commanded(c)
      <3>1. <<>> \notin MessageReads
        BY DEF MessageReads
      <3> QED
        BY <1>1, <3>1 DEF Reads, Commanded
    <2>2. <<>> \o (<<>> \o <<>>) = <<>>
      OBVIOUS
    <2>3. Outstanding(c) = <<>>
      BY <1>1, <2>2 DEF Outstanding, Unread
    <2>4. ASSUME NEW low, NEW top PROVE Leveled(<<>>, low, top)
      <3> DEFINE e == <<>>
      <3>1. 1..Len(e) = {}
        BY EmptySeq
      <3> HIDE DEF e
      <3>2. [i \in {} |-> 0] \in [1..Len(e) -> Int]
        BY <3>1
      <3>3. \A d : Levels(e, d, low)
        BY <3>1 DEF Levels
      <3>4. Leveled(e, low, top)
        BY <3>1, <3>2, <3>3 DEF Leveled
      <3> QED
        BY <3>4 DEF e
    <2> QED
      BY <2>1, <2>3, <2>4 DEF Lags
  <1> QED
    BY <1>2, <1>3 DEF LagInv

\* A step that touches neither the commands nor the answers.
LEMMA LagSame ==
  ASSUME LagInv, NEW c \in Callers, \A a \in Callers : a = c,
         call' = call, todo' = todo, buf' = buf, heard' = heard,
         pending' = pending, line' = line, issued' = issued, cutShort' = cutShort,
         failed' \in [Callers -> BOOLEAN], port => port', Reads(c)'
  PROVE  LagInv'
  <1>1. LagTypes'
    BY DEF LagInv, LagTypes
  <1>2. Commanded(c)'
    BY DEF LagInv, Commanded
  <1>3. Lags(c)'
    <2>1. /\ Outstanding(c)' = Outstanding(c) /\ Lowest(c)' = Lowest(c)
          /\ Newest(c)' = Newest(c)
      BY DEF Outstanding, Unread, Lowest, Newest
    <2> QED
      BY <2>1 DEF LagInv, Lags
  <1> QED
    BY <1>1, <1>2, <1>3 DEF LagInv

\* The steps of the port, the timer and the runners touch no answer.
LEMMA LagInert ==
  ASSUME LagInv, OneCaller, NEW c \in Callers,
         \/ OptionRefused(c) \/ CloseBegins(c) \/ Wakes(c) \/ ReadBreaks(c) \/ Leaves(c)
         \/ TimerHandler \/ Expires \/ UNCHANGED vars
  PROVE  LagInv'
  <1>1. /\ call' = call /\ todo' = todo /\ buf' = buf /\ heard' = heard /\ failed' = failed
        /\ pending' = pending /\ line' = line /\ issued' = issued /\ cutShort' = cutShort
        /\ complete' = complete
    BY DEF OptionRefused, CloseBegins, Wakes, ReadBreaks, Leaves, TimerHandler, Expires,
           vars, locals, device, counters
  <1>2. port => port'
    BY DEF OptionRefused, CloseBegins, Wakes, ReadBreaks, Leaves, TimerHandler, Expires, vars
  <1>3. phase'[c] \in {"wait", "join"} => phase[c] \in {"wait", "join"}
    <2>1. CASE CloseBegins(c)
      BY <2>1 DEF CloseBegins, Idle, LagInv, LagTypes
    <2>2. CASE ~ CloseBegins(c)
      <3>1. phase' = phase \/ phase[c] = "wait"
        BY <2>2 DEF OptionRefused, Wakes, ReadBreaks, Leaves, TimerHandler, Expires, vars,
                    locals
      <3> QED
        BY <3>1
    <2> QED
      BY <2>1, <2>2
  <1>4. Reads(c)'
    BY <1>1, <1>3 DEF LagInv, Reads, Found
  <1>5. failed' \in [Callers -> BOOLEAN]
    BY <1>1 DEF LagInv, LagTypes
  <1> QED
    BY <1>1, <1>2, <1>4, <1>5, LagSame DEF OneCaller

\* The delimiter of a read is one to be found, and looked for anew.
LEMMA LagStartRead ==
  ASSUME LagInv, OneCaller, NEW c \in Callers, StartRead(c), TypeOK
  PROVE  LagInv'
  <1>1. todo[c] # <<>> /\ Head(todo[c]) \in {"any", "OK", "READY"} /\ ~ complete'[c]
    BY DEF StartRead, At, TypeOK
  <1>2. /\ call' = call /\ todo' = todo /\ buf' = buf /\ heard' = heard /\ failed' = failed
        /\ pending' = pending /\ line' = line /\ issued' = issued /\ cutShort' = cutShort
        /\ port' = port
    BY DEF StartRead, device, counters
  <1>3. Reads(c)'
    BY <1>1, <1>2 DEF Reads
  <1>4. failed' \in [Callers -> BOOLEAN]
    BY <1>2 DEF LagInv, LagTypes
  <1> QED
    BY <1>2, <1>3, <1>4, LagSame DEF OneCaller

\* The handler reports success only when the delimiter was found.
LEMMA LagReadHandler ==
  ASSUME LagInv, OneCaller, NEW c \in Callers, ReadHandler(c), TypeOK
  PROVE  LagInv'
  <1>1. /\ call' = call /\ todo' = todo /\ buf' = buf /\ heard' = heard /\ phase' = phase
        /\ pending' = pending /\ line' = line /\ issued' = issued /\ cutShort' = cutShort
        /\ port' = port
    BY DEF ReadHandler, device, counters
  <1>2. CASE op[c] = "data" /\ ~ Found(c)
    <2>1. failed' = failed /\ complete' = complete
      BY <1>2 DEF ReadHandler
    <2>2. Reads(c)'
      BY <1>1, <2>1 DEF LagInv, Reads, Found
    <2>3. failed' \in [Callers -> BOOLEAN]
      BY <2>1 DEF LagInv, LagTypes
    <2> QED
      BY <1>1, <2>2, <2>3, LagSame DEF OneCaller
  <1>3. CASE ~ (op[c] = "data" /\ ~ Found(c))
    <2>1. failed' = [failed EXCEPT ![c] = op[c] = "aborted"]
      BY <1>3 DEF ReadHandler
    <2>2. ~ failed'[c] => Found(c)
      BY <1>3, <2>1 DEF ReadHandler, LagInv, LagTypes
    <2>3. Reads(c)'
      BY <1>1, <2>2 DEF LagInv, Reads, Found
    <2>4. failed' \in [Callers -> BOOLEAN]
      BY <2>1, Zenon DEF LagInv, LagTypes
    <2> QED
      BY <1>1, <2>3, <2>4, LagSame DEF OneCaller
  <1> QED
    BY <1>2, <1>3

\* A read under way: the caller waits.
LEMMA LagDataArrives ==
  ASSUME LagInv, ModemInv, OneCaller, NEW c \in Callers, DataArrives(c)
  PROVE  LagInv'
  <1>1. PICK k \in DOMAIN line :
          /\ buf' = [buf EXCEPT ![c] = @ \o SubSeq(line, 1, k)]
          /\ line' = SubSeq(line, k + 1, Len(line))
    BY DEF DataArrives
  <1>2. /\ call' = call /\ todo' = todo /\ phase' = phase /\ heard' = heard /\ failed' = failed
        /\ pending' = pending /\ issued' = issued /\ cutShort' = cutShort /\ port' = port
        /\ complete' = complete
    BY DEF DataArrives, counters
  <1>3. phase[c] = "wait" /\ ~ complete[c] /\ port
    BY DEF DataArrives, ModemInv, CallerInv, Resting, NoWork, Running, TypeOK
  <1>4. todo[c] # <<>> /\ Head(todo[c]) \in {"any", "OK", "READY"}
    BY <1>3 DEF LagInv, Reads
  <1>5. buf[c] \in Seq(Piece) /\ line \in Seq(Piece) /\ pending \in Seq(Piece) /\ k \in 1..Len(line)
    BY <1>1, LenProperties DEF LagInv, LagTypes
  <1>6. /\ buf'[c] = buf[c] \o SubSeq(line, 1, k)
        /\ buf'[c] \in Seq(Piece) /\ line' \in Seq(Piece)
        /\ buf'[c] \o (line' \o pending) = buf[c] \o (line \o pending)
    <2>1. buf'[c] = buf[c] \o SubSeq(line, 1, k)
      BY <1>1 DEF LagInv, LagTypes
    <2> DEFINE b == buf[c]
    <2>2. b \in Seq(Piece)
      BY <1>5
    <2> HIDE DEF b
    <2>3. /\ b \o SubSeq(line, 1, k) \in Seq(Piece)
          /\ SubSeq(line, k + 1, Len(line)) \in Seq(Piece)
          /\ (b \o SubSeq(line, 1, k)) \o (SubSeq(line, k + 1, Len(line)) \o pending)
               = b \o (line \o pending)
      BY <1>5, <2>2, Arrived
    <2> QED
      BY <1>1, <2>1, <2>3 DEF b
  <1>7. LagTypes'
    <2>1. buf' \in [Callers -> Seq(Piece)]
      BY <1>1, <1>6 DEF LagInv, LagTypes
    <2> QED
      BY <1>2, <1>3, <1>6, <2>1 DEF LagInv, LagTypes
  <1>8. Outstanding(c)' = Outstanding(c)
    BY <1>2, <1>4, <1>6 DEF Outstanding, Unread
  <1>9. Reads(c)' /\ Commanded(c)'
    BY <1>2, <1>3, <1>4 DEF LagInv, Reads, Commanded
  <1>10. Lags(c)'
    BY <1>2, <1>8 DEF LagInv, Lags, Lowest, Newest
  <1> QED
    BY <1>7, <1>9, <1>10 DEF LagInv, OneCaller

\* What the closed port does not take in is lost; nobody listens then.
LEMMA LagDeviceSends ==
  ASSUME LagInv, ModemInv, OneCaller, DeviceSends
  PROVE  LagInv'
  <1> PICK c \in Callers : \A a \in Callers : a = c
    BY DEF OneCaller
  <1>1. /\ call' = call /\ todo' = todo /\ buf' = buf /\ phase' = phase /\ heard' = heard
        /\ failed' = failed /\ issued' = issued /\ cutShort' = cutShort /\ port' = port
        /\ complete' = complete /\ pending' = Tail(pending) /\ pending # <<>>
    BY DEF DeviceSends, locals, service, counters
  <1>2. line \in Seq(Piece) /\ pending \in Seq(Piece) /\ Unread(c) \in Seq(Piece)
    BY OutstandingType DEF LagInv, LagTypes, OutstandingTyped
  <1>3. Reads(c)' /\ Commanded(c)'
    BY <1>1 DEF LagInv, Reads, Commanded, Found
  <1>4. pending' \in Seq(Piece) /\ Unread(c)' = Unread(c)
    BY <1>1, <1>2, TailLeft DEF Unread
  <1>5. Lowest(c)' = Lowest(c) /\ Newest(c)' = Newest(c)
        /\ Lowest(c) \in Int /\ Newest(c) \in Int
    BY <1>1, OutstandingType DEF Lowest, Newest, LagInv, OutstandingTyped
  <1>6. CASE port
    <2>1. line' = Append(line, Head(pending))
      BY <1>6 DEF DeviceSends
    <2>2. line' \in Seq(Piece) /\ line' \o pending' = line \o pending
      BY <1>1, <1>2, <2>1, Sent
    <2>3. LagTypes'
      BY <1>1, <1>4, <1>6, <2>2 DEF LagInv, LagTypes
    <2>4. Outstanding(c)' = Outstanding(c)
      BY <1>4, <2>2 DEF Outstanding
    <2>5. Lags(c)'
      BY <1>5, <2>4 DEF LagInv, Lags
    <2> QED
      BY <1>3, <2>3, <2>5 DEF LagInv
  <1>7. CASE ~ port
    <2>1. todo[c] = <<>> /\ line = <<>> /\ line' = <<>>
      BY <1>7 DEF ModemInv, CallerInv, LagInv, LagTypes, DeviceSends
    <2>2. LagTypes'
      BY <1>1, <1>4, <2>1 DEF LagInv, LagTypes
    <2>3. Outstanding(c) = pending /\ Outstanding(c)' = pending'
      <3>1. <<>> \o (<<>> \o pending) = pending /\ <<>> \o (<<>> \o pending') = pending'
        BY <1>2, <1>4, ConcatEmptySeq
      <3> QED
        BY <1>1, <2>1, <3>1 DEF Outstanding, Unread
    <2>4. Left(pending', pending, 1) /\ 1 \in 0..Len(pending)
      BY <1>1, <1>2, TailLeft
    <2>5. Lags(c)'
      BY <1>5, <2>2, <2>3, <2>4, LagsOn DEF LagInv
    <2> QED
      BY <1>3, <2>2, <2>5 DEF LagInv
  <1> QED
    BY <1>6, <1>7

\* The next command raises both bounds: nothing was expected.
LEMMA LagGive ==
  ASSUME LagInv, ModemInv, OneCaller, NEW c \in Callers, NEW name \in Commands, Give(c, name)
  PROVE  LagInv'
  <1>1. /\ todo[c] = <<>> /\ phase[c] = "run" /\ todo'[c] = Program(name)
        /\ buf'[c] = <<>> /\ heard'[c] = 0 /\ issued' = issued + 1
        /\ call'[c] = [name |-> name, n |-> issued + 1]
        /\ phase' = phase /\ failed' = failed /\ cutShort' = cutShort
        /\ line' = line /\ pending' = pending
    BY DEF Give, Idle, LagInv, LagTypes, device
  <1>2. /\ Program(name) \in Remaining /\ Program(name) # <<>> /\ Head(Program(name)) = "write"
        /\ Slack(Program(name)) = 0
        /\ name = "GetSignalQuality" => Program(name) \notin MessageReads
    BY ProgramsRemain
  <1>3. LagTypes'
    <2>1. <<>> \in Seq(Piece)
      OBVIOUS
    <2>2. /\ buf' \in [Callers -> Seq(Piece)] /\ todo' \in [Callers -> Remaining]
          /\ heard' \in [Callers -> Nat]
      <3>1. /\ buf' = [buf EXCEPT ![c] = <<>>] /\ todo' = [todo EXCEPT ![c] = Program(name)]
            /\ heard' = [heard EXCEPT ![c] = 0]
        BY DEF Give
      <3>2. heard' \in [Callers -> Nat] /\ buf' \in [Callers -> Seq(Piece)]
        BY <2>1, <3>1 DEF LagInv, LagTypes
      <3>3. todo' \in [Callers -> Remaining]
        BY <1>2, <3>1 DEF LagInv, LagTypes
      <3> QED
        BY <3>2, <3>3
    <2>3. call' \in [Callers -> [name : {"none"} \union Commands, n : Nat]]
      BY DEF Give, LagInv, LagTypes
    <2> QED
      BY <1>1, <2>2, <2>3 DEF Give, LagInv, LagTypes
  <1>4. Reads(c)'
    BY <1>1 DEF Reads
  <1>5. Commanded(c)'
    <2>1. call'[c].n = issued' /\ call'[c].name = name
      BY <1>1
    <2>2. Head(todo'[c]) # "data" /\ (name = "GetSignalQuality" => todo'[c] \notin MessageReads)
      BY <1>1, <1>2
    <2> QED
      BY <1>1, <2>1, <2>2 DEF Commanded
  <1>6. Lags(c)'
    <2>1. Outstanding(c)' = Outstanding(c)
      BY <1>1, <1>2 DEF Outstanding, Unread
    <2>2. Slack(todo[c]) = 1 /\ Slack(todo'[c]) = 0
      <3>1. Slack(<<>>) = 1
        BY DEF Slack
      <3> QED
        BY <1>1, <1>2, <3>1
    <2>3. Lowest(c)' = Lowest(c) /\ Newest(c)' = Newest(c)
      <3>1. issued \in Nat /\ cutShort \in Nat
        BY DEF LagInv, LagTypes
      <3>2. Newest(c) = issued /\ Newest(c)' = issued' - 1
        BY <1>1, <1>2 DEF Newest
      <3> QED
        BY <1>1, <2>2, <3>1, <3>2 DEF Lowest
    <2> QED
      BY <2>1, <2>3 DEF LagInv, Lags
  <1> QED
    BY <1>3, <1>4, <1>5, <1>6 DEF LagInv, OneCaller

\* An answer joins the queue; until then, nothing of this command was in it.
LEMMA LagWriteDone ==
  ASSUME LagInv, ModemInv, OneCaller, NEW c \in Callers, WriteDone(c)
  PROVE  LagInv'
  <1>1. /\ call' = call /\ phase' = phase /\ buf' = buf /\ failed' = failed /\ heard' = heard
        /\ port' = port /\ issued' = issued /\ cutShort' = cutShort /\ line' = line
        /\ complete' = complete
        /\ phase[c] = "run" /\ todo[c] # <<>> /\ Head(todo[c]) \in {"write", "payload"}
        /\ todo'[c] = Tail(todo[c])
    BY DEF WriteDone, At, Writes, counters, LagInv, LagTypes
  <1>2. PICK answer \in Answers(call[c].name, Head(todo[c])) :
          pending' = pending \o Pieces(call[c].n, answer)
    BY DEF WriteDone
  <1> DEFINE new == Pieces(call[c].n, answer)
  <1>3. todo[c] \in Remaining /\ call[c].n = issued /\ issued \in Nat /\ cutShort \in Nat
        /\ line \in Seq(Piece) /\ pending \in Seq(Piece)
    BY DEF LagInv, LagTypes, Commanded
  <1>4. /\ new \in Seq(Piece)
        /\ \A i \in 1..Len(new) : new[i].n = issued /\ (Ending(new[i]) => i = Len(new))
    BY <1>3, AnswerPieces
  <1>5. /\ Tail(todo[c]) \in Remaining /\ Tail(todo[c]) # <<>>
        /\ Head(Tail(todo[c])) \notin {"write", "data"}
        /\ Slack(todo[c]) = IF Head(todo[c]) = "payload" THEN 1 ELSE 0
        /\ Slack(Tail(todo[c])) = 0
        /\ todo[c] \notin MessageReads => Tail(todo[c]) \notin MessageReads
    <2> DEFINE r == todo[c]
    <2>1. Slack(<<>>) = 1
      BY DEF Slack
    <2>2. r \in Remaining /\ r # <<>> /\ Head(r) \in {"write", "payload"}
      BY <1>1, <1>3
    <2> HIDE DEF r
    <2>3. /\ Tail(r) \in Remaining
          /\ Slack(r) = IF Head(r) = "payload" THEN 1 ELSE 0
          /\ Slack(Tail(r)) = IF Head(r) \in {"OK", "READY"} THEN 1 ELSE 0
          /\ Tail(r) # <<>> => Head(Tail(r)) # "write"
          /\ Tail(r) # <<>> /\ Head(Tail(r)) = "data" => Head(r) = "any"
          /\ r \notin MessageReads => Tail(r) \notin MessageReads
      BY <2>2, ProgramSteps
    <2>4. Slack(Tail(r)) = 0 /\ Tail(r) # <<>>
      <3>1. Slack(Tail(r)) = 0
        BY <2>2, <2>3
      <3>2. Slack(Tail(r)) # Slack(<<>>)
        BY <2>1, <3>1
      <3> QED
        BY <3>1, <3>2
    <2> QED
      BY <2>2, <2>3, <2>4 DEF r
  <1>6. pending' = pending \o new
    BY <1>2
  <1> HIDE DEF new
  <1>7. LagTypes'
    <2>1. pending' \in Seq(Piece)
      BY <1>3, <1>4, <1>6, ConcatProperties
    <2>2. todo' \in [Callers -> Remaining]
      BY <1>5 DEF WriteDone, LagInv, LagTypes
    <2> QED
      BY <1>1, <2>1, <2>2 DEF LagInv, LagTypes
  <1>8. Reads(c)' /\ Commanded(c)'
    BY <1>1, <1>5 DEF LagInv, Reads, Commanded
  <1>9. Outstanding(c)' = Outstanding(c) \o new
    <2> DEFINE u == buf[c]
    <2>1. u \in Seq(Piece)
      BY DEF LagInv, LagTypes
    <2>2. Outstanding(c) = u \o (line \o pending)
          /\ Outstanding(c)' = u \o (line \o (pending \o new))
      BY <1>1, <1>5, <1>6 DEF Outstanding, Unread
    <2> HIDE DEF u
    <2>3. line \o pending \in Seq(Piece)
      BY <1>3, ConcatProperties
    <2>4. line \o (pending \o new) = (line \o pending) \o new
      BY <1>3, <1>4, Associative
    <2>5. u \o ((line \o pending) \o new) = (u \o (line \o pending)) \o new
      BY <1>4, <2>1, <2>3, Associative
    <2> QED
      BY <2>2, <2>4, <2>5
  <1>10. Lags(c)'
    <2> DEFINE low == issued - cutShort
    <2>1. Outstanding(c) \in Seq(Piece) /\ low \in Int /\ low <= issued
      BY <1>3, OutstandingType DEF OutstandingTyped, LagInv
    <2>2. Lowest(c)' = low /\ Newest(c)' = issued
      <3>1. Lowest(c)' = issued - cutShort + 0 /\ Newest(c)' = issued
        BY <1>1, <1>3, <1>5, Zenon DEF Lowest, Newest
      <3> QED
        BY <1>3, <3>1
    <2>3. Leveled(Outstanding(c), low, issued - 1) \/ Leveled(Outstanding(c), low + 1, issued)
      <3>1. CASE Head(todo[c]) = "write"
        BY <1>1, <1>3, <1>5, <3>1 DEF LagInv, Lags, Lowest, Newest
      <3>2. CASE Head(todo[c]) = "payload"
        BY <1>1, <1>3, <1>5, <3>2 DEF LagInv, Lags, Lowest, Newest
      <3> QED
        BY <1>1, <3>1, <3>2
    <2> HIDE DEF low
    <2>4. Leveled(Outstanding(c) \o new, low, issued)
      BY <1>3, <1>4, <2>1, <2>3, AnsweredBehind
    <2> QED
      BY <1>9, <2>2, <2>4 DEF Lags
  <1> QED
    BY <1>7, <1>8, <1>10 DEF LagInv, OneCaller

\* Pieces are taken twice.
LEMMA LeftTransitive ==
  ASSUME NEW s \in Seq(Piece), NEW t \in Seq(Piece), NEW u \in Seq(Piece),
         NEW m \in 0..Len(s), NEW n \in 0..Len(t), Left(t, s, m), Left(u, t, n)
  PROVE  Left(u, s, m + n) /\ m + n \in 0..Len(s)
  <1>1. Len(s) \in Nat /\ Len(t) = Len(s) - m /\ Len(u) = Len(t) - n
    BY LenProperties DEF Left
  <1>2. m + n \in 0..Len(s) /\ Len(u) = Len(s) - (m + n)
    BY <1>1
  <1>3. ASSUME NEW i \in 1..Len(u) PROVE u[i] = s[(m + n) + i]
    <2>1. n + i \in 1..Len(t) /\ m + (n + i) = (m + n) + i
      BY <1>1
    <2> QED
      BY <2>1 DEF Left
  <1> QED
    BY <1>2, <1>3 DEF Left

\* The port is closed, or not: what was on the line is lost, or is not.
LEMMA LineKeptOrLost ==
  ASSUME LagTypes, NEW c \in Callers, Unread(c)' = <<>>, pending' = pending,
         line' = line \/ line' = <<>>
  PROVE  \E m \in 0..Len(Outstanding(c)) : Left(Outstanding(c)', Outstanding(c), m)
  <1> DEFINE u == Unread(c)
             e == <<>>
             s == u \o (line \o pending)
             t == e \o (line \o pending)
             r == e \o (line' \o pending)
  <1>1. u \in Seq(Piece) /\ line \in Seq(Piece) /\ pending \in Seq(Piece) /\ e \in Seq(Piece)
    <2>1. u \in Seq(Piece)
      BY OutstandingType DEF OutstandingTyped
    <2> QED
      BY <2>1 DEF LagTypes
  <1>2. Outstanding(c) = s /\ Outstanding(c)' = r
    BY DEF Outstanding
  <1>3. Left(e, u, Len(u)) /\ Len(u) \in 0..Len(u)
    BY <1>1, AllLeft
  <1>4. \E n \in 0..Len(line) : Left(line', line, n)
    <2>1. Left(line, line, 0) /\ 0 \in 0..Len(line)
      BY <1>1, LenProperties DEF Left
    <2>2. Left(<<>>, line, Len(line)) /\ Len(line) \in 0..Len(line)
      BY <1>1, AllLeft
    <2> QED
      BY <2>1, <2>2
  <1>5. PICK n \in 0..Len(line) : Left(line', line, n)
    BY <1>4
  <1>6. line' \in Seq(Piece)
    BY <1>1
  <1>7. Left(r, t, n)
    BY <1>1, <1>5, <1>6, LineTaken
  <1>8. s \in Seq(Piece) /\ t \in Seq(Piece) /\ r \in Seq(Piece)
        /\ Len(s) = Len(u) + Len(line) + Len(pending) /\ Len(t) = Len(line) + Len(pending)
    <2>1. Len(e) = 0 /\ Len(line) \in Nat /\ Len(pending) \in Nat
      BY <1>1, LenProperties
    <2> HIDE DEF u, e
    <2> QED
      BY <1>1, <1>6, <2>1, ThreeParts
  <1>9. Left(t, s, Len(u))
    <2> HIDE DEF u, e
    <2> QED
      BY <1>1, <1>3, FirstPartTaken
  <1>10. Len(u) \in 0..Len(s) /\ n \in 0..Len(t)
    <2>1. Len(u) \in Nat /\ Len(line) \in Nat /\ Len(pending) \in Nat
      BY <1>1, LenProperties
    <2> QED
      BY <1>8, <2>1
  <1> HIDE DEF u, e, s, t, r
  <1> QED
    BY <1>2, <1>7, <1>8, <1>9, <1>10, LeftTransitive

\* What a command takes from its buffer is not of a command before the lowest level.
LEMMA FirstInBuffer ==
  ASSUME LagInv, NEW c \in Callers, Unread(c) # <<>>
  PROVE  Head(Unread(c)).n \in Nat /\ Lowest(c) <= Head(Unread(c)).n
  <1> DEFINE u == Unread(c)
             s == u \o (line \o pending)
  <1>1. u \in Seq(Piece) /\ line \in Seq(Piece) /\ pending \in Seq(Piece)
    BY OutstandingType DEF LagInv, LagTypes, OutstandingTyped
  <1>2. s = Outstanding(c) /\ Lowest(c) \in Int
    BY OutstandingType DEF LagInv, OutstandingTyped, Outstanding
  <1>3. u # <<>>
    OBVIOUS
  <1>4. Leveled(s, Lowest(c), Newest(c))
    BY <1>2 DEF LagInv, Lags
  <1> HIDE DEF u
  <1>5. Head(u) = u[1] /\ 1 \in 1..Len(u) /\ Len(u) \in Nat
    BY <1>1, <1>3, TailLeft, EmptySeq, LenProperties
  <1>6. /\ s \in Seq(Piece) /\ Len(s) = Len(u) + Len(line) + Len(pending)
        /\ \A j \in 1..Len(s) :
             s[j] = IF j <= Len(u) THEN u[j]
                    ELSE IF j <= Len(u) + Len(line) THEN line[j - Len(u)]
                    ELSE pending[j - (Len(u) + Len(line))]
    BY <1>1, ThreeParts
  <1> HIDE DEF s
  <1>7. 1 \in 1..Len(s) /\ s[1] = u[1]
    <2>1. Len(line) \in Nat /\ Len(pending) \in Nat
      BY <1>1, LenProperties
    <2>2. 1 \in 1..Len(s)
      BY <1>5, <1>6, <2>1
    <2> QED
      BY <1>5, <1>6, <2>2
  <1>8. s # <<>>
    BY <1>7, EmptySeq
  <1>9. Lowest(c) <= s[1].n
    BY <1>2, <1>4, <1>6, <1>8, FirstLevel
  <1>10. s[1].n \in Nat
    <2>1. s[1] \in Piece
      BY <1>6, <1>7, ElementOfSeq
    <2> QED
      BY <2>1 DEF Piece
  <1>11. Head(u).n \in Nat /\ Lowest(c) <= Head(u).n
    BY <1>5, <1>7, <1>9, <1>10
  <1> QED
    BY <1>11 DEF u

\* Cut short: the lowest level stays, as there is one more of those cut short.
LEMMA LagCutShort ==
  ASSUME LagInv, OneCaller, NEW c \in Callers, todo[c] # <<>>,
         todo' = [todo EXCEPT ![c] = <<>>], cutShort' = cutShort + 1,
         line' = line \/ line' = <<>>, ~ port' => line' = <<>>,
         call' = call, buf' = buf, pending' = pending, issued' = issued, failed' = failed,
         heard' \in [Callers -> Nat], phase'[c] = "run",
         heard'[c] # 0 => issued - heard'[c] <= cutShort + 1
  PROVE  LagInv'
  <1>1. todo'[c] = <<>>
    BY DEF LagInv, LagTypes
  <1>2. LagTypes'
    <2>1. <<>> \in Remaining /\ <<>> \in Seq(Piece)
      BY DEF Remaining
    <2>2. todo' \in [Callers -> Remaining]
      BY <2>1 DEF LagInv, LagTypes
    <2>3. line' \in Seq(Piece) /\ cutShort' \in Nat
      <3>1. line \in Seq(Piece) /\ cutShort \in Nat
        BY DEF LagInv, LagTypes
      <3>2. line' \in Seq(Piece)
        BY <2>1, <3>1, Zenon
      <3> QED
        BY <3>1, <3>2
    <2> QED
      BY <2>2, <2>3 DEF LagInv, LagTypes
  <1>3. Reads(c)' /\ Commanded(c)'
    <2>1. <<>> \notin MessageReads
      BY DEF MessageReads
    <2> QED
      BY <1>1, <2>1 DEF LagInv, LagTypes, Reads, Commanded
  <1>4. Unread(c)' = <<>>
    BY <1>1 DEF Unread
  <1>5. PICK m \in 0..Len(Outstanding(c)) : Left(Outstanding(c)', Outstanding(c), m)
    BY <1>4, LineKeptOrLost DEF LagInv
  <1>6. Slack(todo'[c]) = 1 /\ Slack(todo[c]) \in {0, 1}
    BY <1>1 DEF Slack
  <1>7. Newest(c) <= Newest(c)' /\ Lowest(c)' <= Lowest(c)
    BY <1>1, <1>6 DEF LagInv, LagTypes, Newest, Lowest
  <1>8. Lags(c)'
    BY <1>2, <1>5, <1>7, LagsOn DEF LagInv
  <1> QED
    BY <1>2, <1>3, <1>8 DEF LagInv, OneCaller

\* A write, a read of a message or a read up to a delimiter that failed, and with it
\* the command.
LEMMA LagFails ==
  ASSUME LagInv, TypeOK, OneCaller, NEW c \in Callers, GiveUp(c), heard' = heard,
         \/ WriteFails(c) \/ DataFails(c)
         \/ Return(c) /\ todo[c] # <<>> /\ buf' = buf
  PROVE  LagInv'
  <1>1. /\ call' = call /\ buf' = buf /\ pending' = pending /\ issued' = issued
        /\ failed' = failed
    BY DEF WriteFails, DataFails, Return
  <1>2. todo[c] # <<>> /\ phase'[c] = "run"
    BY DEF WriteFails, DataFails, At, Return, TypeOK
  <1>3. /\ todo' = [todo EXCEPT ![c] = <<>>] /\ cutShort' = cutShort + 1
        /\ (line' = line \/ line' = <<>>) /\ (~ port' => line' = <<>>)
    BY DEF GiveUp, ClosePort, LagInv, LagTypes
  <1>4. heard' \in [Callers -> Nat] /\ (heard'[c] # 0 => issued - heard'[c] <= cutShort + 1)
    BY DEF LagInv, LagTypes, Commanded
  <1> QED
    BY <1>1, <1>2, <1>3, <1>4, LagCutShort

\* A last read that failed without the command looking: what it takes for its answer
\* came in before.
LEMMA LagReadIgnored ==
  ASSUME LagInv, ModemInv, OneCaller, NEW c \in Callers, Return(c), ReadIgnored(c),
         todo[c] # <<>>
  PROVE  LagInv'
  <1>1. /\ call' = call /\ buf' = buf /\ pending' = pending /\ issued' = issued
        /\ failed' = failed /\ phase'[c] = "run" /\ port' = port /\ line' = line
        /\ todo' = [todo EXCEPT ![c] = <<>>] /\ cutShort' = cutShort + 1
    BY DEF Return, ReadIgnored, ModemInv, TypeOK
  <1>2. ~ port' => line' = <<>>
    BY <1>1 DEF LagInv, LagTypes
  <1>3. heard' \in [Callers -> Nat] /\ (heard'[c] # 0 => issued - heard'[c] <= cutShort + 1)
    <2>1. heard \in [Callers -> Nat] /\ issued \in Nat /\ cutShort \in Nat
      BY DEF LagInv, LagTypes
    <2>2. CASE heard' = heard
      BY <2>1, <2>2 DEF LagInv, Commanded
    <2>3. CASE heard' = [heard EXCEPT ![c] = Head(buf[c]).n] /\ buf[c] # <<>>
      <3>1. Unread(c) = buf[c] /\ Unread(c) # <<>>
        BY <2>3 DEF Unread
      <3>2. Head(buf[c]).n \in Nat /\ Lowest(c) <= Head(buf[c]).n
        BY <3>1, FirstInBuffer
      <3>3. issued - cutShort <= Lowest(c)
        BY <2>1 DEF Lowest, Slack
      <3>4. issued - Head(buf[c]).n <= cutShort + 1
        <4>1. Lowest(c) \in Int
          BY OutstandingType DEF LagInv, OutstandingTyped
        <4> QED
          BY <2>1, <3>2, <3>3, <4>1
      <3>5. heard'[c] = Head(buf[c]).n
        BY <2>1, <2>3
      <3> QED
        BY <2>1, <2>3, <3>2, <3>4, <3>5
    <2> QED
      BY <2>2, <2>3 DEF ReadIgnored
  <1> QED
    BY <1>1, <1>2, <1>3, LagCutShort

\* Closing the port loses what is on the line.
LEMMA LagCloseEnds ==
  ASSUME LagInv, ModemInv, OneCaller, NEW c \in Callers, CloseEnds(c)
  PROVE  LagInv'
  <1>1. /\ call' = call /\ todo' = todo /\ buf' = buf /\ pending' = pending
        /\ issued' = issued /\ cutShort' = cutShort /\ failed' = failed /\ heard' = heard
        /\ (line' = line \/ line' = <<>>) /\ (~ port' => line' = <<>>)
        /\ phase'[c] = "run" /\ todo[c] = <<>>
    BY DEF CloseEnds, ClosePort, counters, LagInv, LagTypes, ModemInv, TypeOK, CallerInv
  <1>2. LagTypes'
    <2>1. <<>> \in Seq(Piece)
      OBVIOUS
    <2>2. line' \in Seq(Piece)
      BY <1>1, <2>1 DEF LagInv, LagTypes
    <2> QED
      BY <1>1, <2>2 DEF LagInv, LagTypes
  <1>3. Reads(c)' /\ Commanded(c)'
    BY <1>1 DEF LagInv, Reads, Commanded
  <1>4. Unread(c)' = <<>>
    BY <1>1 DEF Unread
  <1>5. PICK m \in 0..Len(Outstanding(c)) : Left(Outstanding(c)', Outstanding(c), m)
    BY <1>1, <1>4, LineKeptOrLost DEF LagInv
  <1>6. Newest(c) <= Newest(c)' /\ Lowest(c)' <= Lowest(c)
    <2>1. Newest(c)' = Newest(c) /\ Lowest(c)' = Lowest(c)
      BY <1>1 DEF Newest, Lowest
    <2> QED
      BY <2>1, OutstandingType DEF LagInv, OutstandingTyped
  <1>7. Lags(c)'
    BY <1>2, <1>5, <1>6, LagsOn DEF LagInv
  <1> QED
    BY <1>2, <1>3, <1>7 DEF LagInv, OneCaller

\* A piece taken from the front of the line is not of a command before the
\* lowest level.
LEMMA LagDataRead ==
  ASSUME LagInv, TypeOK, OneCaller, NEW c \in Callers, DataRead(c)
  PROVE  LagInv'
  <1>1. /\ call' = call /\ buf' = buf /\ failed' = failed /\ phase' = phase
        /\ pending' = pending /\ issued' = issued /\ port' = port
        /\ line' = Tail(line) /\ line # <<>> /\ heard'[c] = Head(line).n
        /\ phase[c] = "run" /\ todo[c] # <<>> /\ Head(todo[c]) = "data"
        /\ \/ todo' = todo /\ cutShort' = cutShort
           \/ todo' = [todo EXCEPT ![c] = Tail(@)] /\ cutShort' = cutShort
           \/ todo' = [todo EXCEPT ![c] = <<>>] /\ cutShort' = cutShort + 1
    BY DEF DataRead, At, LagInv, LagTypes
  <1>2. /\ buf[c] = <<>> /\ call[c].n = issued /\ issued \in Nat /\ cutShort \in Nat
        /\ line \in Seq(Piece) /\ pending \in Seq(Piece) /\ todo[c] \in Remaining
    BY <1>1 DEF LagInv, LagTypes, Commanded
  <1>3. /\ Slack(todo[c]) = 0 /\ Slack(Tail(todo[c])) = 0
        /\ Tail(todo[c]) \in Remaining
        /\ Tail(todo[c]) # <<>> => Head(Tail(todo[c])) # "write"
        /\ todo[c] \notin MessageReads => Tail(todo[c]) \notin MessageReads
    <2> DEFINE r == todo[c]
    <2>1. r \in Remaining /\ r # <<>> /\ Head(r) = "data"
      BY <1>1, <1>2
    <2> HIDE DEF r
    <2>2. /\ Slack(r) = 0 /\ Slack(Tail(r)) = 0
          /\ Tail(r) \in Remaining
          /\ Tail(r) # <<>> => Head(Tail(r)) # "write"
          /\ r \notin MessageReads => Tail(r) \notin MessageReads
      BY <2>1, ProgramSteps
    <2> QED
      BY <2>2 DEF r
  <1>4. Unread(c) = <<>> /\ Unread(c)' = <<>>
    BY <1>1, <1>2 DEF Unread
  <1>5. line' \in Seq(Piece) /\ Left(line', line, 1) /\ Head(line) = line[1] /\ 1 \in 1..Len(line)
    <2>1. /\ Tail(line) \in Seq(Piece) /\ Left(Tail(line), line, 1) /\ 1 \in 0..Len(line)
          /\ Head(line) = line[1]
      BY <1>1, <1>2, TailLeft
    <2> QED
      BY <1>1, <2>1
  <1>6. /\ Outstanding(c) # <<>> /\ Outstanding(c)[1] = line[1]
        /\ 1 \in 0..Len(Outstanding(c)) /\ Left(Outstanding(c)', Outstanding(c), 1)
    <2> DEFINE e == <<>>
               s == e \o (line \o pending)
    <2>1. e \in Seq(Piece) /\ Len(e) = 0
      BY EmptySeq
    <2>2. Outstanding(c) = s /\ Outstanding(c)' = e \o (line' \o pending)
      BY <1>1, <1>4 DEF Outstanding
    <2>3. Left(e \o (line' \o pending), s, 1)
      BY <1>2, <1>5, LineTaken
    <2>4. Len(line) \in Nat /\ Len(pending) \in Nat
      BY <1>2, LenProperties
    <2> HIDE DEF e
    <2>5. /\ s \in Seq(Piece)
          /\ Len(s) = Len(e) + Len(line) + Len(pending)
          /\ \A i \in 1..Len(s) :
               s[i] = IF i <= Len(e) THEN e[i]
                      ELSE IF i <= Len(e) + Len(line) THEN line[i - Len(e)]
                      ELSE pending[i - (Len(e) + Len(line))]
      BY <1>2, <2>1, ThreeParts
    <2>6. 1 \in 1..Len(s)
      BY <1>5, <2>1, <2>4, <2>5
    <2>7. s[1] = line[1]
      BY <1>5, <2>1, <2>4, <2>5, <2>6
    <2> HIDE DEF s
    <2>8. s # <<>>
      BY <2>6, EmptySeq
    <2> QED
      BY <2>2, <2>3, <2>6, <2>7, <2>8
  <1>7. issued - heard'[c] <= cutShort /\ heard'[c] \in Nat
    <2>1. Lowest(c) \in Int /\ Outstanding(c) \in Seq(Piece)
      BY OutstandingType DEF LagInv, OutstandingTyped
    <2>2. Lowest(c) <= Outstanding(c)[1].n
      BY <1>6, <2>1, FirstLevel DEF LagInv, Lags
    <2>3. line[1].n \in Nat
      <3>1. line[1] \in Piece
        BY <1>2, <1>5, ElementOfSeq
      <3> QED
        BY <3>1 DEF Piece
    <2>4. heard'[c] = line[1].n
      BY <1>1, <1>5
    <2>5. Lowest(c) = issued - cutShort
      BY <1>2, <1>3 DEF Lowest
    <2> QED
      BY <1>2, <1>6, <2>2, <2>3, <2>4, <2>5
  <1>8. LagTypes'
    <2>1. <<>> \in Remaining
      BY DEF Remaining
    <2>2. todo' \in [Callers -> Remaining] /\ cutShort' \in Nat
      <3>1. todo \in [Callers -> Remaining]
        BY DEF LagInv, LagTypes
      <3>2. cutShort' \in Nat
        BY <1>1, <1>2
      <3>3. CASE todo' = todo
        BY <3>1, <3>2, <3>3
      <3>4. CASE todo' = [todo EXCEPT ![c] = Tail(@)]
        BY <1>3, <3>1, <3>2, <3>4
      <3>5. CASE todo' = [todo EXCEPT ![c] = <<>>]
        BY <2>1, <3>1, <3>2, <3>5
      <3> QED
        BY <1>1, <3>3, <3>4, <3>5
    <2>3. heard' \in [Callers -> Nat]
      <3>1. heard' = [heard EXCEPT ![c] = Head(line).n]
        BY DEF DataRead
      <3> QED
        BY <1>1, <1>7, <3>1 DEF LagInv, LagTypes
    <2>4. ~ port' => line' = <<>>
      BY <1>1 DEF LagInv, LagTypes
    <2> QED
      BY <1>1, <1>5, <2>2, <2>3, <2>4 DEF LagInv, LagTypes
  <1>9. Reads(c)'
    BY <1>1 DEF Reads
  <1>10. \/ todo'[c] = todo[c] /\ cutShort' = cutShort
         \/ todo'[c] = Tail(todo[c]) /\ cutShort' = cutShort
         \/ todo'[c] = <<>> /\ cutShort' = cutShort + 1
    BY <1>1 DEF LagInv, LagTypes
  <1>11. Commanded(c)'
    <2>1. <<>> \notin MessageReads
      BY DEF MessageReads
    <2>2. todo[c] \notin MessageReads => todo'[c] \notin MessageReads
      BY <1>3, <1>10, <2>1
    <2>3. issued - heard'[c] <= cutShort'
      BY <1>2, <1>7, <1>10
    <2> QED
      BY <1>1, <1>2, <2>2, <2>3 DEF LagInv, Commanded
  <1>12. Lags(c)'
    <2>1. Newest(c) = issued /\ Newest(c)' = issued
      BY <1>1, <1>3, <1>10 DEF Newest
    <2>2. Lowest(c) = issued - cutShort /\ Lowest(c)' <= issued - cutShort
      <3>1. Slack(<<>>) = 1
        BY DEF Slack
      <3> QED
        BY <1>1, <1>2, <1>3, <1>10, <3>1 DEF Lowest
    <2>3. Newest(c) <= Newest(c)' /\ Lowest(c)' <= Lowest(c)
      BY <1>2, <2>1, <2>2
    <2> QED
      BY <1>6, <1>8, <2>3, LagsOn DEF LagInv
  <1> QED
    BY <1>8, <1>9, <1>11, <1>12 DEF LagInv, OneCaller

\* What was read is taken whole, or, of the lines of GetSignalQuality(), the
\* first.
LEMMA LagReturn ==
  ASSUME LagInv, ModemInv, OneCaller, NEW c \in Callers, Return(c)
  PROVE  LagInv'
  <1>1. phase[c] = "join" /\ complete[c] /\ port /\ phase'[c] = "run"
    BY DEF Return, ModemInv, TypeOK, CallerInv, Running
  <1>2. todo[c] # <<>> /\ Head(todo[c]) \in {"any", "OK", "READY"}
    BY <1>1 DEF LagInv, Reads
  <1>3. CASE failed[c]
    <2>1. ReadIgnored(c) \/ (GiveUp(c) /\ buf' = buf /\ heard' = heard)
      BY <1>3 DEF Return, ReadFailed
    <2> QED
      BY <1>2, <2>1, LagFails, LagReadIgnored DEF ModemInv
  <1>4. CASE ~ failed[c]
    <2> DEFINE b == buf[c]
               r == todo[c]
               lines == call[c].name = "GetSignalQuality" /\ Head(r) = "any"
               error == lines /\ Head(b).text = "ERROR"
               rest == IF error THEN <<>> ELSE Tail(r)
               unread == IF lines THEN Tail(b) ELSE <<>>
    <2>1. /\ call' = call /\ failed' = failed /\ pending' = pending /\ issued' = issued
          /\ port' = port /\ line' = line /\ cutShort' = cutShort
          /\ todo' = [todo EXCEPT ![c] = rest] /\ buf' = [buf EXCEPT ![c] = unread]
          /\ heard' = [heard EXCEPT ![c] = Head(b).n]
      BY <1>4 DEF Return, ReadOn, LagInv, LagTypes
    <2>2. /\ b \in Seq(Piece) /\ r \in Remaining /\ call[c].n = issued
          /\ issued \in Nat /\ cutShort \in Nat /\ line \in Seq(Piece) /\ pending \in Seq(Piece)
          /\ lines => r \notin MessageReads
      BY DEF LagInv, LagTypes, Commanded
    <2>3. PICK i \in DOMAIN b : Head(r) \in {"any", b[i].text}
      BY <1>1, <1>4 DEF LagInv, Reads, Found
    <2>4. todo'[c] = rest /\ buf'[c] = unread /\ heard'[c] = Head(b).n
      BY <2>1 DEF LagInv, LagTypes
    <2>5. r # <<>> /\ Head(r) \in {"any", "OK", "READY"}
      BY <1>2
    <2>6. /\ lines => Head(r) = "any"
          /\ error => lines /\ Head(b).text = "ERROR"
      OBVIOUS
    <2> HIDE DEF b, r, lines, error
    <2>7. /\ Tail(r) \in Remaining
          /\ Slack(r) = 0
          /\ Slack(Tail(r)) = IF Head(r) \in {"OK", "READY"} THEN 1 ELSE 0
          /\ Tail(r) # <<>> => Head(Tail(r)) # "write"
          /\ Tail(r) # <<>> /\ Head(Tail(r)) = "data" => Head(r) = "any" /\ r \in MessageReads
          /\ r \notin MessageReads => Tail(r) \notin MessageReads
      BY <2>2, <2>5, ProgramSteps
    <2>8. i \in 1..Len(b) /\ b # <<>> /\ Head(b) = b[1] /\ 1 \in 1..Len(b)
          /\ Len(b) \in Nat /\ Tail(b) \in Seq(Piece) /\ Left(Tail(b), b, 1)
      <3>1. i \in 1..Len(b) /\ Len(b) \in Nat
        BY <2>2, LenProperties
      <3>2. b # <<>>
        BY <3>1, EmptySeq
      <3> QED
        BY <2>2, <3>1, <3>2, TailLeft
    <2>9. b[1] \in Piece /\ b[1].n \in Nat
      <3>1. b[1] \in Piece
        BY <2>2, <2>8, ElementOfSeq
      <3> QED
        BY <3>1 DEF Piece
    <2>10. LagTypes'
      <3>1. <<>> \in Remaining /\ <<>> \in Seq(Piece)
        BY DEF Remaining
      <3>2. todo' \in [Callers -> Remaining]
        BY <2>1, <2>7, <3>1 DEF LagInv, LagTypes
      <3>3. buf' \in [Callers -> Seq(Piece)]
        BY <2>1, <2>8, <3>1 DEF LagInv, LagTypes
      <3>4. heard' \in [Callers -> Nat]
        BY <2>1, <2>8, <2>9 DEF LagInv, LagTypes
      <3> QED
        BY <2>1, <3>2, <3>3, <3>4 DEF LagInv, LagTypes
    <2>11. \E m \in 1..Len(b) :
             /\ Left(Unread(c)', b, m)
             /\ \/ Slack(rest) = 0
                \/ Slack(rest) = 1 /\ \E j \in 1..m : Ending(b[j])
      <3>1. CASE error
        <4>1. Slack(rest) = 1 /\ Unread(c)' = <<>>
          BY <2>4, <3>1 DEF Slack, Unread
        <4>2. Left(<<>>, b, Len(b)) /\ Len(b) \in 1..Len(b)
          BY <2>2, <2>8, AllLeft
        <4>3. Ending(b[1])
          BY <2>6, <2>8, <3>1 DEF Ending
        <4> QED
          BY <2>8, <4>1, <4>2, <4>3
      <3>2. CASE ~ error /\ lines
        <4>1. Head(r) = "any"
          BY <2>6, <3>2
        <4>2. Slack(Tail(r)) = 0
          BY <2>7, <4>1
        <4>3. Slack(<<>>) = 1
          BY DEF Slack
        <4>4. rest = Tail(r) /\ rest # <<>>
          <5>1. Slack(Tail(r)) # Slack(<<>>)
            BY <4>2, <4>3
          <5> QED
            BY <3>2, <5>1
        <4>5. Unread(c)' = Tail(b)
          BY <2>4, <3>2, <4>4 DEF Unread
        <4> QED
          BY <2>8, <4>2, <4>4, <4>5
      <3>3. CASE ~ error /\ ~ lines
        <4>1. rest = Tail(r) /\ Unread(c)' = <<>>
          BY <2>4, <3>3 DEF Unread
        <4>2. Left(<<>>, b, Len(b)) /\ Len(b) \in 1..Len(b)
          BY <2>2, <2>8, AllLeft
        <4>3. Slack(Tail(r)) = 0 \/ (Slack(Tail(r)) = 1 /\ Ending(b[i]))
          <5>1. Head(r) \in {"OK", "READY"} => Ending(b[i])
            BY <2>3 DEF Ending
          <5> QED
            BY <2>7, <5>1
        <4> QED
          BY <2>8, <4>1, <4>2, <4>3
      <3> QED
        BY <2>6, <3>1, <3>2, <3>3
    <2>12. PICK m \in 1..Len(b) :
             /\ Left(Unread(c)', b, m)
             /\ \/ Slack(rest) = 0
                \/ Slack(rest) = 1 /\ \E j \in 1..m : Ending(b[j])
      BY <2>11
    <2> DEFINE s == b \o (line \o pending)
               u == Unread(c)'
    <2>13. Outstanding(c) = s /\ Outstanding(c)' = u \o (line \o pending)
      <3>1. Unread(c) = b
        BY <1>2 DEF Unread, b
      <3>2. Outstanding(c)' = Unread(c)' \o (line \o pending)
        BY <2>1 DEF Outstanding
      <3> QED
        BY <3>1, <3>2 DEF Outstanding
    <2>14. u \in Seq(Piece) /\ m \in 0..Len(b)
      BY <2>8, <2>10, OutstandingType DEF OutstandingTyped
    <2> HIDE DEF u
    <2>15. Left(u \o (line \o pending), s, m)
      BY <2>2, <2>12, <2>14, FirstPartTaken DEF u
    <2>16. /\ s \in Seq(Piece) /\ Len(s) = Len(b) + Len(line) + Len(pending)
           /\ \A j \in 1..Len(s) :
                s[j] = IF j <= Len(b) THEN b[j]
                       ELSE IF j <= Len(b) + Len(line) THEN line[j - Len(b)]
                       ELSE pending[j - (Len(b) + Len(line))]
      BY <2>2, ThreeParts
    <2> HIDE DEF s
    <2>17. /\ 1 \in 1..Len(s) /\ m \in 0..Len(s)
           /\ \A j \in 1..Len(b) : s[j] = b[j]
      <3>1. Len(line) \in Nat /\ Len(pending) \in Nat
        BY <2>2, LenProperties
      <3> QED
        BY <2>8, <2>14, <2>16, <3>1
    <2>18. Slack(todo[c]) = 0 /\ Slack(todo'[c]) = Slack(rest)
      BY <2>4, <2>7 DEF r
    <2> HIDE DEF rest
    <2>19. Lowest(c) = issued - cutShort /\ Lowest(c)' = issued - cutShort + Slack(rest)
      BY <2>1, <2>2, <2>18 DEF Lowest
    <2>20. Newest(c) = issued /\ Newest(c)' = issued
      BY <1>2, <2>1, <2>4, <2>7 DEF Newest, rest
    <2>21. Lags(c)'
      <3>1. \/ Lowest(c)' <= Lowest(c)
            \/ Lowest(c)' <= Lowest(c) + 1 /\ \E j \in 1..m : Ending(s[j])
        <4>1. CASE Slack(rest) = 0
          BY <2>2, <2>19, <4>1
        <4>2. CASE Slack(rest) = 1 /\ \E j \in 1..m : Ending(b[j])
          <5>1. PICK j \in 1..m : Ending(b[j])
            BY <4>2
          <5>2. Ending(s[j])
            BY <2>8, <2>17, <5>1
          <5> QED
            BY <2>2, <2>19, <4>2, <5>2
        <4> QED
          BY <2>12, <4>1, <4>2
      <3>2. Newest(c) <= Newest(c)'
        BY <2>2, <2>20
      <3> QED
        BY <2>10, <2>13, <2>15, <2>17, <3>1, <3>2, LagsOn DEF LagInv
    <2>22. issued - heard'[c] <= cutShort
      <3>1. s # <<>>
        BY <2>17, EmptySeq
      <3>2. Lowest(c) <= s[1].n
        BY <2>2, <2>13, <2>16, <2>19, <3>1, FirstLevel DEF LagInv, Lags
      <3>3. heard'[c] = b[1].n /\ s[1] = b[1]
        BY <2>4, <2>8, <2>17
      <3> QED
        BY <2>2, <2>9, <2>19, <3>2, <3>3
    <2>23. Reads(c)'
      BY <1>1 DEF Reads
    <2>24. Commanded(c)'
      <3>1. rest # <<>> /\ Head(rest) = "data" => unread = <<>>
        BY <2>2, <2>7 DEF rest
      <3>2. call[c].name = "GetSignalQuality" => rest \notin MessageReads
        <4>1. call[c].name = "GetSignalQuality" => r \notin MessageReads
          BY DEF LagInv, Commanded, r
        <4>2. <<>> \notin MessageReads
          BY DEF MessageReads
        <4> QED
          BY <2>7, <4>1, <4>2 DEF rest
      <3> QED
        BY <2>1, <2>2, <2>4, <2>22, <3>1, <3>2 DEF Commanded
    <2> QED
      BY <2>10, <2>21, <2>23, <2>24 DEF LagInv, OneCaller
  <1> QED
    BY <1>3, <1>4

LEMMA LagStep == ASSUME LagInv, ModemInv, OneCaller, [Next]_vars PROVE LagInv'
  <1>1. PICK c \in Callers : TRUE
    BY DEF OneCaller
  <1>2. CASE RunnerSteps
    BY <1>1, <1>2, LagInert, LagReadHandler, LagDataArrives DEF RunnerSteps, ModemInv
  <1>3. ASSUME NEW a \in Callers, Proceeds(a) PROVE LagInv'
    <2>1. WriteFails(a) \/ DataFails(a) => GiveUp(a) /\ heard' = heard
      BY DEF WriteFails, DataFails
    <2> QED
      BY <1>3, <2>1, LagWriteDone, LagFails, LagDataRead, LagStartRead, LagInert, LagReturn,
         LagCloseEnds DEF Proceeds, ModemInv
  <1> QED
    BY <1>1, <1>2, <1>3, LagDeviceSends, LagInert, LagGive DEF Next

LEMMA LagInvariant == ASSUME OneCaller PROVE Spec => []LagInv
  <1>1. LagInv /\ ModemInv /\ [Next]_vars => LagInv'
    BY LagStep
  <1> QED
    BY <1>1, LagInit, ModemInvariant, PTL DEF Spec

\* A command's answer, with one caller: what a command takes for its answer is
\* that of one before it by no more than the number of commands cut short; with none
\* cut short, its own.  Cut short are those that failed, and those that returned
\* although their last read had failed (WriteMessage(), ReadMessage()).
THEOREM AnswersLagBehind == ASSUME OneCaller PROVE Spec => []OwnAnswer
  <1>1. LagInv => OwnAnswer
    BY DEF LagInv, Commanded, OwnAnswer
  <1> QED
    BY <1>1, LagInvariant, PTL
=============================================================================
