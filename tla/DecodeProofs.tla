---------------------------- MODULE DecodeProofs ----------------------------
(***************************************************************************)
(* Proof that base64 is decoded exactly, for texts of any length.          *)
(***************************************************************************)
EXTENDS Decode, Numbers, SequenceTheorems

Byte == 0 .. 255
Char == 1 .. 255
Value == 0 .. 63

(***************************************************************************)
(* Characters.                                                             *)
(***************************************************************************)

\* The digits are those of the alphabet, and none is white space or padding.
LEMMA SextetFacts ==
    /\ \A c \in Int : Sextet(c) \in 0 .. 64
    /\ \A c \in Int : Sextet(c) < 64 => Alphabet(Sextet(c)) = c
    /\ \A v \in Value : /\ Alphabet(v) \in Char /\ Sextet(Alphabet(v)) = v
                        /\ Alphabet(v) # Equals
<1>1. ASSUME NEW c \in Int
      PROVE  /\ Sextet(c) \in 0 .. 64
             /\ Sextet(c) < 64 => Alphabet(Sextet(c)) = c
  <2>1. CASE c \in 65 .. 90
    BY <2>1 DEF Sextet, Alphabet
  <2>2. CASE c \in 97 .. 122
    BY <2>2 DEF Sextet, Alphabet
  <2>3. CASE c \in 48 .. 57
    BY <2>3 DEF Sextet, Alphabet
  <2>4. CASE c = 43
    BY <2>4 DEF Sextet, Alphabet
  <2>5. CASE c = 47
    BY <2>5 DEF Sextet, Alphabet
  <2>6. CASE ~(c \in 65 .. 90 \/ c \in 97 .. 122 \/ c \in 48 .. 57 \/ c = 43 \/ c = 47)
    BY <2>6 DEF Sextet
  <2>7. QED
    BY <2>1, <2>2, <2>3, <2>4, <2>5, <2>6
<1>2. ASSUME NEW v \in Value
      PROVE  /\ Alphabet(v) \in Char /\ Sextet(Alphabet(v)) = v
             /\ Alphabet(v) # Equals
  <2>1. CASE v < 26
    BY <2>1 DEF Value, Char, Sextet, Alphabet, Equals
  <2>2. CASE 26 <= v /\ v < 52
    BY <2>2 DEF Value, Char, Sextet, Alphabet, Equals
  <2>3. CASE 52 <= v /\ v < 62
    BY <2>3 DEF Value, Char, Sextet, Alphabet, Equals
  <2>4. CASE v = 62
    BY <2>4 DEF Value, Char, Sextet, Alphabet, Equals
  <2>5. CASE v = 63
    BY <2>5 DEF Value, Char, Sextet, Alphabet, Equals
  <2>6. QED
    BY <2>1, <2>2, <2>3, <2>4, <2>5 DEF Value
<1>3. QED
  BY <1>1, <1>2

\* What is left of a text without its white space is a text.
LEMMA SignificantType ==
    ASSUME NEW text \in Seq(Char)
    PROVE  Significant(text) \in Seq(Char)
<1> DEFINE n == Len(text)
           X == Seq(Char)
           G == [i \in 1 .. n |-> [t \in X |-> IF Isspace(text[i]) THEN t
                                               ELSE Append(t, text[i])]]
           f == CHOOSE f : Recursive(f, << >>, n, G)
<1>1. n \in Nat /\ << >> \in X
  OBVIOUS
<1>2. G \in [1 .. n -> [X -> X]]
  <2>1. \A i \in 1 .. n : text[i] \in Char
    OBVIOUS
  <2>2. \A t \in X, i \in 1 .. n : Append(t, text[i]) \in X
    BY <2>1
  <2>3. QED
    BY <2>2
<1>3. Recursive(f, << >>, n, G) /\ f \in [0 .. n -> X]
  <2> HIDE DEF n, X, G
  <2>1. \E g : Recursive(g, << >>, n, G)
    BY <1>1, <1>2, RecursiveFunction
  <2>2. Recursive(f, << >>, n, G)
    BY <2>1
  <2> HIDE DEF f
  <2>3. QED
    BY <1>1, <1>2, <2>2, RecursiveFunction
<1> DEFINE Defines(g) ==
              g = [i \in 0 .. n |->
                      IF i = 0 THEN << >>
                      ELSE IF Isspace(text[i]) THEN g[i - 1]
                      ELSE Append(g[i - 1], text[i])]
           h == CHOOSE g : Defines(g)
<1>4. Significant(text) = h[n]
  BY DEF Significant
<1>5. Defines(h)
  <2>1. Defines(f)
    <3> HIDE DEF f
    <3>1. f = [i \in 0 .. n |-> IF i = 0 THEN << >> ELSE G[i][f[i - 1]]]
      BY <1>3 DEF Recursive
    <3>2. ASSUME NEW i \in 0 .. n
          PROVE  (IF i = 0 THEN << >> ELSE G[i][f[i - 1]]) =
                 IF i = 0 THEN << >>
                 ELSE IF Isspace(text[i]) THEN f[i - 1]
                 ELSE Append(f[i - 1], text[i])
      <4>1. CASE i = 0
        BY <4>1
      <4>2. CASE i # 0
        <5>1. i \in 1 .. n /\ i - 1 \in 0 .. n
          BY <1>1, <4>2
        <5>2. f[i - 1] \in X
          BY <1>3, <5>1
        <5>3. QED
          BY <4>2, <5>1, <5>2
      <4>3. QED
        BY <4>1, <4>2
    <3>3. QED
      BY <3>1, <3>2
  <2> HIDE DEF f, Defines
  <2>2. QED
    BY <2>1
<1>6. \A i \in 0 .. n : h[i] = IF i = 0 THEN << >>
                            ELSE IF Isspace(text[i]) THEN h[i - 1]
                            ELSE Append(h[i - 1], text[i])
  <2> HIDE DEF h
  <2>1. QED
    BY <1>5
<1> HIDE DEF h, Defines, f, G
<1>7. h[0] \in X
  <2>1. h[0] = << >>
    BY <1>1, <1>6
  <2>2. QED
    BY <1>1, <2>1
<1>8. ASSUME NEW i \in 1 .. n, h[i - 1] \in X
      PROVE  h[i] \in X
  <2>1. text[i] \in Char /\ i \in 0 .. n /\ i # 0
    BY <1>1
  <2>2. h[i] = h[i - 1] \/ h[i] = Append(h[i - 1], text[i])
    <3> HIDE DEF X
    <3>1. QED
      BY <1>6, <2>1
  <2>3. Append(h[i - 1], text[i]) \in X
    BY <1>8, <2>1
  <2>4. QED
    BY <1>8, <2>2, <2>3
<1>9. \A i \in 0 .. n : h[i] \in X
  <2> HIDE DEF X, n
  <2>1. QED
    BY <1>1, <1>7, <1>8, StepByStep
<1>10. QED
  BY <1>1, <1>4, <1>9

\* The padding begins where Unpadded says.
LEMMA UnpaddedFacts ==
    ASSUME NEW sig \in Seq(Char)
    PROVE  /\ Unpadded(sig) \in 0 .. Len(sig)
           /\ \A i \in 1 .. Unpadded(sig) : sig[i] # Equals
<1> DEFINE l == Len(sig)
           K == {k \in Nat : k <= l /\ (k < l => sig[k + 1] = Equals)}
           First(n) == /\ \A i \in 1 .. n : sig[i] # Equals
                       /\ n < l => sig[n + 1] = Equals
<1>1. l \in Nat
  OBVIOUS
<1>2. K \subseteq Nat /\ K # {}
  <2>1. l \in K
    BY <1>1
  <2>2. QED
    BY <2>1
<1>3. PICK k \in K : \A j \in K : k <= j
  <2> HIDE DEF K
  <2>1. QED
    BY <1>2, LeastNumber
<1>4. k \in 0 .. l /\ (k < l => sig[k + 1] = Equals)
  BY <1>1, <1>3
<1>5. ASSUME NEW i \in 1 .. k
      PROVE  sig[i] # Equals
  <2>1. i - 1 \in Nat /\ i - 1 <= l /\ ~(k <= i - 1)
    BY <1>1, <1>4
  <2>2. i - 1 \notin K
    BY <1>3, <2>1
  <2>3. QED
    BY <2>1, <2>2
<1>6. First(k)
  BY <1>4, <1>5
<1>7. Unpadded(sig) = CHOOSE n \in 0 .. l : First(n)
  BY DEF Unpadded
<1>8. Unpadded(sig) \in 0 .. l /\ First(Unpadded(sig))
  <2> HIDE DEF First, l
  <2>1. \E n \in 0 .. l : First(n)
    BY <1>4, <1>6
  <2>2. QED
    BY <1>7, <2>1
<1>9. QED
  BY <1>8

(***************************************************************************)
(* Groups of three bytes and four digits.                                  *)
(***************************************************************************)

\* Every byte is the first, second or third of a group.
LEMMA Threes ==
    ASSUME NEW k \in Nat \ {0}
    PROVE  \E p \in Nat : k \in {3 * p + 1, 3 * p + 2, 3 * p + 3}
<1>1. (k - 1) \div 3 \in Nat
  OBVIOUS
<1>2. k \in {3 * ((k - 1) \div 3) + 1, 3 * ((k - 1) \div 3) + 2,
             3 * ((k - 1) \div 3) + 3}
  OBVIOUS
<1>3. QED
  BY <1>1, <1>2

\* Every digit is the first, second, third or fourth of a group.
LEMMA Fours ==
    ASSUME NEW k \in Nat \ {0}
    PROVE  \E p \in Nat : k \in {4 * p + 1, 4 * p + 2, 4 * p + 3, 4 * p + 4}
<1>1. (k - 1) \div 4 \in Nat
  OBVIOUS
<1>2. k \in {4 * ((k - 1) \div 4) + 1, 4 * ((k - 1) \div 4) + 2,
             4 * ((k - 1) \div 4) + 3, 4 * ((k - 1) \div 4) + 4}
  OBVIOUS
<1>3. QED
  BY <1>1, <1>2

\* Four digits are three bytes.
LEMMA GroupBytes ==
  ASSUME NEW d1 \in Value, NEW d2 \in Value, NEW d3 \in Value, NEW d4 \in Value,
         NEW w, w = 262144 * d1 + 4096 * d2 + 64 * d3 + d4
  PROVE  /\ (w \div 65536) % 256 = d1 * 4 + d2 \div 16
         /\ (w \div 256) % 256 = (d2 % 16) * 16 + d3 \div 4
         /\ (w \div 1) % 256 = (d3 % 4) * 64 + d4
<1>1. PICK x \in 0 .. 3, y \in 0 .. 15 : d2 = 16 * x + y
  <2>1. d2 \div 16 \in 0 .. 3 /\ d2 % 16 \in 0 .. 15 /\ d2 = 16 * (d2 \div 16) + (d2 % 16)
    BY DEF Value
  <2>2. QED
    BY <2>1
<1>2. PICK u \in 0 .. 15, v \in 0 .. 3 : d3 = 4 * u + v
  <2>1. d3 \div 4 \in 0 .. 15 /\ d3 % 4 \in 0 .. 3 /\ d3 = 4 * (d3 \div 4) + (d3 % 4)
    BY DEF Value
  <2>2. QED
    BY <2>1
<1> DEFINE e1 == 4 * d1 + x
           e2 == 16 * y + u
           e3 == 64 * v + d4
<1>3. e1 \in Byte /\ e2 \in Byte /\ e3 \in Byte /\ w = 65536 * e1 + 256 * e2 + e3
  BY <1>1, <1>2 DEF Value, Byte
<1>4. (w \div 65536) % 256 = e1
  <2> HIDE DEF e1, e2, e3
  <2>1. w \div 65536 = e1
    BY <1>3 DEF Byte
  <2>2. QED
    BY <1>3, <2>1 DEF Byte
<1>5. (w \div 256) % 256 = e2
  <2> HIDE DEF e1, e2, e3
  <2>1. w \div 256 = 256 * e1 + e2
    BY <1>3 DEF Byte
  <2>2. QED
    BY <1>3, <2>1 DEF Byte
<1>6. (w \div 1) % 256 = e3
  <2> HIDE DEF e1, e2, e3
  <2>1. QED
    BY <1>3 DEF Byte
<1>7. d2 \div 16 = x /\ d2 % 16 = y /\ d3 \div 4 = u /\ d3 % 4 = v
  BY <1>1, <1>2
<1>8. QED
  BY <1>4, <1>5, <1>6, <1>7 DEF Value

\* Three bytes are four digits.
LEMMA GroupDigits ==
  ASSUME NEW b1 \in Byte, NEW b2 \in Byte, NEW b3 \in Byte,
         NEW w, w = 65536 * b1 + 256 * b2 + b3
  PROVE  /\ (w \div 262144) % 64 = b1 \div 4
         /\ (w \div 4096) % 64 = (b1 % 4) * 16 + b2 \div 16
         /\ (w \div 64) % 64 = (b2 % 16) * 4 + b3 \div 64
         /\ (w \div 1) % 64 = b3 % 64
<1>1. PICK x1 \in 0 .. 63, y1 \in 0 .. 3 : b1 = 4 * x1 + y1
  <2>1. b1 \div 4 \in 0 .. 63 /\ b1 % 4 \in 0 .. 3 /\ b1 = 4 * (b1 \div 4) + (b1 % 4)
    BY DEF Byte
  <2>2. QED
    BY <2>1
<1>2. PICK x2 \in 0 .. 15, y2 \in 0 .. 15 : b2 = 16 * x2 + y2
  <2>1. b2 \div 16 \in 0 .. 15 /\ b2 % 16 \in 0 .. 15 /\ b2 = 16 * (b2 \div 16) + (b2 % 16)
    BY DEF Byte
  <2>2. QED
    BY <2>1
<1>3. PICK x3 \in 0 .. 3, y3 \in 0 .. 63 : b3 = 64 * x3 + y3
  <2>1. b3 \div 64 \in 0 .. 3 /\ b3 % 64 \in 0 .. 63 /\ b3 = 64 * (b3 \div 64) + (b3 % 64)
    BY DEF Byte
  <2>2. QED
    BY <2>1
<1> DEFINE e2 == 16 * y1 + x2
           e3 == 4 * y2 + x3
<1>4. /\ e2 \in Value /\ e3 \in Value
      /\ w = 262144 * x1 + 4096 * e2 + 64 * e3 + y3
  BY <1>1, <1>2, <1>3 DEF Value
<1>5. (w \div 262144) % 64 = x1
  <2> HIDE DEF e2, e3
  <2>1. w \div 262144 = x1
    BY <1>4 DEF Value
  <2>2. QED
    BY <2>1
<1>6. (w \div 4096) % 64 = e2
  <2> HIDE DEF e2, e3
  <2>1. w \div 4096 = 64 * x1 + e2
    BY <1>4 DEF Value
  <2>2. QED
    BY <1>4, <2>1 DEF Value
<1>7. (w \div 64) % 64 = e3
  <2> HIDE DEF e2, e3
  <2>1. w \div 64 = 4096 * x1 + 64 * e2 + e3
    BY <1>4 DEF Value
  <2>2. QED
    BY <1>4, <2>1 DEF Value
<1>8. (w \div 1) % 64 = y3
  <2> HIDE DEF e2, e3
  <2>1. QED
    BY <1>4 DEF Value
<1>9. /\ b1 \div 4 = x1 /\ b1 % 4 = y1 /\ b2 \div 16 = x2 /\ b2 % 16 = y2
      /\ b3 \div 64 = x3 /\ b3 % 64 = y3
  BY <1>1, <1>2, <1>3
<1>10. QED
  BY <1>1, <1>2, <1>3, <1>5, <1>6, <1>7, <1>8, <1>9

\* The byte at position k when the digits up to i were added, and all of them.
Up(d, i, j) == IF j <= i THEN d[j] ELSE 0

Entry(d, i, k) ==
    LET q == (k - 1) \div 3
    IN  IF (k - 1) % 3 = 0
          THEN Up(d, i, 4 * q + 1) * 4 + Up(d, i, 4 * q + 2) \div 16
        ELSE IF (k - 1) % 3 = 1
          THEN (Up(d, i, 4 * q + 2) % 16) * 16 + Up(d, i, 4 * q + 3) \div 4
        ELSE (Up(d, i, 4 * q + 3) % 4) * 64 + Up(d, i, 4 * q + 4)

Filled(d, i) == [k \in 1 .. ((3 * i + 3) \div 4) |-> Entry(d, i, k)]

\* Which digits the three bytes of group p have bits of.
LEMMA EntryFacts ==
    ASSUME NEW d, NEW i \in Nat, NEW p \in Nat
    PROVE  /\ Entry(d, i, 3 * p + 1) =
                Up(d, i, 4 * p + 1) * 4 + Up(d, i, 4 * p + 2) \div 16
           /\ Entry(d, i, 3 * p + 2) =
                (Up(d, i, 4 * p + 2) % 16) * 16 + Up(d, i, 4 * p + 3) \div 4
           /\ Entry(d, i, 3 * p + 3) =
                (Up(d, i, 4 * p + 3) % 4) * 64 + Up(d, i, 4 * p + 4)
<1>1. ((3 * p + 1) - 1) \div 3 = p /\ ((3 * p + 1) - 1) % 3 = 0
  OBVIOUS
<1>2. ((3 * p + 2) - 1) \div 3 = p /\ ((3 * p + 2) - 1) % 3 = 1
  OBVIOUS
<1>3. ((3 * p + 3) - 1) \div 3 = p /\ ((3 * p + 3) - 1) % 3 = 2
  OBVIOUS
<1>4. QED
  BY <1>1, <1>2, <1>3 DEF Entry

\* A further digit changes its own place only.
LEMMA UpFacts ==
    ASSUME NEW n \in Nat, NEW d \in [1 .. n -> 0 .. 64], NEW i \in 0 .. n
    PROVE  /\ \A j \in Nat \ {0} : Up(d, i, j) \in 0 .. 64
           /\ \A j \in Nat \ {0} : i < j => Up(d, i, j) = 0
           /\ \A j \in Nat \ {0} : j <= i => Up(d, i, j) = d[j]
           /\ \A j \in Nat \ {0, i} : i # 0 => Up(d, i, j) = Up(d, i - 1, j)
<1>1. \A j \in Nat \ {0} : j <= i => Up(d, i, j) = d[j] /\ d[j] \in 0 .. 64
  BY DEF Up
<1>2. \A j \in Nat \ {0} : i < j => Up(d, i, j) = 0
  BY DEF Up
<1>3. ASSUME NEW j \in Nat \ {0, i}, i # 0
      PROVE  Up(d, i, j) = Up(d, i - 1, j)
  <2>1. j <= i <=> j <= i - 1
    OBVIOUS
  <2>2. QED
    BY <2>1 DEF Up
<1>4. ASSUME NEW j \in Nat \ {0}
      PROVE  Up(d, i, j) \in 0 .. 64
  <2>1. CASE j <= i
    BY <1>1, <2>1
  <2>2. CASE i < j
    BY <1>2, <2>2
  <2>3. QED
    BY <2>1, <2>2
<1>5. \A j \in Nat \ {0} : j <= i => Up(d, i, j) = d[j]
  BY <1>1
<1>6. \A j \in Nat \ {0, i} : i # 0 => Up(d, i, j) = Up(d, i - 1, j)
  BY <1>3
<1>7. QED
  BY <1>2, <1>4, <1>5, <1>6

\* The digits' shares of a byte, where a digit may also be none (64).
LEMMA SharesNat ==
    ASSUME NEW u \in 0 .. 64, NEW v \in 0 .. 64
    PROVE  /\ u * 4 + v \div 16 \in Nat
           /\ (u % 16) * 16 + v \div 4 \in Nat
           /\ (u % 4) * 64 + v \in Nat
OBVIOUS

\* As many bytes as have been begun.
LEMMA FilledType ==
    ASSUME NEW n \in Nat, NEW d \in [1 .. n -> 0 .. 64], NEW i \in 0 .. n
    PROVE  /\ Filled(d, i) \in Seq(Nat)
           /\ Len(Filled(d, i)) = (3 * i + 3) \div 4
           /\ \A k \in 1 .. ((3 * i + 3) \div 4) : Filled(d, i)[k] = Entry(d, i, k)
<1>1. ASSUME NEW k \in Nat \ {0}
      PROVE  Entry(d, i, k) \in Nat
  <2>1. PICK p \in Nat : k \in {3 * p + 1, 3 * p + 2, 3 * p + 3}
    BY Threes
  <2>2. /\ 4 * p + 1 \in Nat \ {0} /\ 4 * p + 2 \in Nat \ {0}
        /\ 4 * p + 3 \in Nat \ {0} /\ 4 * p + 4 \in Nat \ {0}
    OBVIOUS
  <2>3. \A j \in Nat \ {0} : Up(d, i, j) \in 0 .. 64
    BY UpFacts
  <2>4. /\ Up(d, i, 4 * p + 1) \in 0 .. 64 /\ Up(d, i, 4 * p + 2) \in 0 .. 64
        /\ Up(d, i, 4 * p + 3) \in 0 .. 64 /\ Up(d, i, 4 * p + 4) \in 0 .. 64
    BY <2>2, <2>3
  <2>5. CASE k = 3 * p + 1
    <3> DEFINE first == Up(d, i, 4 * p + 1) * 4 + Up(d, i, 4 * p + 2) \div 16
    <3>0. Entry(d, i, 3 * p + 1) = first
      BY EntryFacts
    <3> HIDE DEF first
    <3>4. Entry(d, i, k) = first
      BY <2>5, <3>0
    <3>1. Entry(d, i, k) = Up(d, i, 4 * p + 1) * 4 + Up(d, i, 4 * p + 2) \div 16
      BY <3>4 DEF first
    <3>2. /\ Up(d, i, 4 * p + 1) \in 0 .. 64
          /\ Up(d, i, 4 * p + 2) \in 0 .. 64
      BY <2>4
    <3>3. Up(d, i, 4 * p + 1) * 4 + Up(d, i, 4 * p + 2) \div 16 \in Nat
      BY <3>2, SharesNat
    <3>5. QED
      BY <3>1, <3>3
  <2>6. CASE k = 3 * p + 2
    <3>1. Entry(d, i, k) =
            (Up(d, i, 4 * p + 2) % 16) * 16 + Up(d, i, 4 * p + 3) \div 4
      BY <2>6, EntryFacts
    <3>2. QED
      BY <2>4, <3>1, SharesNat
  <2>7. CASE k = 3 * p + 3
    <3>1. Entry(d, i, k) = (Up(d, i, 4 * p + 3) % 4) * 64 + Up(d, i, 4 * p + 4)
      BY <2>7, EntryFacts
    <3>2. QED
      BY <2>4, <3>1, SharesNat
  <2>8. QED
    BY <2>1, <2>5, <2>6, <2>7
<1>2. (3 * i + 3) \div 4 \in Nat
  OBVIOUS
<1>3. QED
  BY <1>1, <1>2 DEF Filled

\* Sequences of the same length and elements are equal.
LEMMA SameSeq ==
    ASSUME NEW s \in Seq(Nat), NEW t \in Seq(Nat), Len(s) = Len(t),
           \A k \in 1 .. Len(s) : s[k] = t[k]
    PROVE  s = t
BY SeqEqual

\* Adding to the last byte.
Plus(s, x) == [s EXCEPT ![Len(s)] = @ + x]

\* What adding to the last byte leaves as it was, and what not.
LEMMA LastPlus ==
    ASSUME NEW s \in Seq(Nat), s # << >>, NEW x \in Nat,
           NEW t, t = Plus(s, x)
    PROVE  /\ t \in Seq(Nat) /\ Len(t) = Len(s) /\ t[Len(s)] = s[Len(s)] + x
           /\ \A k \in 1 .. Len(s) - 1 : t[k] = s[k]
<1>1. Len(s) \in 1 .. Len(s) /\ Len(s) \in Nat
  OBVIOUS
<1>2. s[Len(s)] + x \in Nat
  BY <1>1
<1>3. /\ t \in Seq(Nat) /\ Len(t) = Len(s)
      /\ \A k \in 1 .. Len(s) :
            t[k] = IF k = Len(s) THEN s[Len(s)] + x ELSE s[k]
  <2>1. t = [s EXCEPT ![Len(s)] = s[Len(s)] + x]
    BY DEF Plus
  <2>2. QED
    BY <1>1, <1>2, <2>1, ExceptSeq
<1>4. t[Len(s)] = s[Len(s)] + x
  BY <1>1, <1>3
<1>5. \A k \in 1 .. Len(s) - 1 : k \in 1 .. Len(s) /\ k # Len(s)
  BY <1>1
<1>6. QED
  BY <1>3, <1>4, <1>5

\* A digit changes the byte it begins in and the one it ends in, no other.
LEMMA EntryStays ==
    ASSUME NEW n \in Nat, NEW d \in [1 .. n -> 0 .. 64], NEW i \in 1 .. n,
           NEW q \in Nat, NEW k \in 1 .. 3 * q, 4 * q < i
    PROVE  Entry(d, i, k) = Entry(d, i - 1, k)
<1>1. PICK p \in Nat : k \in {3 * p + 1, 3 * p + 2, 3 * p + 3}
  <2>1. k \in Nat \ {0}
    OBVIOUS
  <2>2. QED
    BY <2>1, Threes
<1>2. 4 * p + 4 < i
  BY <1>1
<1>3. /\ 4 * p + 1 \in Nat \ {0, i} /\ 4 * p + 2 \in Nat \ {0, i}
      /\ 4 * p + 3 \in Nat \ {0, i} /\ 4 * p + 4 \in Nat \ {0, i}
  BY <1>2
<1>4. \A j \in Nat \ {0, i} : Up(d, i, j) = Up(d, i - 1, j)
  BY UpFacts
<1>5. /\ Up(d, i, 4 * p + 1) = Up(d, i - 1, 4 * p + 1)
      /\ Up(d, i, 4 * p + 2) = Up(d, i - 1, 4 * p + 2)
      /\ Up(d, i, 4 * p + 3) = Up(d, i - 1, 4 * p + 3)
      /\ Up(d, i, 4 * p + 4) = Up(d, i - 1, 4 * p + 4)
  BY <1>3, <1>4
<1>6. i \in Nat /\ i - 1 \in Nat
  OBVIOUS
<1>7. CASE k = 3 * p + 1
  BY <1>5, <1>6, <1>7, EntryFacts
<1>8. CASE k = 3 * p + 2
  BY <1>5, <1>6, <1>8, EntryFacts
<1>9. CASE k = 3 * p + 3
  BY <1>5, <1>6, <1>9, EntryFacts
<1>10. QED
  BY <1>1, <1>7, <1>8, <1>9

LEMMA Appended ==
    ASSUME NEW s \in Seq(Nat), NEW y \in Nat, NEW t, t = Append(s, y)
    PROVE  /\ t \in Seq(Nat) /\ Len(t) = Len(s) + 1 /\ t[Len(s) + 1] = y
           /\ \A k \in 1 .. Len(s) : t[k] = s[k]
BY AppendProperties

\* Adding to the last byte and beginning the next one.
PlusNext(s, x, y) == Append(Plus(s, x), y)

LEMMA PlusAppend ==
    ASSUME NEW s \in Seq(Nat), s # << >>, NEW x \in Nat, NEW y \in Nat
    PROVE  /\ PlusNext(s, x, y) \in Seq(Nat)
           /\ Len(PlusNext(s, x, y)) = Len(s) + 1
           /\ PlusNext(s, x, y)[Len(s)] = s[Len(s)] + x
           /\ PlusNext(s, x, y)[Len(s) + 1] = y
           /\ \A k \in 1 .. Len(s) - 1 : PlusNext(s, x, y)[k] = s[k]
<1> DEFINE u == Plus(s, x)
           t == PlusNext(s, x, y)
<1>1. /\ u \in Seq(Nat) /\ Len(u) = Len(s) /\ u[Len(s)] = s[Len(s)] + x
      /\ \A k \in 1 .. Len(s) - 1 : u[k] = s[k]
  BY LastPlus
<1>2. t = Append(u, y)
  BY DEF PlusNext
<1> HIDE DEF u, t
<1>3. /\ t \in Seq(Nat) /\ Len(t) = Len(u) + 1 /\ t[Len(u) + 1] = y
      /\ \A k \in 1 .. Len(u) : t[k] = u[k]
  <2>1. u \in Seq(Nat)
    BY <1>1
  <2>2. QED
    BY <1>2, <2>1, Appended
<1>4. Len(s) \in Nat /\ Len(s) \in 1 .. Len(s)
  OBVIOUS
<1>5. \A k \in 1 .. Len(s) - 1 : k \in 1 .. Len(s)
  BY <1>4
<1>6. /\ t \in Seq(Nat) /\ Len(t) = Len(s) + 1
      /\ t[Len(s)] = s[Len(s)] + x /\ t[Len(s) + 1] = y
      /\ \A k \in 1 .. Len(s) - 1 : t[k] = s[k]
  BY <1>1, <1>3, <1>4, <1>5
<1>7. QED
  BY <1>6 DEF t

\* A digit that is not there yet adds nothing.
LEMMA Nothing ==
    ASSUME NEW u \in 0 .. 64
    PROVE  /\ u * 4 + 0 \div 16 = u * 4
           /\ (u % 16) * 16 + 0 \div 4 = (u % 16) * 16
           /\ (u % 4) * 64 + 0 = (u % 4) * 64
OBVIOUS

\* The digits of the last group, those read and those not yet.
LEMMA GroupUps ==
    ASSUME NEW n \in Nat, NEW d \in [1 .. n -> 0 .. 64], NEW q \in Nat,
           NEW c \in 1 .. 4, NEW e \in 1 .. 4, 4 * q + c <= n
    PROVE  /\ e <= c => Up(d, 4 * q + c, 4 * q + e) = d[4 * q + e]
           /\ c < e => Up(d, 4 * q + c, 4 * q + e) = 0
           /\ e <= c => d[4 * q + e] \in 0 .. 64
<1>1. e <= c => 4 * q + e <= 4 * q + c /\ 4 * q + e \in 1 .. n
  OBVIOUS
<1>2. c < e => ~(4 * q + e <= 4 * q + c)
  OBVIOUS
<1>3. QED
  BY <1>1, <1>2 DEF Up

\* The bytes of a group as its digits are added.
LEMMA GroupEntries ==
    ASSUME NEW n \in Nat, NEW d \in [1 .. n -> 0 .. 64], NEW q \in Nat
    PROVE  /\ 4 * q + 1 <= n => Entry(d, 4 * q + 1, 3 * q + 1) = d[4 * q + 1] * 4
           /\ 4 * q + 2 <= n =>
                /\ Entry(d, 4 * q + 2, 3 * q + 1) =
                     d[4 * q + 1] * 4 + d[4 * q + 2] \div 16
                /\ Entry(d, 4 * q + 2, 3 * q + 2) = (d[4 * q + 2] % 16) * 16
           /\ 4 * q + 3 <= n =>
                /\ Entry(d, 4 * q + 3, 3 * q + 1) =
                     d[4 * q + 1] * 4 + d[4 * q + 2] \div 16
                /\ Entry(d, 4 * q + 3, 3 * q + 2) =
                     (d[4 * q + 2] % 16) * 16 + d[4 * q + 3] \div 4
                /\ Entry(d, 4 * q + 3, 3 * q + 3) = (d[4 * q + 3] % 4) * 64
           /\ 4 * q + 4 <= n =>
                /\ Entry(d, 4 * q + 4, 3 * q + 1) =
                     d[4 * q + 1] * 4 + d[4 * q + 2] \div 16
                /\ Entry(d, 4 * q + 4, 3 * q + 2) =
                     (d[4 * q + 2] % 16) * 16 + d[4 * q + 3] \div 4
                /\ Entry(d, 4 * q + 4, 3 * q + 3) =
                     (d[4 * q + 3] % 4) * 64 + d[4 * q + 4]
<1>1. ASSUME 4 * q + 1 <= n
      PROVE  /\ Entry(d, 4 * q + 1, 3 * q + 1) = d[4 * q + 1] * 4
  <2>1. Up(d, 4 * q + 1, 4 * q + 1) = d[4 * q + 1] /\ d[4 * q + 1] \in 0 .. 64
    BY <1>1, GroupUps, 1 \in 1 .. 4, 1 \in 1 .. 4
  <2>2. Up(d, 4 * q + 1, 4 * q + 2) = 0
    BY <1>1, GroupUps, 1 \in 1 .. 4, 2 \in 1 .. 4
  <2>3. Up(d, 4 * q + 1, 4 * q + 3) = 0
    BY <1>1, GroupUps, 1 \in 1 .. 4, 3 \in 1 .. 4
  <2>4. Up(d, 4 * q + 1, 4 * q + 4) = 0
    BY <1>1, GroupUps, 1 \in 1 .. 4, 4 \in 1 .. 4
  <2>5. 0 \in 0 .. 64 /\ 4 * q + 1 \in Nat
    OBVIOUS
  <2>6. /\ Entry(d, 4 * q + 1, 3 * q + 1) = d[4 * q + 1] * 4 + 0 \div 16
        /\ Entry(d, 4 * q + 1, 3 * q + 2) = (0 % 16) * 16 + 0 \div 4
        /\ Entry(d, 4 * q + 1, 3 * q + 3) = (0 % 4) * 64 + 0
    BY <2>1, <2>2, <2>3, <2>4, <2>5, EntryFacts
  <2>7. QED
    BY <2>1, <2>2, <2>3, <2>4, <2>6, Nothing
<1>2. ASSUME 4 * q + 2 <= n
      PROVE  /\ Entry(d, 4 * q + 2, 3 * q + 1) = d[4 * q + 1] * 4 + d[4 * q + 2] \div 16
             /\ Entry(d, 4 * q + 2, 3 * q + 2) = (d[4 * q + 2] % 16) * 16
  <2>1. Up(d, 4 * q + 2, 4 * q + 1) = d[4 * q + 1] /\ d[4 * q + 1] \in 0 .. 64
    BY <1>2, GroupUps, 2 \in 1 .. 4, 1 \in 1 .. 4
  <2>2. Up(d, 4 * q + 2, 4 * q + 2) = d[4 * q + 2] /\ d[4 * q + 2] \in 0 .. 64
    BY <1>2, GroupUps, 2 \in 1 .. 4, 2 \in 1 .. 4
  <2>3. Up(d, 4 * q + 2, 4 * q + 3) = 0
    BY <1>2, GroupUps, 2 \in 1 .. 4, 3 \in 1 .. 4
  <2>4. Up(d, 4 * q + 2, 4 * q + 4) = 0
    BY <1>2, GroupUps, 2 \in 1 .. 4, 4 \in 1 .. 4
  <2>5. 0 \in 0 .. 64 /\ 4 * q + 2 \in Nat
    OBVIOUS
  <2>6. /\ Entry(d, 4 * q + 2, 3 * q + 1) = d[4 * q + 1] * 4 + d[4 * q + 2] \div 16
        /\ Entry(d, 4 * q + 2, 3 * q + 2) = (d[4 * q + 2] % 16) * 16 + 0 \div 4
        /\ Entry(d, 4 * q + 2, 3 * q + 3) = (0 % 4) * 64 + 0
    BY <2>1, <2>2, <2>3, <2>4, <2>5, EntryFacts
  <2>7. QED
    BY <2>1, <2>2, <2>3, <2>4, <2>6, Nothing
<1>3. ASSUME 4 * q + 3 <= n
      PROVE  /\ Entry(d, 4 * q + 3, 3 * q + 1) = d[4 * q + 1] * 4 + d[4 * q + 2] \div 16
             /\ Entry(d, 4 * q + 3, 3 * q + 2) = (d[4 * q + 2] % 16) * 16 + d[4 * q + 3] \div 4
             /\ Entry(d, 4 * q + 3, 3 * q + 3) = (d[4 * q + 3] % 4) * 64
  <2>1. Up(d, 4 * q + 3, 4 * q + 1) = d[4 * q + 1] /\ d[4 * q + 1] \in 0 .. 64
    BY <1>3, GroupUps, 3 \in 1 .. 4, 1 \in 1 .. 4
  <2>2. Up(d, 4 * q + 3, 4 * q + 2) = d[4 * q + 2] /\ d[4 * q + 2] \in 0 .. 64
    BY <1>3, GroupUps, 3 \in 1 .. 4, 2 \in 1 .. 4
  <2>3. Up(d, 4 * q + 3, 4 * q + 3) = d[4 * q + 3] /\ d[4 * q + 3] \in 0 .. 64
    BY <1>3, GroupUps, 3 \in 1 .. 4, 3 \in 1 .. 4
  <2>4. Up(d, 4 * q + 3, 4 * q + 4) = 0
    BY <1>3, GroupUps, 3 \in 1 .. 4, 4 \in 1 .. 4
  <2>5. 0 \in 0 .. 64 /\ 4 * q + 3 \in Nat
    OBVIOUS
  <2>6. /\ Entry(d, 4 * q + 3, 3 * q + 1) = d[4 * q + 1] * 4 + d[4 * q + 2] \div 16
        /\ Entry(d, 4 * q + 3, 3 * q + 2) = (d[4 * q + 2] % 16) * 16 + d[4 * q + 3] \div 4
        /\ Entry(d, 4 * q + 3, 3 * q + 3) = (d[4 * q + 3] % 4) * 64 + 0
    BY <2>1, <2>2, <2>3, <2>4, <2>5, EntryFacts
  <2>7. QED
    BY <2>1, <2>2, <2>3, <2>4, <2>6, Nothing
<1>4. ASSUME 4 * q + 4 <= n
      PROVE  /\ Entry(d, 4 * q + 4, 3 * q + 1) = d[4 * q + 1] * 4 + d[4 * q + 2] \div 16
             /\ Entry(d, 4 * q + 4, 3 * q + 2) = (d[4 * q + 2] % 16) * 16 + d[4 * q + 3] \div 4
             /\ Entry(d, 4 * q + 4, 3 * q + 3) = (d[4 * q + 3] % 4) * 64 + d[4 * q + 4]
  <2>1. Up(d, 4 * q + 4, 4 * q + 1) = d[4 * q + 1] /\ d[4 * q + 1] \in 0 .. 64
    BY <1>4, GroupUps, 4 \in 1 .. 4, 1 \in 1 .. 4
  <2>2. Up(d, 4 * q + 4, 4 * q + 2) = d[4 * q + 2] /\ d[4 * q + 2] \in 0 .. 64
    BY <1>4, GroupUps, 4 \in 1 .. 4, 2 \in 1 .. 4
  <2>3. Up(d, 4 * q + 4, 4 * q + 3) = d[4 * q + 3] /\ d[4 * q + 3] \in 0 .. 64
    BY <1>4, GroupUps, 4 \in 1 .. 4, 3 \in 1 .. 4
  <2>4. Up(d, 4 * q + 4, 4 * q + 4) = d[4 * q + 4] /\ d[4 * q + 4] \in 0 .. 64
    BY <1>4, GroupUps, 4 \in 1 .. 4, 4 \in 1 .. 4
  <2>5. 0 \in 0 .. 64 /\ 4 * q + 4 \in Nat
    OBVIOUS
  <2>6. /\ Entry(d, 4 * q + 4, 3 * q + 1) = d[4 * q + 1] * 4 + d[4 * q + 2] \div 16
        /\ Entry(d, 4 * q + 4, 3 * q + 2) = (d[4 * q + 2] % 16) * 16 + d[4 * q + 3] \div 4
        /\ Entry(d, 4 * q + 4, 3 * q + 3) = (d[4 * q + 3] % 4) * 64 + d[4 * q + 4]
    BY <2>1, <2>2, <2>3, <2>4, <2>5, EntryFacts
  <2>7. QED
    BY <2>1, <2>2, <2>3, <2>4, <2>6
<1>5. QED
  BY <1>1, <1>2, <1>3, <1>4

\* The case of AddDigit for each position.
LEMMA AddDigitCases ==
    ASSUME NEW s, NEW x, NEW q \in Nat
    PROVE  /\ AddDigit(s, 4 * q + 1, x) = Append(s, x * 4)
           /\ AddDigit(s, 4 * q + 2, x) =
                PlusNext(s, x \div 16, (x % 16) * 16)
           /\ AddDigit(s, 4 * q + 3, x) =
                PlusNext(s, x \div 4, (x % 4) * 64)
           /\ AddDigit(s, 4 * q + 4, x) = Plus(s, x)
<1>1. /\ (4 * q + 1) % 4 = 1 /\ (4 * q + 2) % 4 = 2
      /\ (4 * q + 3) % 4 = 3 /\ (4 * q + 4) % 4 = 0
  OBVIOUS
<1>2. QED
  BY <1>1 DEF AddDigit, Plus, PlusNext

\* What the four digits of a group do.
LEMMA FilledFirst ==
    ASSUME NEW n \in Nat, NEW d \in [1 .. n -> 0 .. 64], NEW q \in Nat, 4 * q + 1 <= n
    PROVE  AddDigit(Filled(d, 4 * q), 4 * q + 1, d[4 * q + 1]) = Filled(d, 4 * q + 1)
<1> DEFINE x == d[4 * q + 1]
           s == Filled(d, 4 * q)
           t == AddDigit(s, 4 * q + 1, x)
           f == Filled(d, 4 * q + 1)
<1>1. /\ 4 * q + 1 \in 1 .. n /\ 4 * q \in 0 .. n /\ 4 * q + 1 \in 0 .. n
      /\ (4 * q + 1) - 1 = 4 * q /\ 4 * q < 4 * q + 1
  OBVIOUS
<1>2. (3 * (4 * q) + 3) \div 4 = 3 * q /\ (3 * (4 * q + 1) + 3) \div 4 = 3 * q + 1
  OBVIOUS
<1>3. /\ s \in Seq(Nat) /\ Len(s) = 3 * q
      /\ \A k \in 1 .. 3 * q : s[k] = Entry(d, 4 * q, k)
  <2> HIDE DEF t, f, x
  <2>1. QED
    BY <1>1, <1>2, FilledType
<1>4. /\ f \in Seq(Nat) /\ Len(f) = 3 * q + 1
      /\ \A k \in 1 .. 3 * q + 1 : f[k] = Entry(d, 4 * q + 1, k)
  <2> HIDE DEF t, s, x
  <2>1. QED
    BY <1>1, <1>2, FilledType
<1>5. x \in 0 .. 64
  BY <1>1
<1>6. \A k \in 1 .. 3 * q : f[k] = s[k]
  <2>1. \A k \in 1 .. 3 * q : Entry(d, 4 * q + 1, k) = Entry(d, 4 * q, k)
    <3> DEFINE i == 4 * q + 1
               j == 4 * q
    <3>1. i \in 1 .. n /\ j = i - 1 /\ 4 * q < i
      BY <1>1
    <3> HIDE DEF i, j, s, t, f, x
    <3>2. \A k \in 1 .. 3 * q : Entry(d, i, k) = Entry(d, j, k)
      BY <3>1, EntryStays
    <3>3. QED
      BY <3>2 DEF i, j
  <2>2. \A k \in 1 .. 3 * q : k \in 1 .. 3 * q /\ k \in 1 .. 3 * q + 1
    OBVIOUS
  <2> HIDE DEF s, t, f, x
  <2>3. QED
    BY <1>3, <1>4, <2>1, <2>2
<1>7. /\ f[3 * q + 1] = x * 4
  <2>1. /\ Entry(d, 4 * q + 1, 3 * q + 1) = d[4 * q + 1] * 4
    BY GroupEntries
  <2>2. /\ 3 * q + 1 \in 1 .. 3 * q + 1
    OBVIOUS
  <2> HIDE DEF s, t, f
  <2>3. QED
    BY <1>3, <1>4, <2>1, <2>2
<1>8. t = Append(s, x * 4)
  <2> HIDE DEF s, x, f
  <2>1. QED
    BY AddDigitCases
<1>9. /\ t \in Seq(Nat)
      /\ Len(t) = 3 * q + 1
      /\ t[3 * q + 1] = x * 4
      /\ \A k \in 1 .. 3 * q : t[k] = s[k]
  <2> HIDE DEF s, t, f, x
  <2>1. x * 4 \in Nat
    BY <1>5
  <2>2. QED
    BY <1>3, <1>8, <2>1, Appended
<1>10. \A k \in 1 .. 3 * q + 1 : k \in 1 .. 3 * q \/ k = 3 * q + 1
  OBVIOUS
<1>11. \A k \in 1 .. Len(t) : t[k] = f[k]
  <2> HIDE DEF s, t, f, x
  <2>1. QED
    BY <1>6, <1>7, <1>9, <1>10
<1>12. t = f
  <2> HIDE DEF s, t, f, x
  <2>1. QED
    BY <1>4, <1>9, <1>11, SameSeq
<1>13. QED
  BY <1>12

LEMMA FilledSecond ==
    ASSUME NEW n \in Nat, NEW d \in [1 .. n -> 0 .. 64], NEW q \in Nat, 4 * q + 2 <= n
    PROVE  AddDigit(Filled(d, 4 * q + 1), 4 * q + 2, d[4 * q + 2]) = Filled(d, 4 * q + 2)
<1> DEFINE x == d[4 * q + 2]
           s == Filled(d, 4 * q + 1)
           t == AddDigit(s, 4 * q + 2, x)
           f == Filled(d, 4 * q + 2)
<1>1. /\ 4 * q + 2 \in 1 .. n /\ 4 * q + 1 \in 0 .. n /\ 4 * q + 2 \in 0 .. n
      /\ (4 * q + 2) - 1 = 4 * q + 1 /\ 4 * q < 4 * q + 2
  OBVIOUS
<1>2. (3 * (4 * q + 1) + 3) \div 4 = 3 * q + 1 /\ (3 * (4 * q + 2) + 3) \div 4 = 3 * q + 2
  OBVIOUS
<1>3. /\ s \in Seq(Nat) /\ Len(s) = 3 * q + 1
      /\ \A k \in 1 .. 3 * q + 1 : s[k] = Entry(d, 4 * q + 1, k)
  <2> HIDE DEF t, f, x
  <2>1. QED
    BY <1>1, <1>2, FilledType
<1>4. /\ f \in Seq(Nat) /\ Len(f) = 3 * q + 2
      /\ \A k \in 1 .. 3 * q + 2 : f[k] = Entry(d, 4 * q + 2, k)
  <2> HIDE DEF t, s, x
  <2>1. QED
    BY <1>1, <1>2, FilledType
<1>5. x \in 0 .. 64
  BY <1>1
<1>6. \A k \in 1 .. 3 * q : f[k] = s[k]
  <2>1. \A k \in 1 .. 3 * q : Entry(d, 4 * q + 2, k) = Entry(d, 4 * q + 1, k)
    <3> DEFINE i == 4 * q + 2
               j == 4 * q + 1
    <3>1. i \in 1 .. n /\ j = i - 1 /\ 4 * q < i
      BY <1>1
    <3> HIDE DEF i, j, s, t, f, x
    <3>2. \A k \in 1 .. 3 * q : Entry(d, i, k) = Entry(d, j, k)
      BY <3>1, EntryStays
    <3>3. QED
      BY <3>2 DEF i, j
  <2>2. \A k \in 1 .. 3 * q : k \in 1 .. 3 * q + 1 /\ k \in 1 .. 3 * q + 2
    OBVIOUS
  <2> HIDE DEF s, t, f, x
  <2>3. QED
    BY <1>3, <1>4, <2>1, <2>2
<1>7. /\ f[3 * q + 1] = s[3 * q + 1] + x \div 16
      /\ f[3 * q + 2] = (x % 16) * 16
  <2>1. /\ Entry(d, 4 * q + 2, 3 * q + 1) = d[4 * q + 1] * 4 + d[4 * q + 2] \div 16
        /\ Entry(d, 4 * q + 2, 3 * q + 2) = (d[4 * q + 2] % 16) * 16
    BY GroupEntries
  <2>2. /\ Entry(d, 4 * q + 1, 3 * q + 1) = d[4 * q + 1] * 4
    <3>1. 4 * q + 1 <= n
      OBVIOUS
    <3>2. QED
      BY <3>1, GroupEntries
  <2>3. /\ 3 * q + 1 \in 1 .. 3 * q + 2 /\ 3 * q + 2 \in 1 .. 3 * q + 2
        /\ 3 * q + 1 \in 1 .. 3 * q + 1
    OBVIOUS
  <2> HIDE DEF s, t, f
  <2>4. QED
    BY <1>3, <1>4, <2>1, <2>2, <2>3
<1>8. t = PlusNext(s, x \div 16, (x % 16) * 16)
  <2> HIDE DEF s, x, f
  <2>1. QED
    BY AddDigitCases
<1>9. /\ t \in Seq(Nat)
      /\ Len(t) = 3 * q + 2
      /\ t[3 * q + 1] = s[3 * q + 1] + x \div 16
      /\ t[3 * q + 2] = (x % 16) * 16
      /\ \A k \in 1 .. (3 * q + 1) - 1 : t[k] = s[k]
  <2> HIDE DEF s, t, f, x
  <2> DEFINE a == x \div 16
             b == (x % 16) * 16
  <2>1. a \in Nat /\ b \in Nat
    BY <1>5
  <2>2. t = PlusNext(s, a, b)
    BY <1>8
  <2> HIDE DEF a, b
  <2>3. s \in Seq(Nat) /\ s # << >>
    BY <1>3
  <2> DEFINE u == PlusNext(s, a, b)
  <2>4. u \in Seq(Nat) /\ Len(u) = Len(s) + 1
    <3>1. u \in Seq(Nat)
      BY <2>1, <2>3, PlusAppend
    <3>2. Len(u) = Len(s) + 1
      BY <2>1, <2>3, PlusAppend
    <3>3. QED
      BY <3>1, <3>2
  <2>5. u[Len(s)] = s[Len(s)] + a
    BY <2>1, <2>3, PlusAppend
  <2>6. u[Len(s) + 1] = b
    BY <2>1, <2>3, PlusAppend
  <2>7. \A k \in 1 .. Len(s) - 1 : u[k] = s[k]
    BY <2>1, <2>3, PlusAppend
  <2>8. t = u
    BY <2>2
  <2> HIDE DEF u
  <2> USE DEF a, b
  <2>9. QED
    BY <1>3, <2>4, <2>5, <2>6, <2>7, <2>8
<1>10. \A k \in 1 .. 3 * q + 2 : k \in 1 .. 3 * q \/ k = 3 * q + 1 \/ k = 3 * q + 2
  OBVIOUS
<1>11. \A k \in 1 .. Len(t) : t[k] = f[k]
  <2>1. \A k \in 1 .. 3 * q : k \in 1 .. (3 * q + 1) - 1
    OBVIOUS
  <2> HIDE DEF s, t, f, x
  <2>2. QED
    BY <1>6, <1>7, <1>9, <1>10, <2>1
<1>12. t = f
  <2> HIDE DEF s, t, f, x
  <2>1. QED
    BY <1>4, <1>9, <1>11, SameSeq
<1>13. QED
  BY <1>12

LEMMA FilledThird ==
    ASSUME NEW n \in Nat, NEW d \in [1 .. n -> 0 .. 64], NEW q \in Nat, 4 * q + 3 <= n
    PROVE  AddDigit(Filled(d, 4 * q + 2), 4 * q + 3, d[4 * q + 3]) = Filled(d, 4 * q + 3)
<1> DEFINE x == d[4 * q + 3]
           s == Filled(d, 4 * q + 2)
           t == AddDigit(s, 4 * q + 3, x)
           f == Filled(d, 4 * q + 3)
<1>1. /\ 4 * q + 3 \in 1 .. n /\ 4 * q + 2 \in 0 .. n /\ 4 * q + 3 \in 0 .. n
      /\ (4 * q + 3) - 1 = 4 * q + 2 /\ 4 * q < 4 * q + 3
  OBVIOUS
<1>2. (3 * (4 * q + 2) + 3) \div 4 = 3 * q + 2 /\ (3 * (4 * q + 3) + 3) \div 4 = 3 * q + 3
  OBVIOUS
<1>3. /\ s \in Seq(Nat) /\ Len(s) = 3 * q + 2
      /\ \A k \in 1 .. 3 * q + 2 : s[k] = Entry(d, 4 * q + 2, k)
  <2> HIDE DEF t, f, x
  <2>1. QED
    BY <1>1, <1>2, FilledType
<1>4. /\ f \in Seq(Nat) /\ Len(f) = 3 * q + 3
      /\ \A k \in 1 .. 3 * q + 3 : f[k] = Entry(d, 4 * q + 3, k)
  <2> HIDE DEF t, s, x
  <2>1. QED
    BY <1>1, <1>2, FilledType
<1>5. x \in 0 .. 64
  BY <1>1
<1>6. \A k \in 1 .. 3 * q : f[k] = s[k]
  <2>1. \A k \in 1 .. 3 * q : Entry(d, 4 * q + 3, k) = Entry(d, 4 * q + 2, k)
    <3> DEFINE i == 4 * q + 3
               j == 4 * q + 2
    <3>1. i \in 1 .. n /\ j = i - 1 /\ 4 * q < i
      BY <1>1
    <3> HIDE DEF i, j, s, t, f, x
    <3>2. \A k \in 1 .. 3 * q : Entry(d, i, k) = Entry(d, j, k)
      BY <3>1, EntryStays
    <3>3. QED
      BY <3>2 DEF i, j
  <2>2. \A k \in 1 .. 3 * q : k \in 1 .. 3 * q + 2 /\ k \in 1 .. 3 * q + 3
    OBVIOUS
  <2> HIDE DEF s, t, f, x
  <2>3. QED
    BY <1>3, <1>4, <2>1, <2>2
<1>7. /\ f[3 * q + 1] = s[3 * q + 1]
      /\ f[3 * q + 2] = s[3 * q + 2] + x \div 4
      /\ f[3 * q + 3] = (x % 4) * 64
  <2>1. /\ Entry(d, 4 * q + 3, 3 * q + 1) = d[4 * q + 1] * 4 + d[4 * q + 2] \div 16
        /\ Entry(d, 4 * q + 3, 3 * q + 2) = (d[4 * q + 2] % 16) * 16 + d[4 * q + 3] \div 4
        /\ Entry(d, 4 * q + 3, 3 * q + 3) = (d[4 * q + 3] % 4) * 64
    BY GroupEntries
  <2>2. /\ Entry(d, 4 * q + 2, 3 * q + 1) = d[4 * q + 1] * 4 + d[4 * q + 2] \div 16
        /\ Entry(d, 4 * q + 2, 3 * q + 2) = (d[4 * q + 2] % 16) * 16
    <3>1. 4 * q + 2 <= n
      OBVIOUS
    <3>2. QED
      BY <3>1, GroupEntries
  <2>3. /\ 3 * q + 1 \in 1 .. 3 * q + 3 /\ 3 * q + 2 \in 1 .. 3 * q + 3 /\ 3 * q + 3 \in 1 .. 3 * q + 3
        /\ 3 * q + 1 \in 1 .. 3 * q + 2 /\ 3 * q + 2 \in 1 .. 3 * q + 2
    OBVIOUS
  <2> HIDE DEF s, t, f
  <2>4. QED
    BY <1>3, <1>4, <2>1, <2>2, <2>3
<1>8. t = PlusNext(s, x \div 4, (x % 4) * 64)
  <2> HIDE DEF s, x, f
  <2>1. QED
    BY AddDigitCases
<1>9. /\ t \in Seq(Nat)
      /\ Len(t) = 3 * q + 3
      /\ t[3 * q + 2] = s[3 * q + 2] + x \div 4
      /\ t[3 * q + 3] = (x % 4) * 64
      /\ \A k \in 1 .. (3 * q + 2) - 1 : t[k] = s[k]
  <2> HIDE DEF s, t, f, x
  <2> DEFINE a == x \div 4
             b == (x % 4) * 64
  <2>1. a \in Nat /\ b \in Nat
    BY <1>5
  <2>2. t = PlusNext(s, a, b)
    BY <1>8
  <2> HIDE DEF a, b
  <2>3. s \in Seq(Nat) /\ s # << >>
    BY <1>3
  <2> DEFINE u == PlusNext(s, a, b)
  <2>4. u \in Seq(Nat) /\ Len(u) = Len(s) + 1
    <3>1. u \in Seq(Nat)
      BY <2>1, <2>3, PlusAppend
    <3>2. Len(u) = Len(s) + 1
      BY <2>1, <2>3, PlusAppend
    <3>3. QED
      BY <3>1, <3>2
  <2>5. u[Len(s)] = s[Len(s)] + a
    BY <2>1, <2>3, PlusAppend
  <2>6. u[Len(s) + 1] = b
    BY <2>1, <2>3, PlusAppend
  <2>7. \A k \in 1 .. Len(s) - 1 : u[k] = s[k]
    BY <2>1, <2>3, PlusAppend
  <2>8. t = u
    BY <2>2
  <2> HIDE DEF u
  <2> USE DEF a, b
  <2>9. QED
    BY <1>3, <2>4, <2>5, <2>6, <2>7, <2>8
<1>10. \A k \in 1 .. 3 * q + 3 : k \in 1 .. 3 * q \/ k = 3 * q + 1 \/ k = 3 * q + 2 \/ k = 3 * q + 3
  OBVIOUS
<1>11. \A k \in 1 .. Len(t) : t[k] = f[k]
  <2>1. \A k \in 1 .. 3 * q : k \in 1 .. (3 * q + 2) - 1
    OBVIOUS
  <2>2. 3 * q + 1 \in 1 .. (3 * q + 2) - 1
    OBVIOUS
  <2> HIDE DEF s, t, f, x
  <2>3. QED
    BY <1>6, <1>7, <1>9, <1>10, <2>1, <2>2
<1>12. t = f
  <2> HIDE DEF s, t, f, x
  <2>1. QED
    BY <1>4, <1>9, <1>11, SameSeq
<1>13. QED
  BY <1>12

LEMMA FilledFourth ==
    ASSUME NEW n \in Nat, NEW d \in [1 .. n -> 0 .. 64], NEW q \in Nat, 4 * q + 4 <= n
    PROVE  AddDigit(Filled(d, 4 * q + 3), 4 * q + 4, d[4 * q + 4]) = Filled(d, 4 * q + 4)
<1> DEFINE x == d[4 * q + 4]
           s == Filled(d, 4 * q + 3)
           t == AddDigit(s, 4 * q + 4, x)
           f == Filled(d, 4 * q + 4)
<1>1. /\ 4 * q + 4 \in 1 .. n /\ 4 * q + 3 \in 0 .. n /\ 4 * q + 4 \in 0 .. n
      /\ (4 * q + 4) - 1 = 4 * q + 3 /\ 4 * q < 4 * q + 4
  OBVIOUS
<1>2. (3 * (4 * q + 3) + 3) \div 4 = 3 * q + 3 /\ (3 * (4 * q + 4) + 3) \div 4 = 3 * q + 3
  OBVIOUS
<1>3. /\ s \in Seq(Nat) /\ Len(s) = 3 * q + 3
      /\ \A k \in 1 .. 3 * q + 3 : s[k] = Entry(d, 4 * q + 3, k)
  <2> HIDE DEF t, f, x
  <2>1. QED
    BY <1>1, <1>2, FilledType
<1>4. /\ f \in Seq(Nat) /\ Len(f) = 3 * q + 3
      /\ \A k \in 1 .. 3 * q + 3 : f[k] = Entry(d, 4 * q + 4, k)
  <2> HIDE DEF t, s, x
  <2>1. QED
    BY <1>1, <1>2, FilledType
<1>5. x \in 0 .. 64
  BY <1>1
<1>6. \A k \in 1 .. 3 * q : f[k] = s[k]
  <2>1. \A k \in 1 .. 3 * q : Entry(d, 4 * q + 4, k) = Entry(d, 4 * q + 3, k)
    <3> DEFINE i == 4 * q + 4
               j == 4 * q + 3
    <3>1. i \in 1 .. n /\ j = i - 1 /\ 4 * q < i
      BY <1>1
    <3> HIDE DEF i, j, s, t, f, x
    <3>2. \A k \in 1 .. 3 * q : Entry(d, i, k) = Entry(d, j, k)
      BY <3>1, EntryStays
    <3>3. QED
      BY <3>2 DEF i, j
  <2>2. \A k \in 1 .. 3 * q : k \in 1 .. 3 * q + 3 /\ k \in 1 .. 3 * q + 3
    OBVIOUS
  <2> HIDE DEF s, t, f, x
  <2>3. QED
    BY <1>3, <1>4, <2>1, <2>2
<1>7. /\ f[3 * q + 1] = s[3 * q + 1]
      /\ f[3 * q + 2] = s[3 * q + 2]
      /\ f[3 * q + 3] = s[3 * q + 3] + x
  <2>1. /\ Entry(d, 4 * q + 4, 3 * q + 1) = d[4 * q + 1] * 4 + d[4 * q + 2] \div 16
        /\ Entry(d, 4 * q + 4, 3 * q + 2) = (d[4 * q + 2] % 16) * 16 + d[4 * q + 3] \div 4
        /\ Entry(d, 4 * q + 4, 3 * q + 3) = (d[4 * q + 3] % 4) * 64 + d[4 * q + 4]
    BY GroupEntries
  <2>2. /\ Entry(d, 4 * q + 3, 3 * q + 1) = d[4 * q + 1] * 4 + d[4 * q + 2] \div 16
        /\ Entry(d, 4 * q + 3, 3 * q + 2) = (d[4 * q + 2] % 16) * 16 + d[4 * q + 3] \div 4
        /\ Entry(d, 4 * q + 3, 3 * q + 3) = (d[4 * q + 3] % 4) * 64
    <3>1. 4 * q + 3 <= n
      OBVIOUS
    <3>2. QED
      BY <3>1, GroupEntries
  <2>3. /\ 3 * q + 1 \in 1 .. 3 * q + 3 /\ 3 * q + 2 \in 1 .. 3 * q + 3 /\ 3 * q + 3 \in 1 .. 3 * q + 3
        /\ 3 * q + 1 \in 1 .. 3 * q + 3 /\ 3 * q + 2 \in 1 .. 3 * q + 3 /\ 3 * q + 3 \in 1 .. 3 * q + 3
    OBVIOUS
  <2> HIDE DEF s, t, f
  <2>4. QED
    BY <1>3, <1>4, <2>1, <2>2, <2>3
<1>8. t = Plus(s, x)
  <2> HIDE DEF s, x, f
  <2>1. QED
    BY AddDigitCases
<1>9. /\ t \in Seq(Nat)
      /\ Len(t) = 3 * q + 3
      /\ t[3 * q + 3] = s[3 * q + 3] + x
      /\ \A k \in 1 .. (3 * q + 3) - 1 : t[k] = s[k]
  <2> HIDE DEF s, t, f, x
  <2>1. x \in Nat
    BY <1>5
  <2>2. s \in Seq(Nat) /\ s # << >>
    BY <1>3
  <2>3. /\ t \in Seq(Nat) /\ Len(t) = Len(s) /\ t[Len(s)] = s[Len(s)] + x
        /\ \A k \in 1 .. Len(s) - 1 : t[k] = s[k]
    BY <1>8, <2>1, <2>2, LastPlus
  <2>4. QED
    BY <1>3, <2>3
<1>10. \A k \in 1 .. 3 * q + 3 : k \in 1 .. 3 * q \/ k = 3 * q + 1 \/ k = 3 * q + 2 \/ k = 3 * q + 3
  OBVIOUS
<1>11. \A k \in 1 .. Len(t) : t[k] = f[k]
  <2>1. \A k \in 1 .. 3 * q : k \in 1 .. (3 * q + 3) - 1
    OBVIOUS
  <2>2. 3 * q + 1 \in 1 .. (3 * q + 3) - 1 /\ 3 * q + 2 \in 1 .. (3 * q + 3) - 1
    OBVIOUS
  <2> HIDE DEF s, t, f, x
  <2>3. QED
    BY <1>6, <1>7, <1>9, <1>10, <2>1, <2>2
<1>12. t = f
  <2> HIDE DEF s, t, f, x
  <2>1. QED
    BY <1>4, <1>9, <1>11, SameSeq
<1>13. QED
  BY <1>12

\* The next digit leads from one closed form to the next.
LEMMA FilledStep ==
    ASSUME NEW n \in Nat, NEW d \in [1 .. n -> 0 .. 64], NEW i \in 1 .. n
    PROVE  AddDigit(Filled(d, i - 1), i, d[i]) = Filled(d, i)
<1>1. PICK q \in Nat : i \in {4 * q + 1, 4 * q + 2, 4 * q + 3, 4 * q + 4}
  <2>1. i \in Nat \ {0}
    OBVIOUS
  <2>2. QED
    BY <2>1, Fours
<1>2. CASE i = 4 * q + 1
  <2>1. 4 * q + 1 <= n /\ i - 1 = 4 * q
    BY <1>2
  <2>2. QED
    BY <1>2, <2>1, FilledFirst
<1>3. CASE i = 4 * q + 2
  <2>1. 4 * q + 2 <= n /\ i - 1 = 4 * q + 1
    BY <1>3
  <2>2. QED
    BY <1>3, <2>1, FilledSecond
<1>4. CASE i = 4 * q + 3
  <2>1. 4 * q + 3 <= n /\ i - 1 = 4 * q + 2
    BY <1>4
  <2>2. QED
    BY <1>4, <2>1, FilledThird
<1>5. CASE i = 4 * q + 4
  <2>1. 4 * q + 4 <= n /\ i - 1 = 4 * q + 3
    BY <1>5
  <2>2. QED
    BY <1>5, <2>1, FilledFourth
<1>6. QED
  BY <1>1, <1>2, <1>3, <1>4, <1>5

\* The target after each digit.
Target(sig, n) ==
    CHOOSE g : g = [i \in 0 .. n |->
                       IF i = 0 THEN << >>
                       ELSE AddDigit(g[i - 1], i, Sextet(sig[i]))]

\* So the loop computes it, for any number of digits.
LEMMA TargetIs ==
    ASSUME NEW n \in Nat, NEW d \in [1 .. n -> 0 .. 64], NEW sig,
           \A i \in 1 .. n : d[i] = Sextet(sig[i])
    PROVE  \A i \in 0 .. n : Target(sig, n)[i] = Filled(d, i)
<1> DEFINE Defines(g) == g = [i \in 0 .. n |->
                                 IF i = 0 THEN << >>
                                 ELSE AddDigit(g[i - 1], i, Sextet(sig[i]))]
           h == Target(sig, n)
           F == [i \in 0 .. n |-> Filled(d, i)]
<1>1. Filled(d, 0) = << >>
  <2>1. Filled(d, 0) \in Seq(Nat) /\ Len(Filled(d, 0)) = (3 * 0 + 3) \div 4
    BY FilledType
  <2>2. (3 * 0 + 3) \div 4 = 0
    OBVIOUS
  <2>3. QED
    BY <2>1, <2>2, EmptySeq
<1>2. Defines(F)
  <2>1. ASSUME NEW i \in 0 .. n
        PROVE  Filled(d, i) = IF i = 0 THEN << >>
                              ELSE AddDigit(F[i - 1], i, Sextet(sig[i]))
    <3>1. CASE i = 0
      BY <1>1, <3>1
    <3>2. CASE i # 0
      <4>1. i \in 1 .. n /\ F[i - 1] = Filled(d, i - 1)
        BY <3>2
      <4>2. QED
        BY <3>2, <4>1, FilledStep
    <3>3. QED
      BY <3>1, <3>2
  <2>2. QED
    BY <2>1
<1>3. Defines(h)
  <2> HIDE DEF F
  <2>1. h = CHOOSE g : Defines(g)
    BY DEF Target
  <2> HIDE DEF Defines, h
  <2>2. QED
    BY <1>2, <2>1
<1>4. \A i \in 0 .. n : h[i] = IF i = 0 THEN << >>
                               ELSE AddDigit(h[i - 1], i, Sextet(sig[i]))
  <2> HIDE DEF h
  <2>1. QED
    BY <1>3
<1> HIDE DEF h, F
<1> DEFINE T == {k \in Nat : k <= n => h[k] = Filled(d, k)}
<1>5. 0 \in T
  BY <1>1, <1>4
<1>6. ASSUME NEW k \in Nat \ {0}, k - 1 \in T
      PROVE  k \in T
  <2>1. SUFFICES ASSUME k <= n PROVE h[k] = Filled(d, k)
    OBVIOUS
  <2>2. k \in 1 .. n /\ k \in 0 .. n /\ k # 0 /\ h[k - 1] = Filled(d, k - 1)
    BY <1>6, <2>1
  <2>3. h[k] = AddDigit(h[k - 1], k, d[k])
    BY <1>4, <2>2
  <2>4. QED
    BY <2>2, <2>3, FilledStep
<1>7. Nat \subseteq T
  <2> HIDE DEF T
  <2>1. QED
    BY <1>5, <1>6, Induction
<1>8. QED
  BY <1>7 DEF h

\* What is left of the loop when it has ended.
Complete(d, n, padding) ==
    /\ \A i \in 1 .. n : d[i] < 64
    /\ \/ n % 4 = 0 /\ padding = << >>
       \/ n % 4 = 2 /\ padding = <<Equals, Equals>>
       \/ n % 4 = 3 /\ padding = <<Equals>>
    /\ padding # << >> => Filled(d, n)[Len(Filled(d, n))] = 0

\* The values of the digits.
Digits(sig, n) == [i \in 1 .. n |-> Sextet(sig[i])]

\* The digits are numbers below 64, or 64 for what is no digit.
LEMMA DigitsFacts ==
    ASSUME NEW sig \in Seq(Char), NEW n \in 0 .. Len(sig)
    PROVE  /\ Digits(sig, n) \in [1 .. n -> 0 .. 64]
           /\ \A i \in 1 .. n : Digits(sig, n)[i] = Sextet(sig[i])
           /\ \A i \in 1 .. n : sig[i] \in Int
<1>1. Char \subseteq Int
  BY DEF Char
<1>2. \A i \in 1 .. n : i \in 1 .. Len(sig)
  OBVIOUS
<1>3. \A i \in 1 .. n : sig[i] \in Char
  BY <1>2
<1>4. \A i \in 1 .. n : sig[i] \in Int
  BY <1>1, <1>3
<1>5. \A i \in 1 .. n : Sextet(sig[i]) \in 0 .. 64
  BY <1>4, SextetFacts
<1>6. QED
  BY <1>4, <1>5 DEF Digits

\* b64_pton() in terms of the closed form.
LEMMA B64PtonIs ==
    ASSUME NEW text \in Seq(Char), NEW sig, NEW n, NEW d,
           sig = Significant(text), n = Unpadded(sig), n \in Nat,
           d \in [1 .. n -> 0 .. 64], \A i \in 1 .. n : d[i] = Sextet(sig[i])
    PROVE  B64Pton(text) =
             IF Complete(d, n, SubSeq(sig, n + 1, Len(sig)))
               THEN SubSeq(Filled(d, n), 1, (3 * n) \div 4)
               ELSE NULL
<1> DEFINE h == CHOOSE g : g = [i \in 0 .. n |->
                                  IF i = 0 THEN << >>
                                  ELSE AddDigit(g[i - 1], i, Sextet(sig[i]))]
           padding == SubSeq(sig, n + 1, Len(sig))
<1>1. h[n] = Filled(d, n)
  <2>1. n \in 0 .. n
    OBVIOUS
  <2>2. h = Target(sig, n)
    BY DEF Target
  <2> HIDE DEF h
  <2>3. \A i \in 0 .. n : Target(sig, n)[i] = Filled(d, i)
    BY TargetIs, ZenonT(30)
  <2>4. QED
    BY <2>1, <2>2, <2>3
<1>2. B64Pton(text) =
        IF /\ \A i \in 1 .. n : Sextet(sig[i]) < 64
           /\ \/ n % 4 = 0 /\ padding = << >>
              \/ n % 4 = 2 /\ padding = <<Equals, Equals>>
              \/ n % 4 = 3 /\ padding = <<Equals>>
           /\ padding # << >> => h[n][Len(h[n])] = 0
          THEN SubSeq(h[n], 1, (3 * n) \div 4)
          ELSE NULL
  BY DEF B64Pton
<1> HIDE DEF h, padding
<1>3. Complete(d, n, padding) <=>
        /\ \A i \in 1 .. n : Sextet(sig[i]) < 64
        /\ \/ n % 4 = 0 /\ padding = << >>
           \/ n % 4 = 2 /\ padding = <<Equals, Equals>>
           \/ n % 4 = 3 /\ padding = <<Equals>>
        /\ padding # << >> => h[n][Len(h[n])] = 0
  BY <1>1 DEF Complete
<1>4. QED
  BY <1>1, <1>2, <1>3 DEF padding

(***************************************************************************)
(* The encoding.                                                           *)
(***************************************************************************)

\* The three bytes of group p, of the 24 bits of its digits.
LEMMA BytesOfFacts ==
    ASSUME NEW digits, NEW m \in Nat, NEW p \in Nat, NEW w,
           w = 262144 * At(digits, 4 * p + 1) + 4096 * At(digits, 4 * p + 2)
               + 64 * At(digits, 4 * p + 3) + At(digits, 4 * p + 4)
    PROVE  /\ 3 * p + 1 <= m => BytesOf(digits, m)[3 * p + 1] = (w \div 65536) % 256
           /\ 3 * p + 2 <= m => BytesOf(digits, m)[3 * p + 2] = (w \div 256) % 256
           /\ 3 * p + 3 <= m => BytesOf(digits, m)[3 * p + 3] = (w \div 1) % 256
<1> DEFINE bits(g) == 262144 * At(digits, 4 * g + 1) + 4096 * At(digits, 4 * g + 2)
                      + 64 * At(digits, 4 * g + 3) + At(digits, 4 * g + 4)
           weight == <<65536, 256, 1>>
<1>1. BytesOf(digits, m) =
        [i \in 1 .. m |-> (bits((i - 1) \div 3) \div weight[((i - 1) % 3) + 1]) % 256]
  BY DEF BytesOf
<1>2. bits(p) = w
  OBVIOUS
<1>3. /\ ((3 * p + 1) - 1) \div 3 = p /\ (((3 * p + 1) - 1) % 3) + 1 = 1
      /\ ((3 * p + 2) - 1) \div 3 = p /\ (((3 * p + 2) - 1) % 3) + 1 = 2
      /\ ((3 * p + 3) - 1) \div 3 = p /\ (((3 * p + 3) - 1) % 3) + 1 = 3
  OBVIOUS
<1>4. weight[1] = 65536 /\ weight[2] = 256 /\ weight[3] = 1
  OBVIOUS
<1> HIDE DEF bits, weight
<1>5. \A i \in 1 .. m : BytesOf(digits, m)[i] =
        (bits((i - 1) \div 3) \div weight[((i - 1) % 3) + 1]) % 256
  BY <1>1
<1>6. /\ 3 * p + 1 <= m => 3 * p + 1 \in 1 .. m
      /\ 3 * p + 2 <= m => 3 * p + 2 \in 1 .. m
      /\ 3 * p + 3 <= m => 3 * p + 3 \in 1 .. m
  OBVIOUS
<1>7. QED
  BY <1>2, <1>3, <1>4, <1>5, <1>6

\* The four digits of group p, of the 24 bits of its bytes.
LEMMA DigitsOfFacts ==
    ASSUME NEW bytes, NEW c \in Nat, NEW p \in Nat, NEW w,
           w = 65536 * At(bytes, 3 * p + 1) + 256 * At(bytes, 3 * p + 2)
               + At(bytes, 3 * p + 3)
    PROVE  /\ 4 * p + 1 <= c => DigitsOf(bytes, c)[4 * p + 1] = (w \div 262144) % 64
           /\ 4 * p + 2 <= c => DigitsOf(bytes, c)[4 * p + 2] = (w \div 4096) % 64
           /\ 4 * p + 3 <= c => DigitsOf(bytes, c)[4 * p + 3] = (w \div 64) % 64
           /\ 4 * p + 4 <= c => DigitsOf(bytes, c)[4 * p + 4] = (w \div 1) % 64
<1> DEFINE bits(g) == 65536 * At(bytes, 3 * g + 1) + 256 * At(bytes, 3 * g + 2)
                      + At(bytes, 3 * g + 3)
           weight == <<262144, 4096, 64, 1>>
<1>1. DigitsOf(bytes, c) =
        [i \in 1 .. c |-> (bits((i - 1) \div 4) \div weight[((i - 1) % 4) + 1]) % 64]
  BY DEF DigitsOf
<1>2. bits(p) = w
  OBVIOUS
<1>3. /\ ((4 * p + 1) - 1) \div 4 = p /\ (((4 * p + 1) - 1) % 4) + 1 = 1
      /\ ((4 * p + 2) - 1) \div 4 = p /\ (((4 * p + 2) - 1) % 4) + 1 = 2
      /\ ((4 * p + 3) - 1) \div 4 = p /\ (((4 * p + 3) - 1) % 4) + 1 = 3
      /\ ((4 * p + 4) - 1) \div 4 = p /\ (((4 * p + 4) - 1) % 4) + 1 = 4
  OBVIOUS
<1>4. /\ weight[1] = 262144 /\ weight[2] = 4096
      /\ weight[3] = 64 /\ weight[4] = 1
  OBVIOUS
<1> HIDE DEF bits, weight
<1>5. \A i \in 1 .. c : DigitsOf(bytes, c)[i] =
        (bits((i - 1) \div 4) \div weight[((i - 1) % 4) + 1]) % 64
  BY <1>1
<1>6. /\ 4 * p + 1 <= c => 4 * p + 1 \in 1 .. c
      /\ 4 * p + 2 <= c => 4 * p + 2 \in 1 .. c
      /\ 4 * p + 3 <= c => 4 * p + 3 \in 1 .. c
      /\ 4 * p + 4 <= c => 4 * p + 4 \in 1 .. c
  OBVIOUS
<1>7. 4 * p + 1 <= c => DigitsOf(bytes, c)[4 * p + 1] = (w \div 262144) % 64
  BY <1>2, <1>3, <1>4, <1>5, <1>6, SMTT(30)
<1>8. 4 * p + 2 <= c => DigitsOf(bytes, c)[4 * p + 2] = (w \div 4096) % 64
  BY <1>2, <1>3, <1>4, <1>5, <1>6
<1>9. 4 * p + 3 <= c => DigitsOf(bytes, c)[4 * p + 3] = (w \div 64) % 64
  BY <1>2, <1>3, <1>4, <1>5, <1>6
<1>10. 4 * p + 4 <= c => DigitsOf(bytes, c)[4 * p + 4] = (w \div 1) % 64
  BY <1>2, <1>3, <1>4, <1>5, <1>6
<1>11. QED
  BY <1>7, <1>8, <1>9, <1>10

\* Eight bits are a byte, and six a digit.
LEMMA Remainders ==
    /\ \A x \in Int : (x \div 65536) % 256 \in Byte /\ (x \div 256) % 256 \in Byte
                      /\ (x \div 1) % 256 \in Byte
    /\ \A x \in Int : /\ (x \div 262144) % 64 \in Value
                      /\ (x \div 4096) % 64 \in Value
                      /\ (x \div 64) % 64 \in Value /\ (x \div 1) % 64 \in Value
BY DEF Byte, Value

\* The types of what is encoded and decoded.
LEMMA AtType ==
    ASSUME NEW s, \A j \in DOMAIN s : s[j] \in Int
    PROVE  \A j \in Int : At(s, j) \in Int
BY DEF At

LEMMA WordType ==
    ASSUME NEW e1 \in Int, NEW e2 \in Int, NEW e3 \in Int
    PROVE  /\ \A e4 \in Int : 262144 * e1 + 4096 * e2 + 64 * e3 + e4 \in Int
           /\ 65536 * e1 + 256 * e2 + e3 \in Int
OBVIOUS

LEMMA BytesOfType ==
    ASSUME NEW n \in Nat, NEW d \in [1 .. n -> 0 .. 64], NEW m \in Nat
    PROVE  BytesOf(d, m) \in [1 .. m -> Byte]
<1>1. ASSUME NEW i \in 1 .. m
      PROVE  BytesOf(d, m)[i] \in Byte
  <2>1. PICK p \in Nat : i \in {3 * p + 1, 3 * p + 2, 3 * p + 3}
    <3>1. i \in Nat \ {0}
      OBVIOUS
    <3>2. QED
      BY <3>1, Threes
  <2> DEFINE w == 262144 * At(d, 4 * p + 1) + 4096 * At(d, 4 * p + 2)
                  + 64 * At(d, 4 * p + 3) + At(d, 4 * p + 4)
  <2>2. w \in Int
    <3>1. \A j \in DOMAIN d : d[j] \in Int
      <4>1. DOMAIN d = 1 .. n /\ \A j \in 1 .. n : d[j] \in 0 .. 64
        OBVIOUS
      <4>2. \A x \in 0 .. 64 : x \in Int
        BY DEF Byte
      <4>3. QED
        BY <4>1, <4>2
    <3>2. \A j \in Int : At(d, j) \in Int
      BY <3>1, AtType
    <3>3. /\ At(d, 4 * p + 1) \in Int
          /\ At(d, 4 * p + 2) \in Int
          /\ At(d, 4 * p + 3) \in Int
          /\ At(d, 4 * p + 4) \in Int
      BY <3>2, SMTT(30)
    <3>4. QED
      BY <3>3, WordType
  <2> HIDE DEF w
  <2>3. CASE i = 3 * p + 1
    <3>1. BytesOf(d, m)[3 * p + 1] = (w \div 65536) % 256
      <4>1. 3 * p + 1 <= m
        BY <2>3
      <4>2. QED
        BY <4>1, BytesOfFacts DEF w
    <3>2. (w \div 65536) % 256 \in Byte
      BY <2>2, Remainders
    <3>3. QED
      BY <2>3, <3>1, <3>2
  <2>4. CASE i = 3 * p + 2
    <3>1. BytesOf(d, m)[3 * p + 2] = (w \div 256) % 256
      <4>1. 3 * p + 2 <= m
        BY <2>4
      <4>2. QED
        BY <4>1, BytesOfFacts DEF w
    <3>2. (w \div 256) % 256 \in Byte
      BY <2>2, Remainders
    <3>3. QED
      BY <2>4, <3>1, <3>2
  <2>5. CASE i = 3 * p + 3
    <3>1. BytesOf(d, m)[3 * p + 3] = (w \div 1) % 256
      <4>1. 3 * p + 3 <= m
        BY <2>5
      <4>2. QED
        BY <4>1, BytesOfFacts DEF w
    <3>2. (w \div 1) % 256 \in Byte
      BY <2>2, Remainders
    <3>3. QED
      BY <2>5, <3>1, <3>2
  <2>6. QED
    BY <2>1, <2>3, <2>4, <2>5
<1>2. BytesOf(d, m) = [i \in 1 .. m |-> BytesOf(d, m)[i]]
  BY DEF BytesOf
<1>3. QED
  BY <1>1, <1>2

LEMMA DigitsOfType ==
    ASSUME NEW m \in Nat, NEW bytes \in [1 .. m -> Byte], NEW c \in Nat
    PROVE  DigitsOf(bytes, c) \in [1 .. c -> Value]
<1>1. ASSUME NEW i \in 1 .. c
      PROVE  DigitsOf(bytes, c)[i] \in Value
  <2>1. PICK p \in Nat : i \in {4 * p + 1, 4 * p + 2, 4 * p + 3, 4 * p + 4}
    <3>1. i \in Nat \ {0}
      OBVIOUS
    <3>2. QED
      BY <3>1, Fours
  <2> DEFINE w == 65536 * At(bytes, 3 * p + 1) + 256 * At(bytes, 3 * p + 2)
                  + At(bytes, 3 * p + 3)
  <2>2. w \in Int
    <3>1. \A j \in DOMAIN bytes : bytes[j] \in Int
      <4>1. DOMAIN bytes = 1 .. m /\ \A j \in 1 .. m : bytes[j] \in Byte
        OBVIOUS
      <4>2. \A x \in Byte : x \in Int
        BY DEF Byte
      <4>3. QED
        BY <4>1, <4>2
    <3>2. \A j \in Int : At(bytes, j) \in Int
      BY <3>1, AtType
    <3>3. /\ At(bytes, 3 * p + 1) \in Int
          /\ At(bytes, 3 * p + 2) \in Int
          /\ At(bytes, 3 * p + 3) \in Int
      BY <3>2
    <3>4. QED
      BY <3>3, WordType
  <2> HIDE DEF w
  <2>3. CASE i = 4 * p + 1
    <3>1. DigitsOf(bytes, c)[4 * p + 1] = (w \div 262144) % 64
      <4>1. 4 * p + 1 <= c
        BY <2>3
      <4>2. QED
        BY <4>1, DigitsOfFacts DEF w
    <3>2. (w \div 262144) % 64 \in Value
      BY <2>2, Remainders
    <3>3. QED
      BY <2>3, <3>1, <3>2
  <2>4. CASE i = 4 * p + 2
    <3>1. DigitsOf(bytes, c)[4 * p + 2] = (w \div 4096) % 64
      <4>1. 4 * p + 2 <= c
        BY <2>4
      <4>2. QED
        BY <4>1, DigitsOfFacts DEF w
    <3>2. (w \div 4096) % 64 \in Value
      BY <2>2, Remainders
    <3>3. QED
      BY <2>4, <3>1, <3>2
  <2>5. CASE i = 4 * p + 3
    <3>1. DigitsOf(bytes, c)[4 * p + 3] = (w \div 64) % 64
      <4>1. 4 * p + 3 <= c
        BY <2>5
      <4>2. QED
        BY <4>1, DigitsOfFacts DEF w
    <3>2. (w \div 64) % 64 \in Value
      BY <2>2, Remainders
    <3>3. QED
      BY <2>5, <3>1, <3>2
  <2>6. CASE i = 4 * p + 4
    <3>1. DigitsOf(bytes, c)[4 * p + 4] = (w \div 1) % 64
      <4>1. 4 * p + 4 <= c
        BY <2>6
      <4>2. QED
        BY <4>1, DigitsOfFacts DEF w
    <3>2. (w \div 1) % 64 \in Value
      BY <2>2, Remainders
    <3>3. QED
      BY <2>6, <3>1, <3>2
  <2>7. QED
    BY <2>1, <2>3, <2>4, <2>5, <2>6
<1>2. DigitsOf(bytes, c) = [i \in 1 .. c |-> DigitsOf(bytes, c)[i]]
  BY DEF DigitsOf
<1>3. QED
  BY <1>1, <1>2

\* An encoding: its digits and its padding.
Encodes(t, bytes, c, k) ==
    /\ t \in Seq(Char) /\ Len(t) = c + k
    /\ \A i \in 1 .. c : t[i] = Alphabet(DigitsOf(bytes, c)[i])
    /\ \A i \in c + 1 .. c + k : t[i] = Equals

\* An encoding is its digits and its padding.
LEMMA Base64OfFacts ==
    ASSUME NEW m \in Nat, NEW bytes \in [1 .. m -> Byte],
           NEW c, c = (8 * m + 5) \div 6, NEW k, k = (-m) % 3
    PROVE  Encodes(Base64Of(bytes), bytes, c, k)
<1>1. bytes \in Seq(Byte) /\ Len(bytes) = m
  OBVIOUS
<1>2. c \in Nat /\ k \in Nat
  OBVIOUS
<1> DEFINE s == [i \in 1 .. c |-> Alphabet(DigitsOf(bytes, c)[i])]
           t == [i \in 1 .. k |-> Equals]
<1>3. DigitsOf(bytes, c) \in [1 .. c -> Value]
  BY <1>2, DigitsOfType
<1>4. s \in Seq(Char) /\ Len(s) = c
  BY <1>2, <1>3, SextetFacts
<1>5. t \in Seq(Char) /\ Len(t) = k
  BY <1>2 DEF Equals, Char
<1>6. DOMAIN DigitsOf(bytes, c) = 1 .. c
  BY <1>3
<1>7. Base64Of(bytes) = s \o t
  BY <1>1, <1>6 DEF Base64Of
<1>8. \A i \in 1 .. c : s[i] = Alphabet(DigitsOf(bytes, c)[i])
  OBVIOUS
<1>9. \A i \in 1 .. k : t[i] = Equals
  OBVIOUS
<1> HIDE DEF s, t
<1>10. /\ s \o t \in Seq(Char) /\ Len(s \o t) = c + k
       /\ \A i \in 1 .. c + k : (s \o t)[i] = IF i <= c THEN s[i] ELSE t[i - c]
  <2>1. s \in Seq(Char) /\ t \in Seq(Char)
    BY <1>4, <1>5
  <2>2. s \o t \in Seq(Char)
    BY <2>1, ConcatProperties
  <2>3. Len(s \o t) = Len(s) + Len(t)
    BY <2>1, ConcatProperties
  <2>4. \A i \in 1 .. Len(s) + Len(t) :
            (s \o t)[i] = IF i <= Len(s) THEN s[i] ELSE t[i - Len(s)]
    BY <2>1, ConcatProperties
  <2>5. Len(s) = c /\ Len(t) = k
    BY <1>4, <1>5
  <2>6. QED
    BY <2>2, <2>3, <2>4, <2>5
<1>11. \A i \in 1 .. c : i \in 1 .. c + k /\ i <= c
  BY <1>2
<1>12. \A i \in c + 1 .. c + k : i \in 1 .. c + k /\ ~(i <= c) /\ i - c \in 1 .. k
  BY <1>2
<1>13. Encodes(s \o t, bytes, c, k)
  BY <1>8, <1>9, <1>10, <1>11, <1>12 DEF Encodes
<1>14. QED
  BY <1>7, <1>13

\* The bytes of a text whose digits are digits.
LEMMA AtIsUp ==
    ASSUME NEW n \in Nat, NEW d \in [1 .. n -> Value]
    PROVE  \A j \in Nat \ {0} : At(d, j) = Up(d, n, j) /\ At(d, j) \in Value
<1>1. DOMAIN d = 1 .. n /\ \A j \in 1 .. n : d[j] \in Value
  OBVIOUS
<1>2. \A j \in Nat \ {0} : j \in 1 .. n <=> j <= n
  OBVIOUS
<1>3. 0 \in Value
  BY DEF Value
<1>4. QED
  BY <1>1, <1>2, <1>3 DEF At, Up

\* The closed form for complete digits and the reference are the same bytes.
LEMMA BytesAreEntries ==
    ASSUME NEW n \in Nat, NEW d \in [1 .. n -> Value], NEW m \in Nat, NEW k \in 1 .. m
    PROVE  BytesOf(d, m)[k] = Entry(d, n, k)
<1>1. PICK p \in Nat : k \in {3 * p + 1, 3 * p + 2, 3 * p + 3}
  <2>1. k \in Nat \ {0}
    OBVIOUS
  <2>2. QED
    BY <2>1, Threes
<1> DEFINE e1 == At(d, 4 * p + 1)
           e2 == At(d, 4 * p + 2)
           e3 == At(d, 4 * p + 3)
           e4 == At(d, 4 * p + 4)
           w == 262144 * At(d, 4 * p + 1) + 4096 * At(d, 4 * p + 2)
                + 64 * At(d, 4 * p + 3) + At(d, 4 * p + 4)
<1>2. /\ e1 \in Value /\ e2 \in Value /\ e3 \in Value /\ e4 \in Value
      /\ Up(d, n, 4 * p + 1) = e1 /\ Up(d, n, 4 * p + 2) = e2
      /\ Up(d, n, 4 * p + 3) = e3 /\ Up(d, n, 4 * p + 4) = e4
  <2>1. /\ 4 * p + 1 \in Nat \ {0} /\ 4 * p + 2 \in Nat \ {0}
        /\ 4 * p + 3 \in Nat \ {0} /\ 4 * p + 4 \in Nat \ {0}
    OBVIOUS
  <2>2. QED
    BY <2>1, AtIsUp
<1>3. w = 262144 * e1 + 4096 * e2 + 64 * e3 + e4
  OBVIOUS
<1>4. /\ 3 * p + 1 <= m => BytesOf(d, m)[3 * p + 1] = (w \div 65536) % 256
      /\ 3 * p + 2 <= m => BytesOf(d, m)[3 * p + 2] = (w \div 256) % 256
      /\ 3 * p + 3 <= m => BytesOf(d, m)[3 * p + 3] = (w \div 1) % 256
  <2> HIDE DEF w
  <2>1. QED
    BY BytesOfFacts DEF w
<1>5. /\ Entry(d, n, 3 * p + 1) = e1 * 4 + e2 \div 16
      /\ Entry(d, n, 3 * p + 2) = (e2 % 16) * 16 + e3 \div 4
      /\ Entry(d, n, 3 * p + 3) = (e3 % 4) * 64 + e4
  <2> HIDE DEF e1, e2, e3, e4
  <2>1. QED
    BY <1>2, EntryFacts
<1> HIDE DEF e1, e2, e3, e4, w
<1>6. /\ (w \div 65536) % 256 = e1 * 4 + e2 \div 16
      /\ (w \div 256) % 256 = (e2 % 16) * 16 + e3 \div 4
      /\ (w \div 1) % 256 = (e3 % 4) * 64 + e4
  BY <1>2, <1>3, GroupBytes
<1>7. CASE k = 3 * p + 1
  <2>1. 3 * p + 1 <= m
    BY <1>7
  <2>2. QED
    BY <1>4, <1>5, <1>6, <1>7, <2>1
<1>8. CASE k = 3 * p + 2
  <2>1. 3 * p + 2 <= m
    BY <1>8
  <2>2. QED
    BY <1>4, <1>5, <1>6, <1>8, <2>1
<1>9. CASE k = 3 * p + 3
  <2>1. 3 * p + 3 <= m
    BY <1>9
  <2>2. QED
    BY <1>4, <1>5, <1>6, <1>9, <2>1
<1>10. QED
  BY <1>1, <1>7, <1>8, <1>9

\* What is returned are those bytes.
LEMMA SubSeqIsBytes ==
    ASSUME NEW n \in Nat, NEW d \in [1 .. n -> Value]
    PROVE  SubSeq(Filled(d, n), 1, (3 * n) \div 4) = BytesOf(d, (6 * n) \div 8)
<1> DEFINE m == (3 * n) \div 4
           l == (3 * n + 3) \div 4
           f == Filled(d, n)
           b == BytesOf(d, m)
           s == SubSeq(f, 1, m)
<1>1. (6 * n) \div 8 = m /\ m \in Nat /\ l \in Nat /\ m <= l
  OBVIOUS
<1>2. d \in [1 .. n -> 0 .. 64] /\ n \in 0 .. n
  BY DEF Value
<1>3. /\ f \in Seq(Nat) /\ Len(f) = l
      /\ \A k \in 1 .. l : f[k] = Entry(d, n, k)
  BY <1>2, FilledType
<1> HIDE DEF m, l, f
<1>4. b \in [1 .. m -> Byte]
  BY <1>1, <1>2, BytesOfType
<1>5. b \in Seq(Nat) /\ Len(b) = m
  <2> HIDE DEF b
  <2>1. \A k \in 1 .. m : b[k] \in Nat
    <3>1. \A x \in Byte : x \in Nat
      BY DEF Byte
    <3>2. QED
      BY <1>4, <3>1
  <2>2. b \in [1 .. m -> Nat]
    BY <1>4, <2>1
  <2>3. QED
    BY <1>1, <2>2
<1>6. s \in Seq(Nat) /\ Len(s) = m /\ \A k \in 1 .. m : s[k] = f[k]
  <2>1. 1 \in 1 .. Len(f) + 1 /\ m \in 0 .. Len(f) /\ m - 1 + 1 = m
    BY <1>1, <1>3
  <2>2. \A k \in 1 .. m : 1 + k - 1 = k /\ k \in 1 .. m - 1 + 1
    BY <1>1
  <2>3. /\ SubSeq(f, 1, m) \in Seq(Nat)
        /\ Len(SubSeq(f, 1, m)) = IF m < 1 THEN 0 ELSE m - 1 + 1
        /\ \A i \in 1 .. m - 1 + 1 : SubSeq(f, 1, m)[i] = f[1 + i - 1]
    BY <1>3, <2>1, SubSeqProperties
  <2>4. QED
    BY <1>1, <2>1, <2>2, <2>3
<1>7. \A k \in 1 .. m : k \in 1 .. l /\ b[k] = Entry(d, n, k)
  <2>1. \A k \in 1 .. m : k \in 1 .. l
    BY <1>1
  <2>2. \A k \in 1 .. m : b[k] = Entry(d, n, k)
    BY <1>1, BytesAreEntries
  <2>3. QED
    BY <2>1, <2>2
<1>8. s = b
  <2> HIDE DEF s, b
  <2>1. \A k \in 1 .. Len(s) : s[k] = b[k]
    BY <1>3, <1>6, <1>7
  <2>2. QED
    BY <1>5, <1>6, <2>1, SameSeq
<1>9. QED
  BY <1>1, <1>8 DEF m, f

(***************************************************************************)
(* Decoding and encoding.                                                  *)
(***************************************************************************)

\* Four digits make three bytes that make the same digits.
LEMMA GroupRound ==
    ASSUME NEW d1 \in Value, NEW d2 \in Value, NEW d3 \in Value, NEW d4 \in Value,
           NEW b1, b1 = d1 * 4 + d2 \div 16,
           NEW b2, b2 = (d2 % 16) * 16 + d3 \div 4,
           NEW b3, b3 = (d3 % 4) * 64 + d4,
           NEW w, w = 65536 * b1 + 256 * b2 + b3
    PROVE  /\ (w \div 262144) % 64 = d1 /\ (w \div 4096) % 64 = d2
           /\ (w \div 64) % 64 = d3 /\ (w \div 1) % 64 = d4
<1>1. PICK x \in 0 .. 3, y \in 0 .. 15 : d2 = 16 * x + y
  <2>1. d2 \div 16 \in 0 .. 3 /\ d2 % 16 \in 0 .. 15
        /\ d2 = 16 * (d2 \div 16) + (d2 % 16)
    BY DEF Value
  <2>2. QED
    BY <2>1
<1>2. PICK u \in 0 .. 15, v \in 0 .. 3 : d3 = 4 * u + v
  <2>1. d3 \div 4 \in 0 .. 15 /\ d3 % 4 \in 0 .. 3 /\ d3 = 4 * (d3 \div 4) + (d3 % 4)
    BY DEF Value
  <2>2. QED
    BY <2>1
<1>3. d2 \div 16 = x /\ d2 % 16 = y /\ d3 \div 4 = u /\ d3 % 4 = v
  BY <1>1, <1>2
<1>4. w = 65536 * (4 * d1 + x) + 256 * (16 * y + u) + (64 * v + d4)
  <2>1. b1 = 4 * d1 + x /\ b2 = 16 * y + u /\ b3 = 64 * v + d4
    BY <1>3 DEF Value
  <2>2. QED
    BY <2>1
<1>5. w = 262144 * d1 + 4096 * d2 + 64 * d3 + d4 /\ w \in Int
  BY <1>1, <1>2, <1>4 DEF Value
<1>6. (w \div 262144) % 64 = d1
  <2>1. w \div 262144 = d1
    BY <1>5 DEF Value
  <2>2. QED
    BY <2>1 DEF Value
<1>7. (w \div 4096) % 64 = d2
  <2>1. w \div 4096 = 64 * d1 + d2
    BY <1>5 DEF Value
  <2>2. QED
    BY <2>1 DEF Value
<1>8. (w \div 64) % 64 = d3
  <2>1. w \div 64 = 4096 * d1 + 64 * d2 + d3
    BY <1>5 DEF Value
  <2>2. QED
    BY <2>1 DEF Value
<1>9. (w \div 1) % 64 = d4
  BY <1>5 DEF Value
<1>10. QED
  BY <1>6, <1>7, <1>8, <1>9

\* The bits past the last byte are zero.
NoRest(d, n) ==
    /\ n % 4 # 1
    /\ n % 4 = 2 => d[n] % 16 = 0
    /\ n % 4 = 3 => d[n] % 4 = 0

\* The bytes of digits that leave no bits over have these digits.
LEMMA RoundTrip ==
    ASSUME NEW n \in Nat, NEW d \in [1 .. n -> Value], NoRest(d, n),
           NEW m, m = (3 * n) \div 4, NEW i \in 1 .. n
    PROVE  DigitsOf(BytesOf(d, m), n)[i] = d[i]
<1>1. PICK p \in Nat : i \in {4 * p + 1, 4 * p + 2, 4 * p + 3, 4 * p + 4}
  <2>1. i \in Nat \ {0}
    OBVIOUS
  <2>2. QED
    BY <2>1, Fours
<1>2. m \in Nat /\ n # 4 * p + 1 /\ 4 * p + 1 <= n
  BY <1>1 DEF NoRest
<1> DEFINE e1 == At(d, 4 * p + 1)
           e2 == At(d, 4 * p + 2)
           e3 == At(d, 4 * p + 3)
           e4 == At(d, 4 * p + 4)
           b == BytesOf(d, m)
<1>3. /\ e1 \in Value /\ e2 \in Value /\ e3 \in Value /\ e4 \in Value
      /\ Up(d, n, 4 * p + 1) = e1 /\ Up(d, n, 4 * p + 2) = e2
      /\ Up(d, n, 4 * p + 3) = e3 /\ Up(d, n, 4 * p + 4) = e4
  <2>1. /\ 4 * p + 1 \in Nat \ {0} /\ 4 * p + 2 \in Nat \ {0}
        /\ 4 * p + 3 \in Nat \ {0} /\ 4 * p + 4 \in Nat \ {0}
    OBVIOUS
  <2>2. QED
    BY <2>1, AtIsUp
<1>4. /\ Entry(d, n, 3 * p + 1) = e1 * 4 + e2 \div 16
      /\ Entry(d, n, 3 * p + 2) = (e2 % 16) * 16 + e3 \div 4
      /\ Entry(d, n, 3 * p + 3) = (e3 % 4) * 64 + e4
  <2> HIDE DEF e1, e2, e3, e4
  <2>1. QED
    BY <1>3, EntryFacts
<1>5. b \in [1 .. m -> Byte] /\ DOMAIN b = 1 .. m
  <2>1. d \in [1 .. n -> 0 .. 64]
    BY DEF Value
  <2>2. b \in [1 .. m -> Byte]
    BY <1>2, <2>1, BytesOfType
  <2> HIDE DEF b
  <2>3. QED
    BY <2>2
<1>6. \A k \in 1 .. m : b[k] = Entry(d, n, k)
  BY <1>2, BytesAreEntries
<1>7. \A k \in Nat \ {0} : At(b, k) = IF k <= m THEN Entry(d, n, k) ELSE 0
  <2> HIDE DEF b
  <2>1. \A k \in Nat \ {0} : k <= m <=> k \in DOMAIN b
    BY <1>2, <1>5
  <2>2. QED
    BY <1>2, <1>5, <1>6, <2>1 DEF At
<1>8. /\ 4 * p + 2 <= n => 3 * p + 1 <= m
      /\ 4 * p + 3 <= n => 3 * p + 2 <= m
      /\ 4 * p + 4 <= n => 3 * p + 3 <= m
      /\ n = 4 * p + 2 => m = 3 * p + 1
      /\ n = 4 * p + 3 => m = 3 * p + 2
      /\ n = 4 * p + 2 \/ n = 4 * p + 3 \/ 4 * p + 4 <= n
  BY <1>2
<1>9. /\ n = 4 * p + 2 => e3 = 0 /\ e4 = 0 /\ e2 % 16 = 0
      /\ n = 4 * p + 3 => e4 = 0 /\ e3 % 4 = 0
  <2>1. DOMAIN d = 1 .. n
    OBVIOUS
  <2>2. n = 4 * p + 2 => /\ n % 4 = 2 /\ n \in 1 .. n
                         /\ 4 * p + 3 \notin 1 .. n /\ 4 * p + 4 \notin 1 .. n
    OBVIOUS
  <2>3. n = 4 * p + 3 => n % 4 = 3 /\ n \in 1 .. n /\ 4 * p + 4 \notin 1 .. n
    OBVIOUS
  <2>4. QED
    BY <2>1, <2>2, <2>3 DEF At, NoRest
<1>10. 3 * p + 1 \in Nat \ {0} /\ 3 * p + 2 \in Nat \ {0} /\ 3 * p + 3 \in Nat \ {0}
  OBVIOUS
<1> DEFINE w == 65536 * At(b, 3 * p + 1) + 256 * At(b, 3 * p + 2)
                + At(b, 3 * p + 3)
<1>11. /\ 4 * p + 1 <= n => DigitsOf(b, n)[4 * p + 1] = (w \div 262144) % 64
       /\ 4 * p + 2 <= n => DigitsOf(b, n)[4 * p + 2] = (w \div 4096) % 64
       /\ 4 * p + 3 <= n => DigitsOf(b, n)[4 * p + 3] = (w \div 64) % 64
       /\ 4 * p + 4 <= n => DigitsOf(b, n)[4 * p + 4] = (w \div 1) % 64
  <2> HIDE DEF w, b
  <2>1. QED
    BY DigitsOfFacts DEF w
<1> HIDE DEF e1, e2, e3, e4, b, w
<1>12. At(b, 3 * p + 1) = e1 * 4 + e2 \div 16
  <2>1. 3 * p + 1 <= m
    BY <1>2, <1>8
  <2>2. QED
    BY <1>4, <1>7, <1>10, <2>1
<1>13. At(b, 3 * p + 2) = (e2 % 16) * 16 + e3 \div 4
  <2>1. CASE n = 4 * p + 2
    <3>1. ~(3 * p + 2 <= m)
      BY <1>8, <2>1
    <3>2. At(b, 3 * p + 2) = 0
      BY <1>7, <1>10, <3>1
    <3>3. (e2 % 16) * 16 + e3 \div 4 = 0
      BY <1>9, <2>1
    <3>4. QED
      BY <3>2, <3>3
  <2>2. CASE n # 4 * p + 2
    <3>1. 3 * p + 2 <= m
      BY <1>8, <2>2
    <3>2. QED
      BY <1>4, <1>7, <1>10, <3>1
  <2>3. QED
    BY <2>1, <2>2
<1>14. At(b, 3 * p + 3) = (e3 % 4) * 64 + e4
  <2>1. CASE n = 4 * p + 2 \/ n = 4 * p + 3
    <3>1. ~(3 * p + 3 <= m)
      BY <1>8, <2>1
    <3>2. At(b, 3 * p + 3) = 0
      BY <1>7, <1>10, <3>1
    <3>3. (e3 % 4) * 64 + e4 = 0
      BY <1>9, <2>1
    <3>4. QED
      BY <3>2, <3>3
  <2>2. CASE 4 * p + 4 <= n
    <3>1. 3 * p + 3 <= m
      BY <1>8, <2>2
    <3>2. QED
      BY <1>4, <1>7, <1>10, <3>1
  <2>3. QED
    BY <1>8, <2>1, <2>2
<1>15. /\ (w \div 262144) % 64 = e1 /\ (w \div 4096) % 64 = e2
       /\ (w \div 64) % 64 = e3 /\ (w \div 1) % 64 = e4
  <2>1. w = 65536 * At(b, 3 * p + 1) + 256 * At(b, 3 * p + 2) + At(b, 3 * p + 3)
    BY DEF w
  <2>2. QED
    BY <1>3, <1>12, <1>13, <1>14, <2>1, GroupRound
<1>16. \A j \in 1 .. n : At(d, j) = d[j]
  BY DEF At
<1>17. CASE i = 4 * p + 1
  BY <1>11, <1>15, <1>16, <1>17 DEF b, e1
<1>18. CASE i = 4 * p + 2
  BY <1>11, <1>15, <1>16, <1>18 DEF b, e2
<1>19. CASE i = 4 * p + 3
  BY <1>11, <1>15, <1>16, <1>19 DEF b, e3
<1>20. CASE i = 4 * p + 4
  BY <1>11, <1>15, <1>16, <1>20 DEF b, e4
<1>21. QED
  BY <1>1, <1>17, <1>18, <1>19, <1>20

\* How long the encoding of the bytes of n digits is.
LEMMA Lengths ==
    ASSUME NEW n \in Nat, NEW m, m = (3 * n) \div 4
    PROVE  /\ m \in Nat /\ (6 * n) \div 8 = m
           /\ n % 4 = 0 => (8 * m + 5) \div 6 = n /\ (-m) % 3 = 0
           /\ n % 4 = 1 => (8 * m + 5) \div 6 = n - 1 /\ (-m) % 3 = 0
           /\ n % 4 = 2 => (8 * m + 5) \div 6 = n /\ (-m) % 3 = 2
           /\ n % 4 = 3 => (8 * m + 5) \div 6 = n /\ (-m) % 3 = 1
<1>1. m \in Nat /\ (6 * n) \div 8 = m
  OBVIOUS
<1> DEFINE q == n \div 4
<1>2. q \in Nat /\ n = 4 * q + (n % 4)
  OBVIOUS
<1> HIDE DEF q
<1>3. CASE n % 4 = 0
  <2>1. n = 4 * q /\ m = 3 * q
    BY <1>2, <1>3
  <2>2. (8 * m + 5) \div 6 = n /\ (-m) % 3 = 0
    BY <1>2, <2>1
  <2>3. QED
    BY <1>1, <1>3, <2>2
<1>4. CASE n % 4 = 1
  <2>1. n = 4 * q + 1 /\ m = 3 * q
    BY <1>2, <1>4
  <2>2. (8 * m + 5) \div 6 = n - 1 /\ (-m) % 3 = 0
    BY <1>2, <2>1
  <2>3. QED
    BY <1>1, <1>4, <2>2
<1>5. CASE n % 4 = 2
  <2>1. n = 4 * q + 2 /\ m = 3 * q + 1
    BY <1>2, <1>5
  <2>2. (8 * m + 5) \div 6 = n /\ (-m) % 3 = 2
    BY <1>2, <2>1
  <2>3. QED
    BY <1>1, <1>5, <2>2
<1>6. CASE n % 4 = 3
  <2>1. n = 4 * q + 3 /\ m = 3 * q + 2
    BY <1>2, <1>6
  <2>2. (8 * m + 5) \div 6 = n /\ (-m) % 3 = 1
    BY <1>2, <2>1
  <2>3. QED
    BY <1>1, <1>6, <2>2
<1>7. n % 4 \in {0, 1, 2, 3}
  OBVIOUS
<1>8. QED
  BY <1>3, <1>4, <1>5, <1>6, <1>7

\* What follows the digits, by its length and characters.
LEMMA Paddings ==
    ASSUME NEW sig \in Seq(Char), NEW n \in 0 .. Len(sig),
           NEW padding, padding = SubSeq(sig, n + 1, Len(sig))
    PROVE  /\ padding = << >> <=> Len(sig) = n
           /\ padding = <<Equals>> <=> Len(sig) = n + 1 /\ sig[n + 1] = Equals
           /\ padding = <<Equals, Equals>> <=>
                Len(sig) = n + 2 /\ sig[n + 1] = Equals /\ sig[n + 2] = Equals
<1> DEFINE l == Len(sig) - n
<1>1. /\ padding \in Seq(Char) /\ Len(padding) = l
      /\ \A i \in 1 .. l : padding[i] = sig[n + i]
  OBVIOUS
<1>2. l \in Nat /\ Equals \in Char
  BY DEF Equals, Char
<1> DEFINE one == <<Equals>>
           two == <<Equals, Equals>>
<1>3. /\ one \in Seq(Char) /\ Len(one) = 1 /\ one[1] = Equals
      /\ two \in Seq(Char) /\ Len(two) = 2 /\ two[1] = Equals /\ two[2] = Equals
  BY <1>2
<1> HIDE DEF l, one, two
<1>4. padding = << >> <=> l = 0
  BY <1>1, EmptySeq
<1>5. ASSUME l = 1, sig[n + 1] = Equals
      PROVE  padding = one
  <2>1. \A i \in 1 .. 1 : padding[i] = one[i]
    BY <1>1, <1>3, <1>5
  <2>2. QED
    BY <1>1, <1>3, <1>5, <2>1, SeqEqual
<1>6. ASSUME l = 2, sig[n + 1] = Equals, sig[n + 2] = Equals
      PROVE  padding = two
  <2>1. \A i \in 1 .. 2 : i = 1 \/ i = 2
    OBVIOUS
  <2>2. \A i \in 1 .. 2 : padding[i] = two[i]
    BY <1>1, <1>3, <1>6, <2>1
  <2>3. QED
    BY <1>1, <1>3, <1>6, <2>2, SeqEqual, SMTT(30)
<1>7. padding = one => l = 1 /\ sig[n + 1] = Equals
  <2>1. 1 \in 1 .. 1
    OBVIOUS
  <2>2. QED
    BY <1>1, <1>3, <2>1
<1>8. padding = two => l = 2 /\ sig[n + 1] = Equals /\ sig[n + 2] = Equals
  <2>1. 1 \in 1 .. 2 /\ 2 \in 1 .. 2
    OBVIOUS
  <2>2. QED
    BY <1>1, <1>3, <2>1
<1>9. /\ l = 0 <=> Len(sig) = n
      /\ l = 1 <=> Len(sig) = n + 1
      /\ l = 2 <=> Len(sig) = n + 2
  BY DEF l
<1>10. QED
  BY <1>4, <1>5, <1>6, <1>7, <1>8, <1>9 DEF one, two

\* What is begun after the last byte.
LEMMA LastEntry ==
    ASSUME NEW n \in Nat, NEW d \in [1 .. n -> 0 .. 64]
    PROVE  /\ n % 4 = 2 =>
                Filled(d, n)[Len(Filled(d, n))] = (d[n] % 16) * 16
           /\ n % 4 = 3 =>
                Filled(d, n)[Len(Filled(d, n))] = (d[n] % 4) * 64
<1> DEFINE q == n \div 4
           l == (3 * n + 3) \div 4
<1>1. /\ q \in Nat /\ n \in 0 .. n
      /\ n % 4 = 2 => n = 4 * q + 2 /\ l = 3 * q + 2 /\ l \in 1 .. l
      /\ n % 4 = 3 => n = 4 * q + 3 /\ l = 3 * q + 3 /\ l \in 1 .. l
  OBVIOUS
<1>2. Len(Filled(d, n)) = l /\ \A k \in 1 .. l : Filled(d, n)[k] = Entry(d, n, k)
  BY <1>1, FilledType
<1> HIDE DEF q, l
<1>3. ASSUME n % 4 = 2
      PROVE  Entry(d, n, l) = (d[n] % 16) * 16
  <2>1. 4 * q + 2 <= n
    BY <1>1, <1>3
  <2>2. QED
    BY <1>1, <1>3, <2>1, GroupEntries
<1>4. ASSUME n % 4 = 3
      PROVE  Entry(d, n, l) = (d[n] % 4) * 64
  <2>1. 4 * q + 3 <= n
    BY <1>1, <1>4
  <2>2. QED
    BY <1>1, <1>4, <2>1, GroupEntries, SMTT(30)
<1>5. QED
  BY <1>1, <1>2, <1>3, <1>4

\* A text that is accepted is an encoding.
LEMMA Accepted ==
    ASSUME NEW sig \in Seq(Char), NEW n \in 0 .. Len(sig),
           NEW d, d = Digits(sig, n),
           Complete(d, n, SubSeq(sig, n + 1, Len(sig)))
    PROVE  Base64Of(BytesOf(d, (6 * n) \div 8)) = sig
<1> DEFINE m == (3 * n) \div 4
           b == BytesOf(d, m)
           c == (8 * m + 5) \div 6
           k == (-m) % 3
           padding == SubSeq(sig, n + 1, Len(sig))
<1>0. n \in Nat /\ Len(sig) \in Nat
  OBVIOUS
<1>1. /\ d \in [1 .. n -> 0 .. 64]
      /\ \A i \in 1 .. n : d[i] = Sextet(sig[i]) /\ sig[i] \in Int
  BY DigitsFacts
<1>2. d \in [1 .. n -> Value]
  <2>1. \A i \in 1 .. n : d[i] < 64
    BY DEF Complete
  <2>2. \A x \in 0 .. 64 : x < 64 => x \in Value
    BY DEF Value
  <2>3. QED
    BY <1>1, <2>1, <2>2
<1>3. /\ \/ n % 4 = 0 /\ padding = << >>
         \/ n % 4 = 2 /\ padding = <<Equals, Equals>>
         \/ n % 4 = 3 /\ padding = <<Equals>>
      /\ padding # << >> => Filled(d, n)[Len(Filled(d, n))] = 0
  BY DEF Complete
<1>4. /\ padding = << >> <=> Len(sig) = n
      /\ padding = <<Equals>> <=> Len(sig) = n + 1 /\ sig[n + 1] = Equals
      /\ padding = <<Equals, Equals>> <=>
           Len(sig) = n + 2 /\ sig[n + 1] = Equals /\ sig[n + 2] = Equals
  BY Paddings
<1> HIDE DEF padding
<1>5. /\ m \in Nat /\ (6 * n) \div 8 = m
      /\ n % 4 = 0 => c = n /\ k = 0
      /\ n % 4 = 2 => c = n /\ k = 2
      /\ n % 4 = 3 => c = n /\ k = 1
  BY <1>0, Lengths
<1> HIDE DEF m, c, k
<1>6. /\ c = n /\ Len(sig) = n + k /\ k \in Nat
      /\ \A i \in n + 1 .. n + k : sig[i] = Equals
  <2>1. CASE n % 4 = 0 /\ padding = << >>
    <3>1. c = n /\ k = 0 /\ Len(sig) = n
      BY <1>4, <1>5, <2>1
    <3>2. QED
      BY <1>0, <3>1
  <2>2. CASE n % 4 = 2 /\ padding = <<Equals, Equals>>
    <3>1. /\ c = n /\ k = 2 /\ Len(sig) = n + 2
          /\ sig[n + 1] = Equals /\ sig[n + 2] = Equals
      BY <1>4, <1>5, <2>2
    <3>2. \A i \in n + 1 .. n + 2 : i = n + 1 \/ i = n + 2
      BY <1>0
    <3>3. QED
      BY <3>1, <3>2
  <2>3. CASE n % 4 = 3 /\ padding = <<Equals>>
    <3>1. c = n /\ k = 1 /\ Len(sig) = n + 1 /\ sig[n + 1] = Equals
      BY <1>4, <1>5, <2>3
    <3>2. \A i \in n + 1 .. n + 1 : i = n + 1
      BY <1>0
    <3>3. QED
      BY <3>1, <3>2
  <2>4. QED
    BY <1>3, <2>1, <2>2, <2>3
<1>7. NoRest(d, n)
  <2>1. n % 4 \in {0, 2, 3} /\ n % 4 # 1
    <3>1. 0 # 1 /\ 2 # 1 /\ 3 # 1
      OBVIOUS
    <3>2. QED
      BY <1>3, <3>1
  <2>2. \A x \in 0 .. 64 : /\ (x % 16) * 16 = 0 => x % 16 = 0
                           /\ (x % 4) * 64 = 0 => x % 4 = 0
    OBVIOUS
  <2>3. ASSUME n % 4 = 2
        PROVE  d[n] % 16 = 0
    <3>1. padding = <<Equals, Equals>>
      BY <1>3, <2>3
    <3>2. padding # << >>
      BY <1>0, <1>4, <3>1
    <3>3. (d[n] % 16) * 16 = 0
      BY <1>0, <1>1, <1>3, <2>3, <3>2, LastEntry
    <3>4. n \in 1 .. n
      BY <1>0, <2>3
    <3>5. QED
      BY <1>1, <2>2, <3>3, <3>4
  <2>4. ASSUME n % 4 = 3
        PROVE  d[n] % 4 = 0
    <3>1. padding = <<Equals>>
      BY <1>3, <2>4
    <3>2. padding # << >>
      BY <1>0, <1>4, <3>1
    <3>3. (d[n] % 4) * 64 = 0
      BY <1>0, <1>1, <1>3, <2>4, <3>2, LastEntry
    <3>4. n \in 1 .. n
      BY <1>0, <2>4
    <3>5. QED
      BY <1>1, <2>2, <3>3, <3>4
  <2>5. QED
    BY <2>1, <2>3, <2>4 DEF NoRest
<1>8. b \in [1 .. m -> Byte]
  BY <1>0, <1>1, <1>5, BytesOfType
<1> DEFINE t == Base64Of(b)
<1>9. /\ t \in Seq(Char) /\ Len(t) = c + k
      /\ \A i \in 1 .. c : t[i] = Alphabet(DigitsOf(b, c)[i])
      /\ \A i \in c + 1 .. c + k : t[i] = Equals
  <2> HIDE DEF b, t
  <2>1. m \in Nat /\ c = (8 * m + 5) \div 6 /\ k = (-m) % 3
    BY <1>5 DEF c, k
  <2>2. Encodes(t, b, c, k)
    BY <1>8, <2>1, Base64OfFacts DEF t
  <2>3. QED
    BY <2>2 DEF Encodes
<1>10. \A i \in 1 .. n : DigitsOf(b, n)[i] = d[i]
  BY <1>0, <1>2, <1>7, RoundTrip DEF m
<1>11. \A i \in 1 .. n : Alphabet(d[i]) = sig[i]
  <2>1. \A x \in Value : x < 64
    BY DEF Value
  <2>2. QED
    BY <1>1, <1>2, <2>1, SextetFacts
<1> HIDE DEF b, t
<1>12. \A i \in 1 .. Len(t) : t[i] = sig[i]
  <2>1. \A i \in 1 .. n : t[i] = sig[i]
    BY <1>6, <1>9, <1>10, <1>11
  <2>2. \A i \in n + 1 .. n + k : t[i] = sig[i]
    BY <1>6, <1>9
  <2>3. \A i \in 1 .. n + k : i \in 1 .. n \/ i \in n + 1 .. n + k
    BY <1>0, <1>6
  <2>4. QED
    BY <1>6, <1>9, <2>1, <2>2, <2>3
<1>13. t = sig
  <2>1. Len(t) = Len(sig)
    BY <1>6, <1>9
  <2>2. QED
    BY <1>9, <1>12, <2>1, SeqEqual
<1>14. QED
  BY <1>5, <1>13 DEF t, b

\* An encoding is accepted.
LEMMA Encoded ==
    ASSUME NEW sig \in Seq(Char), NEW n \in 0 .. Len(sig),
           NEW d, d = Digits(sig, n),
           Base64Of(BytesOf(d, (6 * n) \div 8)) = sig
    PROVE  Complete(d, n, SubSeq(sig, n + 1, Len(sig)))
<1> DEFINE m == (3 * n) \div 4
           b == BytesOf(d, m)
           c == (8 * m + 5) \div 6
           k == (-m) % 3
           padding == SubSeq(sig, n + 1, Len(sig))
<1>0. n \in Nat /\ Len(sig) \in Nat
  OBVIOUS
<1>1. /\ d \in [1 .. n -> 0 .. 64]
      /\ \A i \in 1 .. n : d[i] = Sextet(sig[i]) /\ sig[i] \in Int
  BY DigitsFacts
<1>2. /\ padding = << >> <=> Len(sig) = n
      /\ padding = <<Equals>> <=> Len(sig) = n + 1 /\ sig[n + 1] = Equals
      /\ padding = <<Equals, Equals>> <=>
           Len(sig) = n + 2 /\ sig[n + 1] = Equals /\ sig[n + 2] = Equals
  BY Paddings
<1> HIDE DEF padding
<1>3. /\ m \in Nat /\ (6 * n) \div 8 = m
      /\ n % 4 = 0 => c = n /\ k = 0
      /\ n % 4 = 1 => c = n - 1 /\ k = 0
      /\ n % 4 = 2 => c = n /\ k = 2
      /\ n % 4 = 3 => c = n /\ k = 1
  BY <1>0, Lengths
<1> HIDE DEF m, c, k
<1>4. b \in [1 .. m -> Byte]
  BY <1>0, <1>1, <1>3, BytesOfType
<1>5. /\ Len(sig) = c + k
      /\ \A i \in 1 .. c : sig[i] = Alphabet(DigitsOf(b, c)[i])
      /\ \A i \in c + 1 .. c + k : sig[i] = Equals
  <2>1. sig = Base64Of(b)
    BY <1>3
  <2> HIDE DEF b
  <2>2. m \in Nat /\ c = (8 * m + 5) \div 6 /\ k = (-m) % 3
    BY <1>3 DEF c, k
  <2>3. Encodes(Base64Of(b), b, c, k)
    BY <1>4, <2>2, Base64OfFacts
  <2>4. Encodes(sig, b, c, k)
    BY <2>1, <2>3
  <2>5. QED
    BY <2>4 DEF Encodes
<1>6. n % 4 \in {0, 2, 3} /\ c = n
  <2>1. n % 4 \in {0, 1, 2, 3}
    BY <1>0
  <2>2. n % 4 # 1
    <3>1. SUFFICES ASSUME n % 4 = 1 PROVE FALSE
      OBVIOUS
    <3>2. Len(sig) = n - 1
      BY <1>0, <1>3, <1>5, <3>1
    <3>3. QED
      BY <1>0, <3>2
  <2>3. QED
    BY <1>3, <2>1, <2>2
<1>7. DigitsOf(b, n) \in [1 .. n -> Value]
  <2> HIDE DEF b
  <2>1. QED
    BY <1>0, <1>3, <1>4, DigitsOfType
<1>8. \A i \in 1 .. n : d[i] = DigitsOf(b, n)[i] /\ d[i] < 64
  <2>1. \A i \in 1 .. n : sig[i] = Alphabet(DigitsOf(b, n)[i])
    BY <1>5, <1>6
  <2>2. \A x \in Value : x < 64
    BY DEF Value
  <2> HIDE DEF b
  <2>3. QED
    BY <1>1, <1>7, <2>1, <2>2, SextetFacts
<1>9. /\ n % 4 = 0 => padding = << >>
      /\ n % 4 = 2 => padding = <<Equals, Equals>>
      /\ n % 4 = 3 => padding = <<Equals>>
  <2>1. ASSUME n % 4 = 0
        PROVE  padding = << >>
    BY <1>0, <1>2, <1>3, <1>5, <2>1
  <2>2. ASSUME n % 4 = 2
        PROVE  padding = <<Equals, Equals>>
    <3>1. c = n /\ k = 2 /\ n + 1 \in n + 1 .. n + 2 /\ n + 2 \in n + 1 .. n + 2
      BY <1>0, <1>3, <2>2
    <3>2. Len(sig) = n + 2 /\ sig[n + 1] = Equals /\ sig[n + 2] = Equals
      BY <1>5, <3>1
    <3>3. QED
      BY <1>2, <3>2
  <2>3. ASSUME n % 4 = 3
        PROVE  padding = <<Equals>>
    <3>1. c = n /\ k = 1 /\ n + 1 \in n + 1 .. n + 1
      BY <1>0, <1>3, <2>3
    <3>2. Len(sig) = n + 1 /\ sig[n + 1] = Equals
      BY <1>5, <3>1
    <3>3. QED
      BY <1>2, <3>2
  <2>4. QED
    BY <2>1, <2>2, <2>3
<1> DEFINE q == n \div 4
           w == 65536 * At(b, 3 * q + 1) + 256 * At(b, 3 * q + 2)
                + At(b, 3 * q + 3)
<1>10. q \in Nat /\ n = 4 * q + (n % 4)
  BY <1>0
<1> HIDE DEF q
<1>11. /\ 4 * q + 1 <= n => DigitsOf(b, n)[4 * q + 1] = (w \div 262144) % 64
       /\ 4 * q + 2 <= n => DigitsOf(b, n)[4 * q + 2] = (w \div 4096) % 64
       /\ 4 * q + 3 <= n => DigitsOf(b, n)[4 * q + 3] = (w \div 64) % 64
       /\ 4 * q + 4 <= n => DigitsOf(b, n)[4 * q + 4] = (w \div 1) % 64
  <2> HIDE DEF w, b
  <2>1. q \in Nat
    BY <1>10
  <2>2. QED
    BY <1>0, <2>1, DigitsOfFacts DEF w
<1>12. DOMAIN b = 1 .. m /\ \A i \in 1 .. m : b[i] \in Byte
  <2> HIDE DEF b
  <2>1. QED
    BY <1>4
<1> DEFINE b1 == At(b, 3 * q + 1)
           b2 == At(b, 3 * q + 2)
           b3 == At(b, 3 * q + 3)
<1>13. b1 \in Byte /\ b2 \in Byte /\ b3 \in Byte
  <2> HIDE DEF b
  <2>1. 0 \in Byte
    BY DEF Byte
  <2>2. QED
    BY <1>12, <2>1 DEF At
<1>14. ASSUME n % 4 = 2
       PROVE  d[n] % 16 = 0
  <2>1. n = 4 * q + 2 /\ n \in 1 .. n /\ 4 * q + 2 <= n /\ m = 3 * q + 1
    BY <1>0, <1>10, <1>14 DEF m
  <2>2. 3 * q + 2 \notin 1 .. m /\ 3 * q + 3 \notin 1 .. m
    BY <1>10, <2>1
  <2> HIDE DEF b
  <2>3. b2 = 0 /\ b3 = 0
    BY <1>12, <2>2 DEF At
  <2>4. w = 65536 * b1 + 256 * b2 + b3
    OBVIOUS
  <2> HIDE DEF b1, b2, b3, w
  <2>5. (w \div 4096) % 64 = (b1 % 4) * 16 + b2 \div 16
    BY <1>13, <2>4, GroupDigits
  <2>6. d[n] = (b1 % 4) * 16 + b2 \div 16
    BY <1>8, <1>11, <2>1, <2>5
  <2>7. QED
    BY <1>13, <2>3, <2>6 DEF Byte
<1>15. ASSUME n % 4 = 3
       PROVE  d[n] % 4 = 0
  <2>1. n = 4 * q + 3 /\ n \in 1 .. n /\ 4 * q + 3 <= n /\ m = 3 * q + 2
    BY <1>0, <1>10, <1>15 DEF m
  <2>2. 3 * q + 3 \notin 1 .. m
    BY <1>10, <2>1
  <2> HIDE DEF b
  <2>3. b3 = 0
    BY <1>12, <2>2 DEF At
  <2>4. w = 65536 * b1 + 256 * b2 + b3
    OBVIOUS
  <2> HIDE DEF b1, b2, b3, w
  <2>5. (w \div 64) % 64 = (b2 % 16) * 4 + b3 \div 64
    BY <1>13, <2>4, GroupDigits
  <2>6. d[n] = (b2 % 16) * 4 + b3 \div 64
    BY <1>8, <1>11, <2>1, <2>5
  <2>7. QED
    BY <1>13, <2>3, <2>6 DEF Byte
<1>16. padding # << >> => Filled(d, n)[Len(Filled(d, n))] = 0
  <2>1. CASE n % 4 = 0
    BY <1>9, <2>1
  <2>2. CASE n % 4 = 2
    <3>1. Filled(d, n)[Len(Filled(d, n))] = (d[n] % 16) * 16
      BY <1>0, <1>1, <2>2, LastEntry
    <3>2. QED
      BY <1>14, <2>2, <3>1
  <2>3. CASE n % 4 = 3
    <3>1. Filled(d, n)[Len(Filled(d, n))] = (d[n] % 4) * 64
      BY <1>0, <1>1, <2>3, LastEntry
    <3>2. QED
      BY <1>15, <2>3, <3>1
  <2>4. QED
    BY <1>6, <2>1, <2>2, <2>3
<1>17. Complete(d, n, padding)
  <2> HIDE DEF b
  <2>1. QED
    BY <1>6, <1>8, <1>9, <1>16 DEF Complete
<1>18. QED
  BY <1>17 DEF padding

(***************************************************************************)
(* b64_pton() accepts a text of any length if and only if, white space     *)
(* aside, it is the encoding of some bytes, and returns these.             *)
(***************************************************************************)
THEOREM EveryTextIsDecodedExactly ==
    ASSUME NEW text \in Seq(Char)
    PROVE  DecodedExactly(text)
<1> DEFINE sig == Significant(text)
           n == Unpadded(sig)
           d == Digits(sig, n)
           bytes == BytesOf(d, (6 * n) \div 8)
           padding == SubSeq(sig, n + 1, Len(sig))
<1>1. sig \in Seq(Char) /\ n \in 0 .. Len(sig) /\ n \in Nat
  <2>1. sig \in Seq(Char)
    BY SignificantType
  <2> HIDE DEF sig
  <2>2. QED
    BY <2>1, UnpaddedFacts
<1>2. /\ d \in [1 .. n -> 0 .. 64]
      /\ \A i \in 1 .. n : d[i] = Sextet(sig[i])
  <2> HIDE DEF sig, n
  <2>1. QED
    BY <1>1, DigitsFacts
<1>3. B64Pton(text) = IF Complete(d, n, padding)
                        THEN SubSeq(Filled(d, n), 1, (3 * n) \div 4)
                        ELSE NULL
  <2> HIDE DEF d
  <2>1. QED
    BY <1>1, <1>2, B64PtonIs
<1>4. Complete(d, n, padding) <=> Base64Of(bytes) = sig
  <2> HIDE DEF sig, n
  <2>1. QED
    BY <1>1, Accepted, Encoded
<1>5. Complete(d, n, padding) => SubSeq(Filled(d, n), 1, (3 * n) \div 4) = bytes
  <2> HIDE DEF sig, n, d, padding
  <2>1. SUFFICES ASSUME Complete(d, n, padding)
                 PROVE  SubSeq(Filled(d, n), 1, (3 * n) \div 4) = bytes
    OBVIOUS
  <2>2. \A i \in 1 .. n : d[i] < 64
    BY <2>1 DEF Complete
  <2>3. \A x \in 0 .. 64 : x < 64 => x \in Value
    BY DEF Value
  <2>4. d \in [1 .. n -> Value]
    BY <1>2, <2>2, <2>3
  <2>5. QED
    BY <1>1, <2>4, SubSeqIsBytes
<1>6. DecodedExactly(text) <=>
        B64Pton(text) = IF Base64Of(bytes) = sig THEN bytes ELSE NULL
  BY DEF DecodedExactly, Digits
<1> HIDE DEF sig, n, d, bytes, padding
<1>7. QED
  BY <1>3, <1>4, <1>5, <1>6

(***************************************************************************)
(* Sequences joined.                                                       *)
(***************************************************************************)

\* The function by which FlattenSeq is defined.
Flatten(f, seqs) ==
    f = [i \in 1 .. Len(seqs) |->
            IF i = 1 THEN seqs[i] ELSE f[i - 1] \o seqs[i]]

\* There is such a function.
LEMMA FlattenExists ==
    ASSUME NEW S, NEW seqs \in Seq(Seq(S))
    PROVE  \E f : Flatten(f, seqs)
<1> DEFINE n == Len(seqs)
           X == Seq(S)
           G == [i \in 1 .. n |-> [w \in X |-> w \o seqs[i]]]
<1>0. \A i \in 1 .. n : seqs[i] \in X
  OBVIOUS
<1>1. n \in Nat /\ << >> \in X
  OBVIOUS
<1>2. G \in [1 .. n -> [X -> X]]
  BY <1>0
<1> HIDE DEF X, G
<1>3. PICK g \in [0 .. n -> X] :
         g[0] = << >> /\ \A i \in 1 .. n : g[i] = G[i][g[i - 1]]
  <2>1. \E g \in [0 .. n -> X] : Computed(g, << >>, n, G)
    BY <1>1, <1>2, Recursion
  <2>2. QED
    BY <2>1 DEF Computed
<1> DEFINE f == [i \in 1 .. n |-> g[i]]
<1>4. ASSUME NEW i \in 1 .. n
      PROVE  f[i] = IF i = 1 THEN seqs[i] ELSE f[i - 1] \o seqs[i]
  <2>1. f[i] = g[i - 1] \o seqs[i]
    <3>0. i - 1 \in 0 .. n
      BY <1>1
    <3>1. g[i - 1] \in X
      BY <1>3, <3>0
    <3>2. G[i][g[i - 1]] = g[i - 1] \o seqs[i]
      BY <3>1 DEF G
    <3>3. QED
      BY <1>3, <3>2
  <2>2. CASE i = 1
    <3>1. << >> \o seqs[i] = seqs[i]
      BY <1>0 DEF X
    <3>2. g[i - 1] = << >>
      BY <1>3, <2>2
    <3>3. QED
      BY <2>1, <2>2, <3>1, <3>2
  <2>3. CASE i # 1
    <3>1. i - 1 \in 1 .. n
      BY <1>1, <2>3
    <3>2. QED
      BY <2>1, <2>3, <3>1
  <2>4. QED
    BY <2>2, <2>3
<1>5. Flatten(f, seqs)
  <2>1. f = [i \in 1 .. n |-> f[i]]
    OBVIOUS
  <2> HIDE DEF f
  <2>2. QED
    BY <1>4, <2>1 DEF Flatten
<1>6. QED
  BY <1>5

\* The sequences joined, one after another.
Joins(F, seqs) ==
    /\ F[0] = << >>
    /\ \A k \in 1 .. Len(seqs) : F[k] = F[k - 1] \o seqs[k]
    /\ FlattenSeq(seqs) = F[Len(seqs)]

\* There is one.
LEMMA Joined ==
    ASSUME NEW S, NEW seqs \in Seq(Seq(S))
    PROVE  \E F \in [0 .. Len(seqs) -> Seq(S)] : Joins(F, seqs)
<1> DEFINE n == Len(seqs)
           X == Seq(S)
           f == CHOOSE f : Flatten(f, seqs)
           F == [k \in 0 .. n |-> IF k = 0 THEN << >> ELSE f[k]]
<1>1. n \in Nat /\ \A i \in 1 .. n : seqs[i] \in X
  OBVIOUS
<1>2. Flatten(f, seqs)
  BY FlattenExists
<1>3. n # 0 => FlattenSeq(seqs) = f[n]
  BY DEF FlattenSeq, Flatten
<1>4. n = 0 => FlattenSeq(seqs) = << >>
  BY DEF FlattenSeq
<1>5. /\ \A s, t \in X : s \o t \in X
      /\ \A s \in X : << >> \o s = s
      /\ << >> \in X
  OBVIOUS
<1> HIDE DEF f
<1>6. \A i \in 1 .. n : f[i] = IF i = 1 THEN seqs[i] ELSE f[i - 1] \o seqs[i]
  BY <1>2 DEF Flatten
<1> HIDE DEF X, n
<1>7. \A k \in 0 .. n : F[k] = IF k = 0 THEN << >> ELSE f[k]
  OBVIOUS
<1>8. DOMAIN F = 0 .. n /\ F = [k \in 0 .. n |-> F[k]]
  OBVIOUS
<1> HIDE DEF F
<1>9. F[0] = << >>
  BY <1>1, <1>7
<1>10. ASSUME NEW k \in 1 .. n
       PROVE  F[k] = F[k - 1] \o seqs[k]
  <2>1. k \in 0 .. n /\ k - 1 \in 0 .. n /\ k # 0 /\ seqs[k] \in X
    BY <1>1
  <2>2. CASE k = 1
    <3>1. F[k] = seqs[k]
      BY <1>6, <1>7, <2>1, <2>2
    <3>2. F[k - 1] = << >>
      BY <1>9, <2>2
    <3>3. << >> \o seqs[k] = seqs[k]
      BY <1>5, <2>1
    <3>4. QED
      BY <3>1, <3>2, <3>3
  <2>3. CASE k # 1
    <3>1. k - 1 # 0
      BY <2>1, <2>3
    <3>2. QED
      BY <1>6, <1>7, <2>1, <2>3, <3>1
  <2>4. QED
    BY <2>2, <2>3
<1>11. \A k \in 1 .. n : F[k - 1] \in X => F[k] \in X
  BY <1>1, <1>5, <1>10
<1>12. \A k \in 0 .. n : F[k] \in X
  BY <1>1, <1>5, <1>9, <1>11, StepByStep
<1>13. F \in [0 .. n -> X]
  BY <1>8, <1>12
<1>14. FlattenSeq(seqs) = F[n]
  BY <1>1, <1>3, <1>4, <1>7
<1>15. Joins(F, seqs)
  BY <1>9, <1>10, <1>14 DEF Joins, n
<1>16. QED
  BY <1>13, <1>15 DEF X, n

\* Each is where those before end, and stays there.
Placed(F, seqs) ==
    \A k \in 1 .. Len(seqs) :
        /\ Len(F[k]) = Len(F[k - 1]) + Len(seqs[k])
        /\ Len(F[k]) <= Len(FlattenSeq(seqs))
        /\ \A j \in 1 .. Len(seqs[k]) :
              FlattenSeq(seqs)[Len(F[k - 1]) + j] = seqs[k][j]

LEMMA InPlace ==
    ASSUME NEW S, NEW seqs \in Seq(Seq(S)),
           NEW F \in [0 .. Len(seqs) -> Seq(S)], Joins(F, seqs)
    PROVE  Placed(F, seqs)
<1> DEFINE n == Len(seqs)
           X == Seq(S)
           all == FlattenSeq(seqs)
           Good(k) == /\ Len(F[k]) <= Len(all)
                      /\ \A j \in 1 .. Len(F[k]) : all[j] = F[k][j]
           T == {d \in Nat : d <= n => Good(n - d)}
<1>1. n \in Nat /\ all = F[n] /\ \A k \in 1 .. n : F[k] = F[k - 1] \o seqs[k]
  <2>1. n \in Nat
    OBVIOUS
  <2> HIDE DEF n, X
  <2>2. QED
    BY <2>1 DEF Joins, n
<1>2. /\ \A k \in 0 .. n : F[k] \in X /\ Len(F[k]) \in Nat
      /\ \A k \in 1 .. n : seqs[k] \in X /\ Len(seqs[k]) \in Nat
  <2>1. \A s \in X : Len(s) \in Nat
    OBVIOUS
  <2>2. \A k \in 1 .. n : seqs[k] \in X
    OBVIOUS
  <2> HIDE DEF n, X
  <2>3. \A k \in 0 .. n : F[k] \in X
    BY DEF X, n
  <2>4. QED
    BY <2>1, <2>2, <2>3
<1>3. \A s, t \in X : /\ Len(s \o t) = Len(s) + Len(t)
                      /\ \A j \in 1 .. Len(s) : (s \o t)[j] = s[j]
                      /\ \A j \in 1 .. Len(t) : (s \o t)[Len(s) + j] = t[j]
  OBVIOUS
<1> HIDE DEF X, all, n
<1>4. \A k \in 1 .. n : /\ Len(F[k]) = Len(F[k - 1]) + Len(seqs[k])
                        /\ \A j \in 1 .. Len(F[k - 1]) : F[k][j] = F[k - 1][j]
                        /\ \A j \in 1 .. Len(seqs[k]) :
                              F[k][Len(F[k - 1]) + j] = seqs[k][j]
  <2> SUFFICES ASSUME NEW k \in 1 .. n
               PROVE  /\ Len(F[k]) = Len(F[k - 1]) + Len(seqs[k])
                      /\ \A j \in 1 .. Len(F[k - 1]) : F[k][j] = F[k - 1][j]
                      /\ \A j \in 1 .. Len(seqs[k]) :
                            F[k][Len(F[k - 1]) + j] = seqs[k][j]
    OBVIOUS
  <2> DEFINE s == F[k - 1]
             t == seqs[k]
  <2>1. k - 1 \in 0 .. n
    BY <1>1
  <2>2. s \in X /\ t \in X
    BY <1>2, <2>1
  <2>3. F[k] = s \o t
    BY <1>1
  <2> HIDE DEF s, t
  <2>4. /\ Len(F[k]) = Len(s) + Len(t)
        /\ \A j \in 1 .. Len(s) : F[k][j] = s[j]
        /\ \A j \in 1 .. Len(t) : F[k][Len(s) + j] = t[j]
    BY <1>3, <2>2, <2>3
  <2>5. QED
    BY <2>4 DEF s, t
<1>5. 0 \in T
  <2>1. n - 0 = n /\ n \in 0 .. n
    BY <1>1
  <2>2. Good(n)
    BY <1>1, <1>2, <2>1
  <2>3. QED
    BY <2>1, <2>2
<1>6. ASSUME NEW d \in Nat \ {0}, d - 1 \in T
      PROVE  d \in T
  <2>1. SUFFICES ASSUME d <= n
                 PROVE  Good(n - d)
    OBVIOUS
  <2> DEFINE k == n - (d - 1)
  <2>2. k \in 1 .. n /\ k - 1 = n - d /\ k - 1 \in 0 .. n /\ k \in 0 .. n
    BY <1>1, <2>1
  <2>3. Good(k)
    BY <1>1, <1>6, <2>1
  <2> HIDE DEF k
  <2>4. /\ Len(F[k - 1]) \in Nat /\ Len(seqs[k]) \in Nat /\ Len(F[k]) \in Nat
    BY <1>2, <2>2
  <2>5. Len(all) \in Nat
    BY <1>1, <1>2
  <2>6. Good(k - 1)
    <3>1. Len(F[k - 1]) <= Len(F[k])
      <4>1. Len(F[k]) = Len(F[k - 1]) + Len(seqs[k])
        BY <1>4, <2>2
      <4> DEFINE a == Len(F[k - 1])
                 b == Len(seqs[k])
                 c == Len(F[k])
      <4>2. a \in Nat /\ b \in Nat /\ c = a + b
        BY <2>4, <4>1
      <4> HIDE DEF a, b, c
      <4>3. a <= c
        BY <4>2
      <4>4. QED
        BY <4>3 DEF a, c
    <3>2. Len(F[k - 1]) <= Len(all)
      BY <2>3, <2>4, <2>5, <3>1
    <3>3. \A j \in 1 .. Len(F[k - 1]) : j \in 1 .. Len(F[k])
      BY <2>4, <3>1
    <3>4. \A j \in 1 .. Len(F[k - 1]) : all[j] = F[k - 1][j]
      BY <1>4, <2>2, <2>3, <3>3
    <3>5. QED
      BY <3>2, <3>4
  <2>7. QED
    BY <2>2, <2>6
<1>7. Nat \subseteq T
  <2> HIDE DEF T
  <2>1. QED
    BY <1>5, <1>6, Induction
<1>8. ASSUME NEW k \in 1 .. n
      PROVE  Good(k)
  <2>1. n - k \in Nat /\ n - k <= n /\ n - (n - k) = k
    BY <1>1
  <2>2. QED
    BY <1>7, <2>1
<1>9. ASSUME NEW k \in 1 .. n
      PROVE  \A j \in 1 .. Len(seqs[k]) : all[Len(F[k - 1]) + j] = seqs[k][j]
  <2>1. /\ Len(F[k - 1]) \in Nat /\ Len(seqs[k]) \in Nat
        /\ Len(F[k]) = Len(F[k - 1]) + Len(seqs[k])
    <3>1. k - 1 \in 0 .. n
      BY <1>1
    <3>2. QED
      BY <1>2, <1>4, <3>1
  <2>2. \A j \in 1 .. Len(seqs[k]) : Len(F[k - 1]) + j \in 1 .. Len(F[k])
    <3> DEFINE a == Len(F[k - 1])
               b == Len(seqs[k])
               c == Len(F[k])
    <3>1. a \in Nat /\ b \in Nat /\ c = a + b
      BY <2>1
    <3> HIDE DEF a, b, c
    <3>2. \A j \in 1 .. b : a + j \in 1 .. c
      BY <3>1
    <3>3. QED
      BY <3>2 DEF a, b, c
  <2>3. QED
    BY <1>4, <1>8, <2>2
<1>10. QED
  BY <1>4, <1>8, <1>9 DEF all, n, Placed

\* Sequences joined are a sequence of the same elements.
LEMMA FlattenType ==
    ASSUME NEW S, NEW seqs \in Seq(Seq(S))
    PROVE  FlattenSeq(seqs) \in Seq(S)
<1>1. PICK F \in [0 .. Len(seqs) -> Seq(S)] : Joins(F, seqs)
  BY Joined
<1>2. FlattenSeq(seqs) = F[Len(seqs)]
  BY <1>1 DEF Joins
<1>3. Len(seqs) \in 0 .. Len(seqs)
  <2>1. Len(seqs) \in Nat
    OBVIOUS
  <2>2. QED
    BY <2>1
<1>4. F[Len(seqs)] \in Seq(S)
  BY <1>3
<1>5. QED
  BY <1>2, <1>4

(***************************************************************************)
(* Quoted-printable.                                                       *)
(***************************************************************************)

\* A place in the text, and what has been written.
QuotedState == [pos : Nat \ {0}, out : Seq(Byte)]

\* The digits of an escape.
HexDigit(v) == IF v < 10 THEN v + 48 ELSE v + 55

\* What RFC 2045 has a sender write: a character other than =, an octet in
\* two digits, a soft line break.
Conforms(item) ==
    \/ \E c \in Char \ {Equals} : item.text = <<c>> /\ item.means = <<c>>
    \/ \E v \in Byte :
          /\ item.text = <<Equals, HexDigit(v \div 16), HexDigit(v % 16)>>
          /\ item.means = <<v>>
    \/ item.text = <<Equals, Newline>> /\ item.means = << >>

\* Values of digits, and characters that are none.
LEMMA HexFacts ==
    /\ \A c \in Int : Hex(c) \in 0 .. 16
    /\ \A v \in 0 .. 15 : /\ Hex(HexDigit(v)) = v /\ HexDigit(v) \in Char
                          /\ HexDigit(v) # Newline
<1>1. ASSUME NEW c \in Int
      PROVE  Hex(c) \in 0 .. 16
  <2>1. CASE c \in 65 .. 70
    BY <2>1 DEF Hex
  <2>2. CASE c \in 48 .. 57
    BY <2>2 DEF Hex
  <2>3. CASE ~(c \in 65 .. 70 \/ c \in 48 .. 57)
    BY <2>3 DEF Hex
  <2>4. QED
    BY <2>1, <2>2, <2>3
<1>2. ASSUME NEW v \in 0 .. 15
      PROVE  /\ Hex(HexDigit(v)) = v /\ HexDigit(v) \in Char
             /\ HexDigit(v) # Newline
  <2>1. CASE v < 10
    BY <2>1 DEF Hex, HexDigit, Char, Newline
  <2>2. CASE 10 <= v
    BY <2>2 DEF Hex, HexDigit, Char, Newline
  <2>3. QED
    BY <2>1, <2>2
<1>3. QED
  BY <1>1, <1>2

\* A step leads from one place to another.
LEMMA QuotedStepType ==
    ASSUME NEW text \in Seq(Char), NEW dospace, NEW s \in QuotedState
    PROVE  QuotedStep(text, dospace, s) \in QuotedState
<1> DEFINE i == s.pos
           n == Len(text)
           X == Seq(Byte)
<1>1. /\ i \in Nat \ {0} /\ n \in Nat
      /\ \A j \in 1 .. n : text[j] \in Byte
  <2>1. \A j \in 1 .. n : text[j] \in Char
    OBVIOUS
  <2>2. \A c \in Char : c \in Byte
    BY DEF Char, Byte
  <2>3. n \in Nat
    OBVIOUS
  <2>4. i \in Nat \ {0}
    BY DEF QuotedState
  <2> HIDE DEF n, i
  <2>5. QED
    BY <2>1, <2>2, <2>3, <2>4
<1>2. s.out \in X /\ \A c \in Byte : Append(s.out, c) \in X
  BY DEF QuotedState
<1>3. \A k \in Nat, c \in Byte :
        [pos |-> i + k, out |-> Append(s.out, c)] \in QuotedState
  <2> HIDE DEF X, i
  <2>1. \A k \in Nat : i + k \in Nat \ {0}
    BY <1>1
  <2>2. QED
    BY <1>2, <2>1 DEF QuotedState, X
<1>4. [pos |-> i + 2, out |-> s.out] \in QuotedState
  <2> HIDE DEF X, i
  <2>1. i + 2 \in Nat \ {0}
    BY <1>1
  <2>2. QED
    BY <1>2, <2>1 DEF QuotedState, X
<1>5. Blank \in Byte
  BY DEF Blank, Byte
<1>6. i <= n => text[i] \in Byte
  BY <1>1
<1>7. i + 1 < n /\ Hex(text[i + 1]) < 16 /\ Hex(text[i + 2]) < 16 =>
        16 * Hex(text[i + 1]) + Hex(text[i + 2]) \in Byte
  <2> SUFFICES ASSUME i + 1 < n, Hex(text[i + 1]) < 16, Hex(text[i + 2]) < 16
               PROVE  16 * Hex(text[i + 1]) + Hex(text[i + 2]) \in Byte
    OBVIOUS
  <2>1. i + 1 \in 1 .. n /\ i + 2 \in 1 .. n
    BY <1>1
  <2>2. text[i + 1] \in Int /\ text[i + 2] \in Int
    <3>1. \A b \in Byte : b \in Int
      BY DEF Byte
    <3> HIDE DEF i, n
    <3>2. QED
      BY <1>1, <2>1, <3>1
  <2>3. Hex(text[i + 1]) \in 0 .. 16 /\ Hex(text[i + 2]) \in 0 .. 16
    BY <2>2, HexFacts
  <2> DEFINE x == Hex(text[i + 1])
             y == Hex(text[i + 2])
  <2>4. x \in 0 .. 16 /\ y \in 0 .. 16 /\ x < 16 /\ y < 16
    BY <2>3
  <2> HIDE DEF x, y
  <2>5. 16 * x + y \in Byte
    BY <2>4 DEF Byte
  <2>6. QED
    BY <2>5 DEF x, y
<1> HIDE DEF X, QuotedState
<1>8. CASE i > n
  BY <1>8 DEF QuotedStep
<1>9. CASE i <= n
  <2>1. 1 \in Nat /\ 3 \in Nat /\ ~(i > n)
    BY <1>1, <1>9
  <2> HIDE DEF i, n
  <2>2. QED
    BY <1>3, <1>4, <1>5, <1>6, <1>7, <1>9, <2>1 DEF QuotedStep, i, n
<1>10. QED
  BY <1>1, <1>8, <1>9

\* An item is read in one step.
LEMMA ItemRead ==
    ASSUME NEW text \in Seq(Char), NEW a \in Nat, NEW out \in Seq(Byte), NEW item,
           Conforms(item), a + Len(item.text) <= Len(text),
           \A j \in 1 .. Len(item.text) : text[a + j] = item.text[j]
    PROVE  QuotedStep(text, FALSE, [pos |-> a + 1, out |-> out]) =
             [pos |-> a + Len(item.text) + 1, out |-> out \o item.means]
<1> DEFINE s == [pos |-> a + 1, out |-> out]
           n == Len(text)
<1>1. s.pos = a + 1 /\ s.out = out /\ n \in Nat
  OBVIOUS
<1>2. ASSUME NEW c \in Char \ {Equals}, item.text = <<c>>, item.means = <<c>>
      PROVE  QuotedStep(text, FALSE, s) =
               [pos |-> a + Len(item.text) + 1, out |-> out \o item.means]
  <2>1. Len(item.text) = 1 /\ item.text[1] = c
    BY <1>2
  <2>2. text[a + 1] = c /\ ~(a + 1 > n) /\ a + 1 + 1 = a + Len(item.text) + 1
    BY <1>1, <2>1
  <2>3. out \o item.means = Append(out, c)
    BY <1>2
  <2>4. QuotedStep(text, FALSE, s) = [pos |-> a + 1 + 1, out |-> Append(out, c)]
    <3> HIDE DEF s, n
    <3>1. QED
      BY <1>1, <1>2, <2>2 DEF QuotedStep, n
  <2>5. QED
    BY <2>2, <2>3, <2>4
<1>3. ASSUME NEW v \in Byte,
             item.text = <<Equals, HexDigit(v \div 16), HexDigit(v % 16)>>,
             item.means = <<v>>
      PROVE  QuotedStep(text, FALSE, s) =
               [pos |-> a + Len(item.text) + 1, out |-> out \o item.means]
  <2> DEFINE h == v \div 16
             l == v % 16
  <2>1. /\ h \in 0 .. 15 /\ l \in 0 .. 15 /\ 16 * h + l = v
    BY DEF Byte
  <2>2. /\ Hex(HexDigit(h)) = h /\ HexDigit(h) # Newline /\ Hex(HexDigit(l)) = l
    BY <2>1, HexFacts
  <2> HIDE DEF h, l
  <2>3. /\ Len(item.text) = 3 /\ item.text[1] = Equals
        /\ item.text[2] = HexDigit(h) /\ item.text[3] = HexDigit(l)
    BY <1>3 DEF h, l
  <2>4. /\ text[a + 1] = Equals /\ text[a + 2] = HexDigit(h)
        /\ text[a + 3] = HexDigit(l)
    BY <2>3
  <2>5. /\ ~(a + 1 > n) /\ a + 1 < n /\ a + 1 + 1 < n
        /\ a + 1 + 3 = a + Len(item.text) + 1
        /\ a + 1 + 1 = a + 2 /\ a + 1 + 2 = a + 3
    BY <1>1, <2>3
  <2>6. out \o item.means = Append(out, v)
    BY <1>3
  <2>7. h < 16 /\ l < 16
    BY <2>1
  <2>8. QuotedStep(text, FALSE, s) = [pos |-> a + 1 + 3, out |-> Append(out, v)]
    <3> HIDE DEF s, n
    <3>1. /\ s.pos + 1 = a + 2 /\ s.pos + 2 = a + 3 /\ s.pos + 3 = a + 1 + 3
          /\ ~(s.pos > n) /\ s.pos + 1 < n
      BY <1>1, <2>5
    <3>2. /\ text[s.pos] = Equals /\ text[s.pos + 1] # Newline
          /\ Hex(text[s.pos + 1]) = h /\ Hex(text[s.pos + 2]) = l
      BY <1>1, <2>2, <2>4, <3>1
    <3>3. QED
      BY <1>1, <2>1, <2>7, <3>1, <3>2 DEF QuotedStep, n
  <2>9. QED
    BY <2>5, <2>6, <2>8
<1>4. ASSUME item.text = <<Equals, Newline>>, item.means = << >>
      PROVE  QuotedStep(text, FALSE, s) =
               [pos |-> a + Len(item.text) + 1, out |-> out \o item.means]
  <2>1. Len(item.text) = 2 /\ item.text[1] = Equals /\ item.text[2] = Newline
    BY <1>4
  <2>2. text[a + 1] = Equals /\ text[a + 2] = Newline
    BY <2>1
  <2>3. /\ ~(a + 1 > n) /\ a + 1 < n /\ a + 1 + 1 = a + 2
        /\ a + 1 + 2 = a + Len(item.text) + 1
    BY <1>1, <2>1
  <2>4. out \o item.means = out
    BY <1>4
  <2>5. QuotedStep(text, FALSE, s) = [pos |-> a + 1 + 2, out |-> out]
    <3> HIDE DEF s, n
    <3>1. QED
      BY <1>1, <2>2, <2>3 DEF QuotedStep, n
  <2>6. QED
    BY <2>3, <2>4, <2>5
<1>5. QED
  BY <1>2, <1>3, <1>4 DEF Conforms

\* An item's text is found after the first a characters, and the step taken
\* there reads it: ItemRead in terms of these two.
Follows(text, a, item) ==
    /\ a + Len(item.text) <= Len(text)
    /\ \A j \in 1 .. Len(item.text) : text[a + j] = item.text[j]

IsRead(text, a, out, item) ==
    QuotedStep(text, FALSE, [pos |-> a + 1, out |-> out]) =
        [pos |-> a + Len(item.text) + 1, out |-> out \o item.means]

LEMMA FollowingIsRead ==
    ASSUME NEW text \in Seq(Char), NEW a \in Nat, NEW out \in Seq(Byte),
           NEW item, Conforms(item), Follows(text, a, item)
    PROVE  IsRead(text, a, out, item)
BY ItemRead DEF Follows, IsRead

\* The loop of quoted_printable_decode_buffer(), of which as many steps are taken
\* as there are characters.
Loop(g, text, dospace) ==
    g = [k \in 0 .. Len(text) |->
            IF k = 0 THEN [pos |-> 1, out |-> << >>]
            ELSE QuotedStep(text, dospace, g[k - 1])]

\* There is one, and the result is what it ends with.
LEMMA LoopFacts ==
    ASSUME NEW text \in Seq(Char), NEW dospace
    PROVE  \E g : /\ g[0] = [pos |-> 1, out |-> << >>]
                  /\ \A k \in 1 .. Len(text) :
                        g[k] = QuotedStep(text, dospace, g[k - 1])
                  /\ QuotedPrintable(text, dospace) = g[Len(text)].out
<1> DEFINE n == Len(text)
           x0 == [pos |-> 1, out |-> << >>]
           G == [i \in 1 .. n |-> [s \in QuotedState |-> QuotedStep(text, dospace, s)]]
           f == CHOOSE f : Recursive(f, x0, n, G)
           h == CHOOSE g : Loop(g, text, dospace)
<1>1. n \in Nat /\ x0 \in QuotedState
  BY DEF QuotedState
<1>2. G \in [1 .. n -> [QuotedState -> QuotedState]]
  <2>1. \A s \in QuotedState : QuotedStep(text, dospace, s) \in QuotedState
    BY QuotedStepType
  <2> HIDE DEF n
  <2>2. QED
    BY <2>1
<1>3. Recursive(f, x0, n, G) /\ f \in [0 .. n -> QuotedState]
  <2> HIDE DEF n, x0, G
  <2>1. \E g : Recursive(g, x0, n, G)
    BY <1>1, <1>2, RecursiveFunction
  <2>2. Recursive(f, x0, n, G)
    BY <2>1
  <2> HIDE DEF f
  <2>3. QED
    BY <1>1, <1>2, <2>2, RecursiveFunction
<1>4. Loop(f, text, dospace)
  <2> HIDE DEF f, x0
  <2>1. f = [i \in 0 .. n |-> IF i = 0 THEN x0 ELSE G[i][f[i - 1]]]
    BY <1>3 DEF Recursive
  <2>2. ASSUME NEW i \in 0 .. n
        PROVE  (IF i = 0 THEN x0 ELSE G[i][f[i - 1]]) =
               IF i = 0 THEN x0 ELSE QuotedStep(text, dospace, f[i - 1])
    <3>1. CASE i = 0
      BY <3>1
    <3>2. CASE i # 0
      <4>1. i \in 1 .. n /\ i - 1 \in 0 .. n
        BY <1>1, <3>2
      <4>2. f[i - 1] \in QuotedState
        BY <1>3, <4>1
      <4>3. QED
        BY <3>2, <4>1, <4>2
    <3>3. QED
      BY <3>1, <3>2
  <2> HIDE DEF G
  <2>3. f = [i \in 0 .. n |-> IF i = 0 THEN x0
                              ELSE QuotedStep(text, dospace, f[i - 1])]
    BY <2>1, <2>2
  <2>4. QED
    BY <2>3 DEF Loop, x0
<1>5. Loop(h, text, dospace)
  <2> HIDE DEF f
  <2>1. QED
    BY <1>4
<1>6. QuotedPrintable(text, dospace) = h[n].out
  BY DEF QuotedPrintable, Loop
<1> HIDE DEF h
<1>7. \A k \in 0 .. n : h[k] = IF k = 0 THEN x0
                               ELSE QuotedStep(text, dospace, h[k - 1])
  BY <1>5 DEF Loop
<1>8. h[0] = x0 /\ \A k \in 1 .. n : h[k] = QuotedStep(text, dospace, h[k - 1])
  <2>1. 0 \in 0 .. n /\ \A k \in 1 .. n : k \in 0 .. n /\ k # 0
    BY <1>1
  <2> HIDE DEF x0, n
  <2>2. QED
    BY <1>7, <2>1
<1>9. QED
  BY <1>6, <1>8

\* No item is empty.
LEMMA ConformingLength ==
    ASSUME NEW item, Conforms(item)
    PROVE  Len(item.text) \in {1, 2, 3}
<1>1. \A a, b, c : Len(<<a>>) = 1 /\ Len(<<a, b>>) = 2 /\ Len(<<a, b, c>>) = 3
  OBVIOUS
<1>2. QED
  BY <1>1 DEF Conforms

\* Items that conform are read one after another, each in one step.
LEMMA ItemsRead ==
    ASSUME NEW texts \in Seq(Seq(Char)), NEW means \in Seq(Seq(Byte)),
           NEW its, NEW m \in Nat, Len(texts) = m, Len(means) = m,
           \A k \in 1 .. m : Conforms(its[k]) /\ its[k].text = texts[k]
                             /\ its[k].means = means[k],
           FlattenSeq(texts) \in Seq(Char)
    PROVE  QuotedPrintable(FlattenSeq(texts), FALSE) = FlattenSeq(means)
<1> DEFINE text == FlattenSeq(texts)
           n == Len(text)
<1>1. PICK F \in [0 .. m -> Seq(Char)] : Joins(F, texts)
  BY Joined
<1>2. PICK M \in [0 .. m -> Seq(Byte)] : Joins(M, means)
  BY Joined
<1>3. PICK g : /\ g[0] = [pos |-> 1, out |-> << >>]
               /\ \A k \in 1 .. n : g[k] = QuotedStep(text, FALSE, g[k - 1])
               /\ QuotedPrintable(text, FALSE) = g[n].out
  BY LoopFacts
<1>4. \A k \in 1 .. m :
         /\ Len(F[k]) = Len(F[k - 1]) + Len(texts[k])
         /\ Len(F[k]) <= n
         /\ \A j \in 1 .. Len(texts[k]) : text[Len(F[k - 1]) + j] = texts[k][j]
  <2> HIDE DEF text, n
  <2>0. F \in [0 .. Len(texts) -> Seq(Char)] /\ Joins(F, texts)
    BY <1>1
  <2>1. Placed(F, texts)
    BY <2>0, InPlace
  <2>2. QED
    BY <2>1 DEF text, n, Placed
<1>5. /\ F[0] = << >> /\ text = F[m]
      /\ M[0] = << >> /\ FlattenSeq(means) = M[m]
      /\ \A k \in 1 .. m : M[k] = M[k - 1] \o means[k]
  <2> HIDE DEF text
  <2>1. F[0] = << >> /\ FlattenSeq(texts) = F[m]
    BY <1>1 DEF Joins
  <2>2. M[0] = << >> /\ FlattenSeq(means) = M[m]
    BY <1>2 DEF Joins
  <2>3. \A k \in 1 .. m : M[k] = M[k - 1] \o means[k]
    BY <1>2 DEF Joins
  <2>4. QED
    BY <2>1, <2>2, <2>3 DEF text
<1>6. \A k \in 0 .. m : Len(F[k]) \in Nat /\ M[k] \in Seq(Byte)
  <2>1. \A s \in Seq(Char) : Len(s) \in Nat
    OBVIOUS
  <2>2. \A k \in 0 .. m : F[k] \in Seq(Char)
    OBVIOUS
  <2>3. \A k \in 0 .. m : M[k] \in Seq(Byte)
    OBVIOUS
  <2>4. QED
    BY <2>1, <2>2, <2>3
<1>7. \A k \in 1 .. m : Len(texts[k]) \in Nat \ {0}
  <2> SUFFICES ASSUME NEW k \in 1 .. m
               PROVE  Len(texts[k]) \in Nat \ {0}
    OBVIOUS
  <2>1. Conforms(its[k]) /\ its[k].text = texts[k]
    OBVIOUS
  <2>2. Len(its[k].text) \in {1, 2, 3}
    BY <2>1, ConformingLength
  <2>3. \A l \in {1, 2, 3} : l \in Nat \ {0}
    OBVIOUS
  <2>4. QED
    BY <2>1, <2>2, <2>3
<1>8. text \in Seq(Char) /\ n \in Nat
  OBVIOUS
<1> DEFINE Read(k) == /\ g[k] = [pos |-> Len(F[k]) + 1, out |-> M[k]]
                      /\ k <= Len(F[k])
           T == {k \in Nat : k <= m => Read(k)}
<1> HIDE DEF text, n
<1>9. 0 \in T
  <2>1. Len(F[0]) = 0
    BY <1>5
  <2>2. QED
    BY <1>3, <1>5, <2>1
<1>10. ASSUME NEW k \in Nat \ {0}, k - 1 \in T
       PROVE  k \in T
  <2>1. SUFFICES ASSUME k <= m
                 PROVE  Read(k)
    OBVIOUS
  <2> DEFINE a == Len(F[k - 1])
             l == Len(texts[k])
  <2>2. k \in 1 .. m /\ k - 1 \in 0 .. m /\ k - 1 \in Nat /\ k - 1 <= m
    BY <2>1
  <2>3. g[k - 1] = [pos |-> a + 1, out |-> M[k - 1]] /\ k - 1 <= a
    BY <1>10, <2>2
  <2>4. /\ a \in Nat /\ l \in Nat \ {0}
        /\ Len(F[k]) = a + l /\ Len(F[k]) <= n
        /\ \A j \in 1 .. l : text[a + j] = texts[k][j]
    BY <1>4, <1>6, <1>7, <2>2
  <2>5. /\ Conforms(its[k]) /\ its[k].text = texts[k] /\ its[k].means = means[k]
    BY <2>2
  <2>6. M[k - 1] \in Seq(Byte) /\ M[k] = M[k - 1] \o means[k]
    BY <1>5, <1>6, <2>2
  <2> HIDE DEF a, l, T
  <2>7. k <= Len(F[k]) /\ k \in 1 .. n
    <3> DEFINE c == Len(F[k])
    <3>1. c = a + l /\ c <= n
      BY <2>4
    <3> HIDE DEF c
    <3>2. k <= c /\ k \in 1 .. n
      <4>1. a \in Nat /\ l \in Nat \ {0}
        BY <2>4
      <4>2. k - 1 <= a
        BY <2>3
      <4>3. QED
        BY <1>8, <3>1, <4>1, <4>2
    <3>3. QED
      BY <3>2 DEF c
  <2>8. g[k] = QuotedStep(text, FALSE, [pos |-> a + 1, out |-> M[k - 1]])
    <3>1. g[k] = QuotedStep(text, FALSE, g[k - 1])
      BY <1>3, <2>7
    <3>2. QED
      BY <2>3, <3>1
  <2>9. /\ a + Len(its[k].text) <= Len(text)
        /\ \A j \in 1 .. Len(its[k].text) : text[a + j] = its[k].text[j]
    BY <2>4, <2>5 DEF l, n
  <2>10. QuotedStep(text, FALSE, [pos |-> a + 1, out |-> M[k - 1]]) =
           [pos |-> a + Len(its[k].text) + 1, out |-> M[k - 1] \o its[k].means]
    <3> DEFINE out == M[k - 1]
               item == its[k]
    <3>1. out \in Seq(Byte) /\ Conforms(item)
      BY <2>5, <2>6
    <3>2. Follows(text, a, item)
      BY <2>9 DEF Follows
    <3>3. a \in Nat
      BY <2>4
    <3> HIDE DEF out, item
    <3>4. IsRead(text, a, out, item)
      BY <1>8, <3>1, <3>2, <3>3, FollowingIsRead
    <3>5. QED
      BY <3>4 DEF out, item, IsRead
  <2>11. Len(its[k].text) = l
    BY <2>5 DEF l
  <2>12. QED
    BY <2>4, <2>5, <2>6, <2>7, <2>8, <2>10, <2>11
<1>11. Nat \subseteq T
  <2> HIDE DEF T
  <2>1. QED
    BY <1>9, <1>10, Induction
<1>12. Read(m)
  <2>1. m \in T
    BY <1>11
  <2> HIDE DEF Read
  <2>2. QED
    BY <2>1
<1>13. n = Len(F[m]) /\ m <= n
  BY <1>5, <1>12 DEF n
<1>14. \A k \in Nat : m <= k /\ k <= n => g[k] = g[m]
  <2> DEFINE U == {k \in Nat : m <= k /\ k <= n => g[k] = g[m]}
  <2>1. 0 \in U
    BY <1>8
  <2>2. ASSUME NEW k \in Nat \ {0}, k - 1 \in U
        PROVE  k \in U
    <3>1. SUFFICES ASSUME m <= k, k <= n
                   PROVE  g[k] = g[m]
      OBVIOUS
    <3>2. CASE k = m
      BY <3>2
    <3>3. CASE k # m
      <4>1. g[k - 1] = g[m] /\ k \in 1 .. n
        BY <1>8, <2>2, <3>1, <3>3
      <4>2. g[k] = QuotedStep(text, FALSE, g[m])
        BY <1>3, <4>1
      <4>3. g[m].pos = n + 1 /\ n + 1 > n
        BY <1>8, <1>12, <1>13
      <4>4. QED
        BY <4>2, <4>3 DEF QuotedStep, n
    <3>4. QED
      BY <3>2, <3>3
  <2>3. Nat \subseteq U
    <3> HIDE DEF U
    <3>1. QED
      BY <2>1, <2>2, Induction
  <2>4. QED
    BY <2>3
<1>15. g[n] = g[m]
  <2> HIDE DEF Read, T
  <2>1. n \in Nat /\ m <= n
    BY <1>8, <1>13
  <2>2. n <= n
    BY <2>1
  <2>3. QED
    BY <1>14, <2>1, <2>2
<1>16. g[n].out = M[m]
  BY <1>12, <1>15
<1>17. QED
  BY <1>3, <1>5, <1>16 DEF text

(***************************************************************************)
(* The texts of the runs.                                                  *)
(***************************************************************************)

\* The pieces of texts.
Item == Base64Items \cup QuotedItems \cup HeaderItems

\* A text is put together of pieces (Add).
TypeInvariant == items \in Seq(Item)

\* The items of a text are of those there are.
LEMMA Typed == Spec => []TypeInvariant
<1>1. Init => TypeInvariant
  BY DEF Init, TypeInvariant
<1>2. TypeInvariant /\ [Next]_vars => TypeInvariant'
  <2> SUFFICES ASSUME TypeInvariant, [Next]_vars
               PROVE  TypeInvariant'
    OBVIOUS
  <2>1. ASSUME NEW item \in Item, Add(item)
        PROVE  TypeInvariant'
    <3>1. items' = Append(items, item)
      BY <2>1 DEF Add
    <3>2. QED
      BY <3>1 DEF TypeInvariant
  <2>2. CASE UNCHANGED vars
    BY <2>2 DEF vars, TypeInvariant
  <2>3. QED
    BY <2>1, <2>2 DEF Next, Item
<1>3. QED
  BY <1>1, <1>2, PTL DEF Spec

\* So it has characters only, and means bytes.
LEMMA TextType ==
    ASSUME TypeInvariant
    PROVE  /\ [i \in DOMAIN items |-> items[i].text] \in Seq(Seq(Char))
           /\ [i \in DOMAIN items |-> items[i].means] \in Seq(Seq(Byte))
           /\ Text \in Seq(Char)
<1> DEFINE texts == [i \in DOMAIN items |-> items[i].text]
           meanings == [i \in DOMAIN items |-> items[i].means]
<1>1. /\ Len(items) \in Nat /\ DOMAIN items = 1 .. Len(items)
      /\ \A i \in DOMAIN items : items[i] \in Item
  BY DEF TypeInvariant
<1>2. \A item \in Item : item.text \in Seq(Char) /\ item.means \in Seq(Byte)
  BY DecodeAssumption DEF Item, Char, Byte
<1>3. texts \in Seq(Seq(Char))
  <2> DEFINE X == Seq(Char)
  <2>1. \A i \in 1 .. Len(items) : items[i].text \in X
    BY <1>1, <1>2
  <2> HIDE DEF X
  <2>2. texts \in Seq(X)
    BY <1>1, <2>1
  <2>3. QED
    BY <2>2 DEF X
<1>4. meanings \in Seq(Seq(Byte))
  <2> DEFINE X == Seq(Byte)
  <2>1. \A i \in 1 .. Len(items) : items[i].means \in X
    BY <1>1, <1>2
  <2> HIDE DEF X
  <2>2. meanings \in Seq(X)
    BY <1>1, <2>1
  <2>3. QED
    BY <2>2 DEF X
<1> HIDE DEF texts
<1>5. FlattenSeq(texts) \in Seq(Char)
  BY <1>3, FlattenType
<1>6. Text \in Seq(Char)
  BY <1>5 DEF Text, texts
<1>7. QED
  BY <1>3, <1>4, <1>6 DEF texts

\* The base64 texts of every run are decoded exactly (b64_pton), whatever the
\* pieces they are put together from.
THEOREM Base64Exact == Spec => []Base64IsExact
<1>1. TypeInvariant => Base64IsExact
  BY TextType, EveryTextIsDecodedExactly DEF Base64IsExact
<1>2. QED
  BY <1>1, Typed, PTL

\* A quoted-printable text of any length that is written as RFC 2045 says is
\* read as what was written (quoted_printable_decode).
THEOREM QuotedExact ==
    Spec => []((\A i \in DOMAIN items : Conforms(items[i])) => QuotedIsMeant)
<1>1. ASSUME TypeInvariant, \A i \in DOMAIN items : Conforms(items[i])
      PROVE  QuotedIsMeant
  <2> DEFINE texts == [i \in DOMAIN items |-> items[i].text]
             meanings == [i \in DOMAIN items |-> items[i].means]
             m == Len(items)
  <2>1. /\ texts \in Seq(Seq(Char)) /\ meanings \in Seq(Seq(Byte))
        /\ Text \in Seq(Char)
    BY <1>1, TextType
  <2>2. m \in Nat /\ DOMAIN items = 1 .. m
    BY <1>1 DEF TypeInvariant
  <2>3. Len(texts) = m /\ Len(meanings) = m
    BY <2>2
  <2>4. \A k \in 1 .. m : Conforms(items[k]) /\ items[k].text = texts[k]
                          /\ items[k].means = meanings[k]
    BY <1>1, <2>2
  <2>5. Text = FlattenSeq(texts) /\ Meaning = FlattenSeq(meanings)
    BY DEF Text, Meaning
  <2> HIDE DEF texts, meanings, m
  <2>6. QuotedPrintable(FlattenSeq(texts), FALSE) = FlattenSeq(meanings)
    BY <2>1, <2>2, <2>3, <2>4, <2>5, ItemsRead
  <2>7. QuotedPrintableDecode(Text) = CString(Meaning)
    BY <2>5, <2>6 DEF QuotedPrintableDecode
  <2>8. QED
    BY <2>7 DEF QuotedIsMeant
<1>2. TypeInvariant =>
        ((\A i \in DOMAIN items : Conforms(items[i])) => QuotedIsMeant)
  BY <1>1
<1>3. QED
  BY <1>2, Typed, PTL
=============================================================================
