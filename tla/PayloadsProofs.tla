---------------------------- MODULE PayloadsProofs ----------------------------
(***************************************************************************)
(* Proofs about Payloads, for byte strings and texts of any length.        *)
(*                                                                         *)
(* Encoders and decoders work on groups: two digits for a byte, four       *)
(* sextets for three bytes.  The arithmetic of one group is a lemma about  *)
(* numbers (JoinDigits, EdgeBits, FirstByte, ...), and a sequence of any   *)
(* length is compared element by element, each with the group it is in; so *)
(* no induction over the length is needed.  From the two round trips       *)
(* (encode then decode, decode then encode) follows what each decoder      *)
(* accepts, from that and the order of the three what decode_payload makes *)
(* of an encoded payload, and from that the theorems about the endpoints.  *)
(***************************************************************************)
EXTENDS Payloads, TLAPS

Sextet == 0 .. 63

-----------------------------------------------------------------------------
(* Hex                                                                     *)

\* A hex digit of either case is read back as the value it was written for.
LEMMA HexDigitRoundTrip ==
  ASSUME NEW v \in 0 .. 15, NEW letters \in {0, 26}
  PROVE  HexChar(v, letters) \in HexDigits /\ HexValue(HexChar(v, letters)) = v
BY DEF HexChar, HexValue, HexDigits, Digits

\* A value is written as the digit it was read from, in lower case.
LEMMA HexCharRoundTrip ==
  ASSUME NEW c \in HexDigits
  PROVE  /\ HexValue(c) \in 0 .. 15
         /\ HexChar(HexValue(c), 26) = IF c \in 0 .. 5 THEN c + 26 ELSE c
BY DEF HexDigits, Digits, HexValue, HexChar

\* A byte is made of two values of hex digits.
LEMMA SplitByte ==
  ASSUME NEW v \in Byte
  PROVE  /\ v \div 16 \in 0 .. 15 /\ v % 16 \in 0 .. 15
         /\ 16 * (v \div 16) + (v % 16) = v
<1>1. v \div 16 \in 0 .. 15
  BY DEF Byte
<1>2. v % 16 \in 0 .. 15
  BY DEF Byte
<1>3. 16 * (v \div 16) + (v % 16) = v
  BY DEF Byte
<1> QED
  BY <1>1, <1>2, <1>3

\* Two values of hex digits make a byte, and the byte splits into them.
LEMMA JoinDigits ==
  ASSUME NEW h \in 0 .. 15, NEW l \in 0 .. 15
  PROVE  /\ 16 * h + l \in Byte
         /\ (16 * h + l) \div 16 = h /\ (16 * h + l) % 16 = l
<1>1. 16 * h + l \in Byte
  BY DEF Byte
<1>2. (16 * h + l) \div 16 = h
  OBVIOUS
<1>3. (16 * h + l) % 16 = l
  OBVIOUS
<1> QED
  BY <1>1, <1>2, <1>3

\* A place in a text of pairs is in one of the pairs.
LEMMA Pairs ==
  ASSUME NEW n \in Nat, NEW k \in 1 .. 2 * n
  PROVE  \E j \in 1 .. n : k = 2 * j - 1 \/ k = 2 * j
<1> WITNESS (k + 1) \div 2 \in 1 .. n
<1> QED
  OBVIOUS

\* The digits of each byte, and how many there are.
LEMMA HexDigitsOf ==
  ASSUME NEW b \in Seq(Byte), NEW letters
  PROVE  /\ DOMAIN ToHex(b, letters) = 1 .. 2 * Len(b)
         /\ Len(ToHex(b, letters)) = 2 * Len(b)
         /\ \A j \in 1 .. Len(b) :
              /\ ToHex(b, letters)[2 * j - 1] = HexChar(b[j] \div 16, letters)
              /\ ToHex(b, letters)[2 * j] = HexChar(b[j] % 16, letters)
<1>1. Len(b) \in Nat
  OBVIOUS
<1>2. DOMAIN ToHex(b, letters) = 1 .. 2 * Len(b) /\ Len(ToHex(b, letters)) = 2 * Len(b)
  BY <1>1 DEF ToHex
<1>3. ASSUME NEW j \in 1 .. Len(b)
      PROVE  /\ ToHex(b, letters)[2 * j - 1] = HexChar(b[j] \div 16, letters)
             /\ ToHex(b, letters)[2 * j] = HexChar(b[j] % 16, letters)
  <2>1. /\ 2 * j - 1 \in 1 .. 2 * Len(b) /\ 2 * j \in 1 .. 2 * Len(b)
        /\ (2 * j - 1 + 1) \div 2 = j /\ (2 * j + 1) \div 2 = j
        /\ (2 * j - 1) % 2 = 1 /\ (2 * j) % 2 = 0
    BY <1>1
  <2> QED
    BY <2>1 DEF ToHex
<1> QED
  BY <1>2, <1>3

\* hex::encode followed by hex::decode is the identity, whatever the case.
LEMMA HexRoundTrip ==
  ASSUME NEW b \in Seq(Byte), NEW letters \in {0, 26}
  PROVE  LooksLikeHex(ToHex(b, letters)) /\ FromHex(ToHex(b, letters)) = b
<1> DEFINE t == ToHex(b, letters)
<1>1. Len(b) \in Nat /\ \A j \in 1 .. Len(b) : b[j] \in Byte
  OBVIOUS
<1>2. DOMAIN t = 1 .. 2 * Len(b) /\ Len(t) = 2 * Len(b)
  BY HexDigitsOf
<1>3. ASSUME NEW j \in 1 .. Len(b)
      PROVE  /\ t[2 * j - 1] \in HexDigits /\ HexValue(t[2 * j - 1]) = b[j] \div 16
             /\ t[2 * j] \in HexDigits /\ HexValue(t[2 * j]) = b[j] % 16
  <2>1. b[j] \div 16 \in 0 .. 15 /\ b[j] % 16 \in 0 .. 15
    BY <1>1, SplitByte
  <2>2. /\ t[2 * j - 1] = HexChar(b[j] \div 16, letters)
        /\ t[2 * j] = HexChar(b[j] % 16, letters)
    BY HexDigitsOf
  <2> QED
    BY <2>1, <2>2, HexDigitRoundTrip
<1> HIDE DEF t
<1>4. LooksLikeHex(t)
  <2>1. \A k \in 1 .. 2 * Len(b) : t[k] \in HexDigits
    BY <1>1, <1>3, Pairs
  <2>2. (2 * Len(b)) % 2 = 0
    BY <1>1
  <2> QED
    BY <1>2, <2>1, <2>2 DEF LooksLikeHex, ToSet
<1>5. FromHex(t) = b
  <2>1. Len(t) \div 2 = Len(b)
    BY <1>1, <1>2
  <2>2. FromHex(t) = [k \in 1 .. Len(b) |-> 16 * HexValue(t[2 * k - 1]) + HexValue(t[2 * k])]
    BY <2>1 DEF FromHex
  <2>3. ASSUME NEW k \in 1 .. Len(b)
        PROVE  16 * HexValue(t[2 * k - 1]) + HexValue(t[2 * k]) = b[k]
    <3>1. 16 * (b[k] \div 16) + (b[k] % 16) = b[k]
      BY <1>1, SplitByte
    <3>2. HexValue(t[2 * k - 1]) = b[k] \div 16 /\ HexValue(t[2 * k]) = b[k] % 16
      BY <1>3
    <3> QED
      BY <3>1, <3>2, Zenon
  <2>4. FromHex(t) = [k \in 1 .. Len(b) |-> b[k]]
    BY <2>2, <2>3
  <2> QED
    BY <2>4
<1> QED
  BY <1>4, <1>5 DEF t

\* hex::decode followed by hex::encode gives the text back in lower case.
LEMMA HexTextsCanonical ==
  ASSUME NEW text \in Seq(Char), LooksLikeHex(text)
  PROVE  /\ FromHex(text) \in Seq(Byte)
         /\ Len(FromHex(text)) = Len(text) \div 2
         /\ Lowered(text) = ToHex(FromHex(text), 26)
<1>1. PICK n \in Nat : n = Len(text) \div 2 /\ Len(text) = 2 * n
  BY DEF LooksLikeHex
<1>2. \A k \in 1 .. 2 * n : text[k] \in HexDigits
  BY <1>1 DEF LooksLikeHex, ToSet
<1>3. PICK hi \in [1 .. n -> 0 .. 15], lo \in [1 .. n -> 0 .. 15] :
         \A j \in 1 .. n : hi[j] = HexValue(text[2 * j - 1]) /\ lo[j] = HexValue(text[2 * j])
  <2> DEFINE h == [j \in 1 .. n |-> HexValue(text[2 * j - 1])]
             l == [j \in 1 .. n |-> HexValue(text[2 * j])]
  <2>1. \A j \in 1 .. n : 2 * j - 1 \in 1 .. 2 * n /\ 2 * j \in 1 .. 2 * n
    OBVIOUS
  <2>2. h \in [1 .. n -> 0 .. 15] /\ l \in [1 .. n -> 0 .. 15]
    BY <1>2, <2>1, HexCharRoundTrip
  <2>3. \A j \in 1 .. n : h[j] = HexValue(text[2 * j - 1]) /\ l[j] = HexValue(text[2 * j])
    OBVIOUS
  <2> HIDE DEF h, l
  <2> QED
    BY <2>2, <2>3
<1> DEFINE b == [j \in 1 .. n |-> 16 * hi[j] + lo[j]]
<1>4. FromHex(text) = b
  <2>1. FromHex(text) = [j \in 1 .. n |-> 16 * HexValue(text[2 * j - 1]) + HexValue(text[2 * j])]
    BY <1>1 DEF FromHex
  <2> QED
    BY <1>3, <2>1
<1>5. b \in Seq(Byte) /\ Len(b) = n
  <2>1. \A j \in 1 .. n : b[j] \in Byte
    BY JoinDigits
  <2> QED
    BY <2>1
<1>6. \A j \in 1 .. n : b[j] \div 16 = hi[j] /\ b[j] % 16 = lo[j]
  BY JoinDigits
<1> HIDE DEF b
<1>7. ASSUME NEW k \in 1 .. 2 * n PROVE ToHex(b, 26)[k] = Lowered(text)[k]
  <2>1. PICK j \in 1 .. n : k = 2 * j - 1 \/ k = 2 * j
    BY Pairs
  <2>2. /\ ToHex(b, 26)[2 * j - 1] = HexChar(b[j] \div 16, 26)
        /\ ToHex(b, 26)[2 * j] = HexChar(b[j] % 16, 26)
    BY <1>5, HexDigitsOf
  <2>3. ToHex(b, 26)[k] = HexChar(HexValue(text[k]), 26)
    BY <1>3, <1>6, <2>1, <2>2
  <2>4. k \in DOMAIN text
    BY <1>1
  <2> QED
    BY <1>2, <2>3, <2>4, HexCharRoundTrip DEF Lowered
<1>8. DOMAIN ToHex(b, 26) = 1 .. 2 * n
  BY <1>5, HexDigitsOf
<1>9. DOMAIN Lowered(text) = 1 .. 2 * n
  <2>1. DOMAIN text = 1 .. Len(text)
    OBVIOUS
  <2>2. DOMAIN Lowered(text) = DOMAIN text
    BY DEF Lowered
  <2> QED
    BY <1>1, <2>1, <2>2
<1> QED
  BY <1>1, <1>4, <1>5, <1>7, <1>8, <1>9 DEF Lowered, ToHex

-----------------------------------------------------------------------------
(* Base64                                                                  *)

\* A byte of the string, or the zero beyond its end, is a byte.
LEMMA AtByte ==
  ASSUME NEW b \in Seq(Byte), NEW k
  PROVE  At(b, k) \in Byte
<1>1. \A j \in DOMAIN b : b[j] \in Byte
  OBVIOUS
<1> QED
  BY <1>1 DEF At, Byte

\* The place of a sextet in its group of four, and of a byte in its group of
\* three.
LEMMA PlaceInQuad ==
  ASSUME NEW q \in Nat, NEW i \in 0 .. 3
  PROVE  (4 * q + i + 1 - 1) % 4 = i /\ (4 * q + i + 1 - 1) \div 4 = q
OBVIOUS

\* Place i of a group of three.
LEMMA PlaceInTriple ==
  ASSUME NEW q \in Nat, NEW i \in 0 .. 2
  PROVE  (3 * q + i + 1 - 1) % 3 = i /\ (3 * q + i + 1 - 1) \div 3 = q
OBVIOUS

\* Every place of a base64 text is in a group of four.
LEMMA Quads ==
  ASSUME NEW k \in Nat \ {0}
  PROVE  \E q \in Nat : k = 4 * q + 1 \/ k = 4 * q + 2 \/ k = 4 * q + 3 \/ k = 4 * q + 4
<1> WITNESS (k - 1) \div 4 \in Nat
<1> QED
  OBVIOUS

\* Every place of a byte string is in a group of three.
LEMMA Triples ==
  ASSUME NEW k \in Nat \ {0}
  PROVE  \E q \in Nat : k = 3 * q + 1 \/ k = 3 * q + 2 \/ k = 3 * q + 3
<1> WITNESS (k - 1) \div 3 \in Nat
<1> QED
  OBVIOUS

\* A byte string is whole groups of three and none, one or two bytes more.
LEMMA Thirds ==
  ASSUME NEW n \in Nat
  PROVE  \E m \in Nat : n = 3 * m \/ n = 3 * m + 1 \/ n = 3 * m + 2
<1> WITNESS n \div 3 \in Nat
<1> QED
  OBVIOUS

\* A function on 1 .. n is a sequence of its values.
LEMMA SequenceOf ==
  ASSUME NEW n \in Nat, NEW S, NEW f, f = [k \in 1 .. n |-> f[k]], \A k \in 1 .. n : f[k] \in S
  PROVE  f \in Seq(S) /\ Len(f) = n
OBVIOUS

\* A sequence of values of T is a sequence over T, whatever it was over.
LEMMA SequenceOver ==
  ASSUME NEW S, NEW T, NEW f \in Seq(S), \A k \in 1 .. Len(f) : f[k] \in T
  PROVE  f \in Seq(T)
OBVIOUS

\* What a text consists of, character by character.
LEMMA ToSetElements ==
  ASSUME NEW S, NEW T, NEW f \in Seq(S)
  PROVE  ToSet(f) \subseteq T <=> \A k \in 1 .. Len(f) : f[k] \in T
BY DEF ToSet

\* The powers by which groups shift their bits.
LEMMA Powers == 4^0 = 1 /\ 4^1 = 4 /\ 4^2 = 16 /\ 4^3 = 64 /\ 4^4 = 256
OBVIOUS

\* What the first and the last sextet of a group take of a byte.
LEMMA EdgeBits ==
  ASSUME NEW v \in Byte
  PROVE  /\ (v * 64) % 64 = 0 /\ v \div 4 \in Nat
         /\ (v * 1) % 64 = v % 64 /\ v % 64 \in Nat /\ v \div 256 = 0
<1>1. (v * 64) % 64 = 0 /\ v \div 4 \in Nat
  BY DEF Byte
<1>2. (v * 1) % 64 = v % 64 /\ v % 64 \in Nat /\ v \div 256 = 0
  BY DEF Byte
<1> QED
  BY <1>1, <1>2

\* How many sextets there are.
LEMMA SextetsLength ==
  ASSUME NEW b \in Seq(Byte)
  PROVE  /\ DOMAIN ToSextets(b) = 1 .. (4 * Len(b) + 2) \div 3
         /\ Len(ToSextets(b)) = (4 * Len(b) + 2) \div 3
BY DEF ToSextets

\* The four sextets of a group in terms of its three bytes.
LEMMA SextetsOf ==
  ASSUME NEW b \in Seq(Byte), NEW q \in Nat
  PROVE  LET x == ToSextets(b)
             B1 == At(b, 3 * q + 1)
             B2 == At(b, 3 * q + 2)
             B3 == At(b, 3 * q + 3)
         IN /\ 4 * q + 1 \in DOMAIN x => x[4 * q + 1] = B1 \div 4
            /\ 4 * q + 2 \in DOMAIN x => x[4 * q + 2] = ((B1 * 16) % 64) + (B2 \div 16)
            /\ 4 * q + 3 \in DOMAIN x => x[4 * q + 3] = ((B2 * 4) % 64) + (B3 \div 64)
            /\ 4 * q + 4 \in DOMAIN x => x[4 * q + 4] = B3 % 64
<1> DEFINE x == ToSextets(b)
<1>1. ASSUME NEW i \in 0 .. 3, 4 * q + i + 1 \in DOMAIN x
      PROVE  x[4 * q + i + 1] =
               ((At(b, 3 * q + i) * 4^(3 - i)) % 64) + (At(b, 3 * q + i + 1) \div 4^(i + 1))
  <2>1. (4 * q + i + 1 - 1) % 4 = i /\ (4 * q + i + 1 - 1) \div 4 = q
    BY PlaceInQuad
  <2>2. 4 * q + i + 1 \in 1 .. (4 * Len(b) + 2) \div 3
    BY <1>1, SextetsLength
  <2> QED
    BY <2>1, <2>2 DEF ToSextets
<1>2. At(b, 3 * q) \in Byte /\ At(b, 3 * q + 1) \in Byte /\ At(b, 3 * q + 2) \in Byte
      /\ At(b, 3 * q + 3) \in Byte /\ At(b, 3 * q + 4) \in Byte
  BY AtByte
<1> HIDE DEF x
<1>3. ASSUME 4 * q + 1 \in DOMAIN x PROVE x[4 * q + 1] = At(b, 3 * q + 1) \div 4
  <2>1. 4 * q + 0 + 1 = 4 * q + 1 /\ 3 * q + 0 = 3 * q /\ 3 * q + 0 + 1 = 3 * q + 1
        /\ 3 - 0 = 3 /\ 0 + 1 = 1 /\ 0 \in 0 .. 3
    OBVIOUS
  <2>2. x[4 * q + 1] = ((At(b, 3 * q) * 64) % 64) + (At(b, 3 * q + 1) \div 4)
    BY <1>1, <1>3, <2>1, Powers
  <2>3. (At(b, 3 * q) * 64) % 64 = 0 /\ At(b, 3 * q + 1) \div 4 \in Nat
    BY <1>2, EdgeBits
  <2> QED
    BY <2>2, <2>3
<1>4. ASSUME 4 * q + 2 \in DOMAIN x
      PROVE  x[4 * q + 2] = ((At(b, 3 * q + 1) * 16) % 64) + (At(b, 3 * q + 2) \div 16)
  <2>1. 4 * q + 1 + 1 = 4 * q + 2 /\ 3 * q + 1 + 1 = 3 * q + 2
        /\ 3 - 1 = 2 /\ 1 + 1 = 2 /\ 1 \in 0 .. 3
    OBVIOUS
  <2> QED
    BY <1>1, <1>4, <2>1, Powers
<1>5. ASSUME 4 * q + 3 \in DOMAIN x
      PROVE  x[4 * q + 3] = ((At(b, 3 * q + 2) * 4) % 64) + (At(b, 3 * q + 3) \div 64)
  <2>1. 4 * q + 2 + 1 = 4 * q + 3 /\ 3 * q + 2 + 1 = 3 * q + 3
        /\ 3 - 2 = 1 /\ 2 + 1 = 3 /\ 2 \in 0 .. 3
    OBVIOUS
  <2> QED
    BY <1>1, <1>5, <2>1, Powers
<1>6. ASSUME 4 * q + 4 \in DOMAIN x PROVE x[4 * q + 4] = At(b, 3 * q + 3) % 64
  <2>1. 4 * q + 3 + 1 = 4 * q + 4 /\ 3 * q + 3 + 1 = 3 * q + 4
        /\ 3 - 3 = 0 /\ 3 + 1 = 4 /\ 3 \in 0 .. 3
    OBVIOUS
  <2>2. x[4 * q + 4] = ((At(b, 3 * q + 3) * 1) % 64) + (At(b, 3 * q + 4) \div 256)
    BY <1>1, <1>6, <2>1, Powers
  <2>3. /\ (At(b, 3 * q + 3) * 1) % 64 = At(b, 3 * q + 3) % 64
        /\ At(b, 3 * q + 3) % 64 \in Nat
        /\ At(b, 3 * q + 4) \div 256 = 0
    BY <1>2, EdgeBits
  <2> QED
    BY <2>2, <2>3
<1> QED
  BY <1>3, <1>4, <1>5, <1>6 DEF x

\* How many bytes there are.
LEMMA BytesLength ==
  ASSUME NEW S, NEW x \in Seq(S)
  PROVE  /\ DOMAIN FromSextets(x) = 1 .. (3 * Len(x)) \div 4
         /\ Len(FromSextets(x)) = (3 * Len(x)) \div 4
BY DEF FromSextets

\* The three bytes of a group in terms of its four sextets.
LEMMA BytesOf ==
  ASSUME NEW S, NEW x \in Seq(S), NEW q \in Nat
  PROVE  LET y == FromSextets(x)
         IN /\ 3 * q + 1 \in DOMAIN y =>
                 y[3 * q + 1] = ((x[4 * q + 1] * 4) % 256) + (x[4 * q + 2] \div 16)
            /\ 3 * q + 2 \in DOMAIN y =>
                 y[3 * q + 2] = ((x[4 * q + 2] * 16) % 256) + (x[4 * q + 3] \div 4)
            /\ 3 * q + 3 \in DOMAIN y =>
                 y[3 * q + 3] = ((x[4 * q + 3] * 64) % 256) + (x[4 * q + 4] \div 1)
<1> DEFINE y == FromSextets(x)
<1>1. ASSUME NEW i \in 0 .. 2, 3 * q + i + 1 \in DOMAIN y
      PROVE  y[3 * q + i + 1] =
               ((x[4 * q + i + 1] * 4^(i + 1)) % 256) + (x[4 * q + i + 1 + 1] \div 4^(2 - i))
  <2>1. (3 * q + i + 1 - 1) % 3 = i /\ (3 * q + i + 1 - 1) \div 3 = q
    BY PlaceInTriple
  <2>2. 3 * q + i + 1 \in 1 .. (3 * Len(x)) \div 4
    BY <1>1, BytesLength
  <2> QED
    BY <2>1, <2>2 DEF FromSextets
<1> HIDE DEF y
<1>2. ASSUME 3 * q + 1 \in DOMAIN y
      PROVE  y[3 * q + 1] = ((x[4 * q + 1] * 4) % 256) + (x[4 * q + 2] \div 16)
  <2>1. 3 * q + 0 + 1 = 3 * q + 1 /\ 4 * q + 0 + 1 = 4 * q + 1 /\ 4 * q + 0 + 1 + 1 = 4 * q + 2
        /\ 0 + 1 = 1 /\ 2 - 0 = 2 /\ 0 \in 0 .. 2
    OBVIOUS
  <2> QED
    BY <1>1, <1>2, <2>1, Powers
<1>3. ASSUME 3 * q + 2 \in DOMAIN y
      PROVE  y[3 * q + 2] = ((x[4 * q + 2] * 16) % 256) + (x[4 * q + 3] \div 4)
  <2>1. 3 * q + 1 + 1 = 3 * q + 2 /\ 4 * q + 1 + 1 = 4 * q + 2 /\ 4 * q + 1 + 1 + 1 = 4 * q + 3
        /\ 1 + 1 = 2 /\ 2 - 1 = 1 /\ 1 \in 0 .. 2
    OBVIOUS
  <2> QED
    BY <1>1, <1>3, <2>1, Powers
<1>4. ASSUME 3 * q + 3 \in DOMAIN y
      PROVE  y[3 * q + 3] = ((x[4 * q + 3] * 64) % 256) + (x[4 * q + 4] \div 1)
  <2>1. 3 * q + 2 + 1 = 3 * q + 3 /\ 4 * q + 2 + 1 = 4 * q + 3 /\ 4 * q + 2 + 1 + 1 = 4 * q + 4
        /\ 2 + 1 = 3 /\ 2 - 2 = 0 /\ 2 \in 0 .. 2
    OBVIOUS
  <2> QED
    BY <1>1, <1>4, <2>1, Powers
<1> QED
  BY <1>2, <1>3, <1>4 DEF y
\* Three bytes regrouped into four sextets and back.
LEMMA RegroupBytes ==
  ASSUME NEW B1 \in Byte, NEW B2 \in Byte, NEW B3 \in Byte
  PROVE  /\ (((B1 \div 4) * 4) % 256) + ((((B1 * 16) % 64) + (B2 \div 16)) \div 16) = B1
         /\ (((((B1 * 16) % 64) + (B2 \div 16)) * 16) % 256)
               + ((((B2 * 4) % 64) + (B3 \div 64)) \div 4) = B2
         /\ (((((B2 * 4) % 64) + (B3 \div 64)) * 64) % 256) + ((B3 % 64) \div 1) = B3
<1>1. (((B1 \div 4) * 4) % 256) + ((((B1 * 16) % 64) + (B2 \div 16)) \div 16) = B1
  BY SMTT(60) DEF Byte
<1>2. (((((B1 * 16) % 64) + (B2 \div 16)) * 16) % 256)
         + ((((B2 * 4) % 64) + (B3 \div 64)) \div 4) = B2
  BY SMTT(60) DEF Byte
<1>3. (((((B2 * 4) % 64) + (B3 \div 64)) * 64) % 256) + ((B3 % 64) \div 1) = B3
  BY SMTT(60) DEF Byte
<1> QED
  BY <1>1, <1>2, <1>3

\* A sextet of a byte string is a sextet.
LEMMA SextetRange ==
  ASSUME NEW B1 \in Byte, NEW B2 \in Byte, NEW B3 \in Byte
  PROVE  /\ B1 \div 4 \in Sextet
         /\ ((B1 * 16) % 64) + (B2 \div 16) \in Sextet
         /\ ((B2 * 4) % 64) + (B3 \div 64) \in Sextet
         /\ B3 % 64 \in Sextet
<1>1. B1 \div 4 \in Sextet
  BY DEF Byte, Sextet
<1>2. ((B1 * 16) % 64) + (B2 \div 16) \in Sextet
  BY SMTT(60) DEF Byte, Sextet
<1>3. ((B2 * 4) % 64) + (B3 \div 64) \in Sextet
  BY SMTT(60) DEF Byte, Sextet
<1>4. B3 % 64 \in Sextet
  BY DEF Byte, Sextet
<1> QED
  BY <1>1, <1>2, <1>3, <1>4

\* The bits of the last sextet that no byte fills are zero.
LEMMA UnusedBits ==
  ASSUME NEW v \in Byte
  PROVE  /\ (((v * 16) % 64) + (0 \div 16)) % 16 = 0
         /\ (((v * 4) % 64) + (0 \div 64)) % 4 = 0
<1>1. (((v * 16) % 64) + (0 \div 16)) % 16 = 0
  BY DEF Byte
<1>2. (((v * 4) % 64) + (0 \div 64)) % 4 = 0
  BY DEF Byte
<1> QED
  BY <1>1, <1>2

\* The encoder's sextets are a text that the decoder finds complete: its last
\* group is not a single sextet, and its unused bits are zero.
LEMMA SextetsType ==
  ASSUME NEW b \in Seq(Byte)
  PROVE  ToSextets(b) \in Seq(Sextet) /\ SextetsFit(ToSextets(b))
<1> DEFINE x == ToSextets(b)
<1>1. PICK n \in Nat : n = Len(b) /\ DOMAIN b = 1 .. n
  OBVIOUS
<1>2. DOMAIN x = 1 .. (4 * n + 2) \div 3 /\ Len(x) = (4 * n + 2) \div 3
  BY <1>1, SextetsLength
<1>3. \A k : At(b, k) \in Byte
  BY AtByte
<1>4. ASSUME NEW k \in DOMAIN x PROVE x[k] \in Sextet
  <2>1. PICK q \in Nat : k = 4 * q + 1 \/ k = 4 * q + 2 \/ k = 4 * q + 3 \/ k = 4 * q + 4
    <3>1. k \in Nat \ {0}
      BY <1>2
    <3> QED
      BY <3>1, Quads
  <2> HIDE DEF x
  <2>2. /\ At(b, 3 * q + 1) \div 4 \in Sextet
        /\ ((At(b, 3 * q + 1) * 16) % 64) + (At(b, 3 * q + 2) \div 16) \in Sextet
        /\ ((At(b, 3 * q + 2) * 4) % 64) + (At(b, 3 * q + 3) \div 64) \in Sextet
        /\ At(b, 3 * q + 3) % 64 \in Sextet
    BY <1>3, SextetRange
  <2> QED
    BY <1>4, <2>1, <2>2, SextetsOf DEF x
<1>5. x \in Seq(Sextet)
  <2>1. x = [k \in 1 .. (4 * n + 2) \div 3 |-> x[k]]
    BY <1>1 DEF ToSextets
  <2>2. (4 * n + 2) \div 3 \in Nat
    OBVIOUS
  <2> HIDE DEF x
  <2> QED
    BY <1>2, <1>4, <2>1, <2>2, SequenceOf
<1> HIDE DEF x
<1>6. PICK m \in Nat : n = 3 * m \/ n = 3 * m + 1 \/ n = 3 * m + 2
  BY Thirds
<1>7. CASE n = 3 * m
  <2>1. Len(x) = 4 * m
    BY <1>2, <1>7
  <2>2. Len(x) % 4 = 0
    BY <2>1
  <2> QED
    BY <1>5, <2>2 DEF SextetsFit, x
<1>8. CASE n = 3 * m + 1
  <2>1. Len(x) = 4 * m + 2
    BY <1>2, <1>8
  <2>2. Len(x) % 4 = 2
    BY <2>1
  <2>3. x[4 * m + 2] = ((At(b, 3 * m + 1) * 16) % 64) + (At(b, 3 * m + 2) \div 16)
    BY <1>2, <2>1, SextetsOf DEF x
  <2>4. At(b, 3 * m + 2) = 0
    BY <1>1, <1>8 DEF At
  <2>5. x[4 * m + 2] % 16 = 0
    BY <1>3, <2>3, <2>4, UnusedBits
  <2>6. Last(x) = x[4 * m + 2]
    BY <2>1 DEF Last
  <2> QED
    BY <1>5, <2>2, <2>5, <2>6 DEF SextetsFit, x
<1>9. CASE n = 3 * m + 2
  <2>1. Len(x) = 4 * m + 3
    BY <1>2, <1>9
  <2>2. Len(x) % 4 = 3
    BY <2>1
  <2>3. x[4 * m + 3] = ((At(b, 3 * m + 2) * 4) % 64) + (At(b, 3 * m + 3) \div 64)
    BY <1>2, <2>1, SextetsOf DEF x
  <2>4. At(b, 3 * m + 3) = 0
    BY <1>1, <1>9 DEF At
  <2>5. x[4 * m + 3] % 4 = 0
    BY <1>3, <2>3, <2>4, UnusedBits
  <2>6. Last(x) = x[4 * m + 3]
    BY <2>1 DEF Last
  <2> QED
    BY <1>5, <2>2, <2>5, <2>6 DEF SextetsFit, x
<1> QED
  BY <1>6, <1>7, <1>8, <1>9

\* Encoding in base64 and decoding again gives the bytes back.
LEMMA Base64RoundTrip ==
  ASSUME NEW b \in Seq(Byte)
  PROVE  FromSextets(ToSextets(b)) = b
<1> DEFINE x == ToSextets(b)
           y == FromSextets(x)
<1>1. PICK n \in Nat : n = Len(b) /\ DOMAIN b = 1 .. n
  OBVIOUS
<1>2. DOMAIN x = 1 .. (4 * n + 2) \div 3 /\ Len(x) = (4 * n + 2) \div 3
  BY <1>1, SextetsLength
<1>3. x \in Seq(Sextet)
  BY SextetsType
<1>4. (3 * ((4 * n + 2) \div 3)) \div 4 = n
  OBVIOUS
<1>5. DOMAIN y = 1 .. n
  <2> HIDE DEF x
  <2> QED
    BY <1>2, <1>3, <1>4, BytesLength
<1>6. ASSUME NEW k \in 1 .. n PROVE y[k] = b[k]
  <2>1. PICK q \in Nat : k = 3 * q + 1 \/ k = 3 * q + 2 \/ k = 3 * q + 3
    <3>1. k \in Nat \ {0}
      OBVIOUS
    <3> QED
      BY <3>1, Triples
  <2>2. At(b, 3 * q + 1) \in Byte /\ At(b, 3 * q + 2) \in Byte /\ At(b, 3 * q + 3) \in Byte
    BY AtByte
  <2>3. b[k] = At(b, k)
    BY <1>1 DEF At
  <2> HIDE DEF x, y
  <2>4. CASE k = 3 * q + 1
    <3>1. 4 * q + 1 \in DOMAIN x /\ 4 * q + 2 \in DOMAIN x
      BY <1>2, <2>4
    <3>2. /\ x[4 * q + 1] = At(b, 3 * q + 1) \div 4
          /\ x[4 * q + 2] = ((At(b, 3 * q + 1) * 16) % 64) + (At(b, 3 * q + 2) \div 16)
      BY <3>1, SextetsOf DEF x
    <3>3. y[k] = ((x[4 * q + 1] * 4) % 256) + (x[4 * q + 2] \div 16)
      <4>1. 3 * q + 1 \in DOMAIN y
        BY <1>5, <2>4
      <4> QED
        BY <1>3, <2>4, <4>1, BytesOf DEF y
    <3>4. y[k] = At(b, 3 * q + 1)
      BY <2>2, <3>2, <3>3, RegroupBytes
    <3> QED
      BY <2>3, <2>4, <3>4
  <2>5. CASE k = 3 * q + 2
    <3>1. 4 * q + 2 \in DOMAIN x /\ 4 * q + 3 \in DOMAIN x
      BY <1>2, <2>5
    <3>2. /\ x[4 * q + 2] = ((At(b, 3 * q + 1) * 16) % 64) + (At(b, 3 * q + 2) \div 16)
          /\ x[4 * q + 3] = ((At(b, 3 * q + 2) * 4) % 64) + (At(b, 3 * q + 3) \div 64)
      BY <3>1, SextetsOf DEF x
    <3>3. y[k] = ((x[4 * q + 2] * 16) % 256) + (x[4 * q + 3] \div 4)
      <4>1. 3 * q + 2 \in DOMAIN y
        BY <1>5, <2>5
      <4> QED
        BY <1>3, <2>5, <4>1, BytesOf DEF y
    <3>4. y[k] = At(b, 3 * q + 2)
      BY <2>2, <3>2, <3>3, RegroupBytes
    <3> QED
      BY <2>3, <2>5, <3>4
  <2>6. CASE k = 3 * q + 3
    <3>1. 4 * q + 3 \in DOMAIN x /\ 4 * q + 4 \in DOMAIN x
      BY <1>2, <2>6
    <3>2. /\ x[4 * q + 3] = ((At(b, 3 * q + 2) * 4) % 64) + (At(b, 3 * q + 3) \div 64)
          /\ x[4 * q + 4] = At(b, 3 * q + 3) % 64
      BY <3>1, SextetsOf DEF x
    <3>3. y[k] = ((x[4 * q + 3] * 64) % 256) + (x[4 * q + 4] \div 1)
      <4>1. 3 * q + 3 \in DOMAIN y
        BY <1>5, <2>6
      <4> QED
        BY <1>3, <2>6, <4>1, BytesOf DEF y
    <3>4. y[k] = At(b, 3 * q + 3)
      BY <2>2, <3>2, <3>3, RegroupBytes
    <3> QED
      BY <2>3, <2>6, <3>4
  <2> QED
    BY <2>1, <2>4, <2>5, <2>6
<1>7. y = [k \in DOMAIN y |-> y[k]] /\ b = [k \in DOMAIN b |-> b[k]]
  BY DEF FromSextets
<1> HIDE DEF y
<1> QED
  BY <1>1, <1>5, <1>6, <1>7 DEF y
\* Four sextets regrouped into three bytes and back, in a full group and in
\* the two kinds of a last one.
LEMMA FirstByte ==
  ASSUME NEW X1 \in Sextet, NEW X2 \in Sextet,
         NEW B1, B1 = ((X1 * 4) % 256) + (X2 \div 16)
  PROVE  /\ B1 \in Byte
         /\ B1 \div 4 = X1
         /\ X2 % 16 = 0 => ((B1 * 16) % 64) + (0 \div 16) = X2
<1>1. B1 \in Byte /\ B1 \div 4 = X1
  BY SMTT(60) DEF Byte, Sextet
<1>2. X2 % 16 = 0 => ((B1 * 16) % 64) + (0 \div 16) = X2
  BY SMTT(60) DEF Sextet
<1> QED
  BY <1>1, <1>2

\* The second byte of a group, made of X2 and X3: X2 can be read off the first
\* two bytes, and X3 off this one alone when its unused bits are zero.
LEMMA SecondByte ==
  ASSUME NEW X1 \in Sextet, NEW X2 \in Sextet, NEW X3 \in Sextet,
         NEW B1, B1 = ((X1 * 4) % 256) + (X2 \div 16),
         NEW B2, B2 = ((X2 * 16) % 256) + (X3 \div 4)
  PROVE  /\ B2 \in Byte
         /\ ((B1 * 16) % 64) + (B2 \div 16) = X2
         /\ X3 % 4 = 0 => ((B2 * 4) % 64) + (0 \div 64) = X3
<1>1. B2 \in Byte
  BY SMTT(60) DEF Byte, Sextet
<1>2. ((B1 * 16) % 64) + (B2 \div 16) = X2
  BY SMTT(60) DEF Sextet
<1>3. X3 % 4 = 0 => ((B2 * 4) % 64) + (0 \div 64) = X3
  BY SMTT(60) DEF Sextet
<1> QED
  BY <1>1, <1>2, <1>3

\* The third byte of a group, made of X3 and X4: X3 can be read off the last
\* two bytes, and X4 off this one.
LEMMA ThirdByte ==
  ASSUME NEW X2 \in Sextet, NEW X3 \in Sextet, NEW X4 \in Sextet,
         NEW B2, B2 = ((X2 * 16) % 256) + (X3 \div 4),
         NEW B3, B3 = ((X3 * 64) % 256) + (X4 \div 1)
  PROVE  /\ B3 \in Byte
         /\ ((B2 * 4) % 64) + (B3 \div 64) = X3
         /\ B3 % 64 = X4
<1>1. B3 \in Byte /\ B3 % 64 = X4
  BY SMTT(60) DEF Byte, Sextet
<1>2. ((B2 * 4) % 64) + (B3 \div 64) = X3
  BY SMTT(60) DEF Sextet
<1> QED
  BY <1>1, <1>2

\* Decoding a complete base64 text gives bytes, and encoding those gives the
\* text back: no two texts of sextets stand for the same bytes.
LEMMA SextetsRoundTrip ==
  ASSUME NEW x \in Seq(Sextet), SextetsFit(x)
  PROVE  FromSextets(x) \in Seq(Byte) /\ ToSextets(FromSextets(x)) = x
<1> DEFINE y == FromSextets(x)
           z == ToSextets(y)
<1>1. PICK L \in Nat : L = Len(x) /\ DOMAIN x = 1 .. L
  OBVIOUS
<1>2. PICK n \in Nat : n = (3 * L) \div 4
  OBVIOUS
<1>3. L % 4 # 1
  BY <1>1 DEF SextetsFit
<1>4. \A k \in 1 .. L : x[k] \in Sextet
  BY <1>1
<1>5. DOMAIN y = 1 .. n /\ Len(y) = n /\ y = [k \in 1 .. n |-> y[k]]
  BY <1>1, <1>2 DEF FromSextets
<1> HIDE DEF y
\* The bytes of the group q, as far as it is there.
<1>6. ASSUME NEW q \in Nat, 3 * q + 1 \in 1 .. n
      PROVE  /\ x[4 * q + 1] \in Sextet /\ x[4 * q + 2] \in Sextet
             /\ y[3 * q + 1] = ((x[4 * q + 1] * 4) % 256) + (x[4 * q + 2] \div 16)
  <2>1. 4 * q + 1 \in 1 .. L /\ 4 * q + 2 \in 1 .. L
    BY <1>2, <1>6
  <2>2. 3 * q + 1 \in DOMAIN y
    BY <1>5, <1>6
  <2> QED
    BY <1>4, <2>1, <2>2, BytesOf DEF y
<1>7. ASSUME NEW q \in Nat, 3 * q + 2 \in 1 .. n
      PROVE  /\ 3 * q + 1 \in 1 .. n /\ x[4 * q + 3] \in Sextet
             /\ y[3 * q + 2] = ((x[4 * q + 2] * 16) % 256) + (x[4 * q + 3] \div 4)
  <2>1. 3 * q + 1 \in 1 .. n /\ 4 * q + 3 \in 1 .. L
    BY <1>2, <1>7
  <2>2. 3 * q + 2 \in DOMAIN y
    BY <1>5, <1>7
  <2> QED
    BY <1>4, <2>1, <2>2, BytesOf DEF y
<1>8. ASSUME NEW q \in Nat, 3 * q + 3 \in 1 .. n
      PROVE  /\ 3 * q + 2 \in 1 .. n /\ x[4 * q + 4] \in Sextet
             /\ y[3 * q + 3] = ((x[4 * q + 3] * 64) % 256) + (x[4 * q + 4] \div 1)
  <2>1. 3 * q + 2 \in 1 .. n /\ 4 * q + 4 \in 1 .. L
    BY <1>2, <1>8
  <2>2. 3 * q + 3 \in DOMAIN y
    BY <1>5, <1>8
  <2> QED
    BY <1>4, <2>1, <2>2, BytesOf DEF y
\* What those bytes are, and which sextets they give back.
<1>9. ASSUME NEW q \in Nat, 3 * q + 1 \in 1 .. n
      PROVE  /\ y[3 * q + 1] \in Byte
             /\ y[3 * q + 1] \div 4 = x[4 * q + 1]
             /\ x[4 * q + 2] % 16 = 0 =>
                  ((y[3 * q + 1] * 16) % 64) + (0 \div 16) = x[4 * q + 2]
  BY <1>6, <1>9, FirstByte
<1>10. ASSUME NEW q \in Nat, 3 * q + 2 \in 1 .. n
       PROVE  /\ y[3 * q + 2] \in Byte
              /\ ((y[3 * q + 1] * 16) % 64) + (y[3 * q + 2] \div 16) = x[4 * q + 2]
              /\ x[4 * q + 3] % 4 = 0 =>
                   ((y[3 * q + 2] * 4) % 64) + (0 \div 64) = x[4 * q + 3]
  BY <1>6, <1>7, <1>10, SecondByte
<1>11. ASSUME NEW q \in Nat, 3 * q + 3 \in 1 .. n
       PROVE  /\ y[3 * q + 3] \in Byte
              /\ ((y[3 * q + 2] * 4) % 64) + (y[3 * q + 3] \div 64) = x[4 * q + 3]
              /\ y[3 * q + 3] % 64 = x[4 * q + 4]
  BY <1>6, <1>7, <1>8, <1>11, ThirdByte
<1>12. ASSUME NEW k \in 1 .. n PROVE y[k] \in Byte
  <2>1. PICK q \in Nat : k = 3 * q + 1 \/ k = 3 * q + 2 \/ k = 3 * q + 3
    <3>1. k \in Nat \ {0}
      OBVIOUS
    <3> QED
      BY <3>1, Triples
  <2> QED
    BY <1>9, <1>10, <1>11, <2>1
<1>13. y \in Seq(Byte)
  BY <1>5, <1>12, SequenceOf
<1>14. (4 * n + 2) \div 3 = L
  BY <1>2, <1>3
<1>15. DOMAIN z = 1 .. L /\ z = [k \in 1 .. L |-> z[k]]
  <2>1. DOMAIN z = 1 .. L
    BY <1>5, <1>13, <1>14, SextetsLength
  <2> QED
    BY <2>1 DEF ToSextets
<1>16. /\ \A k \in 1 .. n : At(y, k) = y[k]
       /\ \A k : k \notin 1 .. n => At(y, k) = 0
  BY <1>5 DEF At
<1> HIDE DEF z
<1>17. ASSUME NEW k \in 1 .. L PROVE z[k] = x[k]
  <2>1. PICK q \in Nat : k = 4 * q + 1 \/ k = 4 * q + 2 \/ k = 4 * q + 3 \/ k = 4 * q + 4
    <3>1. k \in Nat \ {0}
      OBVIOUS
    <3> QED
      BY <3>1, Quads
  <2>2. CASE k = 4 * q + 1
    <3>1. 3 * q + 1 \in 1 .. n
      BY <1>2, <1>3, <2>2
    <3>2. z[k] = At(y, 3 * q + 1) \div 4
      BY <1>13, <1>15, <2>2, SextetsOf DEF z
    <3> QED
      BY <1>9, <1>16, <2>2, <3>1, <3>2
  <2>3. CASE k = 4 * q + 2
    <3>1. 3 * q + 1 \in 1 .. n
      BY <1>2, <2>3
    <3>2. z[k] = ((At(y, 3 * q + 1) * 16) % 64) + (At(y, 3 * q + 2) \div 16)
      BY <1>13, <1>15, <2>3, SextetsOf DEF z
    <3>3. CASE L > k
      <4>1. 3 * q + 2 \in 1 .. n
        BY <1>2, <2>3, <3>3
      <4> QED
        BY <1>10, <1>16, <2>3, <3>1, <3>2, <4>1
    <3>4. CASE L = k
      <4>1. 3 * q + 2 \notin 1 .. n
        BY <1>2, <2>3, <3>4
      <4>2. x[4 * q + 2] % 16 = 0
        BY <1>1, <2>3, <3>4 DEF SextetsFit, Last
      <4>3. z[k] = ((y[3 * q + 1] * 16) % 64) + (0 \div 16)
        BY <1>16, <3>1, <3>2, <4>1
      <4> QED
        BY <1>9, <2>3, <3>1, <4>2, <4>3
    <3> QED
      BY <3>3, <3>4
  <2>4. CASE k = 4 * q + 3
    <3>1. 3 * q + 2 \in 1 .. n
      BY <1>2, <2>4
    <3>2. z[k] = ((At(y, 3 * q + 2) * 4) % 64) + (At(y, 3 * q + 3) \div 64)
      BY <1>13, <1>15, <2>4, SextetsOf DEF z
    <3>3. CASE L > k
      <4>1. 3 * q + 3 \in 1 .. n
        BY <1>2, <2>4, <3>3
      <4> QED
        BY <1>11, <1>16, <2>4, <3>1, <3>2, <4>1
    <3>4. CASE L = k
      <4>1. 3 * q + 3 \notin 1 .. n
        BY <1>2, <2>4, <3>4
      <4>2. x[4 * q + 3] % 4 = 0
        BY <1>1, <2>4, <3>4 DEF SextetsFit, Last
      <4>3. z[k] = ((y[3 * q + 2] * 4) % 64) + (0 \div 64)
        BY <1>16, <3>1, <3>2, <4>1
      <4> QED
        BY <1>10, <2>4, <3>1, <4>2, <4>3
    <3> QED
      BY <3>3, <3>4
  <2>5. CASE k = 4 * q + 4
    <3>1. 3 * q + 3 \in 1 .. n
      BY <1>2, <2>5
    <3>2. z[k] = At(y, 3 * q + 3) % 64
      BY <1>13, <1>15, <2>5, SextetsOf DEF z
    <3> QED
      BY <1>11, <1>16, <2>5, <3>1, <3>2
  <2> QED
    BY <2>1, <2>2, <2>3, <2>4, <2>5
<1>18. x = [k \in 1 .. L |-> x[k]]
  BY <1>1
<1> QED
  BY <1>13, <1>15, <1>17, <1>18 DEF y, z

-----------------------------------------------------------------------------
(* The decoders on what the encoders write, and what they accept           *)

\* The padding that is due: none, one or two characters.
LEMMA PaddingDue ==
  ASSUME NEW n \in Nat, n % 4 # 1
  PROVE  /\ (4 - (n % 4)) % 4 \in 0 .. 2
         /\ Padding(n) \in Seq({Equals}) /\ Len(Padding(n)) = (4 - (n % 4)) % 4
         /\ DOMAIN Padding(n) = 1 .. (4 - (n % 4)) % 4
         /\ \A k \in DOMAIN Padding(n) : Padding(n)[k] = Equals
<1>1. (4 - (n % 4)) % 4 \in 0 .. 2
  OBVIOUS
<1> QED
  BY <1>1 DEF Padding

\* A text and the '=' after it, character by character.
LEMMA PaddedText ==
  ASSUME NEW u \in Seq(Char), NEW n \in Nat, n % 4 # 1
  PROVE  LET t == u \o Padding(n)
             p == (4 - (n % 4)) % 4
         IN /\ t \in Seq(Char) /\ Len(t) = Len(u) + p
            /\ \A k \in 1 .. Len(u) : t[k] = u[k]
            /\ \A k \in Len(u) + 1 .. Len(u) + p : t[k] = Equals
<1>1. /\ (4 - (n % 4)) % 4 \in 0 .. 2
      /\ Padding(n) \in Seq({Equals}) /\ Len(Padding(n)) = (4 - (n % 4)) % 4
      /\ \A k \in 1 .. (4 - (n % 4)) % 4 : Padding(n)[k] = Equals
  BY PaddingDue
<1>2. Equals \in Char
  BY DEF Equals, Char
<1> DEFINE p == (4 - (n % 4)) % 4
<1> HIDE DEF p
<1>3. u \o Padding(n) \in Seq(Char)
  BY <1>1, <1>2
<1>4. Len(u \o Padding(n)) = Len(u) + p
  BY <1>1 DEF p
<1>5. \A k \in 1 .. Len(u) : (u \o Padding(n))[k] = u[k]
  BY <1>1
<1>6. \A k \in Len(u) + 1 .. Len(u) + p : (u \o Padding(n))[k] = Equals
  BY <1>1 DEF p
<1> QED
  BY <1>3, <1>4, <1>5, <1>6 DEF p

\* The sextets are characters of the base64 alphabet, so none is '='.
LEMMA SextetsAreChars ==
  ASSUME NEW x \in Seq(Sextet)
  PROVE  x \in Seq(Char) /\ Len(x) \in Nat /\ \A k \in 1 .. Len(x) : x[k] # Equals
<1>1. \A k \in 1 .. Len(x) : x[k] \in Sextet
  OBVIOUS
<1>2. \A c \in Sextet : c \in Char /\ c # Equals
  BY DEF Sextet, Char, Equals
<1>3. x \in Seq(Char)
  BY <1>1, <1>2, SequenceOver
<1> QED
  BY <1>1, <1>2, <1>3

\* A text without '=' is found again in what its padding makes of it.
LEMMA BodyOfPadded ==
  ASSUME NEW u \in Seq(Char), \A k \in 1 .. Len(u) : u[k] # Equals,
         NEW v \in Seq(Char), \A k \in 1 .. Len(v) : v[k] # Equals,
         NEW m \in Nat, m % 4 # 1, NEW n \in Nat, n % 4 # 1,
         u \o Padding(m) = v \o Padding(n)
  PROVE  u = v
<1> DEFINE t == u \o Padding(m)
           p == (4 - (m % 4)) % 4
           r == (4 - (n % 4)) % 4
<1>1. /\ Len(t) = Len(u) + p
      /\ \A k \in 1 .. Len(u) : t[k] = u[k]
      /\ \A k \in Len(u) + 1 .. Len(u) + p : t[k] = Equals
  BY PaddedText
<1>2. /\ Len(t) = Len(v) + r
      /\ \A k \in 1 .. Len(v) : t[k] = v[k]
      /\ \A k \in Len(v) + 1 .. Len(v) + r : t[k] = Equals
  <2>1. t = v \o Padding(n)
    OBVIOUS
  <2> HIDE DEF t
  <2> QED
    BY <2>1, PaddedText
<1>3. p \in 0 .. 2 /\ r \in 0 .. 2
  BY PaddingDue
<1>4. Len(u) \in Nat /\ Len(v) \in Nat
  OBVIOUS
<1> HIDE DEF t, p, r
<1>5. ASSUME Len(u) < Len(v) PROVE FALSE
  <2>1. Len(v) \in 1 .. Len(v) /\ Len(v) \in Len(u) + 1 .. Len(u) + p
    BY <1>1, <1>2, <1>3, <1>4, <1>5
  <2> QED
    BY <1>1, <1>2, <2>1
<1>6. ASSUME Len(v) < Len(u) PROVE FALSE
  <2>1. Len(u) \in 1 .. Len(u) /\ Len(u) \in Len(v) + 1 .. Len(v) + r
    BY <1>1, <1>2, <1>3, <1>4, <1>6
  <2> QED
    BY <1>1, <1>2, <2>1
<1>7. Len(u) = Len(v)
  BY <1>4, <1>5, <1>6
<1>8. \A k \in 1 .. Len(u) : u[k] = v[k]
  BY <1>1, <1>2, <1>7
<1> QED
  BY <1>7, <1>8

\* Unpadded takes the due padding off, and nothing else.
LEMMA UnpaddedText ==
  ASSUME NEW x \in Seq(Sextet), Len(x) % 4 # 1
  PROVE  Unpadded(x \o Padding(Len(x))) = x
<1> DEFINE t == x \o Padding(Len(x))
           p == (4 - (Len(x) % 4)) % 4
<1>1. x \in Seq(Char) /\ Len(x) \in Nat /\ \A k \in 1 .. Len(x) : x[k] # Equals
  BY SextetsAreChars
<1>2. /\ t \in Seq(Char) /\ Len(t) = Len(x) + p
      /\ \A k \in 1 .. Len(x) : t[k] = x[k]
      /\ \A k \in Len(x) + 1 .. Len(x) + p : t[k] = Equals
  BY <1>1, PaddedText
<1>3. p \in 0 .. 2 /\ (p = 2 => Len(x) > 0) /\ (p = 1 => Len(x) > 0)
  BY <1>1, PaddingDue
<1> HIDE DEF t, p
<1>4. SubSeq(t, 1, Len(x)) = x
  <2>1. SubSeq(t, 1, Len(x)) \in Seq(Char) /\ Len(SubSeq(t, 1, Len(x))) = Len(x)
    BY <1>1, <1>2, <1>3
  <2>2. \A k \in 1 .. Len(x) : SubSeq(t, 1, Len(x))[k] = x[k]
    BY <1>1, <1>2, <1>3
  <2> QED
    BY <1>1, <2>1, <2>2
<1>5. CASE p = 0
  <2>1. Len(t) > 0 => t[Len(t)] # Equals
    BY <1>1, <1>2, <1>5
  <2>2. Len(t) > 1 => t[Len(t) - 1] # Equals
    BY <1>1, <1>2, <1>5
  <2>3. Len(t) = Len(x)
    BY <1>1, <1>2, <1>5
  <2>4. Unpadded(t) = SubSeq(t, 1, Len(x))
    BY <1>1, <2>1, <2>2, <2>3 DEF Unpadded
  <2> QED
    BY <1>4, <2>4 DEF t
<1>6. CASE p = 1
  <2>1. Len(t) = Len(x) + 1 /\ Len(x) > 0
    BY <1>1, <1>2, <1>3, <1>6
  <2>2. t[Len(t)] = Equals /\ t[Len(t) - 1] # Equals
    BY <1>1, <1>2, <1>6, <2>1
  <2>3. Len(t) > 0 /\ Len(t) - 1 = Len(x)
    BY <1>1, <2>1
  <2>4. Unpadded(t) = SubSeq(t, 1, Len(x))
    BY <2>2, <2>3 DEF Unpadded
  <2> QED
    BY <1>4, <2>4 DEF t
<1>7. CASE p = 2
  <2>1. Len(t) > 1 /\ Len(t) - 2 = Len(x)
    BY <1>1, <1>2, <1>3, <1>7
  <2>2. t[Len(t) - 1] = Equals
    BY <1>1, <1>2, <1>7, <2>1
  <2>3. Unpadded(t) = SubSeq(t, 1, Len(x))
    BY <2>1, <2>2 DEF Unpadded
  <2> QED
    BY <1>4, <2>3 DEF t
<1> QED
  BY <1>3, <1>5, <1>6, <1>7

\* STANDARD decodes what STANDARD encoded.
LEMMA StandardDecodes ==
  ASSUME NEW x \in Seq(Sextet), SextetsFit(x)
  PROVE  Standard(x \o Padding(Len(x))) = Decoded(FromSextets(x))
<1>1. Len(x) % 4 # 1
  BY DEF SextetsFit
<1>2. ToSet(x) \subseteq 0 .. Slash
  <2>1. \A k \in 1 .. Len(x) : x[k] \in Sextet
    OBVIOUS
  <2>2. Sextet = 0 .. Slash
    BY DEF Sextet, Slash
  <2> QED
    BY <2>1, <2>2, ToSetElements
<1> QED
  BY <1>1, <1>2, UnpaddedText DEF Standard

\* STANDARD accepts nothing else.
LEMMA StandardAccepts ==
  ASSUME NEW text \in Seq(Char), Standard(text).ok
  PROVE  \E x \in Seq(Sextet) :
            /\ SextetsFit(x) /\ text = x \o Padding(Len(x))
            /\ Standard(text) = Decoded(FromSextets(x))
<1> DEFINE x == Unpadded(text)
<1>1. /\ ToSet(x) \subseteq 0 .. Slash /\ SextetsFit(x) /\ text = x \o Padding(Len(x))
      /\ Standard(text) = Decoded(FromSextets(x))
  BY DEF Standard, Refused
<1>2. x \in Seq(Char)
  BY DEF Unpadded
<1> HIDE DEF x
<1>3. x \in Seq(Sextet)
  BY <1>1, <1>2, ToSetElements, SequenceOver DEF Slash, Sextet
<1> QED
  BY <1>1, <1>3

\* The characters URL_SAFE_NO_PAD decodes.
UrlAlphabet == (0 .. 61) \cup {Minus, Underscore}

\* The url alphabet is another way to write the sextets 62 and 63.
LEMMA UrlCharRoundTrip ==
  ASSUME NEW v \in Sextet
  PROVE  /\ UrlChar(v) \in UrlAlphabet /\ UrlChar(v) \in Char /\ UrlChar(v) # Equals
         /\ UrlSextet(UrlChar(v)) = v
         /\ UrlChar(v) \in Sextet => UrlChar(v) = v
BY DEF UrlChar, UrlSextet, UrlAlphabet, Char, Sextet, Minus, Underscore, Equals

\* A character of that alphabet is written as it was read.
LEMMA UrlSextetRoundTrip ==
  ASSUME NEW c \in UrlAlphabet
  PROVE  UrlSextet(c) \in Sextet /\ UrlChar(UrlSextet(c)) = c
BY DEF UrlChar, UrlSextet, UrlAlphabet, Sextet, Minus, Underscore

\* A text of the url alphabet, character by character.
LEMMA UrlTextOf ==
  ASSUME NEW x \in Seq(Sextet)
  PROVE  /\ UrlText(x) \in Seq(Char) /\ Len(UrlText(x)) = Len(x)
         /\ DOMAIN UrlText(x) = 1 .. Len(x)
         /\ \A k \in 1 .. Len(x) : UrlText(x)[k] = UrlChar(x[k])
         /\ \A k \in 1 .. Len(x) : UrlText(x)[k] # Equals
<1>1. PICK n \in Nat : n = Len(x) /\ DOMAIN x = 1 .. n
  OBVIOUS
<1>2. UrlText(x) = [k \in 1 .. n |-> UrlChar(x[k])]
  BY <1>1 DEF UrlText
<1>3. \A k \in 1 .. n : UrlText(x)[k] = UrlChar(x[k]) /\ x[k] \in Sextet
  BY <1>1, <1>2
<1>4. \A v \in Sextet : UrlChar(v) \in Char /\ UrlChar(v) # Equals
  BY UrlCharRoundTrip
<1>5. UrlText(x) \in Seq(Char) /\ Len(UrlText(x)) = n
  <2>1. UrlText(x) = [k \in 1 .. n |-> UrlText(x)[k]]
    BY <1>2
  <2> QED
    BY <1>3, <1>4, <2>1, SequenceOf
<1> QED
  BY <1>1, <1>2, <1>3, <1>4, <1>5

\* URL_SAFE_NO_PAD decodes what it encoded.
LEMMA UrlDecodes ==
  ASSUME NEW x \in Seq(Sextet), SextetsFit(x)
  PROVE  UrlSafeNoPad(UrlText(x)) = Decoded(FromSextets(x))
<1> DEFINE t == UrlText(x)
<1>1. PICK n \in Nat : n = Len(x) /\ DOMAIN x = 1 .. n
  OBVIOUS
<1>2. /\ t \in Seq(Char) /\ Len(t) = n /\ DOMAIN t = 1 .. n
      /\ \A k \in 1 .. n : t[k] = UrlChar(x[k]) /\ x[k] \in Sextet
  BY <1>1, UrlTextOf
<1> HIDE DEF t
<1>3. [k \in DOMAIN t |-> UrlSextet(t[k])] = x
  <2>1. [k \in 1 .. n |-> UrlSextet(t[k])] = [k \in 1 .. n |-> x[k]]
    BY <1>2, UrlCharRoundTrip
  <2>2. x = [k \in 1 .. n |-> x[k]]
    BY <1>1
  <2> QED
    BY <1>2, <2>1, <2>2
<1>4. ToSet(t) \subseteq UrlAlphabet
  <2>1. \A k \in 1 .. Len(t) : t[k] \in UrlAlphabet
    BY <1>2, UrlCharRoundTrip
  <2> QED
    BY <1>2, <2>1, ToSetElements
<1> QED
  BY <1>3, <1>4 DEF UrlSafeNoPad, UrlAlphabet, t

\* URL_SAFE_NO_PAD accepts nothing else.
LEMMA UrlAccepts ==
  ASSUME NEW text \in Seq(Char), UrlSafeNoPad(text).ok
  PROVE  \E x \in Seq(Sextet) :
            /\ SextetsFit(x) /\ text = UrlText(x)
            /\ UrlSafeNoPad(text) = Decoded(FromSextets(x))
<1> DEFINE x == [k \in DOMAIN text |-> UrlSextet(text[k])]
<1>1. /\ ToSet(text) \subseteq UrlAlphabet /\ SextetsFit(x)
      /\ UrlSafeNoPad(text) = Decoded(FromSextets(x))
  BY DEF UrlSafeNoPad, UrlAlphabet, Refused
<1>2. PICK n \in Nat : n = Len(text) /\ DOMAIN text = 1 .. n
  OBVIOUS
<1>3. \A k \in 1 .. n : text[k] \in UrlAlphabet
  BY <1>1, <1>2, ToSetElements
<1>4. x = [k \in 1 .. n |-> UrlSextet(text[k])]
  BY <1>2
<1>5. x \in Seq(Sextet) /\ Len(x) = n
  <2>1. \A k \in 1 .. n : x[k] \in Sextet
    BY <1>3, <1>4, UrlSextetRoundTrip
  <2>2. x = [k \in 1 .. n |-> x[k]]
    BY <1>4
  <2> HIDE DEF x
  <2> QED
    BY <2>1, <2>2, SequenceOf
<1>6. UrlText(x) = text
  <2>1. UrlText(x) = [k \in 1 .. n |-> UrlChar(x[k])]
    BY <1>4 DEF UrlText
  <2>2. [k \in 1 .. n |-> UrlChar(x[k])] = [k \in 1 .. n |-> text[k]]
    BY <1>3, <1>4, UrlSextetRoundTrip
  <2>3. text = [k \in 1 .. n |-> text[k]]
    BY <1>2
  <2> QED
    BY <2>1, <2>2, <2>3
<1> HIDE DEF x
<1> QED
  BY <1>1, <1>5, <1>6

\* No character of an accepted hex text is '='.
LEMMA HexHasNoPadding ==
  ASSUME NEW u \in Seq(Char), NEW n \in Nat, n % 4 # 1, LooksLikeHex(u \o Padding(n))
  PROVE  u \o Padding(n) = u
<1> DEFINE t == u \o Padding(n)
           p == (4 - (n % 4)) % 4
<1>1. /\ t \in Seq(Char) /\ Len(t) = Len(u) + p
      /\ \A k \in 1 .. Len(u) : t[k] = u[k]
      /\ \A k \in Len(u) + 1 .. Len(u) + p : t[k] = Equals
  BY PaddedText
<1>2. p \in 0 .. 2 /\ Len(u) \in Nat
  BY PaddingDue
<1>3. LooksLikeHex(t)
  OBVIOUS
<1> HIDE DEF t, p
<1>4. \A k \in 1 .. Len(t) : t[k] \in HexDigits
  BY <1>1, <1>3, ToSetElements DEF LooksLikeHex
<1>5. Equals \notin HexDigits
  BY DEF Equals, HexDigits, Digits
<1>6. ASSUME p # 0 PROVE FALSE
  <2>1. Len(t) \in 1 .. Len(t) /\ Len(t) \in Len(u) + 1 .. Len(u) + p
    BY <1>1, <1>2, <1>6
  <2> QED
    BY <1>1, <1>4, <1>5, <2>1
<1>7. Len(t) = Len(u)
  BY <1>1, <1>2, <1>6
<1> QED
  BY <1>1, <1>7 DEF t

-----------------------------------------------------------------------------
(* decode_payload                                                          *)

\* A text of the url alphabet that STANDARD accepts, with its padding or
\* without any, has none of the two characters the alphabets differ in.
LEMMA SameInBothAlphabets ==
  ASSUME NEW x \in Seq(Sextet), SextetsFit(x),
         NEW text, text = UrlText(x) \/ text = UrlText(x) \o Padding(Len(x)),
         Standard(text).ok
  PROVE  Standard(text) = Decoded(FromSextets(x))
<1>1. /\ UrlText(x) \in Seq(Char) /\ Len(UrlText(x)) = Len(x) /\ Len(x) \in Nat
      /\ \A k \in 1 .. Len(x) : UrlText(x)[k] = UrlChar(x[k])
      /\ \A k \in 1 .. Len(x) : UrlText(x)[k] # Equals
  BY UrlTextOf
<1>2. Len(x) % 4 # 1
  BY DEF SextetsFit
<1>3. PICK m \in Nat : m % 4 # 1 /\ text = UrlText(x) \o Padding(m)
  <2>1. CASE text = UrlText(x)
    <3>1. Padding(0) = <<>> /\ 0 % 4 # 1
      <4>1. (4 - (0 % 4)) % 4 = 0
        OBVIOUS
      <4> QED
        BY <4>1 DEF Padding
    <3>2. UrlText(x) = UrlText(x) \o <<>>
      BY <1>1
    <3> QED
      BY <2>1, <3>1, <3>2
  <2>2. CASE text = UrlText(x) \o Padding(Len(x))
    BY <1>1, <1>2, <2>2
  <2> QED
    BY <2>1, <2>2
<1>4. text \in Seq(Char)
  BY <1>1, <1>3, PaddedText
<1>5. PICK v \in Seq(Sextet) :
         /\ SextetsFit(v) /\ text = v \o Padding(Len(v))
         /\ Standard(text) = Decoded(FromSextets(v))
  BY <1>4, StandardAccepts
<1>6. v \in Seq(Char) /\ Len(v) \in Nat /\ Len(v) % 4 # 1 /\ \A k \in 1 .. Len(v) : v[k] # Equals
  BY <1>5, SextetsAreChars DEF SextetsFit
<1>7. UrlText(x) = v
  BY <1>1, <1>3, <1>5, <1>6, BodyOfPadded
<1>8. \A k \in 1 .. Len(x) : v[k] = x[k]
  <2>1. \A k \in 1 .. Len(x) : x[k] \in Sextet /\ v[k] \in Sextet
    BY <1>1, <1>7
  <2> QED
    BY <1>1, <1>7, <2>1, UrlCharRoundTrip
<1>9. v = x
  BY <1>1, <1>7, <1>8
<1> QED
  BY <1>5, <1>9

\* A text with '=' at its end is not URL_SAFE_NO_PAD.
LEMMA UrlRefusesPadding ==
  ASSUME NEW u \in Seq(Char), NEW n \in Nat, n % 4 # 1
  PROVE  u \o Padding(n) = u \/ UrlSafeNoPad(u \o Padding(n)) = Refused
<1> DEFINE t == u \o Padding(n)
           p == (4 - (n % 4)) % 4
<1>1. /\ t \in Seq(Char) /\ Len(t) = Len(u) + p
      /\ \A k \in 1 .. Len(u) : t[k] = u[k]
      /\ \A k \in Len(u) + 1 .. Len(u) + p : t[k] = Equals
  BY PaddedText
<1>2. p \in 0 .. 2 /\ Len(u) \in Nat
  BY PaddingDue
<1> HIDE DEF t, p
<1>3. CASE p = 0
  <2>1. Len(t) = Len(u)
    BY <1>1, <1>2, <1>3
  <2> QED
    BY <1>1, <2>1 DEF t
<1>4. CASE p # 0
  <2>1. Len(t) \in 1 .. Len(t) /\ t[Len(t)] = Equals
    BY <1>1, <1>2, <1>4
  <2>2. Equals \notin UrlAlphabet
    BY DEF Equals, UrlAlphabet, Minus, Underscore
  <2>3. ~(ToSet(t) \subseteq UrlAlphabet)
    BY <1>1, <2>1, <2>2, ToSetElements
  <2> QED
    BY <2>3 DEF UrlSafeNoPad, UrlAlphabet, t
<1> QED
  BY <1>3, <1>4

\* decode_payload gives back the bytes a client encoded, unless the text could
\* be hex, or is base64url with padding, which it may refuse.
LEMMA DecodesWhatWasEncoded ==
  ASSUME NEW encoding \in Encodings, NEW b \in Seq(Byte), ~Mistakable(encoding, b)
  PROVE  \/ DecodePayload(Encode(encoding, b)) = Decoded(b)
         \/ encoding = "base64urlPadded" /\ DecodePayload(Encode(encoding, b)) = Refused
<1> DEFINE x == ToSextets(b)
<1>1. /\ x \in Seq(Sextet) /\ SextetsFit(x) /\ FromSextets(x) = b
      /\ Len(x) \in Nat /\ Len(x) % 4 # 1
  BY SextetsType, Base64RoundTrip DEF SextetsFit
<1>2. /\ Standard(x \o Padding(Len(x))) = Decoded(b)
      /\ UrlSafeNoPad(UrlText(x)) = Decoded(b)
      /\ Decoded(b).ok
  BY <1>1, StandardDecodes, UrlDecodes DEF Decoded
<1>3. CASE encoding = "hex"
  BY <1>3, HexRoundTrip DEF Encode, DecodePayload
<1>4. CASE encoding = "HEX"
  BY <1>4, HexRoundTrip DEF Encode, DecodePayload
<1>5. CASE encoding = "base64"
  <2>1. Encode(encoding, b) = x \o Padding(Len(x))
    BY <1>5 DEF Encode
  <2>2. ~LooksLikeHex(Encode(encoding, b))
    BY <1>5 DEF Mistakable
  <2> QED
    BY <1>2, <2>1, <2>2 DEF DecodePayload
<1>6. CASE encoding = "base64url"
  <2>1. Encode(encoding, b) = UrlText(x)
    BY <1>6 DEF Encode
  <2>2. ~LooksLikeHex(Encode(encoding, b))
    BY <1>6 DEF Mistakable
  <2>3. Standard(UrlText(x)).ok => Standard(UrlText(x)) = Decoded(b)
    BY <1>1, SameInBothAlphabets
  <2> QED
    BY <1>2, <2>1, <2>2, <2>3 DEF DecodePayload
<1>7. CASE encoding = "base64urlPadded"
  <2> DEFINE t == UrlText(x) \o Padding(Len(x))
  <2>1. Encode(encoding, b) = t
    BY <1>7 DEF Encode
  <2>2. ~LooksLikeHex(Encode(encoding, b))
    BY <1>7 DEF Mistakable
  <2>3. Standard(t).ok => Standard(t) = Decoded(b)
    BY <1>1, SameInBothAlphabets
  <2>4. UrlText(x) \in Seq(Char)
    BY <1>1, UrlTextOf
  <2>5. t = UrlText(x) \/ UrlSafeNoPad(t) = Refused
    BY <1>1, <2>4, UrlRefusesPadding
  <2> HIDE DEF t
  <2> QED
    BY <1>2, <1>7, <2>1, <2>2, <2>3, <2>5 DEF DecodePayload
<1> QED
  BY <1>3, <1>4, <1>5, <1>6, <1>7 DEF Encodings

\* The text of a single byte could be hex only if its low bits are zero, and
\* then it is not the byte's own hex text.
LEMMA OneByteIsNotItsHex ==
  ASSUME NEW v \in Byte, NEW c \in Char, NEW d \in Char,
         c = UrlChar(v \div 4) \/ c = v \div 4,
         d = UrlChar((v * 16) % 64) \/ d = (v * 16) % 64,
         c \in HexDigits, d \in HexDigits
  PROVE  16 * HexValue(c) + HexValue(d) # v
<1>1. c = v \div 4
  BY DEF UrlChar, HexDigits, Digits, Minus, Underscore
<1>2. d = (v * 16) % 64
  BY DEF UrlChar, HexDigits, Digits, Minus, Underscore
<1>3. d = 0 /\ v % 4 = 0
  BY <1>2, SMTT(60) DEF Byte, HexDigits, Digits
<1>4. HexValue(d) = 10
  BY <1>3 DEF HexValue, Digits
<1>5. v = 4 * c
  BY <1>1, <1>3 DEF Byte
<1> QED
  BY <1>4, <1>5, SMTT(60) DEF HexValue, HexDigits, Digits

\* A base64 text of hex digits, read as hex, has half as many bytes as it has
\* characters: too few, but for a single byte, which differs.
LEMMA HexOfBase64Differs ==
  ASSUME NEW b \in Seq(Byte), b # <<>>, NEW t \in Seq(Char), LooksLikeHex(t),
         t = ToSextets(b) \/ t = UrlText(ToSextets(b))
  PROVE  FromHex(t) # b
<1> DEFINE x == ToSextets(b)
<1>1. PICK n \in Nat : n = Len(b) /\ DOMAIN b = 1 .. n /\ n > 0
  OBVIOUS
<1>2. x \in Seq(Sextet) /\ DOMAIN x = 1 .. (4 * n + 2) \div 3 /\ Len(x) = (4 * n + 2) \div 3
  BY <1>1, SextetsType, SextetsLength
<1>3. /\ Len(t) = (4 * n + 2) \div 3
      /\ \A k \in DOMAIN x : t[k] = UrlChar(x[k]) \/ t[k] = x[k]
  BY <1>2, UrlTextOf
<1>4. \A k \in 1 .. Len(t) : t[k] \in HexDigits /\ t[k] \in Char
  BY ToSetElements DEF LooksLikeHex
<1>5. Len(FromHex(t)) = Len(t) \div 2
  BY HexTextsCanonical
<1> SUFFICES ASSUME FromHex(t) = b PROVE FALSE
  OBVIOUS
<1>6. n = 1 /\ (4 * n + 2) \div 3 = 2
  <2>1. n = ((4 * n + 2) \div 3) \div 2
    BY <1>1, <1>3, <1>5
  <2> QED
    BY <1>1, <2>1
<1>7. b[1] \in Byte /\ At(b, 1) = b[1] /\ At(b, 2) = 0
  BY <1>1, <1>6 DEF At
<1>8. x[1] = b[1] \div 4 /\ x[2] = (b[1] * 16) % 64
  <2>1. 4 * 0 + 1 \in DOMAIN x /\ 4 * 0 + 2 \in DOMAIN x
    BY <1>2, <1>6
  <2>2. /\ x[4 * 0 + 1] = At(b, 3 * 0 + 1) \div 4
        /\ x[4 * 0 + 2] = ((At(b, 3 * 0 + 1) * 16) % 64) + (At(b, 3 * 0 + 2) \div 16)
    BY <2>1, SextetsOf
  <2>3. 4 * 0 + 1 = 1 /\ 4 * 0 + 2 = 2 /\ 3 * 0 + 1 = 1 /\ 3 * 0 + 2 = 2
    OBVIOUS
  <2>4. x[1] = b[1] \div 4 /\ x[2] = ((b[1] * 16) % 64) + (0 \div 16)
    BY <1>7, <2>2, <2>3
  <2>5. (b[1] * 16) % 64 \in Nat /\ 0 \div 16 = 0
    <3>1. \A v \in Byte : (v * 16) % 64 \in Nat
      BY DEF Byte
    <3>2. 0 \div 16 = 0
      OBVIOUS
    <3> QED
      BY <1>7, <3>1, <3>2
  <2> QED
    BY <2>4, <2>5
<1>9. 1 \in DOMAIN x /\ 2 \in DOMAIN x /\ Len(t) = 2
  BY <1>2, <1>3, <1>6
<1>10. b[1] = 16 * HexValue(t[1]) + HexValue(t[2])
  <2>1. FromHex(t)[1] = 16 * HexValue(t[2 * 1 - 1]) + HexValue(t[2 * 1])
    BY <1>9 DEF FromHex
  <2> QED
    BY <2>1
<1> HIDE DEF x
<1>11. /\ t[1] = UrlChar(b[1] \div 4) \/ t[1] = b[1] \div 4
       /\ t[2] = UrlChar((b[1] * 16) % 64) \/ t[2] = (b[1] * 16) % 64
  BY <1>3, <1>8, <1>9
<1>12. t[1] \in HexDigits /\ t[2] \in HexDigits /\ t[1] \in Char /\ t[2] \in Char
  BY <1>4, <1>9
<1> QED
  BY <1>7, <1>10, <1>11, <1>12, OneByteIsNotItsHex

\* What could be hex is decoded as hex, to other bytes than were encoded.
LEMMA MistakenForHex ==
  ASSUME NEW encoding \in Encodings, NEW b \in Seq(Byte), Mistakable(encoding, b)
  PROVE  /\ DecodePayload(Encode(encoding, b)) = Decoded(FromHex(Encode(encoding, b)))
         /\ b = <<>> \/ FromHex(Encode(encoding, b)) # b
<1> DEFINE x == ToSextets(b)
           t == Encode(encoding, b)
<1>1. LooksLikeHex(t) /\ encoding \in {"base64", "base64url", "base64urlPadded"}
  BY DEF Mistakable
<1>2. x \in Seq(Char) /\ UrlText(x) \in Seq(Char) /\ Len(x) \in Nat /\ Len(x) % 4 # 1
  BY SextetsType, SextetsAreChars, UrlTextOf DEF SextetsFit
<1>3. t = x \/ t = UrlText(x)
  <2>1. t = x \o Padding(Len(x)) \/ t = UrlText(x) \/ t = UrlText(x) \o Padding(Len(x))
    BY <1>1 DEF Encode
  <2> HIDE DEF x, t
  <2> QED
    BY <1>1, <1>2, <2>1, HexHasNoPadding
<1>4. DecodePayload(t) = Decoded(FromHex(t))
  BY <1>1 DEF DecodePayload
<1> HIDE DEF t
<1>5. b = <<>> \/ FromHex(t) # b
  BY <1>1, <1>2, <1>3, HexOfBase64Differs
<1> QED
  BY <1>4, <1>5 DEF t

\* Every text that decode_payload accepts is what one of the encoders makes of
\* the bytes it stands for, up to the case of hex.
LEMMA AcceptsOnlyEncodings ==
  ASSUME NEW text \in Seq(Char), DecodePayload(text).ok
  PROVE  LET bytes == DecodePayload(text).bytes
         IN \/ LooksLikeHex(text) /\ Lowered(text) = Encode("hex", bytes)
            \/ \E encoding \in {"base64", "base64url"} : text = Encode(encoding, bytes)
<1>1. CASE LooksLikeHex(text)
  <2>1. DecodePayload(text).bytes = FromHex(text)
    BY <1>1 DEF DecodePayload, Decoded
  <2> QED
    BY <1>1, <2>1, HexTextsCanonical DEF Encode
<1>2. CASE ~LooksLikeHex(text) /\ Standard(text).ok
  <2>1. PICK x \in Seq(Sextet) :
           /\ SextetsFit(x) /\ text = x \o Padding(Len(x))
           /\ Standard(text) = Decoded(FromSextets(x))
    BY <1>2, StandardAccepts
  <2>2. DecodePayload(text).bytes = FromSextets(x)
    BY <1>2, <2>1 DEF DecodePayload, Decoded
  <2>3. text = Encode("base64", FromSextets(x))
    BY <2>1, SextetsRoundTrip DEF Encode
  <2> QED
    BY <2>2, <2>3
<1>3. CASE ~LooksLikeHex(text) /\ ~Standard(text).ok
  <2>1. DecodePayload(text) = UrlSafeNoPad(text)
    BY <1>3 DEF DecodePayload
  <2>2. PICK x \in Seq(Sextet) :
           /\ SextetsFit(x) /\ text = UrlText(x)
           /\ UrlSafeNoPad(text) = Decoded(FromSextets(x))
    BY <2>1, UrlAccepts
  <2>3. DecodePayload(text).bytes = FromSextets(x)
    BY <2>1, <2>2 DEF Decoded
  <2>4. text = Encode("base64url", FromSextets(x))
    BY <2>2, SextetsRoundTrip DEF Encode
  <2> QED
    BY <2>3, <2>4
<1> QED
  BY <1>1, <1>2, <1>3

-----------------------------------------------------------------------------
(* The endpoints                                                           *)

\* An endpoint gets these bytes from a request that sends them in this form, or
\* refuses it for its padding.
ReceivedAs(how, bytes) ==
    \/ Received(how, bytes) = Decoded(bytes)
    \/ how = "base64urlPadded" /\ Received(how, bytes) = Refused

\* Over gRPC and in every encoding, an endpoint gets the bytes that were meant
\* unless their text could be hex, or refuses padded base64url.
LEMMA ReceivesWhatWasMeant ==
  ASSUME NEW how \in Forms, NEW bytes \in Seq(Byte), ~Mistakable(how, bytes)
  PROVE  ReceivedAs(how, bytes)
<1>1. CASE how = "grpc"
  BY <1>1 DEF ReceivedAs, Received
<1>2. CASE how \in Encodings
  <2>1. Received(how, bytes) = DecodePayload(Encode(how, bytes))
    BY <1>2 DEF Received, Encodings
  <2> QED
    BY <1>2, <2>1, DecodesWhatWasEncoded DEF ReceivedAs
<1> QED
  BY <1>1, <1>2 DEF Forms

\* The request, what the sign endpoint made of it, and what the verify endpoint
\* answered, each a function of the one before.
MeantType ==
    \/ meant \in ByteStrings /\ form \in Forms
    \/ meant \in Texts /\ form = "text"

SignedRight ==
    signed # NotYet =>
        LET got == Received(form, meant)
        IN \/ /\ got.ok /\ signed.state = "signed" /\ signed.bytes = got.bytes
              /\ signed.signature \in SignatureBytes
           \/ ~got.ok /\ signed.state = "INVALID_PAYLOAD"

CheckRight ==
    check # NotYet =>
        /\ signed # NotYet /\ signed.state = "signed"
        /\ meant \in ByteStrings /\ form \in Forms
        /\ check.payload \in VerifyStrings /\ check.how \in Forms
        /\ check.signature \in SignatureBytes /\ check.sigHow \in Forms
        /\ check.state = VerifyAnswer(Received(check.how, check.payload),
                                      Received(check.sigHow, check.signature))

IInv == MeantType /\ SignedRight /\ CheckRight

\* The invariant of a request and its verification.
LEMMA Invariance == Spec => []IInv
<1>1. Init => IInv
  BY DEF Init, IInv, MeantType, SignedRight, CheckRight
<1>2. IInv /\ [Next]_vars => IInv'
  <2> SUFFICES ASSUME IInv, [Next]_vars PROVE IInv'
    OBVIOUS
  <2> USE DEF IInv, MeantType
  <2>1. CASE SignRequest
    <3>1. MeantType' /\ Received(form, meant)' = Received(form, meant)
      BY <2>1 DEF SignRequest
    <3>2. SignedRight'
      <4> DEFINE got == Received(form, meant)
      <4>1. CASE got.ok
        <5>1. PICK sig \in SignatureBytes :
                 signed' = [state |-> "signed", bytes |-> got.bytes,
                            signature_hex |-> Encode("hex", sig), signature |-> sig]
          BY <2>1, <4>1 DEF SignRequest
        <5> HIDE DEF got
        <5>2. signed'.state = "signed" /\ signed'.bytes = got.bytes /\ signed'.signature = sig
          BY <5>1
        <5> QED
          BY <3>1, <4>1, <5>2 DEF SignedRight, got
      <4>2. CASE ~got.ok
        <5>1. signed' = [state |-> "INVALID_PAYLOAD"]
          BY <2>1, <4>2 DEF SignRequest
        <5> QED
          BY <3>1, <4>2, <5>1 DEF SignedRight
      <4> QED
        BY <4>1, <4>2
    <3>3. check' = NotYet
      BY <2>1 DEF SignRequest, CheckRight
    <3> QED
      BY <3>1, <3>2, <3>3 DEF CheckRight
  <2>2. CASE VerifyRequest
    <3>1. MeantType' /\ SignedRight'
      BY <2>2 DEF VerifyRequest, SignedRight
    <3>2. PICK payload \in VerifyStrings, signature \in SignatureBytes, how \in Forms, sigHow \in Forms :
             check' = [state |-> VerifyAnswer(Received(how, payload), Received(sigHow, signature)),
                       payload |-> payload, how |-> how,
                       signature |-> signature, sigHow |-> sigHow]
      BY <2>2 DEF VerifyRequest
    <3>3. signed # NotYet /\ signed.state = "signed" /\ meant \in ByteStrings /\ form \in Forms
      BY <2>2 DEF VerifyRequest, NotYet
    <3>4. UNCHANGED <<signed, meant, form>>
      BY <2>2 DEF VerifyRequest
    <3>5. CheckRight'
      BY <3>2, <3>3, <3>4 DEF CheckRight, VerifyAnswer
    <3> QED
      BY <3>1, <3>5
  <2>3. CASE UNCHANGED vars
    BY <2>3 DEF vars, SignedRight, CheckRight, VerifyAnswer
  <2> QED
    BY <2>1, <2>2, <2>3 DEF Next
<1> QED
  BY <1>1, <1>2, PTL DEF Spec

\* For payloads of any length and any bytes: what is signed is what was meant,
\* but for a base64 text that could be hex, which never is, and padded
\* base64url, which may be refused.
THEOREM SignsWhatWasMeant == Spec => []SignedAsMeant
<1>1. IInv => SignedAsMeant
  <2> SUFFICES ASSUME IInv, signed # NotYet, form # "text"
               PROVE  IF Mistakable(form, meant)
                        THEN signed.state = "signed" /\ (meant = <<>> \/ signed.bytes # meant)
                        ELSE \/ signed.state = "signed" /\ signed.bytes = meant
                             \/ signed.state = "INVALID_PAYLOAD" /\ form = "base64urlPadded"
    BY DEF SignedAsMeant
  <2>1. meant \in Seq(Byte) /\ form \in Forms
    BY PayloadsAssumption DEF IInv, MeantType
  <2>2. CASE Mistakable(form, meant)
    <3>1. form \in Encodings /\ form \notin {"grpc", "text"}
      BY <2>2 DEF Mistakable, Encodings
    <3>2. /\ Received(form, meant) = Decoded(FromHex(Encode(form, meant)))
          /\ meant = <<>> \/ FromHex(Encode(form, meant)) # meant
      BY <2>1, <2>2, <3>1, MistakenForHex DEF Received
    <3> QED
      BY <2>2, <3>2 DEF IInv, SignedRight, Decoded
  <2>3. CASE ~Mistakable(form, meant)
    BY <2>1, <2>3, ReceivesWhatWasMeant DEF ReceivedAs, IInv, SignedRight, Decoded, Refused
  <2> QED
    BY <2>2, <2>3
<1> QED
  BY <1>1, Invariance, PTL

\* For texts of any length: the sign endpoint accepts no second spelling of the
\* same bytes in one encoding, but for the case of hex.
THEOREM OneTextPerEncoding == Spec => []AcceptedTextsAreCanonical
<1>1. IInv => AcceptedTextsAreCanonical
  <2> SUFFICES ASSUME IInv, signed.state = "signed", form = "text"
               PROVE  \/ LooksLikeHex(meant) /\ Lowered(meant) = Encode("hex", signed.bytes)
                      \/ \E encoding \in {"base64", "base64url"} :
                            meant = Encode(encoding, signed.bytes)
    BY DEF AcceptedTextsAreCanonical
  <2>1. meant \in Seq(Char)
    BY PayloadsAssumption DEF IInv, MeantType, Forms, Encodings
  <2>2. Received(form, meant) = DecodePayload(meant)
    BY DEF Received
  <2>3. signed # NotYet
    BY DEF NotYet
  <2>4. DecodePayload(meant).ok /\ signed.bytes = DecodePayload(meant).bytes
    BY <2>2, <2>3 DEF IInv, SignedRight
  <2> QED
    BY <2>1, <2>4, AcceptsOnlyEncodings
<1> QED
  BY <1>1, Invariance, PTL

\* For payloads and signatures of any length: a signature verifies in every
\* form, for the payload it was made of and for no other.
THEOREM VerifiesAlike == Spec => []VerifiesInEveryForm
<1>1. IInv => VerifiesInEveryForm
  <2> SUFFICES ASSUME IInv, check # NotYet, ~Mistakable(form, meant),
                      ~Mistakable(check.how, check.payload),
                      ~Mistakable(check.sigHow, check.signature)
               PROVE  \/ check.state \in {"INVALID_PAYLOAD", "INVALID_SIGNATURE"}
                           /\ "base64urlPadded" \in {check.how, check.sigHow}
                      \/ (check.state = "valid") <=>
                            (check.payload = meant /\ check.signature = signed.signature)
    BY DEF VerifiesInEveryForm
  <2> DEFINE p == Received(check.how, check.payload)
             s == Received(check.sigHow, check.signature)
  <2>1. /\ meant \in Seq(Byte) /\ check.payload \in Seq(Byte) /\ check.signature \in Seq(Byte)
        /\ form \in Forms /\ check.how \in Forms /\ check.sigHow \in Forms
    BY PayloadsAssumption DEF IInv, CheckRight
  <2>2. signed.bytes = meant
    <3>1. ReceivedAs(form, meant)
      BY <2>1, ReceivesWhatWasMeant
    <3> QED
      BY <3>1 DEF ReceivedAs, IInv, CheckRight, SignedRight, Decoded, Refused
  <2>3. p = Decoded(check.payload) \/ (check.how = "base64urlPadded" /\ p = Refused)
    <3>1. ReceivedAs(check.how, check.payload)
      BY <2>1, ReceivesWhatWasMeant
    <3> QED
      BY <3>1 DEF ReceivedAs
  <2>4. s = Decoded(check.signature) \/ (check.sigHow = "base64urlPadded" /\ s = Refused)
    <3>1. ReceivedAs(check.sigHow, check.signature)
      BY <2>1, ReceivesWhatWasMeant
    <3> QED
      BY <3>1 DEF ReceivedAs
  <2>5. check.state = VerifyAnswer(p, s)
    BY DEF IInv, CheckRight
  <2> HIDE DEF p, s
  <2> QED
    BY <2>2, <2>3, <2>4, <2>5 DEF VerifyAnswer, Decoded, Refused
<1> QED
  BY <1>1, Invariance, PTL
=============================================================================
