-------------------------- MODULE Lighthouses_proofs --------------------------
(***************************************************************************)
(* Proofs about the lighthouses, for words, bytes, buffers and checksums   *)
(* of any size, any packets, and any number of lighthouses and trackers:   *)
(* the decoder takes every frame that it receives whole, whatever came     *)
(* before it.                                                              *)
(***************************************************************************)
EXTENDS Lighthouses, WellFoundedInduction, SequenceTheorems, TLAPS

(* Arithmetic. *)

LEMMA SetInduction ==
    ASSUME NEW T, T \subseteq Nat, 0 \in T, \A n \in T : n + 1 \in T
    PROVE  T = Nat
<1> SUFFICES ASSUME Nat \ T # {} PROVE FALSE
  OBVIOUS
<1>1. PICK n \in Nat \ T : \A m \in Nat \ T : ~ (<<m, n>> \in OpToRel(<, Nat))
  BY WFMin, NatLessThanWellFounded
<1>2. n \in Nat /\ n \notin T /\ n # 0
  OBVIOUS
<1>3. n - 1 \in Nat /\ n - 1 < n /\ (n - 1) + 1 = n
  BY <1>2
<1>4. n - 1 \notin T
  BY <1>2, <1>3
<1>5. <<n - 1, n>> \in OpToRel(<, Nat)
  BY <1>2, <1>3 DEF OpToRel
<1> QED
  BY <1>1, <1>3, <1>4, <1>5

LEMMA SizesAreNat ==
    /\ Word \in Nat /\ Word > 0 /\ Byte \in Nat /\ Byte > 0 /\ Word = 2 * Byte
    /\ Checksum \in Nat /\ Checksum > 0 /\ Buffer * Byte \in Nat /\ Word <= Buffer * Byte
<1>1. Word \in Nat \ {0} /\ Byte \in Nat \ {0} /\ Checksum \in Nat \ {0} /\ Buffer \in Nat \ {0}
      /\ Word = 2 * Byte /\ Word <= Buffer * Byte
  BY DecoderAssumption, Zenon
<1>2. Buffer * Byte \in Nat
  BY <1>1
<1> QED
  BY <1>1, <1>2

LEMMA DivMod ==
    ASSUME NEW d \in Nat, d > 0, NEW q \in Int, NEW r \in 0 .. d - 1
    PROVE  (q * d + r) \div d = q /\ (q * d + r) % d = r
<1> DEFINE n == q * d + r
           t == n \div d
           s == n % d
<1>1. n \in Int /\ t \in Int /\ s \in 0 .. d - 1 /\ n = d * t + s
  OBVIOUS
<1>2. (q - t) * d = s - r
  BY <1>1
<1>3. q - t >= 1 => (q - t) * d >= d
  BY <1>1
<1>4. q - t <= -1 => (q - t) * d <= -d
  BY <1>1
<1>5. q - t = 0
  <2> HIDE DEF n, t, s
  <2>1. (q - t) * d < d /\ (q - t) * d > -d
    BY <1>1, <1>2
  <2> QED
    BY <1>1, <1>3, <1>4, <2>1
<1> QED
  BY <1>1, <1>2, <1>5

\* A place, as a number of words and a bit in the next, and the place after it.
LEMMA PlaceOf ==
    ASSUME NEW n \in Nat, NEW d \in Nat, d > 0
    PROVE  n \div d \in Nat /\ n % d \in 0 .. d - 1 /\ n = (n \div d) * d + (n % d)
<1> DEFINE t == n \div d
           s == n % d
<1>1. t \in Int /\ s \in 0 .. d - 1
  OBVIOUS
<1>2. n = d * t + s
  OBVIOUS
<1>3. t \in Nat
  OBVIOUS
<1> HIDE DEF t, s
<1>4. t \in Nat /\ s \in 0 .. d - 1 /\ n = t * d + s
  BY <1>1, <1>2, <1>3
<1> QED
  BY <1>4 DEF t, s

LEMMA NextPlace ==
    ASSUME NEW d \in Nat, d > 0, NEW q \in Nat, NEW r \in 0 .. d - 1
    PROVE  /\ r < d - 1 => (q * d + r + 1) \div d = q /\ (q * d + r + 1) % d = r + 1
           /\ r = d - 1 => (q * d + r + 1) \div d = q + 1 /\ (q * d + r + 1) % d = 0
<1>1. ASSUME r < d - 1
      PROVE  (q * d + r + 1) \div d = q /\ (q * d + r + 1) % d = r + 1
  <2>1. q * d + r + 1 = q * d + (r + 1) /\ r + 1 \in 0 .. d - 1
    BY <1>1
  <2> QED
    BY <2>1, DivMod
<1>2. ASSUME r = d - 1
      PROVE  (q * d + r + 1) \div d = q + 1 /\ (q * d + r + 1) % d = 0
  <2>1. q * d + r + 1 = (q + 1) * d + 0 /\ 0 \in 0 .. d - 1 /\ q + 1 \in Int
    BY <1>2
  <2> QED
    BY <2>1, DivMod
<1> QED
  BY <1>1, <1>2
-----------------------------------------------------------------------------
(* Lengths. *)

\* The recursion of Number, one step of it.
Values(bits, v) == [j \in 0 .. Word |-> IF j = 0 THEN 0 ELSE 2 * v[j - 1] + bits[j]]

\* A word of bits gives a number.
LEMMA NumberIsNat ==
    ASSUME NEW bits \in [1 .. Word -> {0, 1}]
    PROVE  Number(bits) \in Nat
<1> DEFINE Up(n, v) == /\ v \in [0 .. n -> Nat] /\ v[0] = 0
                       /\ \A j \in 1 .. n : v[j] = 2 * v[j - 1] + bits[j]
           T == {n \in Nat : n <= Word => \E v : Up(n, v)}
<1>1. Word \in Nat
  BY SizesAreNat
<1>2. 0 \in T
  <2>1. Up(0, [j \in 0 .. 0 |-> 0])
    OBVIOUS
  <2> QED
    BY <2>1
<1>3. ASSUME NEW n \in T PROVE n + 1 \in T
  <2> HIDE DEF Up
  <2>0. n \in Nat /\ (n + 1 <= Word => n <= Word)
    BY <1>1
  <2> SUFFICES ASSUME n + 1 <= Word PROVE \E v : Up(n + 1, v)
    BY <2>0
  <2>9. PICK v : Up(n, v)
    BY <2>0
  <2> USE DEF Up
  <2>1. /\ v \in [0 .. n -> Nat] /\ v[0] = 0
        /\ \A j \in 1 .. n : v[j] = 2 * v[j - 1] + bits[j]
    BY <2>9
  <2> DEFINE w == [j \in 0 .. n + 1 |-> IF j = n + 1 THEN 2 * v[n] + bits[n + 1] ELSE v[j]]
  <2>2. n \in Nat /\ bits[n + 1] \in Nat /\ v[n] \in Nat
    <3>1. n \in 0 .. n /\ n + 1 \in 1 .. Word
      BY <1>1, <2>0
    <3>2. v[n] \in Nat
      BY <2>1, <3>1
    <3>3. bits[n + 1] \in {0, 1}
      BY <3>1
    <3> QED
      BY <2>0, <3>2, <3>3
  <2>6. \A j \in 0 .. n : v[j] \in Nat /\ w[j] = v[j]
    BY <2>1, <2>2
  <2>7. w[n + 1] = 2 * v[n] + bits[n + 1]
    BY <2>2
  <2>8. \A j \in 0 .. n + 1 : j = n + 1 \/ j \in 0 .. n
    BY <2>2
  <2>3. w \in [0 .. n + 1 -> Nat]
    <3>1. \A j \in 0 .. n + 1 : w[j] \in Nat
      <4> HIDE DEF w
      <4> QED
        BY <2>2, <2>6, <2>7, <2>8
    <3> QED
      BY <3>1
  <2>4. w[0] = 0
    <3> HIDE DEF w
    <3> QED
      BY <2>1, <2>2, <2>6
  <2>5. ASSUME NEW j \in 1 .. n + 1 PROVE w[j] = 2 * w[j - 1] + bits[j]
    <3> HIDE DEF w
    <3>1. CASE j = n + 1
      <4>1. j - 1 = n /\ n \in 0 .. n
        BY <2>2, <3>1
      <4> QED
        BY <2>6, <2>7, <3>1, <4>1
    <3>2. CASE j \in 1 .. n
      <4>1. j \in 0 .. n /\ j - 1 \in 0 .. n
        BY <2>2, <3>2
      <4> QED
        BY <2>1, <2>6, <3>2, <4>1
    <3> QED
      BY <2>2, <3>1, <3>2
  <2> HIDE DEF w
  <2> QED
    BY <2>3, <2>4, <2>5
<1>4. T = Nat
  <2> HIDE DEF T
  <2>1. T \subseteq Nat
    BY DEF T
  <2> QED
    BY <1>2, <1>3, <2>1, SetInduction
<1>5. PICK v : Up(Word, v)
  <2> HIDE DEF Up
  <2>1. Word \in T
    BY <1>1, <1>4
  <2> QED
    BY <1>1, <2>1
<1>6. v = Values(bits, v)
  BY <1>1, <1>5 DEF Values
<1> DEFINE c == CHOOSE u : u = Values(bits, u)
<1>7. c = Values(bits, c)
  BY <1>6, Zenon
<1>8. Number(bits) = c[Word]
  BY Zenon DEF Number, Values
<1> HIDE DEF c
<1> DEFINE S == {n \in Nat : n <= Word => c[n] \in Nat}
<1>9. 0 \in S
  BY <1>1, <1>7 DEF Values
<1>10. ASSUME NEW n \in S PROVE n + 1 \in S
  <2> SUFFICES ASSUME n + 1 <= Word PROVE c[n + 1] \in Nat
    BY <1>10
  <2>1. n \in Nat /\ c[n] \in Nat /\ bits[n + 1] \in Nat
    BY <1>1
  <2>2. c[n + 1] = 2 * c[n] + bits[n + 1]
    BY <1>1, <1>7, <2>1 DEF Values
  <2> QED
    BY <2>1, <2>2
<1>11. S = Nat
  <2> HIDE DEF S
  <2>1. S \subseteq Nat
    BY DEF S
  <2> QED
    BY <1>9, <1>10, <2>1, SetInduction
<1> QED
  BY <1>1, <1>8, <1>11

Buffers == [0 .. Buffer * Byte - 1 -> {0, 1}]

LEMMA PaddedIsNat ==
    ASSUME NEW x, x.buffer \in Buffers
    PROVE  Padded(x) \in Nat
<1> DEFINE first == [j \in 1 .. Word |-> x.buffer[(j + Byte - 1) % Word]]
           ones == [j \in 1 .. Word |-> 1]
<1>1. first \in [1 .. Word -> {0, 1}]
  <2>1. \A j \in 1 .. Word : (j + Byte - 1) % Word \in 0 .. Word - 1
    BY SizesAreNat
  <2>2. \A i \in 0 .. Word - 1 : x.buffer[i] \in {0, 1}
    BY SizesAreNat DEF Buffers
  <2> QED
    BY <2>1, <2>2
<1>2. ones \in [1 .. Word -> {0, 1}]
  OBVIOUS
<1>3. Number(first) \in Nat /\ Number(ones) \in Nat
  BY <1>1, <1>2, NumberIsNat
<1>4. Padded(x) = (Number(first) + (Number(first) % 2)) % (Number(ones) + 1)
  BY DEF Padded, Length, Numbers
<1> HIDE DEF first, ones
<1>5. Number(first) % 2 \in Nat
  BY <1>3
<1> QED
  BY <1>3, <1>4, <1>5

\* The length is in the first word.
LEMMA SameLength ==
    ASSUME NEW x, NEW y, \A i \in 0 .. Word - 1 : x.buffer[i] = y.buffer[i]
    PROVE  Padded(x) = Padded(y)
<1>1. \A j \in 1 .. Word : (j + Byte - 1) % Word \in 0 .. Word - 1
  BY SizesAreNat
<1>2. [j \in 1 .. Word |-> x.buffer[(j + Byte - 1) % Word]] =
      [j \in 1 .. Word |-> y.buffer[(j + Byte - 1) % Word]]
  BY <1>1
<1>3. Length(x) = Length(y)
  BY <1>2 DEF Length
<1> QED
  BY <1>3 DEF Padded

\* The size of a packet, in bytes and in words.
Bytes(p) == Padded(Holding(p)) + 2 + Checksum
Words(p) == Len(p) \div Word

LEMMA PacketSize ==
    ASSUME NEW p \in Packets
    PROVE  /\ p \in Seq({0, 1}) /\ Len(p) \in Nat /\ Len(p) < Buffer * Byte
           /\ \A i \in 1 .. Len(p) : p[i] \in {0, 1}
           /\ Holding(p).buffer \in Buffers
           /\ \A i \in 0 .. Len(p) - 1 : Holding(p).buffer[i] = p[i + 1]
           /\ Bytes(p) \in Nat /\ Bytes(p) >= 3 /\ Len(p) = Bytes(p) * Byte
           /\ Words(p) \in Nat /\ Words(p) >= 1 /\ Len(p) = Words(p) * Word
<1>1. p \in Seq({0, 1}) /\ Len(p) \in Nat /\ Len(p) < Buffer * Byte
  BY DecoderAssumption
<1>2. \A i \in 1 .. Len(p) : p[i] \in {0, 1}
  BY <1>1
<1>3. Holding(p).buffer = [i \in 0 .. Buffer * Byte - 1 |-> IF i < Len(p) THEN p[i + 1] ELSE 0]
  BY DEF Holding, New
<1>4. Holding(p).buffer \in Buffers
  BY <1>1, <1>2, <1>3, SizesAreNat DEF Buffers
<1>5. \A i \in 0 .. Len(p) - 1 : Holding(p).buffer[i] = p[i + 1]
  BY <1>1, <1>3, SizesAreNat
<1>6. Len(p) = Bytes(p) * Byte /\ Len(p) % Word = 0
  BY PacketAssumption DEF Bytes
<1>7. Bytes(p) \in Nat /\ Bytes(p) >= 3
  BY <1>4, PaddedIsNat, SizesAreNat DEF Bytes
<1>8. Words(p) \in Nat /\ Len(p) = Words(p) * Word
  BY <1>1, <1>6, PlaceOf, SizesAreNat DEF Words
<1>9. Len(p) >= 3 * Byte
  BY <1>6, <1>7, SizesAreNat
<1>10. Words(p) >= 1
  BY <1>8, <1>9, SizesAreNat
<1> QED
  BY <1>1, <1>2, <1>4, <1>5, <1>6, <1>7, <1>8, <1>10

\* Until the last bit of a packet is there it is not taken to be complete,
\* whatever the buffer holds beyond; and then it is, and it is no other.
LEMMA AWordAtLeast ==
    ASSUME NEW p \in Packets
    PROVE  Word <= Len(p)
<1> DEFINE m == Words(p)
<1>1. m \in Nat /\ m >= 1 /\ Len(p) = m * Word
  BY PacketSize
<1>2. Word \in Nat
  BY SizesAreNat
<1> HIDE DEF m
<1>3. (m - 1) * Word >= 0 /\ (m - 1) * Word = m * Word - Word
  BY <1>1, <1>2
<1> QED
  BY <1>1, <1>2, <1>3

LEMMA CompleteAtTheEnd ==
    ASSUME NEW p \in Packets, NEW w, w.buffer \in Buffers, w.at \in 0 .. Len(p),
           \A j \in 0 .. w.at - 1 : w.buffer[j] = p[j + 1]
    PROVE  /\ Complete(w) <=> w.at = Len(p)
           /\ w.at = Len(p) => Packet(w) = {p}
<1> DEFINE a == w.at
           b == a \div Byte
<1>0. Len(p) \in Nat
  BY PacketSize
<1>1. a \in Nat /\ a <= Len(p) /\ b \in Nat
  <2>1. a \in Nat /\ a <= Len(p)
    BY <1>0
  <2> QED
    BY <2>1, PlaceOf, SizesAreNat
<1>2. a = b * Byte + (a % Byte) /\ a % Byte \in 0 .. Byte - 1
  BY <1>1, PlaceOf, SizesAreNat
<1>3. Padded(w) \in Nat
  BY PaddedIsNat
<1>4. ASSUME a >= Word PROVE Padded(w) + 2 + Checksum = Bytes(p)
  <2>1. Word <= Len(p)
    BY AWordAtLeast
  <2>2. \A i \in 0 .. Word - 1 : i \in 0 .. a - 1 /\ i \in 0 .. Len(p) - 1
    <3>1. Word \in Nat
      BY SizesAreNat
    <3> QED
      BY <1>0, <1>1, <1>4, <2>1, <3>1
  <2>3. \A i \in 0 .. Word - 1 : w.buffer[i] = Holding(p).buffer[i]
    BY <2>2, PacketSize
  <2>4. Padded(w) = Padded(Holding(p))
    BY <2>3, SameLength
  <2> QED
    BY <2>4 DEF Bytes
<1>5. Complete(w) <=> b >= Padded(w) + 2 + Checksum
  BY DEF Complete
<1>6. ASSUME a < Word PROVE ~Complete(w) /\ a # Len(p)
  <2>1. b < 2
    <3> HIDE DEF a, b
    <3>1. b >= 2 => b * Byte >= 2 * Byte
      BY <1>1, SizesAreNat
    <3> QED
      BY <1>1, <1>2, <1>6, <3>1, SizesAreNat
  <2>2. Len(p) >= Word
    BY PacketSize, SizesAreNat
  <2> QED
    BY <1>1, <1>3, <1>5, <1>6, <2>1, <2>2, SizesAreNat
<1>7. ASSUME a >= Word PROVE Complete(w) <=> a = Len(p)
  <2>1. Complete(w) <=> b >= Bytes(p)
    BY <1>4, <1>5, <1>7
  <2>2. Len(p) = Bytes(p) * Byte /\ Bytes(p) \in Nat
    BY PacketSize
  <2> HIDE DEF a, b
  <2>3. b >= Bytes(p) => b * Byte >= Bytes(p) * Byte
    BY <1>1, <2>2, SizesAreNat
  <2>4. b < Bytes(p) => b * Byte + Byte <= Bytes(p) * Byte
    <3>1. b < Bytes(p) => (Bytes(p) - b - 1) * Byte >= 0
      BY <1>1, <2>2, SizesAreNat
    <3>2. (Bytes(p) - b - 1) * Byte = Bytes(p) * Byte - b * Byte - Byte
      BY <1>1, <2>2, SizesAreNat
    <3> QED
      BY <1>1, <2>2, <3>1, <3>2, SizesAreNat
  <2> QED
    BY <1>1, <1>2, <2>1, <2>2, <2>3, <2>4, SizesAreNat
<1>8. ASSUME a = Len(p) PROVE Packet(w) = {p}
  <2>1. a >= Word
    BY <1>1, <1>6, <1>8, SizesAreNat
  <2>2. \A i \in 1 .. Len(p) : w.buffer[i - 1] = p[i]
    BY <1>1, <1>8, PacketSize
  <2>3. ASSUME NEW q \in Packets, \A i \in 1 .. Len(q) : w.buffer[i - 1] = q[i] PROVE q = p
    <3>1. \A i \in 0 .. Word - 1 : w.buffer[i] = Holding(q).buffer[i]
      <4>1. Word <= Len(q)
        BY AWordAtLeast
      <4>2. \A i \in 0 .. Word - 1 : i \in 0 .. Len(q) - 1 /\ i + 1 \in 1 .. Len(q) /\ (i + 1) - 1 = i
        BY <4>1, PacketSize, SizesAreNat
      <4> QED
        BY <2>3, <4>2, PacketSize
    <3>2. Padded(w) = Padded(Holding(q))
      BY <3>1, SameLength
    <3>3. Bytes(q) = Bytes(p)
      BY <1>4, <2>1, <3>2 DEF Bytes
    <3>4. Len(q) = Len(p)
      BY <3>3, PacketSize
    <3>5. \A i \in 1 .. Len(p) : q[i] = p[i]
      BY <2>2, <2>3, <3>4
    <3>6. q \in Seq({0, 1}) /\ p \in Seq({0, 1})
      BY PacketSize
    <3> QED
      BY <3>4, <3>5, <3>6, SeqEqual
  <2> QED
    BY <2>2, <2>3 DEF Packet
<1> QED
  BY <1>1, <1>6, <1>7, <1>8, SizesAreNat
-----------------------------------------------------------------------------
(* One bit. *)

\* A decoder between the count of a bit and what is made of it.
Places == 0 .. Buffer * Byte - 1
Counted == [zeros : 0 .. Word + 1, processed : 0 .. Word + 1, found : BOOLEAN,
            buffer : Buffers, at : Places]

LEMMA PlacesAre == 0 \in Places /\ \A a : a \in Places <=> a \in Nat /\ a < Buffer * Byte
<1>1. Buffer * Byte \in Nat /\ Buffer * Byte > 0
  BY SizesAreNat
<1> QED
  BY <1>1 DEF Places

LEMMA DecoderIsCounted ==
    ASSUME NEW x
    PROVE  x \in Decoder <=> x \in Counted /\ x.processed <= Word
BY SizesAreNat DEF Decoder, Counted, Buffers, Places

LEMMA NewIsDecoder == New \in Decoder
<1>1. [i \in 0 .. Buffer * Byte - 1 |-> 0] \in [0 .. Buffer * Byte - 1 -> {0, 1}]
  OBVIOUS
<1> QED
  BY <1>1, SizesAreNat DEF New, Decoder

LEMMA ResetDoes ==
    ASSUME NEW x \in Counted
    PROVE  /\ Reset(x) \in Counted /\ Reset(x).at = 0 /\ Reset(x).found = FALSE
           /\ Reset(x).zeros = x.zeros /\ Reset(x).processed = x.processed
<1> DEFINE cleared == [i \in DOMAIN x.buffer |-> IF i < Word THEN 0 ELSE x.buffer[i]]
<1>1. cleared \in Buffers
  BY DEF Counted, Buffers
<1>2. Reset(x) = [x EXCEPT !.at = 0, !.found = FALSE, !.buffer = cleared]
  BY DEF Reset
<1> HIDE DEF cleared
<1> QED
  BY <1>1, <1>2, PlacesAre DEF Counted

LEMMA WrittenDoes ==
    ASSUME NEW x \in Counted, NEW b \in Bits
    PROVE  LET w == Written(x, b)
           IN /\ w \in Counted /\ w.zeros = x.zeros /\ w.processed = x.processed
              /\ b # Skipped => w.buffer = [x.buffer EXCEPT ![x.at] = b]
              /\ x.at + 1 < Buffer * Byte => w.at = x.at + 1 /\ w.found = x.found
<1> DEFINE kept1 == IF b = Skipped THEN x.buffer ELSE [x.buffer EXCEPT ![x.at] = b]
           y == [x EXCEPT !.buffer = kept1, !.at = @ + 1]
<1>1. Written(x, b) = IF y.at = Buffer * Byte THEN [y EXCEPT !.at = 0, !.found = FALSE] ELSE y
  BY DEF Written
<1>2. kept1 \in Buffers /\ (b # Skipped => kept1 = [x.buffer EXCEPT ![x.at] = b])
  BY DEF Counted, Buffers, Bits, Skipped
<1> HIDE DEF kept1
<1>3. /\ y.at = x.at + 1 /\ y.buffer = kept1 /\ y.zeros = x.zeros /\ y.processed = x.processed
      /\ y.found = x.found
  BY DEF Counted
<1>4. y.at \in 1 .. Buffer * Byte
  <2>1. x.at \in Nat /\ x.at < Buffer * Byte
    BY PlacesAre DEF Counted
  <2> QED
    BY <1>3, <2>1, SizesAreNat
<1>5. CASE y.at = Buffer * Byte
  <2>1. Written(x, b) = [x EXCEPT !.buffer = kept1, !.at = 0, !.found = FALSE]
    BY <1>1, <1>5 DEF Counted
  <2>2. ~(x.at + 1 < Buffer * Byte)
    BY <1>3, <1>5, SizesAreNat
  <2> QED
    BY <1>2, <2>1, <2>2, PlacesAre DEF Counted
<1>6. CASE y.at # Buffer * Byte
  <2>1. x.at + 1 \in Places
    BY <1>3, <1>4, <1>6, SizesAreNat DEF Places
  <2>2. Written(x, b) = [x EXCEPT !.buffer = kept1, !.at = @ + 1]
    BY <1>1, <1>6
  <2> QED
    BY <1>2, <2>1, <2>2 DEF Counted
<1> QED
  BY <1>5, <1>6

\* What becomes of a decoder with a bit that is the end of a preamble, with the
\* bit after a word, and with one of a word's.
LEMMA PumpDoes ==
    ASSUME NEW x \in Decoder, NEW b \in Bits
    PROVE  LET bit == Guess(x, b)
               to == Pump(x, b)
               start == bit = 1 /\ x.zeros > Word
           IN /\ to[1] \in Decoder /\ to[2] \in SUBSET Packets
              /\ to[1].zeros = IF bit = 1 THEN 0 ELSE IF x.zeros > Word THEN x.zeros ELSE x.zeros + 1
              /\ start => to[1].found /\ to[1].processed = 0 /\ to[1].at = 0
              /\ ~start /\ x.processed = Word /\ b = 1 =>
                     /\ to[1].processed = 0 /\ to[1].found = x.found
                     /\ to[1].at = x.at /\ to[1].buffer = x.buffer
              /\ ~start /\ x.processed < Word /\ x.found /\ b # Skipped /\ x.at + 1 < Buffer * Byte =>
                     \E w : /\ w.buffer = [x.buffer EXCEPT ![x.at] = b] /\ w.buffer \in Buffers
                            /\ w.at = x.at + 1 /\ w.found /\ w.processed = x.processed + 1
                            /\ Complete(w) => to[2] = Packet(w) /\ ~to[1].found
                            /\ ~Complete(w) => to[1] = w /\ to[2] = {}
              /\ start \/ x.processed = Word \/ ~x.found => to[2] = {}
              /\ ~start /\ ~x.found => ~to[1].found
<1> DEFINE bit == Guess(x, b)
           z == IF bit = 1 THEN 0 ELSE IF x.zeros > Word THEN x.zeros ELSE x.zeros + 1
           y == [x EXCEPT !.zeros = IF bit = 1 THEN 0 ELSE IF @ > Word THEN @ ELSE @ + 1,
                          !.processed = @ + 1]
           w == Written(y, b)
           start == bit = 1 /\ x.zeros > Word
           to == Pump(x, b)
<1>1. to = IF start THEN <<[Reset(y) EXCEPT !.processed = 0, !.found = TRUE], {}>>
           ELSE IF y.processed > Word
           THEN <<[(IF b = 0 THEN Reset(y) ELSE y) EXCEPT !.processed = 0], {}>>
           ELSE IF ~x.found THEN <<y, {}>>
           ELSE IF Complete(w) THEN <<Reset(w), Packet(w)>> ELSE <<w, {}>>
  BY DEF Pump
<1>2. x \in Counted /\ x.processed <= Word /\ z \in 0 .. Word + 1
  BY DecoderIsCounted, SizesAreNat DEF Counted
<1>3. y = [x EXCEPT !.zeros = z, !.processed = @ + 1]
  BY <1>2 DEF Counted
<1> HIDE DEF z, bit, y
<1>4. /\ y \in Counted /\ y.processed = x.processed + 1 /\ y.zeros = z
      /\ y.found = x.found /\ y.at = x.at /\ y.buffer = x.buffer
  <2>1. x.processed + 1 \in 0 .. Word + 1
    BY <1>2, SizesAreNat DEF Counted
  <2> QED
    BY <1>2, <1>3, <2>1 DEF Counted
<1>5. /\ w \in Counted /\ w.zeros = z /\ w.processed = x.processed + 1
      /\ b # Skipped => w.buffer = [x.buffer EXCEPT ![x.at] = b]
      /\ x.at + 1 < Buffer * Byte => w.at = x.at + 1 /\ w.found = x.found
  BY <1>4, WrittenDoes
<1>6. /\ Reset(y) \in Counted /\ Reset(y).zeros = z /\ Reset(y).at = 0
      /\ Reset(y).found = FALSE /\ Reset(w).found = FALSE
      /\ Reset(w) \in Counted /\ Reset(w).zeros = z /\ Reset(w).processed = x.processed + 1
  BY <1>4, <1>5, ResetDoes
<1> HIDE DEF w, to
<1>7. CASE start
  <2>1. to[1] = [Reset(y) EXCEPT !.processed = 0, !.found = TRUE] /\ to[2] = {}
    BY <1>1, <1>7
  <2>2. /\ to[1] \in Counted /\ to[1].processed = 0 /\ to[1].found /\ to[1].at = 0 /\ to[1].zeros = z
    <3>1. 0 \in 0 .. Word + 1
      BY SizesAreNat
    <3> QED
      BY <1>6, <2>1, <3>1 DEF Counted
  <2>3. to[1] \in Decoder
    BY <2>2, DecoderIsCounted, SizesAreNat
  <2> QED
    BY <1>7, <2>1, <2>2, <2>3 DEF z, bit, to
<1>8. CASE ~start /\ x.processed = Word
  <2> DEFINE r == IF b = 0 THEN Reset(y) ELSE y
  <2>1. y.processed > Word
    BY <1>4, <1>8, SizesAreNat
  <2>2. to[1] = [r EXCEPT !.processed = 0] /\ to[2] = {}
    BY <1>1, <1>8, <2>1
  <2>3. r \in Counted /\ r.zeros = z /\ (b = 1 => r = y)
    BY <1>4, <1>6
  <2> HIDE DEF r
  <2>4. /\ to[1] \in Counted /\ to[1].processed = 0 /\ to[1].zeros = z
        /\ to[1].found = r.found /\ to[1].at = r.at /\ to[1].buffer = r.buffer
    <3>1. 0 \in 0 .. Word + 1
      BY SizesAreNat
    <3> QED
      BY <2>2, <2>3, <3>1 DEF Counted
  <2>5. to[1] \in Decoder
    BY <2>4, DecoderIsCounted, SizesAreNat
  <2>6. ~(x.processed < Word) /\ start = FALSE
    BY <1>8, SizesAreNat
  <2>7. b = 1 => to[1].found = x.found /\ to[1].at = x.at /\ to[1].buffer = x.buffer
    BY <1>4, <2>3, <2>4
  <2>8. to[2] = {} /\ to[2] \in SUBSET Packets
    BY <2>2
  <2>9. ~x.found => ~to[1].found
    BY <1>4, <1>6, <2>4 DEF r
  <2> QED
    BY <1>8, <2>4, <2>5, <2>6, <2>7, <2>8, <2>9 DEF z, bit, to
<1>9. CASE ~start /\ x.processed # Word
  <2>1. x.processed < Word /\ ~(y.processed > Word)
    BY <1>2, <1>4, <1>9, SizesAreNat DEF Counted
  <2>2. to = IF ~x.found THEN <<y, {}>>
             ELSE IF Complete(w) THEN <<Reset(w), Packet(w)>> ELSE <<w, {}>>
    BY <1>1, <1>9, <2>1
  <2>3. to[1] \in {y, w, Reset(w)} /\ to[2] \in {{}, Packet(w)}
    BY <2>2
  <2>4. to[1] \in Counted /\ to[1].processed = x.processed + 1 /\ to[1].zeros = z
    BY <1>4, <1>5, <1>6, <2>3
  <2>5. to[1] \in Decoder /\ to[2] \in SUBSET Packets
    BY <1>2, <2>1, <2>3, <2>4, DecoderIsCounted, SizesAreNat DEF Counted, Packet
  <2>6. ASSUME x.found, b # Skipped, x.at + 1 < Buffer * Byte
        PROVE  /\ w.buffer = [x.buffer EXCEPT ![x.at] = b] /\ w.buffer \in Buffers
               /\ w.at = x.at + 1 /\ w.found /\ w.processed = x.processed + 1
               /\ Complete(w) => to[2] = Packet(w) /\ ~to[1].found
               /\ ~Complete(w) => to[1] = w /\ to[2] = {}
    BY <1>5, <1>6, <2>2, <2>6 DEF Counted
  <2>7. start = FALSE /\ ~(x.processed = Word)
    BY <1>9
  <2>8. ~x.found => to[2] = {} /\ ~to[1].found
    BY <1>4, <2>2
  <2> QED
    BY <1>9, <2>1, <2>4, <2>5, <2>6, <2>7, <2>8 DEF z, bit, to
<1> QED
  BY <1>7, <1>8, <1>9

\* Some of these by themselves.
LEMMA PumpCounts ==
    ASSUME NEW x \in Decoder, NEW b \in Bits, Guess(x, b) = b
    PROVE  Pump(x, b)[1].zeros = IF b = 1 THEN 0 ELSE IF x.zeros > Word THEN x.zeros ELSE x.zeros + 1
<1> DEFINE to == Pump(x, b)[1]
<1>1. to.zeros = IF Guess(x, b) = 1 THEN 0 ELSE IF x.zeros > Word THEN x.zeros ELSE x.zeros + 1
  BY PumpDoes, ZenonT(60)
<1> HIDE DEF to
<1>2. to.zeros = IF b = 1 THEN 0 ELSE IF x.zeros > Word THEN x.zeros ELSE x.zeros + 1
  BY <1>1
<1> QED
  BY <1>2 DEF to

LEMMA PumpMisses ==
    ASSUME NEW x \in Decoder, NEW b \in Bits, Guess(x, b) = b
    PROVE  /\ (b = 1 /\ x.zeros > Word) \/ x.processed = Word \/ ~x.found => Pump(x, b)[2] = {}
           /\ ~(b = 1 /\ x.zeros > Word) /\ ~x.found => ~Pump(x, b)[1].found
<1> DEFINE g == Guess(x, b)
           to == Pump(x, b)
<1>1. /\ (g = 1 /\ x.zeros > Word) \/ x.processed = Word \/ ~x.found => to[2] = {}
      /\ ~(g = 1 /\ x.zeros > Word) /\ ~x.found => ~to[1].found
  BY PumpDoes, ZenonT(60)
<1>2. g = b
  OBVIOUS
<1> HIDE DEF g, to
<1> QED
  BY <1>1, <1>2 DEF to

LEMMA PumpStarts ==
    ASSUME NEW x \in Decoder, x.zeros > Word, 1 \in Bits, Guess(x, 1) = 1
    PROVE  Pump(x, 1)[1].found /\ Pump(x, 1)[1].processed = 0 /\ Pump(x, 1)[1].at = 0
BY PumpDoes, ZenonT(60)

-----------------------------------------------------------------------------
(* A frame. *)

Preamble == Word + 2
Period == Word + 1

LEMMA WordsTimes ==
    ASSUME NEW m \in Nat, NEW q \in Nat, q < m, NEW r \in 0 .. Word
    PROVE  /\ q * Word \in Nat /\ m * Word \in Nat /\ m * Period = m * Word + m
           /\ q * Period + r = (q * Word + r) + q /\ q * Period + r < m * Period
           /\ r < Word => q * Word + r < m * Word
           /\ q * Word + Word = (q + 1) * Word
           /\ q * Word + r + 1 = m * Word => q = m - 1
           /\ q = m - 1 => q * Word + Word = m * Word
<1>1. Word \in Nat /\ Word >= 2 /\ Period = Word + 1
  BY SizesAreNat DEF Period
<1> DEFINE Q == q * Word
           M == m * Word
<1>2. Q \in Nat /\ M \in Nat
  BY <1>1
<1>3. m * Period = M + m /\ q * Period = Q + q /\ (q + 1) * Word = Q + Word
  BY <1>1
<1>4. Q + Word <= M
  <2>1. (m - q - 1) * Word >= 0 /\ (m - q - 1) * Word = M - Q - Word
    BY <1>1
  <2> HIDE DEF Q, M
  <2> QED
    BY <1>1, <1>2, <2>1
<1>5. q # m - 1 => Q + 2 * Word <= M
  <2>1. q # m - 1 => (m - q - 2) * Word >= 0
    <3>1. q # m - 1 => m - q - 2 \in Nat
      OBVIOUS
    <3>2. \A a \in Nat : a * Word >= 0
      BY <1>1
    <3> QED
      BY <3>1, <3>2
  <2>2. (m - q - 2) * Word = M - Q - 2 * Word
    BY <1>1
  <2> HIDE DEF Q, M
  <2> QED
    BY <1>1, <1>2, <2>1, <2>2
<1>6. q = m - 1 => Q + Word = M
  BY <1>1
<1>7. q * Period \in Nat /\ m * Period \in Nat
  BY <1>1
<1> HIDE DEF Q, M
<1>8. q * Period + r < m * Period
  BY <1>1, <1>2, <1>3, <1>4, <1>7
<1>9. r < Word => Q + r < M
  BY <1>1, <1>2, <1>4
<1>10. Q + r + 1 = M => q = m - 1
  BY <1>1, <1>2, <1>5
<1>11. q * Period + r = (Q + r) + q
  BY <1>1, <1>2, <1>3, <1>7
<1> QED
  BY <1>2, <1>3, <1>6, <1>8, <1>9, <1>10, <1>11 DEF Q, M

LEMMA PlaceIn ==
    ASSUME NEW m \in Nat, NEW n \in Nat, n < m * Period
    PROVE  \E q \in 0 .. m - 1, r \in 0 .. Word : n = q * Period + r
<1> DEFINE all == m * Period
           q == n \div Period
           r == n % Period
           a == q * Period
<1>1. Period \in Nat /\ Period > 0 /\ Word = Period - 1
  BY SizesAreNat DEF Period
<1>2. q \in Nat /\ r \in 0 .. Word /\ n = a + r
  BY <1>1, PlaceOf, Zenon
<1> HIDE DEF q, r
<1>3. a \in Int /\ all \in Int
  BY <1>1, <1>2
<1>4. q >= m => a >= all
  <2>1. q >= m => q - m \in Nat
    BY <1>2
  <2>2. \A d \in Nat : d * Period >= 0
    BY <1>1
  <2>3. (q - m) * Period = a - all
    BY <1>1, <1>2
  <2> HIDE DEF a, all
  <2> QED
    BY <1>3, <2>1, <2>2, <2>3
<1>5. q < m
  <2>1. n < all
    OBVIOUS
  <2> HIDE DEF a, all
  <2> QED
    BY <1>1, <1>2, <1>3, <1>4, <2>1
<1>6. q \in 0 .. m - 1
  BY <1>2, <1>5
<1> QED
  BY <1>2, <1>6

\* The bits of a lighthouse: zeros and a one; then, in place n after that, bit r
\* of word q, or the one after the word.
LEMMA FrameIs ==
    ASSUME NEW c \in Channels
    PROVE  LET p == PacketOf[c]
           IN /\ p \in Packets
              /\ Len(FrameOf[c]) = Preamble + Words(p) * Period
              /\ \A k \in 1 .. Len(FrameOf[c]) : FrameOf[c][k] \in {0, 1}
              /\ \A k \in 1 .. Word + 1 : FrameOf[c][k] = 0
              /\ FrameOf[c][Preamble] = 1
              /\ \A q \in 0 .. Words(p) - 1, r \in 0 .. Word :
                     FrameOf[c][Preamble + 1 + (q * Period + r)] =
                         IF r = Word THEN 1 ELSE p[q * Word + r + 1]
<1> DEFINE p == PacketOf[c]
           N == Word + 2 + Len(p) + Len(p) \div Word
           bit(i) == LET k == i - (Word + 2)
                     IN  IF k < 1 THEN IF i = Word + 2 THEN 1 ELSE 0
                         ELSE IF k % (Word + 1) = 0 THEN 1
                         ELSE p[k - (k - 1) \div (Word + 1)]
<1>1. p \in Packets
  BY LighthouseAssumption
<1>2. FrameOf[c] = [i \in 1 .. N |-> bit(i)]
  BY DEF FrameOf
<1>3. /\ Words(p) \in Nat /\ Words(p) >= 1 /\ Len(p) \in Nat /\ Len(p) = Words(p) * Word
      /\ \A i \in 1 .. Len(p) : p[i] \in {0, 1}
      /\ Word \in Nat /\ Word > 0 /\ Period = Word + 1 /\ Preamble = Word + 2
  BY <1>1, PacketSize, SizesAreNat DEF Period, Preamble
<1>4. N = Preamble + Words(p) * Period /\ N \in Nat /\ N >= Word + 3
  <2>1. N = Word + 2 + Len(p) + Words(p)
    BY DEF Words
  <2>2. Words(p) * Period = Len(p) + Words(p)
    BY <1>3
  <2>3. Words(p) \in Nat /\ Words(p) >= 1 /\ Len(p) \in Nat /\ Word \in Nat /\ Preamble = Word + 2
    BY <1>3, Zenon
  <2> DEFINE all == Words(p) * Period
  <2>4. all = Len(p) + Words(p)
    BY <2>2
  <2> HIDE DEF N, p, all
  <2>5. N = Preamble + all /\ N \in Nat /\ N >= Word + 3
    BY <2>1, <2>3, <2>4
  <2> QED
    BY <2>5 DEF all
<1> HIDE DEF p, N
<1>5. ASSUME NEW q \in 0 .. Words(p) - 1, NEW r \in 0 .. Word
      PROVE  /\ Preamble + 1 + (q * Period + r) \in 1 .. N
             /\ bit(Preamble + 1 + (q * Period + r)) = IF r = Word THEN 1 ELSE p[q * Word + r + 1]
             /\ bit(Preamble + 1 + (q * Period + r)) \in {0, 1}
  <2>0. q \in Nat /\ q < Words(p) /\ Words(p) \in Nat /\ r \in 0 .. Period - 1 /\ r \in Nat
    BY <1>3
  <2> DEFINE n == q * Period + r
             i == Preamble + 1 + n
             k == n + 1
             a == q * Word
             all == Words(p) * Period
  <2>1. /\ a \in Nat /\ n = a + r + q /\ n < all
        /\ r < Word => a + r < Words(p) * Word
    <3>1. r \in 0 .. Word
      OBVIOUS
    <3>2. n = a + r + q
      BY <2>0, <3>1, WordsTimes
    <3>3. n < all
      BY <2>0, <3>1, WordsTimes, Zenon
    <3>4. a \in Nat /\ (r < Word => a + r < Words(p) * Word)
      BY <2>0, <3>1, WordsTimes, Zenon
    <3> QED
      BY <3>2, <3>3, <3>4
  <2>2. n \div Period = q /\ n % Period = r
    <3>1. Period \in Nat /\ Period > 0 /\ q \in Int
      BY <1>3, <2>0
    <3> QED
      BY <2>0, <3>1, DivMod, Zenon
  <2>3. /\ r < Period - 1 => k % Period = r + 1
        /\ r = Period - 1 => k % Period = 0
    <3>1. Period \in Nat /\ Period > 0
      BY <1>3
    <3> QED
      BY <2>0, <3>1, NextPlace, ZenonT(30)
  <2>10. N = Preamble + all
    BY <1>4
  <2> HIDE DEF n, a, all
  <2>11. n \in Nat
    BY <2>0, <2>1
  <2>4. i \in 1 .. N /\ i - (Word + 2) = k /\ ~(k < 1) /\ k - 1 = n
    <3>1. all \in Int
      BY <1>3, <1>4, <2>10 DEF all
    <3> QED
      BY <1>3, <2>1, <2>10, <2>11, <3>1
  <2>5. bit(i) = IF k % Period = 0 THEN 1 ELSE p[k - n \div Period]
    <3>1. bit(i) = IF k < 1 THEN IF i = Word + 2 THEN 1 ELSE 0
                   ELSE IF k % (Word + 1) = 0 THEN 1
                   ELSE p[k - (k - 1) \div (Word + 1)]
      <4> HIDE DEF i, k
      <4> QED
        BY <2>4
    <3> HIDE DEF i, k, bit
    <3> QED
      BY <1>3, <2>4, <3>1
  <2>6. r # Word => k % Period # 0 /\ k - q = a + r + 1
    <3> HIDE DEF i, bit
    <3>1. r # Word => k % Period = r + 1
      <4> HIDE DEF k
      <4> QED
        BY <1>3, <2>0, <2>3
    <3>2. k - q = a + r + 1
      BY <2>0, <2>1
    <3> HIDE DEF k
    <3> QED
      BY <2>0, <3>1, <3>2
  <2>7. r = Word => k % Period = 0
    <3> HIDE DEF k
    <3> QED
      BY <1>3, <2>3
  <2> HIDE DEF i, k, bit
  <2>8. bit(i) = IF r = Word THEN 1 ELSE p[a + r + 1]
    BY <2>2, <2>5, <2>6, <2>7
  <2>9. bit(i) \in {0, 1}
    <3>1. r # Word => a + r + 1 \in 1 .. Len(p)
      BY <1>3, <2>0, <2>1
    <3> QED
      BY <1>3, <2>8, <3>1
  <2> QED
    BY <2>4, <2>8, <2>9 DEF i, n, a
<1>6. ASSUME NEW k \in 1 .. N
      PROVE  bit(k) \in {0, 1}
  <2>1. CASE k <= Preamble
    BY <1>3, <2>1
  <2>2. CASE k > Preamble
    <3> DEFINE n == k - 1 - Preamble
               all == Words(p) * Period
    <3>1. n \in Nat /\ n < all
      <4>1. N = Preamble + all /\ all \in Int
        BY <1>3, <1>4
      <4> HIDE DEF all, bit
      <4> QED
        BY <1>3, <1>4, <2>2, <4>1
    <3> HIDE DEF n, bit
    <3>2. PICK q \in 0 .. Words(p) - 1, r \in 0 .. Word : n = q * Period + r
      BY <1>3, <3>1, PlaceIn
    <3>3. k = Preamble + 1 + n
      BY <1>3 DEF n
    <3> QED
      BY <1>5, <3>2, <3>3
  <2> QED
    BY <1>3, <1>4, <2>1, <2>2
<1>7. Len(FrameOf[c]) = N
  <2> HIDE DEF bit, N
  <2>1. FrameOf[c] \in [1 .. N -> {0, 1}]
    BY <1>2, <1>6
  <2>2. FrameOf[c] \in Seq({0, 1})
    BY <1>4, <2>1
  <2>3. DOMAIN FrameOf[c] = 1 .. N
    BY <2>1
  <2> QED
    BY <1>4, <2>2, <2>3, LenProperties
<1>8. \A k \in 1 .. Word + 1 : k \in 1 .. N /\ bit(k) = 0
  BY <1>3, <1>4
<1>9. Preamble \in 1 .. N /\ bit(Preamble) = 1
  BY <1>3, <1>4
<1> HIDE DEF bit, N
<1> QED
  BY <1>1, <1>2, <1>4, <1>5, <1>6, <1>7, <1>8, <1>9 DEF p

\* A decoder that has had r bits of word q of packet p, after q words.
InData(x, p, q, r) ==
    /\ x.found /\ x.processed = r /\ x.at = q * Word + r /\ x.zeros <= r
    /\ \A j \in 0 .. x.at - 1 : x.buffer[j] = p[j + 1]

\* A decoder, and what was learnt from it, that has had bits 1 to k - 1 of the
\* frame of c, whatever it had before them.
InFrame(x, l, c, k) ==
    LET p == PacketOf[c]
    IN  /\ k \in 2 .. Preamble => x.zeros >= k - 1
        /\ \A q \in 0 .. Words(p) - 1, r \in 0 .. Word :
               k = Preamble + 1 + (q * Period + r) /\ k < Len(FrameOf[c]) => InData(x, p, q, r)
        /\ k = Len(FrameOf[c]) => l = p

LEMMA SyncBit ==
    ASSUME NEW x \in Decoder, NEW p, NEW q \in Nat, InData(x, p, q, Word)
    PROVE  InData(Pump(x, 1)[1], p, q + 1, 0) /\ Pump(x, 1)[2] = {}
<1> DEFINE to == Pump(x, 1)
<1>1. Guess(x, 1) = 1 /\ 1 \in Bits /\ 1 # Skipped
  BY DEF Guess, Bits, Skipped
<1>2. ~(x.zeros > Word)
  BY SizesAreNat DEF InData, Decoder
<1>3. x.processed = Word /\ x.found /\ x.at = q * Word + Word
  BY DEF InData
<1>4. /\ to[1].zeros = 0 /\ to[1].processed = 0 /\ to[1].found = x.found
      /\ to[1].at = x.at /\ to[1].buffer = x.buffer
  <2>1. to[1].zeros = IF Guess(x, 1) = 1 THEN 0 ELSE IF x.zeros > Word THEN x.zeros ELSE x.zeros + 1
    BY <1>1, PumpDoes, Zenon
  <2>2. ~(Guess(x, 1) = 1 /\ x.zeros > Word) /\ x.processed = Word /\ 1 = 1 =>
           /\ to[1].processed = 0 /\ to[1].found = x.found
           /\ to[1].at = x.at /\ to[1].buffer = x.buffer
    BY <1>1, PumpDoes, Zenon
  <2> HIDE DEF to
  <2> QED
    BY <1>1, <1>2, <1>3, <2>1, <2>2
<1>5. q * Word + Word = (q + 1) * Word + 0 /\ 0 <= 0
  BY SizesAreNat
<1>7. to[2] = {}
  BY <1>1, <1>3, PumpDoes, Zenon
<1> HIDE DEF to
<1>6. InData(to[1], p, q + 1, 0)
  BY <1>3, <1>4, <1>5 DEF InData
<1> QED
  BY <1>6, <1>7 DEF to

LEMMA DataBit ==
    ASSUME NEW x \in Decoder, NEW p \in Packets, NEW q \in 0 .. Words(p) - 1, NEW r \in 0 .. Word - 1,
           InData(x, p, q, r), NEW n, n = q * Word + r + 1, NEW b, b = p[n]
    PROVE  /\ n # Len(p) => InData(Pump(x, b)[1], p, q, r + 1) /\ Pump(x, b)[2] = {}
           /\ n = Len(p) => Pump(x, b)[2] = {p} /\ ~Pump(x, b)[1].found
<1> DEFINE a == q * Word + r
           to == Pump(x, b)
<1>0. /\ Words(p) \in Nat /\ Len(p) = Words(p) * Word /\ Len(p) \in Nat /\ Len(p) < Buffer * Byte
      /\ Word \in Nat /\ Buffer * Byte \in Nat
  BY PacketSize, SizesAreNat
<1>1. a \in Nat /\ a < Len(p)
  <2>1. q \in Nat /\ q < Words(p) /\ r \in 0 .. Word /\ r < Word /\ r \in Nat
    BY <1>0
  <2>2. q * Word \in Nat /\ q * Word + r < Words(p) * Word
    BY <1>0, <2>1, WordsTimes, Zenon
  <2> QED
    BY <1>0, <2>1, <2>2
<1>2. x.at = a /\ x.processed = r /\ x.zeros <= r /\ x.found
      /\ \A j \in 0 .. a - 1 : x.buffer[j] = p[j + 1]
  BY DEF InData
<1>3. x.zeros \in Nat /\ x.buffer \in Buffers
  BY SizesAreNat DEF Decoder, Buffers
<1>20. b = p[a + 1] /\ n = a + 1
  OBVIOUS
<1> HIDE DEF a
<1>4. a + 1 \in 1 .. Len(p) /\ a + 1 < Buffer * Byte
  BY <1>0, <1>1
<1>5. b \in {0, 1} /\ b \in Bits /\ b # Skipped
  BY <1>4, <1>20, PacketSize DEF Bits, Skipped
<1>6. Guess(x, b) = b
  BY <1>5 DEF Guess
<1>7. ~(x.zeros > Word) /\ x.processed < Word
  <2>1. Word \in Nat /\ r \in 0 .. Word - 1
    BY SizesAreNat
  <2> QED
    BY <1>2, <1>3, <2>1
<1>8. to[1].zeros = IF b = 1 THEN 0 ELSE x.zeros + 1
  <2>1. to[1].zeros = IF b = 1 THEN 0 ELSE IF x.zeros > Word THEN x.zeros ELSE x.zeros + 1
    BY <1>5, <1>6, PumpCounts, Zenon
  <2> QED
    BY <1>7, <2>1, Zenon
<1>9. PICK w : /\ w.buffer = [x.buffer EXCEPT ![x.at] = b] /\ w.buffer \in Buffers
               /\ w.at = x.at + 1 /\ w.found /\ w.processed = x.processed + 1
               /\ Complete(w) => to[2] = Packet(w) /\ ~to[1].found
               /\ ~Complete(w) => to[1] = w /\ to[2] = {}
  BY <1>2, <1>4, <1>5, <1>6, <1>7, PumpDoes, SMTT(30)
<1> HIDE DEF to
<1>10. w.at = a + 1 /\ w.at \in 0 .. Len(p)
  BY <1>1, <1>2, <1>4, <1>9
<1>11. \A j \in 0 .. w.at - 1 : w.buffer[j] = p[j + 1]
  <2> SUFFICES ASSUME NEW j \in 0 .. a PROVE w.buffer[j] = p[j + 1]
    BY <1>1, <1>10
  <2>0. Buffer * Byte \in Nat
    BY SizesAreNat
  <2>1. a \in DOMAIN x.buffer /\ j \in DOMAIN x.buffer
    BY <1>1, <1>3, <1>4, <2>0 DEF Buffers
  <2>2. CASE j = a
    BY <1>2, <1>9, <1>20, <2>1, <2>2
  <2>3. CASE j # a
    <3>1. j \in 0 .. a - 1
      BY <1>1, <2>3
    <3> QED
      BY <1>2, <1>9, <2>1, <2>3, <3>1
  <2> QED
    BY <2>2, <2>3
<1>12. (Complete(w) <=> w.at = Len(p)) /\ (w.at = Len(p) => Packet(w) = {p})
  BY <1>9, <1>10, <1>11, CompleteAtTheEnd
<1>13. ASSUME a + 1 # Len(p) PROVE InData(to[1], p, q, r + 1) /\ to[2] = {}
  <2>1. to[1] = w /\ to[2] = {}
    BY <1>9, <1>10, <1>12, <1>13
  <2>2. w.zeros <= r + 1
    BY <1>2, <1>3, <1>8, <2>1
  <2>3. w.at = q * Word + (r + 1)
    BY <1>0, <1>10 DEF a
  <2>4. w.found /\ w.processed = r + 1
    BY <1>2, <1>9
  <2>5. \A j \in 0 .. to[1].at - 1 : to[1].buffer[j] = p[j + 1]
    BY <1>11, <2>1
  <2> QED
    BY <2>1, <2>2, <2>3, <2>4, <2>5, Zenon DEF InData
<1>14. ASSUME a + 1 = Len(p) PROVE to[2] = {p} /\ ~to[1].found
  BY <1>9, <1>10, <1>12, <1>14
<1> QED
  BY <1>13, <1>14, <1>20 DEF to

LEMMA LastBit ==
    ASSUME NEW x \in Decoder, NEW p \in Packets, NEW q \in 0 .. Words(p) - 1, NEW r \in 0 .. Word - 1,
           InData(x, p, q, r), Len(p) = q * Word + r + 1
    PROVE  Pump(x, p[Len(p)])[2] = {p} /\ ~Pump(x, p[Len(p)])[1].found
<1> DEFINE n == Len(p)
           b == p[n]
<1>1. n = q * Word + r + 1 /\ b = p[n]
  OBVIOUS
<1> HIDE DEF n, b
<1>2. n = Len(p) => Pump(x, b)[2] = {p} /\ ~Pump(x, b)[1].found
  BY <1>1, DataBit
<1> QED
  BY <1>2 DEF n, b

LEMMA NextBit ==
    ASSUME NEW x \in Decoder, NEW p \in Packets, NEW q \in 0 .. Words(p) - 1, NEW r \in 0 .. Word - 1,
           InData(x, p, q, r), NEW n, n = q * Word + r + 1, n # Len(p)
    PROVE  InData(Pump(x, p[n])[1], p, q, r + 1) /\ Pump(x, p[n])[2] = {}
<1> DEFINE b == p[n]
<1>1. b = p[n]
  OBVIOUS
<1> HIDE DEF b
<1>2. n # Len(p) => InData(Pump(x, b)[1], p, q, r + 1) /\ Pump(x, b)[2] = {}
  BY <1>1, DataBit
<1> QED
  BY <1>2 DEF b

LEMMA FrameLength ==
    ASSUME NEW c \in Channels
    PROVE  LET m == Words(PacketOf[c])
           IN /\ PacketOf[c] \in Packets /\ m \in Nat /\ m >= 1 /\ Len(PacketOf[c]) = m * Word
              /\ m * Period \in Nat /\ m * Period >= Period
              /\ Len(FrameOf[c]) = Preamble + m * Period
              /\ Word \in Nat /\ Word >= 2 /\ Period = Word + 1 /\ Preamble = Word + 2
<1> DEFINE m == Words(PacketOf[c])
<1>1. PacketOf[c] \in Packets /\ Len(FrameOf[c]) = Preamble + m * Period
  BY FrameIs, Zenon
<1>2. m \in Nat /\ m >= 1 /\ Len(PacketOf[c]) = m * Word
  BY <1>1, PacketSize
<1>3. Word \in Nat /\ Word >= 2 /\ Period = Word + 1 /\ Preamble = Word + 2
  BY SizesAreNat DEF Period, Preamble
<1> HIDE DEF m
<1>4. m * Period \in Nat /\ (m - 1) * Period >= 0 /\ (m - 1) * Period = m * Period - Period
  BY <1>2, <1>3
<1>5. m * Period >= Period
  BY <1>3, <1>4
<1> QED
  BY <1>1, <1>2, <1>3, <1>4, <1>5 DEF m

\* Every bit of a frame takes the decoder a place further in it, and its last
\* data bit yields the packet.
LEMMA FrameStep ==
    ASSUME NEW c \in Channels, NEW x \in Decoder, NEW l, NEW k \in 1 .. Len(FrameOf[c]),
           InFrame(x, l, c, k), NEW l2,
           Pump(x, FrameOf[c][k])[2] # {} => l2 = CHOOSE p \in Pump(x, FrameOf[c][k])[2] : TRUE
    PROVE  InFrame(Pump(x, FrameOf[c][k])[1], l2, c, IF k = Len(FrameOf[c]) THEN 1 ELSE k + 1)
<1> DEFINE p == PacketOf[c]
           m == Words(p)
           L == Len(FrameOf[c])
           b == FrameOf[c][k]
           to == Pump(x, b)
           all == m * Period
<1>1. /\ p \in Packets /\ m \in Nat /\ m >= 1 /\ Len(p) = m * Word
      /\ all \in Nat /\ all >= Period /\ L = Preamble + all
      /\ Word \in Nat /\ Word >= 2 /\ Period = Word + 1 /\ Preamble = Word + 2
  BY FrameLength, Zenon
<1>2. b \in {0, 1} /\ b \in Bits /\ b # Skipped /\ Guess(x, b) = b
  <2>1. b \in {0, 1}
    BY FrameIs
  <2> HIDE DEF b
  <2> QED
    BY <2>1 DEF Bits, Skipped, Guess
<1>3. /\ k \in 2 .. Preamble => x.zeros >= k - 1
      /\ \A q \in 0 .. m - 1, r \in 0 .. Word :
             k = Preamble + 1 + (q * Period + r) /\ k < L => InData(x, p, q, r)
  BY DEF InFrame
<1>4. x.zeros \in 0 .. Word + 1
  BY DEF Decoder
<1>5. to[1].zeros = IF b = 1 THEN 0 ELSE IF x.zeros > Word THEN x.zeros ELSE x.zeros + 1
  <2> HIDE DEF b
  <2> QED
    BY <1>2, PumpCounts, Zenon
<1>6. \A q \in 0 .. m - 1, r \in 0 .. Word :
          /\ q * Word \in Nat /\ q * Period \in Nat /\ q * Period = q * Word + q
          /\ q = m - 1 => q * Word + Word = m * Word /\ q * Period + Word + 1 = all
          /\ q * Word + r + 1 = m * Word => q = m - 1
  <2> SUFFICES ASSUME NEW q \in 0 .. m - 1, NEW r \in 0 .. Word
               PROVE  /\ q * Word \in Nat /\ q * Period \in Nat /\ q * Period = q * Word + q
                      /\ q = m - 1 => q * Word + Word = m * Word /\ q * Period + Word + 1 = all
                      /\ q * Word + r + 1 = m * Word => q = m - 1
    OBVIOUS
  <2>1. q \in Nat /\ q < m /\ r \in 0 .. Word /\ m \in Nat
    BY <1>1
  <2> HIDE DEF m
  <2>2. q * Word \in Nat /\ m * Word \in Nat
    BY <2>1, WordsTimes, Zenon
  <2>3. m * Period = m * Word + m
    BY <2>1, WordsTimes, Zenon
  <2>4. q * Word + r + 1 = m * Word => q = m - 1
    BY <2>1, WordsTimes
  <2>5. q = m - 1 => q * Word + Word = m * Word
    BY <2>1, WordsTimes, Zenon
  <2>6. q * Period = q * Word + q
    BY <1>1, <2>1
  <2>7. q = m - 1 => q * Period + Word + 1 = all
    <3>1. all = m * Word + m
      BY <2>3
    <3> DEFINE Q == q * Word
               M == m * Word
               R == q * Period
    <3>2. Q \in Nat /\ M \in Nat /\ R = Q + q /\ all = M + m /\ (q = m - 1 => Q + Word = M)
      BY <2>2, <2>5, <2>6, <3>1
    <3> HIDE DEF Q, M, R, all
    <3>3. q = m - 1 => R + Word + 1 = all
      BY <1>1, <2>1, <3>2
    <3> QED
      BY <3>3 DEF R
  <2>8. q * Period \in Nat
    BY <1>1, <2>1
  <2> QED
    BY <2>2, <2>4, <2>5, <2>6, <2>7, <2>8, Zenon
<1> HIDE DEF p, m, b, to, all, L
<1>7. CASE k = L
  <2>1. L > Preamble /\ ~(1 \in 2 .. Preamble) /\ 1 # L
    BY <1>1
  <2>2. \A q \in 0 .. m - 1, r \in 0 .. Word : 1 # Preamble + 1 + (q * Period + r)
    BY <1>1, <1>6
  <2>3. InFrame(to[1], l2, c, 1)
    BY <2>1, <2>2 DEF InFrame, L, m, p
  <2> QED
    BY <1>7, <2>3 DEF L, to, b
<1>8. CASE k # L
  <2>0. k \in Nat /\ k >= 1 /\ k < L /\ L \in Nat
    BY <1>1, <1>8 DEF L
  <2>1. k + 1 \in 2 .. Preamble => to[1].zeros >= (k + 1) - 1
    <3> SUFFICES ASSUME k + 1 \in 2 .. Preamble PROVE to[1].zeros >= k
      BY <2>0
    <3>1. b = 0
      <4>1. k \in 1 .. Word + 1
        BY <1>1, <2>0
      <4> QED
        BY <4>1, FrameIs, Zenon DEF b
    <3> QED
      BY <1>1, <1>3, <1>4, <1>5, <2>0, <3>1
  <2>2. ASSUME NEW q \in 0 .. m - 1, NEW r \in 0 .. Word,
               k + 1 = Preamble + 1 + (q * Period + r), k + 1 < L
        PROVE  InData(to[1], p, q, r)
    <3>0. q \in Nat /\ r \in Nat /\ q * Period \in Nat /\ q * Word \in Nat
      BY <1>1, <1>6
    <3>1. CASE q = 0 /\ r = 0
      <4>1. k = Preamble
        BY <1>1, <2>0, <2>2, <3>1
      <4>2. b = 1 /\ x.zeros > Word
        <5>1. b = 1
          BY <4>1, FrameIs, Zenon DEF b
        <5>2. x.zeros >= k - 1
          BY <1>1, <1>3, <4>1
        <5> QED
          BY <1>1, <1>4, <4>1, <5>1, <5>2
      <4>3. to[1].found /\ to[1].processed = 0 /\ to[1].at = 0
        <5>1. 1 \in Bits /\ Guess(x, 1) = 1
          BY <1>2, <4>2
        <5> QED
          BY <4>2, <5>1, PumpStarts DEF to
      <4>4. to[1].zeros = 0 /\ 0 * Word + 0 = 0
        BY <1>1, <1>5, <4>2
      <4> QED
        BY <3>1, <4>3, <4>4 DEF InData
    <3>2. CASE r > 0
      <4>1. r - 1 \in 0 .. Word /\ r - 1 \in 0 .. Word - 1 /\ r - 1 # Word
            /\ k = Preamble + 1 + (q * Period + (r - 1))
        BY <1>1, <2>0, <2>2, <3>0, <3>2
      <4>2. InData(x, p, q, r - 1)
        BY <1>3, <2>0, <4>1
      <4>3. b = p[q * Word + (r - 1) + 1]
        <5>1. b = IF r - 1 = Word THEN 1 ELSE p[q * Word + (r - 1) + 1]
          BY <4>1, FrameIs, Zenon DEF b, m, p
        <5> QED
          BY <4>1, <5>1
      <4>4. q * Word + (r - 1) + 1 # Len(p)
        <5> SUFFICES ASSUME q * Word + (r - 1) + 1 = m * Word PROVE FALSE
          BY <1>1
        <5>1. q = m - 1
          BY <1>6, <4>1
        <5>2. q * Word + Word = m * Word /\ q * Period + Word + 1 = all
          BY <1>6, <5>1
        <5>3. r = Word
          BY <1>1, <3>0, <5>2
        <5> QED
          BY <1>1, <2>0, <2>2, <3>0, <5>2, <5>3
      <4>5. InData(to[1], p, q, (r - 1) + 1)
        BY <1>1, <4>1, <4>2, <4>3, <4>4, DataBit DEF m, to
      <4>6. (r - 1) + 1 = r
        BY <3>0
      <4> QED
        BY <4>5, <4>6
    <3>3. CASE q > 0 /\ r = 0
      <4>0. q - 1 \in 0 .. m - 1 /\ q - 1 \in Nat /\ Word \in 0 .. Word /\ (q - 1) + 1 = q
        BY <1>1, <3>0, <3>3
      <4>1. (q - 1) * Period = q * Period - Period
        BY <1>1, <3>0
      <4>2. k = Preamble + 1 + ((q - 1) * Period + Word)
        BY <1>1, <2>0, <2>2, <3>0, <3>3, <4>1
      <4>3. InData(x, p, q - 1, Word)
        BY <1>3, <2>0, <4>0, <4>2
      <4>4. b = 1
        BY <4>0, <4>2, FrameIs, Zenon DEF b, m, p
      <4>5. InData(to[1], p, (q - 1) + 1, 0)
        BY <4>0, <4>3, <4>4, SyncBit DEF to
      <4> QED
        BY <3>3, <4>0, <4>5
    <3> QED
      BY <3>0, <3>1, <3>2, <3>3
  <2>3. k + 1 = L => l2 = p
    <3> SUFFICES ASSUME k + 1 = L PROVE l2 = p
      OBVIOUS
    <3>0. PICK q \in 0 .. m - 1, r \in 0 .. Word - 1 : q = m - 1 /\ r = Word - 1
      BY <1>1
    <3>1. r \in 0 .. Word /\ r # Word
      BY <1>1
    <3>2. q * Word + Word = m * Word /\ q * Period + Word + 1 = all
          /\ q * Word \in Nat /\ q * Period \in Nat
      BY <1>6, <3>0, <3>1
    <3>3. k = Preamble + 1 + (q * Period + r)
      BY <1>1, <2>0, <3>0, <3>2
    <3>4. InData(x, p, q, r)
      BY <1>3, <2>0, <3>1, <3>3
    <3>5. b = p[q * Word + r + 1]
      <4>1. b = IF r = Word THEN 1 ELSE p[q * Word + r + 1]
        BY <3>1, <3>3, FrameIs, Zenon DEF b, m, p
      <4> QED
        BY <3>1, <4>1
    <3>6. q * Word + r + 1 = Len(p)
      BY <1>1, <3>0, <3>2
    <3>7. to[2] = {p}
      <4>1. q \in 0 .. Words(p) - 1
        BY DEF m
      <4>2. p \in Packets
        BY <1>1
      <4>3. Pump(x, p[Len(p)])[2] = {p}
        BY <3>4, <3>6, <4>1, <4>2, LastBit
      <4>4. b = p[Len(p)]
        BY <3>5, <3>6
      <4> QED
        BY <4>3, <4>4 DEF to
    <3>8. l2 = CHOOSE u \in to[2] : TRUE
      BY <3>7 DEF to, b
    <3> QED
      BY <3>7, <3>8
  <2>4. InFrame(to[1], l2, c, k + 1)
    BY <2>1, <2>2, <2>3 DEF InFrame, L, m, p
  <2> QED
    BY <1>8, <2>4 DEF L, to, b
<1> QED
  BY <1>7, <1>8
-----------------------------------------------------------------------------
(* The table of lighthouses. *)

\* The decoder of a lighthouse that was seen from the start of its frame is
\* where the frame is, unless it has the bits of another lighthouse too.
FrameInv ==
    \A c \in Channels : whole[c] =>
        /\ version = "known" /\ map[c] # None /\ user[map[c]] # None
        /\ ~Shared(c) => InFrame(decoder[map[c]], learnt[map[c]], c, sent[c])

\* Unless the table was reset, a slot is taken once.
KeptInv == kept => \A c \in Channels : map[c] # None => mode[map[c]] # None /\ ~Shared(c)

LighthouseInv == TypeOK /\ FrameInv /\ KeptInv

LEMMA NamesAreApart ==
    /\ None \notin Channels /\ None \notin Trackers /\ None \notin SlotIds /\ Slots \in Nat /\ MaxMissed \in Nat
    /\ \A c \in Channels : PacketOf[c] \in Packets
    /\ \A p \in Packets : \E c \in Channels : PacketOf[c] = p
    /\ \A c \in Channels : 1 \in 1 .. Len(FrameOf[c]) /\ 1 # Len(FrameOf[c])
<1>1. \A c \in Channels : 1 \in 1 .. Len(FrameOf[c]) /\ 1 # Len(FrameOf[c])
  <2> SUFFICES ASSUME NEW c \in Channels PROVE 1 \in 1 .. Len(FrameOf[c]) /\ 1 # Len(FrameOf[c])
    OBVIOUS
  <2> DEFINE m == Words(PacketOf[c]) * Period
  <2>1. m \in Nat /\ Len(FrameOf[c]) = Preamble + m /\ Word \in Nat /\ Preamble = Word + 2
    BY FrameLength, Zenon
  <2> HIDE DEF m
  <2> QED
    BY <2>1
<1> QED
  BY <1>1, LighthouseAssumption DEF SlotIds

LEMMA InitHolds == Init => LighthouseInv
<1> SUFFICES ASSUME Init PROVE LighthouseInv
  OBVIOUS
<1>1. mode \in [SlotIds -> Channels \cup {None}]
      /\ \A i, j \in SlotIds : i # j /\ mode[i] # None => mode[i] # mode[j]
  BY DEF Init
<1>2. \A c \in Channels : map[c] # None => map[c] \in SlotIds /\ mode[map[c]] = c
  BY DEF Init
<1>3. map \in [Channels -> SlotIds \cup {None}]
  BY DEF Init
<1>4. TypeOK
  <2>1. New \in Decoder
    BY NewIsDecoder
  <2>2. missed \in 0 .. MaxMissed
    BY NamesAreApart DEF Init
  <2> QED
    BY <1>1, <1>3, <2>1, <2>2, NamesAreApart DEF Init, TypeOK
<1>5. FrameInv
  BY DEF Init, FrameInv
<1>6. KeptInv
  <2> SUFFICES ASSUME NEW c \in Channels, map[c] # None PROVE mode[map[c]] # None /\ ~Shared(c)
    BY DEF KeptInv
  <2>1. map[c] \in SlotIds /\ mode[map[c]] = c /\ c # None
    BY <1>2, NamesAreApart
  <2>2. ASSUME NEW d \in Channels \ {c}, map[d] = map[c] PROVE FALSE
    BY <1>2, <2>1, <2>2
  <2> QED
    BY <2>1, <2>2 DEF Shared
<1> QED
  BY <1>4, <1>5, <1>6 DEF LighthouseInv

LEMMA DetectKeeps == ASSUME LighthouseInv, Detect PROVE LighthouseInv'
<1>1. TypeOK' 
  BY DEF LighthouseInv, TypeOK, Detect, table
<1>2. \A c \in Channels : ~whole[c]
  BY DEF LighthouseInv, FrameInv, Detect
<1>3. FrameInv'
  BY <1>2 DEF Detect, FrameInv
<1>4. KeptInv'
  BY DEF LighthouseInv, KeptInv, Shared, Detect
<1> QED
  BY <1>1, <1>3, <1>4 DEF LighthouseInv

LEMMA UnplugKeeps == ASSUME LighthouseInv, NEW t, Unplug(t) PROVE LighthouseInv'
<1>1. TypeOK'
  BY DEF LighthouseInv, TypeOK, Unplug, table
<1>2. FrameInv'
  BY DEF LighthouseInv, FrameInv, Shared, Unplug, table
<1>3. KeptInv'
  BY DEF LighthouseInv, KeptInv, Shared, Unplug, table
<1> QED
  BY <1>1, <1>2, <1>3 DEF LighthouseInv

LEMMA AdvanceDoes ==
    ASSUME TypeOK, NEW c \in Channels, Advance(c)
    PROVE  /\ DOMAIN sent' = Channels /\ \A d \in Channels : sent'[d] \in 1 .. Len(FrameOf[d])
           /\ sent'[c] = IF sent[c] = Len(FrameOf[c]) THEN 1 ELSE sent[c] + 1
           /\ \A d \in Channels \ {c} : sent'[d] = sent[d]
<1>1. DOMAIN sent = Channels /\ \A d \in Channels : sent[d] \in 1 .. Len(FrameOf[d])
  BY DEF TypeOK
<1>2. sent' = [sent EXCEPT ![c] = IF @ = Len(FrameOf[c]) THEN 1 ELSE @ + 1]
  BY DEF Advance
<1>3. /\ DOMAIN sent' = Channels /\ \A d \in Channels \ {c} : sent'[d] = sent[d]
      /\ sent'[c] = IF sent[c] = Len(FrameOf[c]) THEN 1 ELSE sent[c] + 1
  BY <1>1, <1>2
<1>4. sent'[c] \in 1 .. Len(FrameOf[c])
  <2> DEFINE L == Len(FrameOf[c])
             m == Words(PacketOf[c]) * Period
  <2>1. m \in Nat /\ L = Preamble + m /\ Word \in Nat /\ Preamble = Word + 2
    BY FrameLength, Zenon
  <2>2. sent[c] \in 1 .. L /\ sent'[c] = IF sent[c] = L THEN 1 ELSE sent[c] + 1
    BY <1>1, <1>3
  <2> HIDE DEF L, m
  <2>3. sent'[c] \in 1 .. L
    BY <2>1, <2>2
  <2> QED
    BY <2>3 DEF L
<1> QED
  BY <1>1, <1>3, <1>4

LEMMA UnheardKeeps == ASSUME LighthouseInv, NEW c \in Channels, Unheard(c) PROVE LighthouseInv'
<1>1. TypeOK /\ FrameInv /\ KeptInv /\ Advance(c)
  BY DEF LighthouseInv, Unheard
<1>2. TypeOK'
  <2>1. missed' \in 0 .. MaxMissed
    BY <1>1, NamesAreApart DEF TypeOK, Unheard
  <2>2. whole' \in [Channels -> BOOLEAN]
    BY <1>1 DEF TypeOK, Unheard
  <2> QED
    BY <1>1, <2>1, <2>2, AdvanceDoes DEF TypeOK, Unheard, table
<1>3. FrameInv'
  <2> SUFFICES ASSUME NEW d \in Channels, whole'[d]
               PROVE  /\ version = "known" /\ map[d] # None /\ user[map[d]] # None
                      /\ ~Shared(d) => InFrame(decoder[map[d]], learnt[map[d]], d, sent'[d])
    BY DEF FrameInv, Shared, Unheard, table
  <2>1. d # c /\ whole[d]
    BY <1>1 DEF TypeOK, Unheard
  <2>2. sent'[d] = sent[d]
    BY <1>1, <2>1, AdvanceDoes
  <2> QED
    BY <1>1, <2>1, <2>2 DEF FrameInv
<1>4. KeptInv'
  BY <1>1 DEF KeptInv, Shared, Unheard, table
<1> QED
  BY <1>2, <1>3, <1>4 DEF LighthouseInv

\* What a turn of a lighthouse does to its slot, and to no other.
TurnedAt(c, t, seen, i, x, to) ==
    /\ (map[c] = None /\ mode[i] = None) \/ map[c] = i
    /\ map' = [map EXCEPT ![c] = i]
    /\ x = IF map[c] = None \/ user[i] = None THEN New ELSE decoder[i]
    /\ map[c] # None /\ user[i] # None => user[i] = t
    /\ seen => to = Pump(x, FrameOf[c][sent[c]])
    /\ user' = [user EXCEPT ![i] = t] /\ decoder' = [decoder EXCEPT ![i] = to[1]]
    /\ \E p \in Packets \cup {None} :
          /\ learnt' = [learnt EXCEPT ![i] = p]
          /\ p = IF to[2] # {} THEN CHOOSE q \in to[2] : TRUE
                 ELSE IF map[c] = None THEN None ELSE learnt[i]
    /\ \E d \in Channels \cup {None} :
          /\ mode' = [mode EXCEPT ![i] = d]
          /\ mode[i] # None \/ map[c] = None => d # None

Turned(c, t, seen) ==
    \E i \in SlotIds, x \in Decoder, to \in Decoder \X SUBSET Packets : TurnedAt(c, t, seen, i, x, to)

LEMMA TurnDoes ==
    ASSUME TypeOK, NEW c \in Channels, NEW t \in Trackers, NEW seen \in BOOLEAN, Turn(c, t, seen)
    PROVE  Turned(c, t, seen)
<1>1. PICK i \in SlotIds :
          /\ LookUp(c, i)
          /\ LET wiped == map[c] = None
                 new == wiped \/ user[i] = None
                 to == Pump(IF new THEN New ELSE decoder[i],
                            IF seen THEN FrameOf[c][sent[c]] ELSE Skipped)
             IN  /\ IF new THEN seen ELSE user[i] = t
                 /\ user' = [user EXCEPT ![i] = t]
                 /\ decoder' = [decoder EXCEPT ![i] = to[1]]
                 /\ learnt' = [learnt EXCEPT ![i] = IF to[2] # {} THEN CHOOSE p \in to[2] : TRUE
                                                    ELSE IF wiped THEN None ELSE @]
                 /\ mode' = [mode EXCEPT ![i] =
                        IF to[2] \ {learnt[i]} # {} THEN CHOOSE d \in Channels : PacketOf[d] \in to[2]
                        ELSE IF wiped THEN c ELSE @]
  BY DEF Turn
<1>2. /\ map \in [Channels -> SlotIds \cup {None}] /\ mode \in [SlotIds -> Channels \cup {None}]
      /\ learnt \in [SlotIds -> Packets \cup {None}] /\ decoder \in [SlotIds -> Decoder]
      /\ sent[c] \in 1 .. Len(FrameOf[c])
  BY DEF TypeOK
<1> DEFINE x == IF map[c] = None \/ user[i] = None THEN New ELSE decoder[i]
           b == IF seen THEN FrameOf[c][sent[c]] ELSE Skipped
           to == Pump(x, b)
           p == IF to[2] # {} THEN CHOOSE p \in to[2] : TRUE
                ELSE IF map[c] = None THEN None ELSE learnt[i]
           d == IF to[2] \ {learnt[i]} # {} THEN CHOOSE d \in Channels : PacketOf[d] \in to[2]
                ELSE IF map[c] = None THEN c ELSE mode[i]
<1>3. /\ user' = [user EXCEPT ![i] = t] /\ decoder' = [decoder EXCEPT ![i] = to[1]]
      /\ learnt' = [learnt EXCEPT ![i] = p] /\ mode' = [mode EXCEPT ![i] = d]
  BY <1>1
<1>4. x \in Decoder
  BY <1>2, NewIsDecoder
<1>5. b \in Bits
  <2>1. seen => b \in {0, 1}
    BY <1>2, FrameIs
  <2> QED
    BY <2>1 DEF Bits
<1> HIDE DEF x, b
<1>6. to[1] \in Decoder /\ to[2] \in SUBSET Packets
  BY <1>4, <1>5, PumpDoes, Zenon
<1>7. to \in Decoder \X SUBSET Packets
  <2>1. to = <<to[1], to[2]>>
    BY DEF Pump
  <2> HIDE DEF to
  <2> QED
    BY <1>6, <2>1
<1>8. seen => to = Pump(x, FrameOf[c][sent[c]])
  BY DEF b
<1>9. /\ x = IF map[c] = None \/ user[i] = None THEN New ELSE decoder[i]
      /\ map[c] # None /\ user[i] # None => user[i] = t
  BY <1>1 DEF x
<1> HIDE DEF to
<1>10. /\ p \in Packets \cup {None}
       /\ p = IF to[2] # {} THEN CHOOSE q \in to[2] : TRUE
              ELSE IF map[c] = None THEN None ELSE learnt[i]
  <2>1. to[2] # {} => (CHOOSE q \in to[2] : TRUE) \in to[2]
    OBVIOUS
  <2> QED
    BY <1>2, <1>6, <2>1
<1>11. d \in Channels \cup {None} /\ (mode[i] # None \/ map[c] = None => d # None)
  <2>1. CASE to[2] \ {learnt[i]} # {}
    <3>1. \E e \in Channels : PacketOf[e] \in to[2]
      BY <1>6, <2>1, NamesAreApart
    <3>2. d \in Channels
      BY <2>1, <3>1
    <3> QED
      BY <3>2, NamesAreApart
  <2>2. CASE to[2] \ {learnt[i]} = {}
    BY <1>2, <2>2, NamesAreApart
  <2> QED
    BY <2>1, <2>2
<1> HIDE DEF p, d
<1>12. (map[c] = None /\ mode[i] = None) \/ map[c] = i
  BY <1>1 DEF LookUp
<1>13. map' = [map EXCEPT ![c] = i]
  <2>1. CASE map[c] = None
    BY <1>1, <2>1 DEF LookUp
  <2>2. CASE map[c] # None
    <3>1. map' = map /\ map[c] = i
      BY <1>1, <2>2 DEF LookUp
    <3> QED
      BY <1>2, <3>1
  <2> QED
    BY <2>1, <2>2
<1> QED
  BY <1>3, <1>4, <1>7, <1>8, <1>9, <1>10, <1>11, <1>12, <1>13 DEF Turned, TurnedAt

LEMMA TurnKeeps ==
    ASSUME LighthouseInv, NEW c \in Channels, NEW t \in Trackers, NEW seen \in BOOLEAN, Turn(c, t, seen)
    PROVE  LighthouseInv'
<1>1. TypeOK /\ FrameInv /\ KeptInv /\ Advance(c)
  BY DEF LighthouseInv, Turn
<1>2. PICK i \in SlotIds, x \in Decoder, to \in Decoder \X SUBSET Packets :
          TurnedAt(c, t, seen, i, x, to)
  BY <1>1, TurnDoes DEF Turned
<1> USE DEF TurnedAt
<1>3. /\ version = "known" /\ version' = version /\ kept' = kept /\ plugged' = plugged
      /\ whole' = [whole EXCEPT ![c] = seen /\ (@ \/ sent[c] = 1)]
      /\ missed' = (IF seen THEN missed ELSE missed + 1) /\ missed' <= MaxMissed
  BY DEF Turn
<1>4. /\ map \in [Channels -> SlotIds \cup {None}] /\ mode \in [SlotIds -> Channels \cup {None}]
      /\ learnt \in [SlotIds -> Packets \cup {None}] /\ user \in [SlotIds -> Trackers \cup {None}]
      /\ decoder \in [SlotIds -> Decoder] /\ whole \in [Channels -> BOOLEAN]
      /\ missed \in 0 .. MaxMissed
  BY <1>1 DEF TypeOK
<1>5. /\ to[1] \in Decoder /\ i # None
      /\ map'[c] = i /\ user'[i] = t /\ t # None /\ decoder'[i] = to[1]
      /\ \A d \in Channels \ {c} : map'[d] = map[d] /\ whole'[d] = whole[d]
      /\ whole'[c] = (seen /\ (whole[c] \/ sent[c] = 1))
      /\ \A j \in SlotIds \ {i} : /\ user'[j] = user[j] /\ decoder'[j] = decoder[j]
                                  /\ learnt'[j] = learnt[j] /\ mode'[j] = mode[j]
  <2>1. t # None /\ i # None
    BY NamesAreApart
  <2>2. to[1] \in Decoder
    OBVIOUS
  <2>3. /\ map'[c] = i /\ user'[i] = t /\ decoder'[i] = to[1]
        /\ \A d \in Channels \ {c} : map'[d] = map[d]
    BY <1>2, <1>4
  <2>4. /\ whole'[c] = (seen /\ (whole[c] \/ sent[c] = 1))
        /\ \A d \in Channels \ {c} : whole'[d] = whole[d]
    BY <1>3, <1>4
  <2>5. \A j \in SlotIds \ {i} : /\ user'[j] = user[j] /\ decoder'[j] = decoder[j]
                                /\ learnt'[j] = learnt[j] /\ mode'[j] = mode[j]
    BY <1>2, <1>4
  <2> QED
    BY <2>1, <2>2, <2>3, <2>4, <2>5
<1>6. \A d \in Channels : ~Shared(d)' /\ map[d] # None => ~Shared(d)
  <2> SUFFICES ASSUME NEW d \in Channels, map[d] # None, NEW e \in Channels \ {d}, map[e] = map[d]
               PROVE  map'[e] = map'[d]
    BY DEF Shared
  <2>1. map'[e] = map[e] /\ map'[d] = map[d]
    BY <1>2, <1>4
  <2> QED
    BY <2>1
<1>7. TypeOK'
  <2>1. missed' \in 0 .. MaxMissed
    BY <1>3, <1>4, NamesAreApart
  <2>2. map' \in [Channels -> SlotIds \cup {None}]
    BY <1>2, <1>4
  <2>3. mode' \in [SlotIds -> Channels \cup {None}] /\ learnt' \in [SlotIds -> Packets \cup {None}]
    BY <1>2, <1>4
  <2>4. user' \in [SlotIds -> Trackers \cup {None}] /\ decoder' \in [SlotIds -> Decoder]
    BY <1>2, <1>4, <1>5
  <2>5. whole' \in [Channels -> BOOLEAN]
    BY <1>3, <1>4
  <2>6. DOMAIN sent' = Channels /\ \A d \in Channels : sent'[d] \in 1 .. Len(FrameOf[d])
    BY <1>1, AdvanceDoes
  <2>7. version' \in {"unknown", "known"} /\ kept' \in BOOLEAN /\ plugged' \subseteq Trackers
    BY <1>1, <1>3 DEF TypeOK
  <2> QED
    BY <2>1, <2>2, <2>3, <2>4, <2>5, <2>6, <2>7 DEF TypeOK
<1>8. FrameInv'
  <2> SUFFICES ASSUME NEW d \in Channels, whole'[d]
               PROVE  /\ version' = "known" /\ map'[d] # None /\ user'[map'[d]] # None
                      /\ ~Shared(d)' => InFrame(decoder'[map'[d]], learnt'[map'[d]], d, sent'[d])
    BY DEF FrameInv
  <2>1. CASE d = c
    <3>1. seen /\ (whole[c] \/ sent[c] = 1)
      BY <1>5, <2>1
    <3>2. ASSUME ~Shared(c)'
          PROVE  InFrame(to[1], learnt'[i], c, sent'[c])
      <4>1. sent[c] \in 1 .. Len(FrameOf[c])
        BY <1>1 DEF TypeOK
      <4>2. to = Pump(x, FrameOf[c][sent[c]])
        BY <1>2, <3>1
      <4>3. to[2] # {} => learnt'[i] = CHOOSE q \in to[2] : TRUE
        BY <1>2, <1>4
      <4>4. \E l : InFrame(x, l, c, sent[c])
        <5>1. CASE sent[c] = 1
          <6>1. 1 # Len(FrameOf[c])
            BY NamesAreApart
          <6>2. ~(1 \in 2 .. Preamble)
            OBVIOUS
          <6>3. \A q \in 0 .. Words(PacketOf[c]) - 1, r \in 0 .. Word :
                    1 # Preamble + 1 + (q * Period + r)
            <7> SUFFICES ASSUME NEW q \in 0 .. Words(PacketOf[c]) - 1, NEW r \in 0 .. Word,
                                1 = Preamble + 1 + (q * Period + r)
                         PROVE  FALSE
              OBVIOUS
            <7> DEFINE a == q * Period
            <7>1. Word \in Nat /\ Period = Word + 1 /\ Preamble = Word + 2
              BY SizesAreNat DEF Period, Preamble
            <7>2. q \in Nat /\ r \in Nat
              BY <7>1, FrameLength
            <7>3. a \in Nat
              BY <7>1, <7>2
            <7> HIDE DEF a
            <7>4. 1 = Preamble + 1 + (a + r)
              BY DEF a
            <7> QED
              BY <7>1, <7>2, <7>3, <7>4
          <6>4. InFrame(x, None, c, 1)
            BY <6>1, <6>2, <6>3 DEF InFrame
          <6>5. InFrame(x, None, c, sent[c])
            BY <5>1, <6>4
          <6> QED
            BY <6>5, Zenon
        <5>2. CASE whole[c]
          <6>1. map[c] # None /\ user[map[c]] # None
            BY <1>1, <5>2 DEF FrameInv
          <6>2. map[c] = i /\ x = decoder[i] /\ ~Shared(c)
            BY <1>2, <1>6, <3>2, <6>1
          <6>3. InFrame(x, learnt[i], c, sent[c])
            BY <1>1, <5>2, <6>2 DEF FrameInv
          <6> QED
            BY <6>3
        <5> QED
          BY <3>1, <5>1, <5>2
      <4>5. InFrame(to[1], learnt'[i], c, IF sent[c] = Len(FrameOf[c]) THEN 1 ELSE sent[c] + 1)
        <5>1. PICK l : InFrame(x, l, c, sent[c])
          BY <4>4, Zenon
        <5>2. InFrame(Pump(x, FrameOf[c][sent[c]])[1], learnt'[i], c,
                      IF sent[c] = Len(FrameOf[c]) THEN 1 ELSE sent[c] + 1)
          <6>1. Pump(x, FrameOf[c][sent[c]])[2] # {} =>
                    learnt'[i] = CHOOSE q \in Pump(x, FrameOf[c][sent[c]])[2] : TRUE
            BY <4>2, <4>3
          <6> QED
            BY <4>1, <5>1, <6>1, FrameStep, Zenon
        <5> QED
          BY <4>2, <5>2
      <4> QED
        BY <1>1, <4>5, AdvanceDoes
    <3> QED
      BY <1>3, <1>5, <2>1, <3>2
  <2>2. CASE d # c
    <3>1. whole[d] /\ map'[d] = map[d] /\ map[d] # None /\ user[map[d]] # None /\ map[d] \in SlotIds
      BY <1>1, <1>4, <1>5, <2>2 DEF FrameInv
    <3>2. sent'[d] = sent[d]
      BY <1>1, <2>2, AdvanceDoes
    <3>3. CASE map[d] = i
      <4>1. Shared(d)'
        BY <1>5, <2>2, <3>1, <3>3 DEF Shared
      <4> QED
        BY <1>3, <1>5, <3>1, <3>3, <4>1
    <3>4. CASE map[d] # i
      <4>1. ~Shared(d)' => InFrame(decoder[map[d]], learnt[map[d]], d, sent[d])
        BY <1>1, <1>6, <3>1 DEF FrameInv
      <4> QED
        BY <1>3, <1>5, <3>1, <3>2, <3>4, <4>1
    <3> QED
      BY <3>3, <3>4
  <2> QED
    BY <2>1, <2>2
<1>9. KeptInv'
  <2> SUFFICES ASSUME kept, NEW d \in Channels, map'[d] # None
               PROVE  mode'[map'[d]] # None /\ ~Shared(d)'
    BY <1>3 DEF KeptInv
  <2>1. \A e \in Channels : map[e] # None => mode[map[e]] # None /\ ~Shared(e) /\ map[e] \in SlotIds
    BY <1>1, <1>4 DEF KeptInv
  <2>2. mode'[i] # None
    <3>1. mode[i] # None \/ map[c] = None
      BY <1>2, <2>1
    <3> QED
      BY <1>2, <1>4, <3>1
  <2>3. mode'[map'[d]] # None
    BY <1>5, <2>1, <2>2
  <2>4. \A e \in Channels \ {c} : map[e] # i
    <3> SUFFICES ASSUME NEW e \in Channels \ {c}, map[e] = i PROVE FALSE
      OBVIOUS
    <3>1. mode[i] # None /\ ~Shared(e)
      BY <1>5, <2>1
    <3>2. map[c] = i
      BY <1>2, <3>1
    <3> QED
      BY <3>1, <3>2 DEF Shared
  <2>5. ASSUME NEW e \in Channels \ {d}, map'[e] = map'[d] PROVE FALSE
    <3>1. CASE d = c
      BY <1>5, <2>4, <2>5, <3>1
    <3>2. CASE e = c
      BY <1>5, <2>4, <2>5, <3>2
    <3>3. CASE d # c /\ e # c
      <4>1. map[e] = map[d] /\ map[d] # None
        BY <1>5, <2>5, <3>3
      <4> QED
        BY <2>1, <4>1 DEF Shared
    <3> QED
      BY <3>1, <3>2, <3>3
  <2> QED
    BY <2>3, <2>5 DEF Shared
<1> QED
  BY <1>7, <1>8, <1>9 DEF LighthouseInv

LEMMA LighthouseStep == LighthouseInv /\ [Next]_vars => LighthouseInv'
<1> SUFFICES ASSUME LighthouseInv, [Next]_vars PROVE LighthouseInv'
  OBVIOUS
<1>1. CASE Detect
  BY <1>1, DetectKeeps
<1>2. ASSUME NEW t \in Trackers, Unplug(t) PROVE LighthouseInv'
  BY <1>2, UnplugKeeps
<1>3. ASSUME NEW c \in Channels, Unheard(c) PROVE LighthouseInv'
  BY <1>3, UnheardKeeps
<1>4. ASSUME NEW c \in Channels, NEW t \in Trackers, NEW seen \in BOOLEAN, Turn(c, t, seen)
      PROVE  LighthouseInv'
  BY <1>4, TurnKeeps
<1>5. CASE UNCHANGED vars
  BY <1>5 DEF LighthouseInv, TypeOK, FrameInv, KeptInv, Shared, vars, table
<1> QED
  BY <1>1, <1>2, <1>3, <1>4, <1>5 DEF Next

\* The table of lighthouses, their decoders and what was learnt from them are
\* always of their types: no bit is written beyond the buffer, no count passes
\* its end, and a slot that survive_get_bsd_idx gives out is one there is.
THEOREM LighthouseTypeCorrect == Spec => []TypeOK
<1>1. LighthouseInv => TypeOK
  BY DEF LighthouseInv
<1> QED
  BY InitHolds, LighthouseStep, <1>1, PTL DEF Spec

\* Whatever a decoder had before, garbage, half a frame or skipped bits, a frame
\* of which it gets every bit is taken by ootx_pump_bit with its last data bit.
THEOREM WholeFrameAlwaysTaken == Spec => []WholeFrameIsTaken
<1>1. LighthouseInv => WholeFrameIsTaken
  <2> SUFFICES ASSUME LighthouseInv, NEW c \in Channels, whole[c], sent[c] = Len(FrameOf[c]), ~Shared(c)
               PROVE  learnt[map[c]] = PacketOf[c]
    BY DEF WholeFrameIsTaken
  <2>1. InFrame(decoder[map[c]], learnt[map[c]], c, Len(FrameOf[c]))
    BY DEF LighthouseInv, FrameInv
  <2> QED
    BY <2>1 DEF InFrame
<1> QED
  BY InitHolds, LighthouseStep, <1>1, PTL DEF Spec

\* survive_get_bsd_idx gives no two lighthouses one slot, unless the table was
\* reset under the map that it keeps.
THEOREM SlotsAreOwnUnlessReset == Spec => [](kept => \A c \in Channels : map[c] # None => ~Shared(c))
<1>1. LighthouseInv => (kept => \A c \in Channels : map[c] # None => ~Shared(c))
  BY DEF LighthouseInv, KeptInv
<1> QED
  BY InitHolds, LighthouseStep, <1>1, PTL DEF Spec
-----------------------------------------------------------------------------
(* A decoder that misses nothing from its first bit on. *)

\* A decoder that has had only bits of the frames of c, the last of them bit
\* k - 1 of a frame: it may not have found a preamble, but if it has, it is
\* where the frame is.
OfFrame(x, c, k) ==
    LET p == PacketOf[c]
    IN  /\ k <= Preamble \/ k = Len(FrameOf[c]) => ~x.found
        /\ k <= Preamble => x.zeros <= k - 1
        /\ k > Preamble => \E q \in 0 .. Words(p) - 1, r \in 0 .. Word :
               /\ k = Preamble + 1 + (q * Period + r)
               /\ x.zeros <= r /\ (x.found => InData(x, p, q, r))

LEMMA NewIsOfFrame ==
    ASSUME NEW c \in Channels, NEW k \in 1 .. Len(FrameOf[c])
    PROVE  OfFrame(New, c, k)
<1> DEFINE p == PacketOf[c]
           m == Words(p)
           all == m * Period
           L == Len(FrameOf[c])
<1>1. /\ m \in Nat /\ all \in Nat /\ L = Preamble + all
      /\ Word \in Nat /\ Preamble = Word + 2
  BY FrameLength, Zenon
<1>2. New.found = FALSE /\ New.zeros = 0
  BY DEF New
<1> HIDE DEF L, m, all
<1>3. k \in Nat /\ k >= 1 /\ k <= L
  BY <1>1 DEF L
<1>4. ASSUME k > Preamble
      PROVE  \E q \in 0 .. m - 1, r \in 0 .. Word : k = Preamble + 1 + (q * Period + r) /\ 0 <= r
  <2> DEFINE n == k - 1 - Preamble
  <2>1. n \in Nat /\ n < all
    BY <1>1, <1>3, <1>4
  <2>2. k = Preamble + 1 + n
    BY <1>1, <1>3
  <2> HIDE DEF n
  <2>3. PICK q \in 0 .. m - 1, r \in 0 .. Word : n = q * Period + r
    BY <1>1, <2>1, PlaceIn DEF all
  <2>4. k = Preamble + 1 + (q * Period + r) /\ 0 <= r
    BY <2>2, <2>3
  <2> QED
    BY <2>4
<1> QED
  BY <1>1, <1>2, <1>3, <1>4 DEF OfFrame, m

LEMMA OfFrameStep ==
    ASSUME NEW c \in Channels, NEW x \in Decoder, NEW k \in 1 .. Len(FrameOf[c]), OfFrame(x, c, k),
           NEW to, to = Pump(x, FrameOf[c][k])
    PROVE  /\ OfFrame(to[1], c, IF k = Len(FrameOf[c]) THEN 1 ELSE k + 1)
           /\ to[2] \subseteq {PacketOf[c]}
<1> DEFINE p == PacketOf[c]
           m == Words(p)
           L == Len(FrameOf[c])
           b == FrameOf[c][k]
           all == m * Period
<1>1. /\ p \in Packets /\ m \in Nat /\ m >= 1 /\ Len(p) = m * Word
      /\ all \in Nat /\ all >= Period /\ L = Preamble + all
      /\ Word \in Nat /\ Word >= 2 /\ Period = Word + 1 /\ Preamble = Word + 2
  BY FrameLength, Zenon
<1>2. b \in {0, 1} /\ b \in Bits /\ b # Skipped /\ Guess(x, b) = b
  <2>1. b \in {0, 1}
    BY FrameIs
  <2> HIDE DEF b
  <2> QED
    BY <2>1 DEF Bits, Skipped, Guess
<1>3. to = Pump(x, b)
  OBVIOUS
<1> HIDE DEF b
<1>4. x.zeros \in 0 .. Word + 1
  BY DEF Decoder
<1>5. to[1].zeros = IF b = 1 THEN 0 ELSE IF x.zeros > Word THEN x.zeros ELSE x.zeros + 1
  BY <1>2, <1>3, PumpCounts
<1>6. /\ (b = 1 /\ x.zeros > Word) \/ x.processed = Word \/ ~x.found => to[2] = {}
      /\ ~(b = 1 /\ x.zeros > Word) /\ ~x.found => ~to[1].found
  BY <1>2, <1>3, PumpMisses
<1> HIDE DEF p, m, L, all
<1>7. k \in Nat /\ k >= 1 /\ k <= L
  BY <1>1 DEF L
<1>8. CASE k < Preamble
  <2>1. ~x.found /\ x.zeros <= k - 1
    BY <1>1, <1>7, <1>8 DEF OfFrame
  <2>2. b = 0
    <3>1. k \in 1 .. Word + 1
      BY <1>1, <1>7, <1>8
    <3> QED
      BY <3>1, FrameIs, Zenon DEF b
  <2>3. to[1].zeros <= k /\ to[2] = {} /\ ~to[1].found
    BY <1>1, <1>4, <1>5, <1>6, <1>7, <1>8, <2>1, <2>2
  <2>4. k # L /\ ~(k + 1 > Preamble) /\ (k + 1) - 1 = k
    BY <1>1, <1>7, <1>8
  <2>5. OfFrame(to[1], c, k + 1)
    BY <2>3, <2>4 DEF OfFrame
  <2> QED
    BY <2>3, <2>4, <2>5 DEF L
<1>9. CASE k = Preamble
  <2>1. ~x.found
    BY <1>1, <1>9 DEF OfFrame
  <2>2. b = 1
    BY <1>9, FrameIs, Zenon DEF b
  <2>3. to[2] = {} /\ to[1].zeros = 0
    BY <1>5, <1>6, <2>1, <2>2
  <2>4. to[1].found => InData(to[1], p, 0, 0)
    <3> SUFFICES ASSUME to[1].found PROVE InData(to[1], p, 0, 0)
      OBVIOUS
    <3>1. x.zeros > Word
      BY <1>6, <2>1
    <3>2. 1 \in Bits /\ Guess(x, 1) = 1
      BY <1>2, <2>2
    <3>3. to[1].processed = 0 /\ to[1].at = 0
      BY <1>3, <2>2, <3>1, <3>2, PumpStarts
    <3>4. 0 * Word + 0 = 0
      BY <1>1
    <3> QED
      BY <2>3, <3>3, <3>4 DEF InData
  <2>5. /\ k # L /\ k + 1 # L /\ ~(k + 1 <= Preamble)
        /\ 0 \in 0 .. m - 1 /\ 0 \in 0 .. Word
        /\ k + 1 = Preamble + 1 + (0 * Period + 0)
    BY <1>1, <1>9
  <2>6. OfFrame(to[1], c, k + 1)
    BY <2>3, <2>4, <2>5 DEF OfFrame, L, m, p
  <2> QED
    BY <2>3, <2>5, <2>6 DEF L
<1>10. CASE k > Preamble
  <2>1. PICK q \in 0 .. m - 1, r \in 0 .. Word :
            /\ k = Preamble + 1 + (q * Period + r)
            /\ x.zeros <= r /\ (x.found => InData(x, p, q, r))
    BY <1>10 DEF OfFrame, m, p
  <2>2. q \in Nat /\ r \in Nat /\ r <= Word /\ q < m
    BY <1>1
  <2> DEFINE a == q * Period
             w == q * Word
  <2>3. a \in Nat /\ w \in Nat /\ a = w + q /\ (q = m - 1 => w + Word = m * Word)
    BY <1>1, <2>2
  <2>4. q = m - 1 => a + Period = all
    BY <1>1 DEF all
  <2>5. q # m - 1 => a + 2 * Period <= all
    <3>1. q # m - 1 => m - q - 2 \in Nat
      BY <1>1, <2>2
    <3>2. \A d \in Nat : d * Period >= 0
      BY <1>1
    <3>3. (m - q - 2) * Period = all - a - 2 * Period
      BY <1>1, <2>2 DEF all
    <3> HIDE DEF a
    <3> QED
      BY <1>1, <2>3, <3>1, <3>2, <3>3
  <2>6. b = IF r = Word THEN 1 ELSE p[q * Word + r + 1]
    BY <2>1, FrameIs, Zenon DEF b, m, p
  <2>7. ~(b = 1 /\ x.zeros > Word)
    BY <1>1, <1>4, <2>1, <2>2
  <2>8. k = Preamble + 1 + (a + r)
    BY <2>1
  <2>9. CASE r = Word
    <3>1. b = 1 /\ to[1].zeros = 0
      BY <1>5, <2>6, <2>9
    <3>2. to[2] = {} /\ (to[1].found => x.found)
      <4>1. x.found => x.processed = Word
        BY <2>1, <2>9 DEF InData
      <4> QED
        BY <1>6, <2>7, <4>1
    <3>3. CASE k = L
      <4>1. ~to[1].found
        BY <1>10, <3>2, <3>3 DEF OfFrame, L
      <4>2. 1 <= Preamble /\ ~(1 > Preamble) /\ to[1].zeros <= 1 - 1
        BY <1>1, <3>1
      <4>3. OfFrame(to[1], c, 1)
        BY <4>1, <4>2 DEF OfFrame
      <4> QED
        BY <3>2, <3>3, <4>3 DEF L
    <3>4. CASE k # L
      <4> HIDE DEF a, w
      <4>1. q # m - 1
        BY <1>1, <2>2, <2>3, <2>4, <2>8, <2>9, <3>4
      <4>2. q + 1 \in 0 .. m - 1 /\ 0 \in 0 .. Word
        BY <1>1, <2>2, <4>1
      <4>3. (q + 1) * Period = a + Period
        BY <1>1, <2>2 DEF a
      <4>4. k + 1 = Preamble + 1 + ((q + 1) * Period + 0) /\ k + 1 # L /\ ~(k + 1 <= Preamble)
        BY <1>1, <1>7, <1>10, <2>2, <2>3, <2>5, <2>8, <2>9, <4>1, <4>3
      <4>5. to[1].found => InData(to[1], p, q + 1, 0)
        <5>1. x.found => InData(Pump(x, 1)[1], p, q + 1, 0)
          BY <2>1, <2>2, <2>9, SyncBit
        <5> QED
          BY <1>3, <3>1, <3>2, <5>1
      <4>6. OfFrame(to[1], c, k + 1)
        BY <3>1, <4>2, <4>4, <4>5 DEF OfFrame, L, m, p
      <4> QED
        BY <3>2, <3>4, <4>6 DEF L
    <3> QED
      BY <3>3, <3>4
  <2>10. CASE r # Word
    <3>0. r \in 0 .. Word - 1 /\ r + 1 \in 0 .. Word /\ r + 1 \in Nat /\ r < Word
      BY <1>1, <2>2, <2>10
    <3>1. to[1].zeros <= r + 1
      BY <1>1, <1>4, <1>5, <2>1, <2>2
    <3>2. b = p[q * Word + r + 1] /\ q \in 0 .. Words(p) - 1
      BY <2>6, <2>10 DEF m
    <3> DEFINE n == w + r + 1
    <3>3. /\ x.found /\ n # Len(p) => InData(to[1], p, q, r + 1) /\ to[2] = {}
          /\ x.found /\ n = Len(p) => to[2] = {p} /\ ~to[1].found
          /\ ~x.found => to[2] = {} /\ ~to[1].found
      <4>1. CASE x.found
        <5>1. InData(x, p, q, r) /\ n = q * Word + r + 1 /\ b = p[n]
              /\ p \in Packets /\ q \in 0 .. Words(p) - 1 /\ r \in 0 .. Word - 1
          BY <1>1, <2>1, <3>0, <3>2, <4>1
        <5> HIDE DEF n
        <5>2. n # Len(p) => InData(Pump(x, p[n])[1], p, q, r + 1) /\ Pump(x, p[n])[2] = {}
          BY <5>1, NextBit, Zenon
        <5>3. n = Len(p) => Pump(x, p[n])[2] = {p} /\ ~Pump(x, p[n])[1].found
          <6> SUFFICES ASSUME n = Len(p) PROVE Pump(x, p[n])[2] = {p} /\ ~Pump(x, p[n])[1].found
            OBVIOUS
          <6>1. Len(p) = q * Word + r + 1
            BY <5>1
          <6>2. Pump(x, p[Len(p)])[2] = {p} /\ ~Pump(x, p[Len(p)])[1].found
            BY <5>1, <6>1, LastBit, Zenon
          <6> QED
            BY <6>2
        <5> QED
          BY <1>3, <4>1, <5>1, <5>2, <5>3
      <4>2. CASE ~x.found
        BY <1>6, <2>7, <4>2
      <4> QED
        BY <4>1, <4>2
    <3> HIDE DEF a, w
    <3>4. k # L /\ ~(k + 1 <= Preamble)
      BY <1>1, <1>7, <1>10, <2>2, <2>3, <2>4, <2>5, <2>8, <3>0
    <3>5. k + 1 = Preamble + 1 + (q * Period + (r + 1))
      <4>1. k + 1 = Preamble + 1 + (a + (r + 1))
        BY <1>1, <2>2, <2>3, <2>8
      <4> QED
        BY <4>1 DEF a
    <3>6. k + 1 = L => n = Len(p)
      BY <1>1, <2>2, <2>3, <2>4, <2>5, <2>8, <3>0
    <3> HIDE DEF n
    <3>7. OfFrame(to[1], c, k + 1)
      <4>1. k + 1 = L => ~to[1].found
        BY <3>3, <3>6
      <4>2. to[1].found => InData(to[1], p, q, r + 1)
        BY <3>3
      <4> QED
        BY <3>0, <3>1, <3>4, <3>5, <4>1, <4>2 DEF OfFrame, L, m, p
    <3>8. to[2] \subseteq {p}
      BY <3>3
    <3> QED
      BY <3>4, <3>7, <3>8 DEF L, p
  <2> QED
    BY <2>9, <2>10
<1> QED
  BY <1>1, <1>7, <1>8, <1>9, <1>10

\* What a lighthouse's slot holds is the lighthouse's, unless the table was reset.
OwnInv ==
    kept => \A c \in Channels : map[c] # None =>
        /\ learnt[map[c]] \in {None, PacketOf[c]}
        /\ user[map[c]] \in plugged => OfFrame(decoder[map[c]], c, sent[c])

LEMMA OwnInit == Init => OwnInv
<1> SUFFICES ASSUME Init, NEW c \in Channels, map[c] # None
             PROVE  learnt[map[c]] = None /\ user[map[c]] \notin plugged
  BY DEF OwnInv
<1>1. map[c] \in SlotIds
  BY DEF Init
<1> QED
  BY <1>1, NamesAreApart DEF Init

LEMMA OwnTurn ==
    ASSUME MaxMissed = 0, LighthouseInv, LighthouseInv', OwnInv, kept,
           NEW c \in Channels, NEW t \in Trackers, NEW seen \in BOOLEAN, Turn(c, t, seen)
    PROVE  OwnInv'
<1>1. TypeOK /\ KeptInv' /\ Advance(c) /\ plugged' = plugged /\ kept' = kept /\ t \in plugged
  BY DEF LighthouseInv, Turn
<1>2. PICK i \in SlotIds, x \in Decoder, to \in Decoder \X SUBSET Packets :
          TurnedAt(c, t, seen, i, x, to)
  BY <1>1, TurnDoes DEF Turned
<1>3. seen
  BY <1>1 DEF TypeOK, Turn
<1>4. /\ map \in [Channels -> SlotIds \cup {None}] /\ learnt \in [SlotIds -> Packets \cup {None}]
      /\ user \in [SlotIds -> Trackers \cup {None}] /\ decoder \in [SlotIds -> Decoder]
      /\ plugged \subseteq Trackers /\ sent[c] \in 1 .. Len(FrameOf[c])
  BY <1>1 DEF TypeOK
<1>5. /\ map[c] = None \/ map[c] = i
      /\ map'[c] = i /\ user'[i] = t /\ decoder'[i] = to[1] /\ i # None
      /\ \A d \in Channels \ {c} : map'[d] = map[d]
      /\ \A j \in SlotIds \ {i} : /\ user'[j] = user[j] /\ decoder'[j] = decoder[j]
                                  /\ learnt'[j] = learnt[j]
      /\ learnt'[i] = IF to[2] # {} THEN CHOOSE q \in to[2] : TRUE
                      ELSE IF map[c] = None THEN None ELSE learnt[i]
      /\ x = IF map[c] = None \/ user[i] = None THEN New ELSE decoder[i]
      /\ map[c] # None /\ user[i] # None => user[i] = t
      /\ to = Pump(x, FrameOf[c][sent[c]])
  <2>1. i # None
    BY NamesAreApart
  <2>2. \A d \in Channels \ {c} : map'[d] = map[d]
    BY <1>2, <1>4 DEF TurnedAt
  <2> QED
    BY <1>2, <1>3, <1>4, <2>1, <2>2 DEF TurnedAt
<1>6. OfFrame(x, c, sent[c])
  <2>1. CASE map[c] = None \/ user[i] = None
    BY <1>4, <1>5, <2>1, NewIsOfFrame
  <2>2. CASE map[c] # None /\ user[i] # None
    BY <1>1, <1>5, <2>2 DEF OwnInv
  <2> QED
    BY <2>1, <2>2
<1>7. OfFrame(to[1], c, sent'[c]) /\ to[2] \subseteq {PacketOf[c]}
  <2>1. /\ OfFrame(to[1], c, IF sent[c] = Len(FrameOf[c]) THEN 1 ELSE sent[c] + 1)
        /\ to[2] \subseteq {PacketOf[c]}
    BY <1>4, <1>5, <1>6, OfFrameStep, Zenon
  <2> QED
    BY <1>1, <2>1, AdvanceDoes
<1>8. learnt'[i] \in {None, PacketOf[c]}
  <2>1. to[2] # {} => (CHOOSE q \in to[2] : TRUE) = PacketOf[c]
    BY <1>7
  <2>2. map[c] # None => learnt[i] \in {None, PacketOf[c]}
    BY <1>5 DEF OwnInv
  <2> QED
    BY <1>5, <2>1, <2>2
<1>9. ASSUME NEW d \in Channels, map'[d] # None
      PROVE  /\ learnt'[map'[d]] \in {None, PacketOf[d]}
             /\ user'[map'[d]] \in plugged => OfFrame(decoder'[map'[d]], d, sent'[d])
  <2>1. CASE d = c
    BY <1>5, <1>7, <1>8, <2>1
  <2>2. CASE d # c
    <3>1. map'[d] # i
      BY <1>1, <1>5, <1>9, <2>2 DEF KeptInv, Shared
    <3>2. map'[d] = map[d] /\ map[d] \in SlotIds \ {i} /\ sent'[d] = sent[d]
      BY <1>1, <1>4, <1>5, <1>9, <2>2, <3>1, AdvanceDoes
    <3> QED
      BY <1>5, <1>9, <3>2 DEF OwnInv
  <2> QED
    BY <2>1, <2>2
<1> QED
  BY <1>1, <1>9 DEF OwnInv

LEMMA OwnStep ==
    ASSUME MaxMissed = 0, LighthouseInv, LighthouseInv', OwnInv, [Next]_vars
    PROVE  OwnInv'
<1> SUFFICES ASSUME kept' PROVE OwnInv'
  BY DEF OwnInv
<1>1. CASE Detect
  BY <1>1 DEF OwnInv, Detect
<1>2. ASSUME NEW t \in Trackers, Unplug(t) PROVE OwnInv'
  BY <1>2 DEF OwnInv, Unplug, table
<1>3. ASSUME NEW c \in Channels, Unheard(c) PROVE OwnInv'
  <2>1. TypeOK /\ Advance(c) /\ kept
    BY <1>3 DEF LighthouseInv, Unheard, table
  <2>2. /\ map' = map /\ learnt' = learnt /\ user' = user /\ decoder' = decoder
        /\ plugged' = plugged
        /\ map[c] # None /\ user[map[c]] \in plugged => missed < MaxMissed
    BY <1>3 DEF Unheard, table
  <2>3. ~(map[c] # None /\ user[map[c]] \in plugged)
    BY <2>1, <2>2 DEF TypeOK
  <2>4. \A d \in Channels \ {c} : sent'[d] = sent[d]
    BY <2>1, AdvanceDoes
  <2> QED
    BY <2>1, <2>2, <2>3, <2>4 DEF OwnInv
<1>4. ASSUME NEW c \in Channels, NEW t \in Trackers, NEW seen \in BOOLEAN, Turn(c, t, seen)
      PROVE  OwnInv'
  <2>1. kept
    BY <1>4 DEF Turn
  <2> QED
    BY <1>4, <2>1, OwnTurn
<1>5. CASE UNCHANGED vars
  BY <1>5 DEF OwnInv, vars, table
<1> QED
  BY <1>1, <1>2, <1>3, <1>4, <1>5 DEF Next

\* If the tracker of a decoder sees every sync, then from whichever bit of a
\* frame it began, and whichever tracker is pulled out, a lighthouse is never
\* taken for another one, unless the table was reset.
THEOREM OwnWhenAllIsSeen == MaxMissed = 0 /\ Spec => []LearntIsOwn
<1>1. LighthouseInv /\ OwnInv => LearntIsOwn
  BY DEF OwnInv, LearntIsOwn
<1>2. LighthouseInv /\ [Next]_vars => LighthouseInv'
  BY LighthouseStep
<1>3. ASSUME MaxMissed = 0 PROVE LighthouseInv /\ LighthouseInv' /\ OwnInv /\ [Next]_vars => OwnInv'
  BY <1>3, OwnStep
<1>4. ASSUME MaxMissed = 0 PROVE Spec => []LearntIsOwn
  BY InitHolds, OwnInit, <1>1, <1>2, <1>3, <1>4, PTL DEF Spec
<1> QED
  BY <1>4
=============================================================================
