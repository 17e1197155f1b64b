---------------------------- MODULE OotxDecoder -----------------------------
(***************************************************************************)
(* The decoder of a lighthouse's data stream                               *)
(* (repos/libsurvive/src/ootx_decoder.c).  A frame is a preamble of        *)
(* Word + 1 zeros and a one, then words of Word bits, each followed by a   *)
(* one: the length of the payload in bytes, the payload, its checksum.     *)
(* In the code a word is 16 bits, the checksum 4 bytes, the buffer 64.     *)
(*                                                                         *)
(* The checksum is ideal: a packet is taken if it is one that is sent.     *)
(***************************************************************************)
EXTENDS Integers, Sequences

CONSTANTS Word, Byte,       \* bits
          Checksum, Buffer, \* bytes
          Packets           \* what is sent: the bits of all words of a frame

ASSUME DecoderAssumption ==
    /\ {Word, Byte, Checksum, Buffer} \subseteq Nat \ {0}
    /\ Word = 2 * Byte /\ Word <= Buffer * Byte
    /\ \A p \in Packets : p \in Seq({0, 1}) /\ Len(p) < Buffer * Byte

\* A sync that was skipped gives this for a bit.
Skipped == -1

Bits == {Skipped, 0, 1}

Decoder == [zeros: 0 .. Word + 1,      \* the end of preamble: how many, if not more
            processed: 0 .. Word, found: BOOLEAN,
            buffer: [0 .. Buffer * Byte - 1 -> {0, 1}],
            at: 0 .. Buffer * Byte - 1] \* buf_offset and bits_written

\* ootx_init_decoder_context, of memory that is zero.
New == [zeros |-> 0, processed |-> 0, found |-> FALSE,
        buffer |-> [i \in 0 .. Buffer * Byte - 1 |-> 0], at |-> 0]

\* ootx_reset_buffer: of the buffer, only the length is cleared.
Reset(x) == [x EXCEPT !.at = 0, !.found = FALSE,
                      !.buffer = [i \in DOMAIN @ |-> IF i < Word THEN 0 ELSE @[i]]]

\* What ootx_detect_preamble takes a bit for.
Guess(x, b) ==
    IF b # Skipped THEN b ELSE IF x.found \/ x.zeros >= Word THEN 1 ELSE 0

\* The number that a word of bits gives, the highest bit first.
Number(bits) == LET v[j \in 0 .. Word] == IF j = 0 THEN 0 ELSE 2 * v[j - 1] + bits[j]
                IN  v[Word]

\* How many numbers a word can hold.
Numbers == Number([j \in 1 .. Word |-> 1]) + 1

\* The length that the first word gives, the low byte first, the high bit of
\* each byte first; and what it is when padded, in as many bits.
Length(x) == Number([j \in 1 .. Word |-> x.buffer[(j + Byte - 1) % Word]])

Padded(x) == (Length(x) + (Length(x) % 2)) % Numbers

\* What is sent ends with a word, and has the length that its first word says.
Holding(p) == [New EXCEPT !.buffer = [i \in DOMAIN @ |-> IF i < Len(p) THEN p[i + 1] ELSE 0]]

ASSUME PacketAssumption ==
    \A p \in Packets : /\ Len(p) % Word = 0
                       /\ Len(p) = (Padded(Holding(p)) + 2 + Checksum) * Byte

\* ootx_write_to_buffer: a skipped bit stays what it was; a full buffer is left.
Written(x, b) ==
    LET y == [x EXCEPT !.buffer = IF b = Skipped THEN @ ELSE [@ EXCEPT ![x.at] = b], !.at = @ + 1]
    IN  IF y.at = Buffer * Byte THEN [y EXCEPT !.at = 0, !.found = FALSE] ELSE y

\* Mutant: a byte more is waited for.
CompleteMutant(x) == x.at \div Byte > Padded(x) + 2 + Checksum

Complete(x) == x.at \div Byte >= Padded(x) + 2 + Checksum

\* The packet in the buffer, if its checksum is right.
Packet(x) == {p \in Packets : \A i \in 1 .. Len(p) : x.buffer[i - 1] = p[i]}

\* Mutant: the bits of a word are not counted from the preamble.
PumpMutant(x, b) ==
    LET bit == Guess(x, b)
        y == [x EXCEPT !.zeros = IF bit = 1 THEN 0 ELSE IF @ > Word THEN @ ELSE @ + 1,
                       !.processed = @ + 1]
        w == Written(y, b)
    IN  IF bit = 1 /\ x.zeros > Word
        THEN <<[Reset(y) EXCEPT !.found = TRUE], {}>>
        ELSE IF y.processed > Word
        THEN <<[(IF b = 0 THEN Reset(y) ELSE y) EXCEPT !.processed = 0], {}>>
        ELSE IF ~x.found THEN <<y, {}>>
        ELSE IF Complete(w) THEN <<Reset(w), Packet(w)>> ELSE <<w, {}>>

\* ootx_pump_bit: the decoder after the bit, and the packet that it completes.
Pump(x, b) ==
    LET bit == Guess(x, b)
        y == [x EXCEPT !.zeros = IF bit = 1 THEN 0 ELSE IF @ > Word THEN @ ELSE @ + 1,
                       !.processed = @ + 1]
        w == Written(y, b)
    IN  IF bit = 1 /\ x.zeros > Word
        THEN <<[Reset(y) EXCEPT !.processed = 0, !.found = TRUE], {}>>
        ELSE IF y.processed > Word
        THEN <<[(IF b = 0 THEN Reset(y) ELSE y) EXCEPT !.processed = 0], {}>>
        ELSE IF ~x.found THEN <<y, {}>>
        ELSE IF Complete(w) THEN <<Reset(w), Packet(w)>> ELSE <<w, {}>>
=============================================================================
