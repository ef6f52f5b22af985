------------------------------- MODULE Codecs -------------------------------
(***************************************************************************)
(* How pethubpacket.py takes the bytes of a message apart and puts them    *)
(* together: time stamps, the chips of the pets and the frames of a        *)
(* message.  Pure functions, checked on the given data.                    *)
(*                                                                         *)
(* Decimal text is left out: a time stamp is its numbers, and a chip is    *)
(* its country and its 38-bit number, the latter cut into the parts that   *)
(* fall into one byte.  Where a door reads it, it is its 48 bits.          *)
(***************************************************************************)
EXTENDS Integers, Sequences, SequencesExt

Byte   == 0 .. 255
Nibble == 0 .. 15                         \* a hexadecimal digit

\* A time stamp, as wide as the bits it has on the wire: the year is the last two
\* digits.
Stamp == [year : 0 .. 63, month : Nibble, day : 0 .. 31, hour : 0 .. 31, minute : 0 .. 63, second : 0 .. 63]

\* An FDX-B chip: of the number the four lower bytes and the six bits above.
Chip == [country : 0 .. 1023, low1 : Byte, low2 : Byte, low3 : Byte, low4 : Byte, high : 0 .. 63]

\* The same bit by bit, as the pet door has it: ten of the country, then the number.
Bits == [1 .. 48 -> {0, 1}]

CONSTANTS
    Stamps,   \* time stamps to check
    Chips,    \* chips to check, their country given
    DoorChips,\* chips of a pet door to check, their number not zero
    Batches   \* frames that are sent as one message

ASSUME CodecAssumption ==
    /\ Stamps \subseteq Stamp
    /\ Chips \subseteq {c \in Chip : c.country # 0}
    /\ DoorChips \subseteq {c \in Bits : \E i \in 11 .. 48 : c[i] = 1}
    /\ \A b \in Batches : b \in Seq(Seq(Byte)) /\ b # <<>>
    /\ \A b \in Batches : \A i \in DOMAIN b : Len(b[i]) \in Byte /\ (i < Len(b) => Len(b[i]) >= 2)

-----------------------------------------------------------------------------
(* Time stamps of the devices: 32 bits, little-endian *)

devicetimestampfromstring(t) ==
    LET n == ((((t.year * 16 + t.month) * 32 + t.day) * 32 + t.hour) * 64 + t.minute) * 64 + t.second
    IN  <<n % 256, (n \div 256) % 256, (n \div 65536) % 256, n \div 16777216>>

devicetimestamptostring(b) ==
    LET n == b[1] + 256 * b[2] + 65536 * b[3] + 16777216 * b[4]
    IN  [year |-> n \div 67108864, month |-> (n \div 4194304) % 16, day |-> (n \div 131072) % 32,
         hour |-> (n \div 4096) % 32, minute |-> (n \div 64) % 64, second |-> n % 64]

-----------------------------------------------------------------------------
(* FDX-B chips: 10 bits and 38 bits, little-endian *)

ChipBytes(c) ==
    <<c.low1, c.low2, c.low3, c.low4, (c.country % 4) * 64 + c.high, c.country \div 4>>

Digits(b) ==
    <<b[1] \div 16, b[1] % 16, b[2] \div 16, b[2] % 16, b[3] \div 16, b[3] % 16,
      b[4] \div 16, b[4] % 16, b[5] \div 16, b[5] % 16, b[6] \div 16, b[6] % 16>>

\* hex(): no leading zeros.  There is a digit that is not zero, for no country is.
Significant(digits) ==
    LET first == CHOOSE i \in DOMAIN digits : digits[i] # 0 /\ \A j \in 1 .. i - 1 : digits[j] = 0
    IN  SubSeq(digits, first, Len(digits))

chiptohex(c) == Significant(Digits(ChipBytes(c))) \o <<0, 1>>

\* splitbyte, and the device that reads the bytes, if they are seven.
SevenBytes(digits) ==
    <<digits[1] * 16 + digits[2], digits[3] * 16 + digits[4], digits[5] * 16 + digits[6],
      digits[7] * 16 + digits[8], digits[9] * 16 + digits[10], digits[11] * 16 + digits[12],
      digits[13] * 16 + digits[14]>>

\* Type 1 in the last byte, and the others not all zero.
bytestotag(b) ==
    [country |-> b[6] * 4 + b[5] \div 64,
     low1 |-> b[1], low2 |-> b[2], low3 |-> b[3], low4 |-> b[4], high |-> b[5] % 64]

\* The pet door has the bits in reverse.
DoorBits(c) == Reverse(c)

\* The bits are padded with blanks, in front, to 48, reversed and read, and int()
\* passes over the blanks, which are now behind the last one.
LastOne(bits)    == CHOOSE i \in DOMAIN bits : bits[i] = 1 /\ \A j \in i + 1 .. Len(bits) : bits[j] = 0
doorhextochip(b) == SubSeq(Reverse(b), 1, LastOne(Reverse(b)))

-----------------------------------------------------------------------------
(* The frames of a message *)

Payload == Seq(Byte)

\* What the devices send: each frame behind a byte with its length.
Joined(frames) ==
    LET from[i \in 1 .. Len(frames) + 1] ==
            IF i > Len(frames) THEN <<>> ELSE <<Len(frames[i])>> \o frames[i] \o from[i + 1]
    IN  from[1]

\* One round of the loop: while more than two bytes are left, the frame they begin
\* with is taken off, as much of it as there is.
GoesOn(payload) == Len(payload) > 2
End(payload)    == IF payload[1] < Len(payload) THEN payload[1] + 1 ELSE Len(payload)
Taken(payload)  == SubSeq(payload, 2, End(payload))
Left(payload)   == SubSeq(payload, End(payload) + 1, Len(payload))

parsemultiframe(payload) ==
    LET frames[p \in Payload] == IF GoesOn(p) THEN <<Taken(p)>> \o frames[Left(p)] ELSE <<>>
    IN  frames[payload]

-----------------------------------------------------------------------------
(* Properties *)

\* A time that is written into a message is the time that is read from it, for every
\* value a field has bits for.
StampsReturn == \A t \in Stamps : devicetimestamptostring(devicetimestampfromstring(t)) = t

\* A chip that is sent to a feeder or a cat flap, to be let in, is the chip they will
\* report, unless its lowest byte has a zero as its first digit: then the message is
\* short of that digit and not one of whole bytes.
ChipsReturn ==
    \A c \in Chips :
        IF c.low1 >= 16 THEN bytestotag(SevenBytes(chiptohex(c))) = c ELSE Len(chiptohex(c)) < 14

\* A chip that a pet door reports is read as what it is if its number is odd; of any other
\* the zeros at its end are missing.
DoorChipsReturn ==
    \A c \in DoorChips : doorhextochip(DoorBits(c)) = c <=> c[48] = 1

\* The frames of a message are those that were sent, but a last one of less than two
\* bytes, which is dropped.
FramesReturn ==
    \A b \in Batches :
        parsemultiframe(Joined(b)) = IF Len(b[Len(b)]) >= 2 THEN b ELSE SubSeq(b, 1, Len(b) - 1)
=============================================================================
