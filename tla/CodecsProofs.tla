---------------------------- MODULE CodecsProofs ----------------------------
(***************************************************************************)
(* What the codecs of pethubpacket.py give back, for every time stamp and  *)
(* every chip, and what one round of the loop over the frames of a message *)
(* does with any payload.                                                  *)
(***************************************************************************)
EXTENDS Codecs, SequenceTheorems, TLAPS

-----------------------------------------------------------------------------
(* Time stamps *)

\* A number of four bytes is made of its bytes.
LEMMA FourBytes ==
    ASSUME NEW n \in Nat
    PROVE  (n % 256) + 256 * ((n \div 256) % 256) + 65536 * ((n \div 65536) % 256)
               + 16777216 * (n \div 16777216) = n
  <1>1. n = 256 * (n \div 256) + (n % 256)
    BY SMT
  <1>2. n \div 256 = 256 * (n \div 65536) + ((n \div 256) % 256)
    BY SMT
  <1>3. n \div 65536 = 256 * (n \div 16777216) + ((n \div 65536) % 256)
    BY SMT
  <1> QED
    BY <1>1, <1>2, <1>3, SMT

\* The fields of a time stamp are cut off one after the other.
LEMMA CutFields ==
    ASSUME NEW n \in Nat
    PROVE  /\ n \div 4096 = (n \div 64) \div 64
           /\ n \div 131072 = (n \div 4096) \div 32
           /\ n \div 4194304 = (n \div 131072) \div 32
           /\ n \div 67108864 = (n \div 4194304) \div 16
  <1>1. n \div 4096 = (n \div 64) \div 64
    BY SMT
  <1>2. n \div 131072 = (n \div 4096) \div 32
    BY SMT
  <1>3. n \div 4194304 = (n \div 131072) \div 32
    BY SMT
  <1>4. n \div 67108864 = (n \div 4194304) \div 16
    BY SMT
  <1> QED
    BY <1>1, <1>2, <1>3, <1>4, SMT

Number(y, mo, d, h, mi, s) == ((((y * 16 + mo) * 32 + d) * 32 + h) * 64 + mi) * 64 + s

HasFields(n, y, mo, d, h, mi, s) ==
    /\ n \in Nat
    /\ n \div 67108864 = y
    /\ (n \div 4194304) % 16 = mo
    /\ (n \div 131072) % 32 = d
    /\ (n \div 4096) % 32 = h
    /\ (n \div 64) % 64 = mi
    /\ n % 64 = s

\* The fields of a number that was made of them.
LEMMA FieldsReturn ==
    ASSUME NEW y \in Nat, NEW mo \in 0 .. 15, NEW d \in 0 .. 31, NEW h \in 0 .. 31,
           NEW mi \in 0 .. 63, NEW s \in 0 .. 63
    PROVE  HasFields(Number(y, mo, d, h, mi, s), y, mo, d, h, mi, s)
  <1> DEFINE n == Number(y, mo, d, h, mi, s)
  <1>1. PICK months \in Nat : months = y * 16 + mo
    BY SMT
  <1>2. PICK days \in Nat : days = months * 32 + d
    BY <1>1, SMT
  <1>3. PICK hours \in Nat : hours = days * 32 + h
    BY <1>2, SMT
  <1>4. PICK minutes \in Nat : minutes = hours * 64 + mi
    BY <1>3, SMT
  <1>5. n = minutes * 64 + s /\ n \in Nat
    BY <1>1, <1>2, <1>3, <1>4, SMT DEF Number
  <1> HIDE DEF n
  <1>6. n \div 64 = minutes /\ n % 64 = s
    BY <1>5, SMT
  <1>7. n \div 4096 = hours /\ (n \div 64) % 64 = mi
    BY <1>4, <1>5, <1>6, CutFields, SMT
  <1>8. n \div 131072 = days /\ (n \div 4096) % 32 = h
    BY <1>3, <1>5, <1>7, CutFields, SMT
  <1>9. n \div 4194304 = months /\ (n \div 131072) % 32 = d
    BY <1>2, <1>5, <1>8, CutFields, SMT
  <1>10. n \div 67108864 = y /\ (n \div 4194304) % 16 = mo
    BY <1>1, <1>5, <1>9, CutFields, SMT
  <1> QED
    BY <1>5, <1>6, <1>7, <1>8, <1>9, <1>10, SMT DEF HasFields, n

\* devicetimestamptostring reads what devicetimestampfromstring has written: all of the
\* fields, at every value they have bits for.
THEOREM EveryStampReturns == StampsReturn
  <1> SUFFICES ASSUME NEW t \in Stamps
               PROVE  devicetimestamptostring(devicetimestampfromstring(t)) = t
    BY DEF StampsReturn
  <1>1. t \in Stamp
    BY CodecAssumption
  <1> DEFINE n == Number(t.year, t.month, t.day, t.hour, t.minute, t.second)
             b == devicetimestampfromstring(t)
             m == b[1] + 256 * b[2] + 65536 * b[3] + 16777216 * b[4]
  <1>2. /\ t.year \in Nat /\ t.month \in 0 .. 15 /\ t.day \in 0 .. 31
        /\ t.hour \in 0 .. 31 /\ t.minute \in 0 .. 63 /\ t.second \in 0 .. 63
    <2>1. /\ t.year \in 0 .. 63 /\ t.month \in 0 .. 15 /\ t.day \in 0 .. 31
          /\ t.hour \in 0 .. 31 /\ t.minute \in 0 .. 63 /\ t.second \in 0 .. 63
      BY <1>1, Zenon DEF Stamp, Nibble
    <2>2. 0 .. 63 \subseteq Nat
      BY SMT
    <2> QED
      BY <2>1, <2>2, Zenon
  <1>3. HasFields(n, t.year, t.month, t.day, t.hour, t.minute, t.second)
    BY <1>2, FieldsReturn, Zenon
  <1>4. b = <<n % 256, (n \div 256) % 256, (n \div 65536) % 256, n \div 16777216>>
    BY SMT DEF devicetimestampfromstring, Number
  <1>5. devicetimestamptostring(b) =
            [year |-> m \div 67108864, month |-> (m \div 4194304) % 16, day |-> (m \div 131072) % 32,
             hour |-> (m \div 4096) % 32, minute |-> (m \div 64) % 64, second |-> m % 64]
    BY SMT DEF devicetimestamptostring
  <1> HIDE DEF n, b
  <1>6. m = n
    <2>1. /\ b[1] = n % 256 /\ b[2] = (n \div 256) % 256
          /\ b[3] = (n \div 65536) % 256 /\ b[4] = n \div 16777216
      BY <1>4, SMT
    <2> QED
      BY <1>3, <2>1, FourBytes, SMT DEF HasFields
  <1> HIDE DEF m
  <1>7. t = [year |-> t.year, month |-> t.month, day |-> t.day,
             hour |-> t.hour, minute |-> t.minute, second |-> t.second]
    BY <1>1 DEF Stamp
  <1>8. devicetimestamptostring(b) = t
    BY <1>3, <1>5, <1>6, <1>7, SMT DEF HasFields
  <1> QED
    BY <1>8 DEF b

-----------------------------------------------------------------------------
(* Chips *)

\* The digits of a byte are the byte.
LEMMA DigitsOfByte ==
    ASSUME NEW x \in Byte
    PROVE  /\ x \div 16 \in Nibble /\ x % 16 \in Nibble
           /\ (x \div 16) * 16 + (x % 16) = x
           /\ x >= 16 => x \div 16 # 0
           /\ x < 16 => x \div 16 = 0
  BY SMT DEF Byte, Nibble

\* The bytes of a chip are bytes, and country and number can be told from them.
LEMMA BytesOfChip ==
    ASSUME NEW c \in Chip
    PROVE  /\ c.country \in 0 .. 1023
           /\ ChipBytes(c) \in Seq(Byte) /\ Len(ChipBytes(c)) = 6
           /\ (c.country \div 4) * 4 + ((c.country % 4) * 64 + c.high) \div 64 = c.country
           /\ ((c.country % 4) * 64 + c.high) % 64 = c.high
  <1>1. /\ c.country \in 0 .. 1023 /\ c.high \in 0 .. 63
        /\ c.low1 \in Byte /\ c.low2 \in Byte /\ c.low3 \in Byte /\ c.low4 \in Byte
    BY Zenon DEF Chip
  <1>2. PICK co \in 0 .. 1023, hi \in 0 .. 63 : co = c.country /\ hi = c.high
    BY <1>1, Zenon
  <1>3. PICK q \in 0 .. 3 : q = co % 4
    BY SMT
  <1>4. co = (co \div 4) * 4 + q /\ co \div 4 \in Byte
    BY <1>3, SMT DEF Byte
  <1>5. q * 64 + hi \in Byte /\ (q * 64 + hi) \div 64 = q /\ (q * 64 + hi) % 64 = hi
    BY SMT DEF Byte
  <1> QED
    BY <1>1, <1>2, <1>3, <1>4, <1>5 DEF ChipBytes

\* hex() keeps a number whose first digit is not zero as it is, and shortens others.
LEMMA KeepsOrShortens ==
    ASSUME NEW s \in Seq(Nibble), Len(s) = 12, NEW k \in DOMAIN s, s[k] # 0
    PROVE  /\ s[1] # 0 => Significant(s) = s
           /\ s[1] = 0 => Significant(s) \in Seq(Nibble) /\ Len(Significant(s)) < 12
  <1> DEFINE First(i) == i \in DOMAIN s /\ s[i] # 0 /\ \A j \in 1 .. i - 1 : s[j] = 0
             first == CHOOSE i \in DOMAIN s : s[i] # 0 /\ \A j \in 1 .. i - 1 : s[j] = 0
  <1>1. DOMAIN s = 1 .. 12
    OBVIOUS
  <1>2. \E i \in DOMAIN s : s[i] # 0 /\ \A j \in 1 .. i - 1 : s[j] = 0
    BY <1>1, SMT
  <1>3. First(first)
    BY <1>2
  <1>4. Significant(s) = SubSeq(s, first, 12)
    BY DEF Significant
  <1> HIDE DEF first
  <1>5. CASE s[1] # 0
    <2>1. first = 1
      BY <1>1, <1>3, <1>5
    <2>2. SubSeq(s, 1, 12) = s
      BY <1>1
    <2> QED
      BY <1>4, <1>5, <2>1, <2>2
  <1>6. CASE s[1] = 0
    <2>1. first \in 2 .. 12
      BY <1>1, <1>3, <1>6
    <2>2. SubSeq(s, first, 12) \in Seq(Nibble) /\ Len(SubSeq(s, first, 12)) = 13 - first
      <3>0. \A i \in 1 .. 12 : s[i] \in Nibble
        BY ElementOfSeq
      <3>1. first \in Int /\ 12 \in Int /\ \A i \in first .. 12 : s[i] \in Nibble
        BY <2>1, <3>0
      <3>2. /\ SubSeq(s, first, 12) \in Seq(Nibble)
            /\ Len(SubSeq(s, first, 12)) = IF first <= 12 THEN 12 - first + 1 ELSE 0
        BY <3>1, SubSeqProperties
      <3> QED
        BY <2>1, <3>2
    <2> QED
      BY <1>4, <1>6, <2>1, <2>2
  <1> QED
    BY <1>5, <1>6

\* What chiptohex writes behind the digits.
LEMMA TwoDigitsMore ==
    ASSUME NEW s \in Seq(Nibble), Len(s) = 12
    PROVE  /\ \A i \in 1 .. 12 : (s \o <<0, 1>>)[i] = s[i]
           /\ (s \o <<0, 1>>)[13] = 0 /\ (s \o <<0, 1>>)[14] = 1
  <1> DEFINE two == <<0, 1>>
  <1>1. two \in Seq(Nibble) /\ Len(two) = 2 /\ two[1] = 0 /\ two[2] = 1
    BY DEF Nibble
  <1> HIDE DEF two
  <1> DEFINE d == s \o two
  <1>2. \A i \in 1 .. Len(s) + Len(two) : d[i] = IF i <= Len(s) THEN s[i] ELSE two[i - Len(s)]
    BY <1>1, ConcatProperties
  <1> HIDE DEF d
  <1>3. \A i \in 1 .. 14 : d[i] = IF i <= 12 THEN s[i] ELSE two[i - 12]
    BY <1>1, <1>2
  <1>4. \A i \in 1 .. 12 : d[i] = s[i]
    BY <1>3
  <1>5. d[13] = 0 /\ d[14] = 1
    BY <1>1, <1>3
  <1> QED
    BY <1>4, <1>5 DEF d, two

\* bytestotag reads from a whole message the chip that chiptohex has written into it;
\* and no message with a digit short is whole.
THEOREM EveryChipReturns == ChipsReturn
  <1> SUFFICES ASSUME NEW c \in Chips
               PROVE  IF c.low1 >= 16 THEN bytestotag(SevenBytes(chiptohex(c))) = c
                                      ELSE Len(chiptohex(c)) < 14
    BY DEF ChipsReturn
  <1>1. c \in Chip /\ c.country # 0
    BY CodecAssumption
  <1> DEFINE b == ChipBytes(c)
             s == Digits(b)
  <1>2. /\ b \in Seq(Byte) /\ Len(b) = 6
        /\ b[1] = c.low1 /\ b[2] = c.low2 /\ b[3] = c.low3 /\ b[4] = c.low4
        /\ b[5] = (c.country % 4) * 64 + c.high /\ b[6] = c.country \div 4
        /\ b[6] * 4 + (b[5] \div 64) = c.country /\ b[5] % 64 = c.high
    BY <1>1, BytesOfChip DEF ChipBytes
  <1> HIDE DEF b
  <1>3. \A i \in 1 .. 6 : b[i] \in Byte
    BY <1>2, ElementOfSeq
  <1>4. \A i \in 1 .. 6 : /\ b[i] \div 16 \in Nibble /\ b[i] % 16 \in Nibble
                         /\ (b[i] \div 16) * 16 + (b[i] % 16) = b[i]
    BY <1>3, DigitsOfByte
  <1>5. s \in Seq(Nibble) /\ Len(s) = 12
    BY <1>4 DEF Digits
  <1>6. CASE c.low1 >= 16
    <2>1. s[1] # 0 /\ 1 \in DOMAIN s
      <3>1. b[1] \div 16 # 0
        BY <1>2, <1>3, <1>6, DigitsOfByte
      <3> QED
        BY <3>1 DEF Digits
    <2>2. chiptohex(c) = s \o <<0, 1>>
      BY <1>5, <2>1, KeepsOrShortens DEF chiptohex, b
    <2>3. SevenBytes(s \o <<0, 1>>) = <<b[1], b[2], b[3], b[4], b[5], b[6], 1>>
      <3> DEFINE d == s \o <<0, 1>>
      <3>1. /\ s[1] * 16 + s[2] = b[1] /\ s[3] * 16 + s[4] = b[2] /\ s[5] * 16 + s[6] = b[3]
            /\ s[7] * 16 + s[8] = b[4] /\ s[9] * 16 + s[10] = b[5] /\ s[11] * 16 + s[12] = b[6]
        BY <1>4 DEF Digits
      <3>2. \A i \in 1 .. 12 : d[i] = s[i]
        BY <1>5, TwoDigitsMore
      <3>3. d[13] = 0 /\ d[14] = 1
        BY <1>5, TwoDigitsMore
      <3> HIDE DEF d, s
      <3>4. /\ d[1] * 16 + d[2] = b[1] /\ d[3] * 16 + d[4] = b[2] /\ d[5] * 16 + d[6] = b[3]
            /\ d[7] * 16 + d[8] = b[4] /\ d[9] * 16 + d[10] = b[5] /\ d[11] * 16 + d[12] = b[6]
        BY <3>1, <3>2
      <3>5. d[13] * 16 + d[14] = 1
        BY <3>3
      <3>6. SevenBytes(d) = <<b[1], b[2], b[3], b[4], b[5], b[6], 1>>
        BY <3>4, <3>5 DEF SevenBytes
      <3> QED
        BY <3>6 DEF d
    <2>4. bytestotag(<<b[1], b[2], b[3], b[4], b[5], b[6], 1>>) =
              [country |-> b[6] * 4 + (b[5] \div 64), low1 |-> b[1], low2 |-> b[2], low3 |-> b[3],
               low4 |-> b[4], high |-> b[5] % 64]
      BY DEF bytestotag
    <2>5. c = [country |-> c.country, low1 |-> c.low1, low2 |-> c.low2, low3 |-> c.low3,
               low4 |-> c.low4, high |-> c.high]
      BY <1>1 DEF Chip
    <2> QED
      BY <1>2, <1>6, <2>2, <2>3, <2>4, <2>5
  <1>7. CASE ~(c.low1 >= 16)
    <2>1. s[1] = 0
      <3>1. c.low1 \in Byte /\ c.low1 < 16
        BY <1>1, <1>7 DEF Chip, Byte
      <3>2. b[1] \div 16 = 0
        BY <1>2, <3>1, DigitsOfByte
      <3> QED
        BY <3>2 DEF Digits
    <2>2. PICK i \in 5 .. 6 : b[i] # 0
      <3>1. c.country \in 1 .. 1023
        <4>1. PICK co \in 0 .. 1023 : co = c.country /\ co # 0
          <5>1. c.country \in 0 .. 1023
            BY <1>1, BytesOfChip
          <5> QED
            BY <1>1, <5>1
        <4>2. co \in 1 .. 1023
          BY <4>1, SMT
        <4> QED
          BY <4>1, <4>2, Zenon
      <3>2. ~(b[5] = 0 /\ b[6] = 0)
        <4>1. PICK x \in 0 .. 255, y \in 0 .. 255 : x = b[5] /\ y = b[6]
          <5>1. 5 \in 1 .. 6 /\ 6 \in 1 .. 6
            BY SMT
          <5> QED
            BY <1>3, <5>1, Zenon DEF Byte
        <4>2. y * 4 + (x \div 64) \in 1 .. 1023
          <5>1. b[6] * 4 + (b[5] \div 64) = c.country
            BY <1>2
          <5>2. y * 4 + (x \div 64) = c.country
            BY <4>1, <5>1, Zenon
          <5> DEFINE z == y * 4 + (x \div 64)
          <5>3. z = c.country
            BY <5>2
          <5> HIDE DEF z
          <5>4. z \in 1 .. 1023
            BY <3>1, <5>3
          <5> QED
            BY <5>4 DEF z
        <4>3. ~(x = 0 /\ y = 0)
          BY <4>2, SMT
        <4> QED
          BY <4>1, <4>3, Zenon
      <3> QED
        BY <3>2
    <2>3. PICK k \in DOMAIN s : s[k] # 0
      <3>1. b[i] \div 16 # 0 \/ b[i] % 16 # 0
        BY <1>3, <1>4, <2>2
      <3>2. s[2 * i - 1] = b[i] \div 16 /\ s[2 * i] = b[i] % 16 /\ 2 * i - 1 \in 1 .. 12 /\ 2 * i \in 1 .. 12
        BY <2>2 DEF Digits
      <3> QED
        BY <1>5, <3>1, <3>2
    <2>4. Significant(s) \in Seq(Nibble) /\ Len(Significant(s)) < 12
      BY <1>5, <2>1, <2>3, KeepsOrShortens
    <2>5. chiptohex(c) = Significant(s) \o <<0, 1>>
      BY DEF chiptohex, b
    <2> HIDE DEF s
    <2>6. Len(Significant(s) \o <<0, 1>>) = Len(Significant(s)) + 2
      BY <2>4
    <2> QED
      BY <1>7, <2>4, <2>5, <2>6
  <1> QED
    BY <1>6, <1>7

-----------------------------------------------------------------------------
(* Chips of a pet door *)

\* The bits, reversed twice, are the bits.
LEMMA ReversedTwice ==
    ASSUME NEW c \in Bits
    PROVE  Reverse(DoorBits(c)) = c /\ Len(c) = 48 /\ DOMAIN c = 1 .. 48
  <1>1. Len(c) = 48 /\ DOMAIN c = 1 .. 48 /\ c = [i \in 1 .. 48 |-> c[i]]
    BY DEF Bits
  <1> DEFINE r == [i \in 1 .. 48 |-> c[49 - i]]
  <1>2. DoorBits(c) = r
    BY <1>1, SMT DEF DoorBits, Reverse
  <1>3. Len(r) = 48
    OBVIOUS
  <1>4. Reverse(r) = [i \in 1 .. 48 |-> r[49 - i]]
    BY <1>3, SMT DEF Reverse
  <1>5. \A i \in 1 .. 48 : r[49 - i] = c[i]
    BY SMT
  <1>6. Reverse(r) = [i \in 1 .. 48 |-> c[i]]
    BY <1>4, <1>5
  <1> QED
    BY <1>1, <1>2, <1>6

\* Bits that are not all zero have a last one.
LEMMA HasLastOne ==
    ASSUME NEW c \in Bits, NEW k \in 1 .. 48, c[k] = 1
    PROVE  \E i \in 1 .. 48 : c[i] = 1 /\ \A j \in i + 1 .. 48 : c[j] = 0
  BY SMT DEF Bits

\* doorhextochip gives back a chip with its last bit set, and a shorter one else.
THEOREM DoorChipReturnsIfOdd == DoorChipsReturn
  <1> SUFFICES ASSUME NEW c \in DoorChips
               PROVE  doorhextochip(DoorBits(c)) = c <=> c[48] = 1
    BY DEF DoorChipsReturn
  <1>1. c \in Bits /\ \E k \in 1 .. 48 : c[k] = 1
    BY CodecAssumption
  <1> DEFINE last == LastOne(c)
  <1>2. DOMAIN c = 1 .. 48 /\ Len(c) = 48
    BY <1>1, ReversedTwice
  <1>3. doorhextochip(DoorBits(c)) = SubSeq(c, 1, last)
    BY <1>1, ReversedTwice, Zenon DEF doorhextochip
  <1>4. \E i \in 1 .. 48 : c[i] = 1 /\ \A j \in i + 1 .. 48 : c[j] = 0
    <2>1. PICK k \in 1 .. 48 : c[k] = 1
      BY <1>1
    <2>2. c \in Bits
      BY <1>1, Zenon
    <2> QED
      BY <2>1, <2>2, HasLastOne, Zenon
  <1>5. last \in 1 .. 48 /\ c[last] = 1 /\ \A j \in last + 1 .. 48 : c[j] = 0
    BY <1>2, <1>4 DEF LastOne
  <1> HIDE DEF last
  <1>6. c \in Seq({0, 1})
    <2>1. \A i \in 1 .. 48 : c[i] \in {0, 1}
      BY <1>1 DEF Bits
    <2>2. c = [i \in 1 .. 48 |-> c[i]]
      BY <1>1 DEF Bits
    <2>3. [i \in 1 .. 48 |-> c[i]] \in Seq({0, 1})
      BY <2>1
    <2> QED
      BY <2>2, <2>3, Zenon
  <1>7. CASE c[48] = 1
    <2>1. last = 48
      BY <1>5, <1>7
    <2> QED
      BY <1>2, <1>3, <1>6, <1>7, <2>1
  <1>8. CASE c[48] # 1
    <2>1. last # 48
      BY <1>5, <1>8
    <2>2. Len(SubSeq(c, 1, last)) = last
      BY <1>2, <1>5, <1>6
    <2> QED
      BY <1>2, <1>3, <1>8, <2>1, <2>2
  <1> QED
    BY <1>7, <1>8

-----------------------------------------------------------------------------
(* Frames *)

\* A round of the loop takes off the frame that was joined first, with nothing of the
\* frames behind it: the step of an induction over FramesReturn.
THEOREM FirstFrameReturns ==
    ASSUME NEW frame \in Payload, Len(frame) \in 2 .. 255, NEW rest \in Payload
    PROVE  LET payload == <<Len(frame)>> \o frame \o rest
           IN  GoesOn(payload) /\ Taken(payload) = frame /\ Left(payload) = rest
  <1> DEFINE payload == <<Len(frame)>> \o frame \o rest
  <1>1. Len(frame) \in Byte /\ Len(frame) \in Nat /\ Len(rest) \in Nat
    BY DEF Byte, Payload
  <1>2. /\ payload \in Seq(Byte) /\ Len(payload) = 1 + Len(frame) + Len(rest)
        /\ payload[1] = Len(frame)
        /\ \A i \in 1 .. Len(frame) : payload[i + 1] = frame[i]
        /\ \A i \in 1 .. Len(rest) : payload[i + 1 + Len(frame)] = rest[i]
    BY <1>1 DEF Payload
  <1> HIDE DEF payload
  <1>3. GoesOn(payload) /\ End(payload) = Len(frame) + 1
    <2>1. PICK f \in 2 .. 255, m \in Nat : f = Len(frame) /\ m = Len(rest)
      BY <1>1
    <2>2. Len(payload) = 1 + f + m
      BY <1>2, <2>1, Zenon
    <2>3. 1 + f + m > 2 /\ f < 1 + f + m
      BY SMTT(30)
    <2>4. Len(payload) > 2 /\ Len(frame) < Len(payload)
      BY <2>1, <2>2, <2>3, Zenon
    <2> QED
      BY <1>2, <2>4 DEF GoesOn, End
  <1>4. Taken(payload) = frame
    <2>1. \A i \in 2 .. Len(frame) + 1 : payload[i] \in Byte
      BY <1>1, <1>2, ElementOfSeq
    <2>2. /\ Taken(payload) \in Seq(Byte) /\ Len(Taken(payload)) = Len(frame)
          /\ \A i \in 1 .. Len(frame) : Taken(payload)[i] = payload[i + 1]
      BY <1>1, <1>3, <2>1, SubSeqProperties DEF Taken
    <2> QED
      BY <1>2, <2>2, SeqEqual DEF Payload
  <1>5. Left(payload) = rest
    <2>1. \A i \in Len(frame) + 2 .. Len(payload) : payload[i] \in Byte
      BY <1>1, <1>2, ElementOfSeq
    <2>2. /\ Left(payload) \in Seq(Byte) /\ Len(Left(payload)) = Len(rest)
          /\ \A i \in 1 .. Len(rest) : Left(payload)[i] = payload[i + 1 + Len(frame)]
      BY <1>1, <1>2, <1>3, <2>1, SubSeqProperties DEF Left
    <2> QED
      BY <1>2, <2>2, SeqEqual DEF Payload
  <1> QED
    BY <1>3, <1>4, <1>5 DEF payload

\* The end of a frame is inside the payload, whatever its length byte says.
LEMMA Inside ==
    ASSUME NEW first \in 0 .. 255, NEW n \in Nat, n > 2
    PROVE  (IF first < n THEN first + 1 ELSE n) \in 1 .. n
  <1>1. CASE first < n
    BY <1>1
  <1>2. CASE ~(first < n)
    BY <1>2
  <1> QED
    BY <1>1, <1>2

\* Whatever a payload holds, each round leaves less of it: the loop ends.
THEOREM EveryRoundShortens ==
    ASSUME NEW payload \in Payload, GoesOn(payload)
    PROVE  Left(payload) \in Payload /\ Len(Left(payload)) < Len(payload)
  <1>0. payload \in Seq(Byte)
    BY DEF Payload
  <1>1. Len(payload) \in Nat /\ Len(payload) > 2 /\ payload[1] \in 0 .. 255
    <2>1. Len(payload) \in Nat /\ Len(payload) > 2
      BY <1>0 DEF GoesOn
    <2>2. payload[1] \in Byte
      BY <1>0, <2>1, ElementOfSeq
    <2> QED
      BY <2>1, <2>2 DEF Byte
  <1>2. End(payload) \in 1 .. Len(payload)
    <2>1. PICK first \in 0 .. 255, n \in Nat : first = payload[1] /\ n = Len(payload) /\ n > 2
      BY <1>1
    <2>2. (IF first < n THEN first + 1 ELSE n) \in 1 .. n
      BY <2>1, Inside
    <2> QED
      BY <2>1, <2>2 DEF End
  <1>3. /\ \A i \in End(payload) + 1 .. Len(payload) : payload[i] \in Byte
        /\ End(payload) + 1 \in Int /\ Len(payload) \in Int
    BY <1>0, <1>1, <1>2, ElementOfSeq
  <1>4. /\ Left(payload) \in Seq(Byte)
        /\ Len(Left(payload)) = IF End(payload) + 1 <= Len(payload)
                                THEN Len(payload) - (End(payload) + 1) + 1 ELSE 0
    BY <1>3, SubSeqProperties DEF Left
  <1> QED
    BY <1>1, <1>2, <1>4 DEF Payload
=============================================================================
