------------------------------- MODULE Crc16 --------------------------------
(***************************************************************************)
(* libs/espduino/src/crc16.c: the checksum of the frames exchanged with    *)
(* the ESP8266, computed a byte at a time with shifts, and its definition. *)
(***************************************************************************)
EXTENDS Integers, Bitwise, SequencesExt

Short(x) == x % 65536       \* unsigned short
HighByte(x) == x - (x % 256)   \* x & 0xff00

\* Mutation of crc16_add: the last shift is one too short.
crc16_add_shift4(b, acc) ==
    LET a1 == acc ^^ b
        a2 == (a1 \div 256) + Short(a1 * 256)
        a3 == a2 ^^ Short(HighByte(a2) * 16)
        a4 == a3 ^^ (a3 \div 4096)
    IN a4 ^^ (HighByte(a4) \div 16)

\* Mutation of crc16_add: the accumulator is not widened to its high byte.
crc16_add_byte(b, acc) ==
    LET a1 == acc ^^ b
        a2 == (a1 \div 256) + Short(a1 * 256)
        a3 == a2 ^^ Short(HighByte(a2) * 16)
    IN (a3 \div 4096) ^^ (HighByte(a3) \div 32)

crc16_add(b, acc) ==
    LET a1 == acc ^^ b
        a2 == (a1 \div 256) + Short(a1 * 256)
        a3 == a2 ^^ Short(HighByte(a2) * 16)
        a4 == a3 ^^ (a3 \div 4096)
    IN a4 ^^ (HighByte(a4) \div 32)

\* The definition: divide by x^16 + x^12 + x^5 + 1, a bit at a time, the
\* lowest bit of a byte first.
Reference(b, acc) ==
    LET bits[n \in 0 .. 8] ==
            IF n = 0 THEN acc ^^ b
            ELSE LET r == bits[n - 1] IN
                 IF r % 2 = 1 THEN (r \div 2) ^^ 33800 ELSE r \div 2
    IN bits[8]

crc16_data(data, acc) == FoldLeft(LAMBDA a, b : crc16_add(b, a), acc, data)

\* The checksum of a message by the definition.
Remainder(data) == FoldLeft(LAMBDA a, b : Reference(b, a), 0, data)
=============================================================================
