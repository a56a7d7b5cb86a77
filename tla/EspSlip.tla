------------------------------ MODULE EspSlip -------------------------------
(***************************************************************************)
(* The framing of libs/espduino/src/espduino.c: esp_write_byte and the     *)
(* checksum on one end of the line, the parser of esp_process and the      *)
(* check of esp_proto_completed_cb on the other, byte by byte.  Both ends  *)
(* of the link use the same framing, so the model sends what the library   *)
(* would send to the parser of the library.  Before a frame the line may   *)
(* carry any bytes (the ESP8266 prints a log when it starts; an earlier    *)
(* frame leaves the parser no differently), and within one it may change   *)
(* two neighbouring bytes.  A frame is a header, whose last two bytes say  *)
(* how many arguments follow, and the arguments, each with its length in   *)
(* two bytes before it; any length, where esp_request_cont rounds it up to *)
(* a multiple of four.                                                     *)
(***************************************************************************)
EXTENDS Integers, Sequences

CONSTANTS
    Byte,       \* the bytes of a frame
    BufSize,    \* pr->bufSize (512)
    HdrLen,     \* bytes of a PACKET_CMD before its arguments (12)
    First,      \* damage done to a byte
    Second,     \* damage done to the byte after it
    MaxLen,     \* bound: bytes of a frame before the checksum
    MaxStray,   \* bound: bytes on the line before a frame
    CrcData(_, _),  \* crc16_data of Crc16
    Flip(_, _)   \* what damage does to a byte

SLIP_START == 126
SLIP_END == 127
SLIP_REPL == 125

ASSUME SlipAssumption ==
    /\ Byte \subseteq 0 .. 255 /\ First \subseteq 1 .. 255 /\ Second \subseteq 0 .. 255
    /\ BufSize \in Nat \ {0} /\ HdrLen \in Nat \ {0, 1} /\ MaxLen \in Nat /\ MaxStray \in Nat

VARIABLES
    phase,      \* of the sender: before the frame, in it, done with it
    payload,    \* the bytes of the frame, with the checksum at its end
    crc,        \* the checksum as the sender has computed it so far
    wire,       \* bytes on their way
    stray,      \* bytes sent before the frame
    damaged,    \* this frame has been damaged
    buf,        \* pr->buf up to pr->dataLen
    isEsc,      \* pr->isEsc
    done        \* the contents of the buffer at the last SLIP_END

slipVars == <<phase, payload, crc, wire, stray, damaged, buf, isEsc, done>>

SlipInit ==
    /\ phase = "before" /\ payload = <<>> /\ crc = 0 /\ wire = <<>> /\ stray = 0
    /\ damaged = FALSE /\ buf = <<>> /\ isEsc = FALSE /\ done = <<>>

Markers == {SLIP_START, SLIP_END, SLIP_REPL}

\* x ^ 0x20
SLIP_ESC(x) == IF (x \div 32) % 2 = 1 THEN x - 32 ELSE x + 32

\* The two bytes after the first n, as a number; what is not there counts as 0.
Word(frame, n) ==
    LET at(i) == IF i <= Len(frame) THEN frame[i] ELSE 0 IN at(n + 1) + 256 * at(n + 2)

\* Where the loop over the arguments ends, by argc and the lengths that are in
\* the frame.  An argument takes two bytes at least.
WalkEnd(frame) ==
    LET walk[n \in Nat, argc \in Nat] ==
            IF argc = 0 \/ n > Len(frame) THEN n + 2 * argc
            ELSE walk[n + 2 + Word(frame, n), argc - 1]
    IN  walk[HdrLen, Word(frame, HdrLen - 2)]

-----------------------------------------------------------------------------
(* The sender *)

\* What esp_write_byte sends for one byte.
Escaped(b) == IF b \in Markers THEN <<SLIP_REPL, SLIP_ESC(b)>> ELSE <<b>>

slip_request_start ==
    /\ phase = "before"
    /\ phase' = "frame" /\ payload' = <<>> /\ crc' = 0 /\ damaged' = FALSE
    /\ wire' = Append(wire, SLIP_START)
    /\ UNCHANGED <<stray, buf, isEsc, done>>

\* A byte of the header or of an argument, as many as the lengths say.
esp_write_crc(b) ==
    /\ phase = "frame" /\ Len(payload) < WalkEnd(payload) /\ WalkEnd(Append(payload, b)) <= MaxLen
    /\ payload' = Append(payload, b)
    /\ crc' = CrcData(<<b>>, crc)
    /\ wire' = wire \o Escaped(b)
    /\ UNCHANGED <<phase, stray, damaged, buf, isEsc, done>>

\* The checksum, the low byte first, and the end of the frame.
esp_request_end ==
    /\ phase = "frame" /\ Len(payload) = WalkEnd(payload)
    /\ phase' = "done"
    /\ payload' = payload \o <<crc % 256, crc \div 256>>
    /\ wire' = wire \o Escaped(crc % 256) \o Escaped(crc \div 256) \o <<SLIP_END>>
    /\ UNCHANGED <<crc, stray, damaged, buf, isEsc, done>>

-----------------------------------------------------------------------------
(* The line *)

Stray(b) ==
    /\ phase = "before" /\ stray < MaxStray
    /\ stray' = stray + 1
    /\ wire' = Append(wire, b)
    /\ UNCHANGED <<phase, payload, crc, damaged, buf, isEsc, done>>

\* A byte of the frame changes, and the one after it may too.  The damage
\* neither removes a marker nor makes one up: the framing stays as it is.
Damage(i, e, f) ==
    LET w == [wire EXCEPT ![i] = Flip(@, e), ![i + 1] = Flip(@, f)] IN
    /\ phase = "done" /\ ~damaged /\ wire # <<>> /\ stray = 0
    /\ \A k \in {i, i + 1} : w[k] # wire[k] => {w[k], wire[k]} \cap Markers = {}
    /\ wire' = w /\ damaged' = TRUE
    /\ UNCHANGED <<phase, payload, crc, stray, buf, isEsc, done>>

-----------------------------------------------------------------------------
(* The parser, which runs when the frame is on the line *)

Parses(b) == phase # "frame" /\ wire # <<>> /\ Head(wire) = b /\ wire' = Tail(wire)

ParseEscape ==
    /\ Parses(SLIP_REPL)
    /\ isEsc' = TRUE
    /\ UNCHANGED <<phase, payload, crc, stray, damaged, buf, done>>

\* Mutation of ParseStart: an escape before the frame is not forgotten.
ParseStartEscaped ==
    /\ Parses(SLIP_START)
    /\ buf' = <<>>
    /\ UNCHANGED <<phase, payload, crc, stray, damaged, isEsc, done>>

ParseStart ==
    /\ Parses(SLIP_START)
    /\ buf' = <<>> /\ isEsc' = FALSE
    /\ UNCHANGED <<phase, payload, crc, stray, damaged, done>>

ParseEnd ==
    /\ Parses(SLIP_END)
    /\ done' = buf
    /\ UNCHANGED <<phase, payload, crc, stray, damaged, buf, isEsc>>

\* A full buffer drops the byte.
Store(b) == IF Len(buf) < BufSize THEN Append(buf, b) ELSE buf

ParseByte ==
    /\ wire # <<>> /\ Head(wire) \notin Markers /\ Parses(Head(wire))
    /\ buf' = Store(IF isEsc THEN SLIP_ESC(Head(wire)) ELSE Head(wire))
    /\ isEsc' = FALSE
    /\ UNCHANGED <<phase, payload, crc, stray, damaged, done>>

\* The check of esp_proto_completed_cb: the checksum is looked for where the
\* lengths, as they arrived, lead.  Beyond the frame there is what the buffer
\* held before, which is not modelled.
Accepts(frame) ==
    LET n == WalkEnd(frame) IN
    n + 2 <= Len(frame) /\ CrcData(SubSeq(frame, 1, n), 0) = Word(frame, n)

-----------------------------------------------------------------------------

SlipNext ==
    \/ slip_request_start \/ (\E b \in Byte : esp_write_crc(b)) \/ esp_request_end
    \/ \E b \in Byte : Stray(b)
    \/ \E i \in 2 .. Len(wire) - 1, e \in First, f \in Second : Damage(i, e, f)
    \/ ParseEscape \/ ParseStart \/ ParseEnd \/ ParseByte

SlipSpec == SlipInit /\ [][SlipNext]_slipVars

Arrived == phase = "done" /\ wire = <<>>
Fits == Len(payload) <= BufSize

\* A frame that is not damaged arrives as it was sent, up to the size of the
\* buffer, whatever bytes it is made of and whatever was on the line before.
RoundTrip ==
    Arrived /\ ~damaged =>
        done = SubSeq(payload, 1, IF Fits THEN Len(payload) ELSE BufSize)

\* The receiver accepts a frame that fits and is not damaged; no change to two
\* neighbouring bytes, of the checksum too, goes unnoticed, unless it is one of
\* the lengths and leads the check to another place than the checksum's.
DamageShows ==
    Arrived /\ Fits =>
        IF damaged THEN WalkEnd(done) = WalkEnd(payload) => ~Accepts(done) ELSE Accepts(done)
=============================================================================
