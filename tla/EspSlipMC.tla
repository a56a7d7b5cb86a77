----------------------------- MODULE EspSlipMC ------------------------------
(* The framing with the checksum of crc16.c, on a small instance. *)
EXTENDS EspSlip, Crc16

\* The value of Flip.
XorBits(x, e) == x ^^ e

\* The shifts compute the remainder of the polynomial that the comment of
\* crc16.c names, of the message written so far.
CrcIsRemainder == phase = "frame" => crc = Remainder(payload)
=============================================================================
