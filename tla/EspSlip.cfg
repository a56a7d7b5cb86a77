CONSTANTS
    Byte = {0, 1, 2, 94, 125, 126, 127, 255}
    BufSize = 8
    HdrLen = 3
    First = {1, 16, 32, 128}
    Second = {0, 1, 8, 132, 137}
    MaxLen = 7
    MaxStray = 1
    CrcData <- crc16_data
    Flip <- XorBits
SPECIFICATION SlipSpec
CHECK_DEADLOCK FALSE
INVARIANTS
    RoundTrip
    DamageShows
    CrcIsRemainder
