CONSTANTS
    WORD_SIZE = 2
    MAX_DIGITS = 8
    Addresses = {4096, 43981}
    Bytes = {0, 6, 13, 128, 255}
    Counts = {0, 1, 2}
    Junks <- MCJunks
    Numbers = {0, 9, 10, 255, 4095, 4096, 43981, 65535}
SPECIFICATION CodecSpec
INVARIANT
    Decoded
CHECK_DEADLOCK FALSE
