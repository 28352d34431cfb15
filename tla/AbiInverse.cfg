CONSTANTS
    AddrSize = 2
    Rate = 4
    DigestSize = 6
SPECIFICATION CodecSpec
INVARIANT AbiInverse
