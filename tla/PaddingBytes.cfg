\* Byte-level check of padOriginName / unpadOriginName and of the
\* OriginTokenRequest codec, with a 4-byte block and 4-valued bytes (so the
\* padded lengths 0..12 use both bytes of the u16 length prefix).
CONSTANTS
    Stride = 4
    BlindedMsgLen = 1
    RequestKeyLen = 1
    ByteBase = 4
    Names <- MCNamesBytes
SPECIFICATION Spec
INVARIANTS
    UnpadInvertsPad
    UnpadStripsAllZeros
    PaddedLength
    CodecRoundTrip
