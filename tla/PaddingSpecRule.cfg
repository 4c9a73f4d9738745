\* The description's padded-length rule against padOriginName (32-byte block).
CONSTANTS
    Stride = 32
    BlindedMsgLen = 1
    RequestKeyLen = 1
    ByteBase = 256
    Names <- MCNamesLengths
SPECIFICATION Spec
INVARIANT
    PadMatchesSpecRule
