\* Does OriginTokenRequest.Unmarshal reject bytes after the padded origin?
CONSTANTS
    Stride = 4
    BlindedMsgLen = 1
    RequestKeyLen = 1
    ByteBase = 4
    Names <- MCNamesBytes
SPECIFICATION Spec
INVARIANT
    UnmarshalRejectsTrailing
