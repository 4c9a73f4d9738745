---------------------- MODULE OriginTokenRequestCodec ----------------------
(***************************************************************************)
(* OriginTokenRequest.Marshal and Unmarshal of src/rate_limited_issuance.go *)
(* (cryptobyte): blindedMsg || requestKey || u16(len) || paddedOrigin.      *)
(*                                                                         *)
(* A byte is a number in 0..ByteBase-1 (256 in the code).  BlindedMsgLen   *)
(* and RequestKeyLen are the fixed field sizes Unmarshal reads (256 and 49 *)
(* in the code); small values keep every boundary of the format.           *)
(* The raw cache of Marshal is left out: the package marshals only fresh   *)
(* structs (encryptOriginTokenRequest), whose raw is nil.                  *)
(***************************************************************************)
EXTENDS Integers, Sequences

CONSTANTS BlindedMsgLen, RequestKeyLen, ByteBase

ASSUME /\ BlindedMsgLen \in Nat \ {0}
       /\ RequestKeyLen \in Nat \ {0}
       /\ ByteBase \in Nat \ {0, 1}

\* b.AddUint16LengthPrefixed: the length as two big-endian bytes, then the
\* bytes.  (BytesOrPanic panics beyond ByteBase^2 - 1 bytes, a length no
\* padded origin of the checked inputs reaches.)
Uint16LengthPrefixed(bytes) ==
    <<Len(bytes) \div ByteBase, Len(bytes) % ByteBase>> \o bytes

Marshal(r) == r.blindedMsg \o r.requestKey \o Uint16LengthPrefixed(r.paddedOrigin)

\* The result of Unmarshal: whether it returned true, and the fields read.
Failed == [ok |-> FALSE, blindedMsg |-> <<>>, requestKey |-> <<>>,
           paddedOrigin |-> <<>>]

\* Bug variant: the u16 length prefix is read little-endian.
ReadUint16LittleEndian(data, i) == data[i + 1] * ByteBase + data[i]

\* The big-endian u16 at position i of ReadUint16LengthPrefixed.
ReadUint16(data, i) == data[i] * ByteBase + data[i + 1]

\* ReadBytes(256), ReadBytes(49) and ReadUint16LengthPrefixed each fail on
\* a short read; the bytes after the length-prefixed origin are not
\* looked at.
Unmarshal(data) ==
    LET fixed == BlindedMsgLen + RequestKeyLen
        n     == ReadUint16(data, fixed + 1)
    IN  IF Len(data) < fixed + 2 \/ Len(data) < fixed + 2 + n THEN Failed
        ELSE [ok |-> TRUE,
              blindedMsg |-> SubSeq(data, 1, BlindedMsgLen),
              requestKey |-> SubSeq(data, BlindedMsgLen + 1, fixed),
              paddedOrigin |-> SubSeq(data, fixed + 3, fixed + 2 + n)]

=============================================================================
