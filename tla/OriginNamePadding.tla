------------------------- MODULE OriginNamePadding -------------------------
(***************************************************************************)
(* Origin-name padding of the rate-limited issuance protocol:             *)
(* padOriginName and unpadOriginName of src/rate_limited_issuance.go.      *)
(*                                                                         *)
(* A byte is abstracted to 0 (the zero byte 0x00) or 1 (any non-zero      *)
(* byte): the two functions only ever compare a byte with 0x00.  An origin *)
(* name is a sequence of such bytes.  Stride is the padding block, 32 in   *)
(* the code; it is a constant so that byte-level checks can use a small    *)
(* block, while the length arithmetic is checked with Stride = 32.         *)
(***************************************************************************)
EXTENDS Integers, Sequences, SequencesExt

CONSTANT Stride

ASSUME Stride \in Nat \ {0}

Byte == {0, 1}

\* Bug variant: the floored remainder of TLA+ (or of a port to Python).
GoRemFloored(a, b) == a % b

\* Go's integer remainder truncates toward zero: (-1) % 32 = -1 in Go,
\* whereas TLA+'s % is the non-negative (floored) remainder.
GoRem(a, b) == IF a >= 0 THEN a % b ELSE -((-a) % b)

\* padOriginName: N = 31 - ((len(originName) - 1) % 32) zero bytes are
\* appended.  For the empty name len - 1 = -1 and Go gives N = 32.
padOriginName(originName) ==
    LET N == (Stride - 1) - GoRem(Len(originName) - 1, Stride)
    IN  originName \o [i \in 1..N |-> 0]

\* Bug variant: the loop ends one byte early (lastNonZero <= 0 in the code).
RECURSIVE UnpadFromEarlyExit(_, _)
UnpadFromEarlyExit(padded, lastNonZero) ==
    IF lastNonZero < 2 THEN <<>>
    ELSE IF padded[lastNonZero] # 0 THEN SubSeq(padded, 1, lastNonZero)
    ELSE UnpadFromEarlyExit(padded, lastNonZero - 1)

\* The scanning loop of unpadOriginName: lastNonZero walks down from the
\* last byte while it is 0x00; below the first byte the result is "".
\* (Indices are 1-based here, 0-based in the code.)
RECURSIVE UnpadFrom(_, _)
UnpadFrom(padded, lastNonZero) ==
    IF lastNonZero < 1 THEN <<>>
    ELSE IF padded[lastNonZero] # 0 THEN SubSeq(padded, 1, lastNonZero)
    ELSE UnpadFrom(padded, lastNonZero - 1)

unpadOriginName(paddedOriginName) ==
    UnpadFrom(paddedOriginName, Len(paddedOriginName))

-----------------------------------------------------------------------------
(* Reference definitions, from the text of the protocol description.      *)

\* unpad: "strip all trailing 0x00 bytes; all zero gives the empty string".
RefUnpad(padded) == SubSeq(padded, 1, SelectLastInSeq(padded, LAMBDA b : b # 0))

\* The "practical rule" for the padded length: the smallest positive
\* multiple of the stride strictly greater than n when n is a multiple of
\* the stride, else the smallest multiple of the stride >= n.
RefPaddedLen(n) ==
    IF n % Stride = 0 THEN n + Stride ELSE Stride * (n \div Stride + 1)

\* Origin names never end in a zero byte.
IsOriginName(s) == s = <<>> \/ s[Len(s)] # 0

=============================================================================
