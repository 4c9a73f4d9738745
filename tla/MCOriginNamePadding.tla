------------------------ MODULE MCOriginNamePadding ------------------------
(***************************************************************************)
(* Checks padOriginName and unpadOriginName, and the OriginTokenRequest   *)
(* codec that carries the padded name, over bounded inputs: the state is  *)
(* one input, Names, and every step may pick any other one, so each       *)
(* invariant below is checked for every member of Names.                  *)
(***************************************************************************)
EXTENDS OriginNamePadding, OriginTokenRequestCodec

CONSTANT Names

VARIABLE name

Init == name \in Names

Next == \E n \in Names : name' = n

Spec == Init /\ [][Next]_name

\* Every byte string (zero / non-zero bytes) of up to two blocks and one
\* byte, for a small stride.
MCNamesBytes == BoundedSeq(Byte, 2 * Stride + 1)

\* For Stride = 32: every length up to three blocks and one byte, each as a
\* name of non-zero bytes and as a padded string with a trailing zero byte.
MCNamesLengths ==
    {[i \in 1..n |-> 1] : n \in 0..(3 * Stride + 1)}
    \cup {[i \in 1..n |-> IF i = n THEN 0 ELSE 1] : n \in 1..(3 * Stride + 1)}

\* The OriginTokenRequest encryptOriginTokenRequest marshals for an origin
\* name: a blinded message and a request key of the fixed sizes, and the
\* padded name.
NameTokenRequest(n) ==
    [blindedMsg |-> [i \in 1..BlindedMsgLen |-> 1],
     requestKey |-> [i \in 1..RequestKeyLen |-> 0],
     paddedOrigin |-> padOriginName(n)]

-----------------------------------------------------------------------------
(* Properties *)

\* Round trip: the Issuer recovers, with unpadOriginName, exactly the origin
\* name the Client padded with padOriginName (including the empty name),
\* so Evaluate looks up the origin the Client asked for.
UnpadInvertsPad ==
    IsOriginName(name) => unpadOriginName(padOriginName(name)) = name

\* Padding hides the name's length up to a block: padOriginName yields the
\* smallest positive multiple of the stride that holds the name, also for
\* the empty name (which relies on Go's truncating remainder).
PaddedLength ==
    LET n == Len(name)
        p == Len(padOriginName(name))
    IN  /\ p % Stride = 0
        /\ p >= n
        /\ p > 0
        /\ p - Stride < IF n = 0 THEN 1 ELSE n

\* unpadOriginName strips every trailing zero of whatever padded bytes a
\* (possibly malicious) Client sealed, however many there are.
UnpadStripsAllZeros ==
    unpadOriginName(name) = RefUnpad(name)

\* The description's rule for the padded length (section 4.1 and property
\* 5 of section 8: |pad(s)| > |s| when |s| is a multiple of 32).
PadMatchesSpecRule ==
    Len(padOriginName(name)) = RefPaddedLen(Len(name))

\* Codec round trip (description 4.2): what decryptOriginTokenRequest
\* unmarshals from the bytes encryptOriginTokenRequest marshalled is the
\* Client's request, and every strictly shorter prefix is a decode failure.
CodecRoundTrip ==
    LET r == NameTokenRequest(name)
        m == Marshal(r)
        d == Unmarshal(m)
    IN  /\ d.ok
        /\ d.blindedMsg = r.blindedMsg
        /\ d.requestKey = r.requestKey
        /\ d.paddedOrigin = r.paddedOrigin
        /\ \A k \in 0..(Len(m) - 1) : ~Unmarshal(SubSeq(m, 1, k)).ok

\* Unmarshal rejects trailing bytes after the padded origin (description
\* 4.2: "Any short read, or trailing bytes, is a decode failure").
UnmarshalRejectsTrailing ==
    \A b \in Byte : ~Unmarshal(Marshal(NameTokenRequest(name)) \o <<b>>).ok

=============================================================================
