------------------------- MODULE RateLimitedIssuance -------------------------
(***************************************************************************)
(* The rate-limited token issuance protocol of src/rate_limited_issuance.go *)
(* with symbolic cryptography:                                             *)
(*   - Clients run CreateTokenRequest and FinalizeToken;                   *)
(*   - the Issuer runs AddOrigin, and Evaluate / EvaluateWithoutCheck on    *)
(*     concurrent Workers (the description lets callers invoke Evaluate    *)
(*     from several threads), each call split at the points where it      *)
(*     reads or writes the request object it was handed;                   *)
(*   - the Attester runs FinalizeIndex on the Issuer's blinded request key;*)
(*   - an adversary on the path flips fields of a request in flight, and   *)
(*     a malicious Client may seal a plaintext that does not decode.       *)
(* A request object is shared by the Client's state (request, encapEnc)    *)
(* and the Issuer (the *RateLimitedTokenRequest it is passed), as in the   *)
(* package's API; a request may be evaluated more than once (a retry or a  *)
(* duplicate) and a response may reach any Client state.                   *)
(*                                                                         *)
(* Cryptography is symbolic.  An elliptic-curve point is the vector of     *)
(* exponents of the scalars that multiply the base point, so blinding by k *)
(* adds 1 to k's exponent and unblinding subtracts 1.  HPKE open succeeds  *)
(* iff the ciphertext bytes and the AAD are the sealed ones; ECDSA verify  *)
(* iff the key and the signed message are the signer's; the response AEAD  *)
(* iff key and nonce derive from the same (enc, response nonce, secret).   *)
(***************************************************************************)
EXTENDS Integers, Sequences, FiniteSets

CONSTANTS
    Clients,            \* client secret keys (CreateRateLimitedClientFromSecret)
    Blinds,             \* blind key encodings blindKeyEnc
    Origins,            \* origin names: byte strings over {0, 1}
    Stride,             \* origin padding block (32 in the code)
    Workers,            \* threads on which the Issuer runs Evaluate
    Variants,           \* which of Evaluate / EvaluateWithoutCheck is served
    MaxRequests,        \* bound on CreateTokenRequest calls
    MaxEvaluations,     \* bound on Evaluate / EvaluateWithoutCheck calls
    MaxRegistrations,   \* bound on AddOrigin calls
    MaxTampers,         \* bound on requests the adversary alters
    MaxResponseTampers, \* bound on responses the adversary cuts short
    ReadOutcomes,       \* what rand.Reader.Read(ikm) in NewRateLimitedIssuer did
    NonceReadMayFail    \* whether rand.Read of a response nonce may fail

Padding == INSTANCE OriginNamePadding

ASSUME Variants \subseteq {"Evaluate", "EvaluateWithoutCheck"}
ASSUME ReadOutcomes \subseteq {"filled", "failed"} /\ ReadOutcomes # {}
ASSUME NonceReadMayFail \in BOOLEAN

\* The keys AddOrigin generates are numbered in order of generation.
OriginKeys == 1..MaxRegistrations
NoKey == 0

Scalars == Clients \cup Blinds \cup OriginKeys

\* A point k1 * k2 * ... * G as the exponents of the scalars.
ClientPublicKey(c) == [s \in Scalars |-> IF s = c THEN 1 ELSE 0]

\* ecdsa.BlindPublicKey(curve, P, k) = k * P; ecdsa.UnblindPublicKey = k^-1 * P.
BlindPublicKey(P, k) == [P EXCEPT ![k] = @ + 1]

\* Bug variant: the blinded key is used as it is, not unblinded.
UnblindPublicKeyNoop(P, k) == P

UnblindPublicKey(P, k) == [P EXCEPT ![k] = @ - 1]

\* elliptic.UnmarshalCompressed of bytes that are no point: (nil, nil).
NoPoint == [s \in Scalars |-> -1]

\* The blinded message of request r: Blind(tokenInput) where the token input
\* (type, nonce, context, key id) is fresh per request, so it is named by r.
NoMsg == 0

\* A response nonce is named by the Worker that drew it and the request it
\* answers: a call reaches the nonce only while the request still opens,
\* i.e. before any nonce was written into it, so no two calls of one
\* Worker draw a nonce for one request.  NoNonce stands for bytes that are
\* no response nonce: the request's own ciphertext, or the start of a
\* response sent without a nonce.
NoNonce == <<>>

\* The wire values of tokenKeyID and nameKeyID: 0 is what the Client took
\* from the Issuer (TokenKeyID()[0], SHA-256 of NameKey()), 1 a flipped one.
WireIDs == {0, 1}

\* OriginTokenRequest{}: what decryptOriginTokenRequest returns when the
\* plaintext does not unmarshal.
EmptyOriginTokenRequest ==
    [blindedMsg |-> NoMsg, requestKey |-> NoPoint, paddedOrigin |-> <<>>]

Results == {"ok", "HpkeOpen", "Decode", "UnknownOrigin", "InvalidSignature",
            "InvalidKey", "Rng", "Panic"}

VARIABLES
    nameKeyIkm,        \* the ikm the HPKE name key was derived from
    originIndexKeys,   \* Issuer: origin name -> its index key, or NoKey
    generatedKeys,     \* origin each key AddOrigin generated was for, in order
    writing,           \* AddOrigin map assignments in progress: {} or one
    crashed,           \* the Go runtime aborted the Issuer's process
    requests,          \* request objects and their Clients' state, by number
    workers,           \* Issuer threads, each idle or inside one Evaluate
    evaluations,       \* number of Evaluate calls made
    responses,         \* encrypted responses and blinded request keys issued
    outcomes,          \* result of every finished Evaluate call
    tokens,            \* tokens returned by FinalizeToken
    indices,           \* indices computed by FinalizeIndex
    tampered,          \* requests whose bytes the adversary flipped
    callerPanics       \* FinalizeToken / FinalizeIndex calls that panicked

vars == <<nameKeyIkm, originIndexKeys, generatedKeys, writing, crashed, requests, workers, evaluations,
          responses, outcomes, tokens, indices, tampered, callerPanics>>

RequestIds == 1..Len(requests)

IdleWorker == [pc |-> "idle", req |-> 0, variant |-> "Evaluate",
               pt |-> EmptyOriginTokenRequest, key |-> NoKey]

\* Lookup in the Issuer's map; a name that is not a key of it is unknown.
LookupOrigin(name) ==
    IF name \in DOMAIN originIndexKeys THEN originIndexKeys[name] ELSE NoKey

\* NewRateLimitedIssuer: ikm := make([]byte, 32); rand.Reader.Read(ikm),
\* whose error is dropped; DeriveKeyPair(ikm) then succeeds on any 32
\* bytes.  A read that fails leaves ikm all zeros (or zeros after a short
\* prefix), so the derived private name key is one anybody can derive.
NameKeyDerivable == nameKeyIkm = "failed"

Init ==
    \* NewRateLimitedIssuer: a name key from ikm and an empty origin map
    /\ nameKeyIkm \in ReadOutcomes
    /\ originIndexKeys = [o \in Origins |-> NoKey]
    /\ generatedKeys = <<>>
    /\ writing = {}
    /\ crashed = FALSE
    /\ requests = <<>>
    /\ workers = [w \in Workers |-> IdleWorker]
    /\ evaluations = 0
    /\ responses = {}
    /\ outcomes = {}
    /\ tokens = {}
    /\ indices = {}
    /\ tampered = {}
    /\ callerPanics = {}

-----------------------------------------------------------------------------
(* Issuer: AddOrigin *)

\* AddOrigin: ecdsa.GenerateKey, then i.originIndexKeys[origin] = key on a
\* Go map that no lock guards.  The assignment is not atomic: the runtime
\* marks the map as being written, stores, and clears the mark; another
\* assignment that starts meanwhile aborts the process ("concurrent map
\* writes").
AddOrigin(origin) ==
    /\ ~crashed
    /\ Len(generatedKeys) < MaxRegistrations
    /\ generatedKeys' = Append(generatedKeys, origin)
    /\ \/ /\ writing = {}
          /\ writing' = {[origin |-> origin, key |-> Len(generatedKeys) + 1]}
          /\ UNCHANGED crashed
       \/ /\ writing # {}
          /\ crashed' = TRUE
          /\ UNCHANGED writing
    /\ UNCHANGED <<nameKeyIkm, originIndexKeys, requests, workers, evaluations, responses,
                   outcomes, tokens, indices, tampered, callerPanics>>

\* The end of the map assignment: a fresh key replaces whatever key the
\* origin had.
AddOriginWrite(e) ==
    /\ ~crashed
    /\ originIndexKeys' = [originIndexKeys EXCEPT ![e.origin] = e.key]
    /\ writing' = {}
    /\ UNCHANGED <<nameKeyIkm, generatedKeys, crashed, requests, workers, evaluations,
                   responses, outcomes, tokens, indices, tampered, callerPanics>>

\* OriginIndexKey(origin): the exported accessor reads the same map.  A
\* read with no assignment in progress returns the key and changes no
\* state (a stuttering step); one that meets an assignment aborts.
OriginIndexKey(origin) ==
    /\ ~crashed
    /\ writing # {}
    /\ crashed' = TRUE
    /\ UNCHANGED <<nameKeyIkm, originIndexKeys, generatedKeys, writing, requests, workers,
                   evaluations, responses, outcomes, tokens, indices, tampered,
                   callerPanics>>

-----------------------------------------------------------------------------
(* Client: CreateTokenRequest, with encryptOriginTokenRequest *)

\* The request object and the state the Client keeps.  The Client signs,
\* with blinded key sk * blind, the outer message (token type, tokenKeyID,
\* nameKeyID, encryptedTokenRequest); the HPKE AAD holds the tokenKeyID.
\* wellFormed is FALSE for a plaintext sealed by a malicious Client that
\* OriginTokenRequest.Unmarshal rejects.
NewRequest(c, b, origin, wellFormed) ==
    LET requestKey == BlindPublicKey(ClientPublicKey(c), b)
    IN  [client |-> c, blind |-> b, origin |-> origin,
         wellFormed |-> wellFormed,
         pt |-> [blindedMsg |-> Len(requests) + 1,
                 requestKey |-> requestKey,
                 paddedOrigin |-> Padding!padOriginName(origin)],
         sigKey |-> requestKey, signedTokenKeyID |-> 0, signedNameKeyID |-> 0,
         sealedTokenKeyID |-> 0,
         tokenKeyID |-> 0, nameKeyID |-> 0, ctIntact |-> TRUE,
         saltBytes |-> NoNonce, sigShort |-> FALSE]

CreateTokenRequest(c, b, origin) ==
    /\ Len(requests) < MaxRequests
    /\ requests' = Append(requests, NewRequest(c, b, origin, TRUE))
    /\ UNCHANGED <<nameKeyIkm, originIndexKeys, generatedKeys, writing, crashed, workers, evaluations,
                   responses, outcomes, tokens, indices, tampered, callerPanics>>

\* A Client that seals, under the Issuer's public name key, bytes that are
\* no OriginTokenRequest, and signs the outer message as usual.
CreateMalformedRequest(c, b) ==
    /\ Len(requests) < MaxRequests
    /\ requests' = Append(requests, NewRequest(c, b, <<>>, FALSE))
    /\ UNCHANGED <<nameKeyIkm, originIndexKeys, generatedKeys, writing, crashed, workers, evaluations,
                   responses, outcomes, tokens, indices, tampered, callerPanics>>

-----------------------------------------------------------------------------
(* Adversary on the path: flips one field of a request in flight, cuts   *)
(* its signature short, or cuts a response short, within the bounds      *)
(* MaxTampers and MaxResponseTampers.                                      *)

MangledResponses ==
    {resp \in responses : resp.short \/ resp.blindedRequestKey = NoPoint}

Tamper(r, field) ==
    /\ Cardinality(tampered) < MaxTampers
    /\ r \notin tampered
    /\ \A w \in Workers : workers[w].req # r
    /\ requests' = [requests EXCEPT
           ![r] = CASE field = "tokenKeyID" -> [@ EXCEPT !.tokenKeyID = 1 - @]
                    [] field = "nameKeyID"  -> [@ EXCEPT !.nameKeyID = 1 - @]
                    [] field = "ct"         -> [@ EXCEPT !.ctIntact = FALSE]
                    [] field = "signature"  -> [@ EXCEPT !.sigShort = TRUE]]
    /\ tampered' = tampered \cup {r}
    /\ UNCHANGED <<nameKeyIkm, originIndexKeys, generatedKeys, writing, crashed, workers, evaluations,
                   responses, outcomes, tokens, indices, callerPanics>>

\* Cut short in transit: the encrypted response, below the length of the
\* response nonce, or the blinded request key, which then no longer
\* decodes as a compressed point.
TruncateResponse(resp, part) ==
    /\ Cardinality(MangledResponses) < MaxResponseTampers
    /\ resp \notin MangledResponses
    /\ responses' = responses \cup
          {IF part = "response" THEN [resp EXCEPT !.short = TRUE]
           ELSE [resp EXCEPT !.blindedRequestKey = NoPoint]}
    /\ UNCHANGED <<nameKeyIkm, originIndexKeys, generatedKeys, writing, crashed, requests,
                   workers, evaluations, outcomes, tokens, indices, tampered,
                   callerPanics>>

-----------------------------------------------------------------------------
(* Issuer: Evaluate and EvaluateWithoutCheck, with                         *)
(* decryptOriginTokenRequest.  A Worker takes three steps for Evaluate    *)
(* (open, verify, respond) and two for EvaluateWithoutCheck (open,        *)
(* respond): each step reads the request object afresh where the code     *)
(* does.                                                                   *)

\* A finished call: its result is recorded and the Worker is free.
Finish(w, r, variant, result) ==
    /\ outcomes' = outcomes \cup {[req |-> r, variant |-> variant, result |-> result]}
    /\ workers' = [workers EXCEPT ![w] = IdleWorker]

\* HPKE open with AAD (name key id, suite, token type, req.tokenKeyID, the
\* Issuer's own config id): the ciphertext and the AAD must be as sealed.
HpkeOpens(req) ==
    /\ req.ctIntact
    /\ req.tokenKeyID = req.sealedTokenKeyID

\* decryptOriginTokenRequest: when Unmarshal fails it returns an empty
\* OriginTokenRequest and the (nil) error of the successful Open.
DecryptedRequest(req) ==
    IF req.wellFormed THEN req.pt ELSE EmptyOriginTokenRequest

\* Bug variant: the lookup's ok is ignored and a nil key used.
OriginKnownIgnoringOk(key) == TRUE

\* originIndexKey, ok := i.originIndexKeys[originName]; if !ok: error.
OriginKnown(key) == key # NoKey

\* Open: decrypt, unpad the origin name and look up its index key.  The
\* lookup reads the unlocked map: if an AddOrigin assignment is under way
\* the runtime aborts the process ("concurrent map read and map write").
EvaluateOpen(w, r, variant) ==
    LET req  == requests[r]
        pt   == DecryptedRequest(req)
        key  == LookupOrigin(Padding!unpadOriginName(pt.paddedOrigin))
    IN
    /\ ~crashed
    /\ workers[w].pc = "idle"
    /\ evaluations < MaxEvaluations
    /\ evaluations' = evaluations + 1
    /\ \/ /\ ~HpkeOpens(req)
          /\ Finish(w, r, variant, "HpkeOpen")
          /\ UNCHANGED crashed
       \/ /\ HpkeOpens(req)
          /\ writing # {}
          /\ crashed' = TRUE
          /\ UNCHANGED <<workers, outcomes>>
       \/ /\ HpkeOpens(req)
          /\ writing = {}
          /\ ~OriginKnown(key)
          /\ Finish(w, r, variant, "UnknownOrigin")
          /\ UNCHANGED crashed
       \/ /\ HpkeOpens(req)
          /\ writing = {}
          /\ OriginKnown(key)
          /\ workers' = [workers EXCEPT ![w] =
                [pc |-> IF variant = "Evaluate" THEN "verify" ELSE "respond",
                 req |-> r, variant |-> variant, pt |-> pt, key |-> key]]
          /\ UNCHANGED <<outcomes, crashed>>
    /\ UNCHANGED <<nameKeyIkm, originIndexKeys, generatedKeys, writing, requests, responses,
                   tokens, indices, tampered, callerPanics>>

\* Bug variant: the signature is checked against the request key only,
\* as if the signed message were not rebuilt from the request's fields.
SignatureValidKeyOnly(req, requestKey) == requestKey = req.sigKey

\* Evaluate(req): the validated path, used in production.
Evaluate(w, r) == EvaluateOpen(w, r, "Evaluate")

\* EvaluateWithoutCheck(req): the same without the signature check, for
\* deployments where the Attester checked the signature.
EvaluateWithoutCheck(w, r) == EvaluateOpen(w, r, "EvaluateWithoutCheck")

\* ECDSA verification of r || s over SHA-384 of the outer message rebuilt
\* from the request object as it is now.
SignatureValid(req, requestKey) ==
    /\ requestKey = req.sigKey
    /\ req.tokenKeyID = req.signedTokenKeyID
    /\ req.nameKeyID = req.signedNameKeyID
    /\ req.ctIntact

\* Verify (Evaluate only).  req.signature[:scalarLen] on a signature
\* shorter than one scalar panics (slice bounds out of range) before
\* anything is verified.  ecdsa.Verify on the (nil, nil) key of an
\* undecodable requestKey either rejects or dereferences nil.
EvaluateVerify(w) ==
    LET r   == workers[w].req
        key == workers[w].pt.requestKey
    IN
    /\ ~crashed
    /\ workers[w].pc = "verify"
    /\ \/ /\ requests[r].sigShort
          /\ Finish(w, r, workers[w].variant, "Panic")
       \/ /\ ~requests[r].sigShort
          /\ key = NoPoint
          /\ \E res \in {"InvalidSignature", "Panic"} :
                Finish(w, r, workers[w].variant, res)
       \/ /\ ~requests[r].sigShort
          /\ key # NoPoint
          /\ ~SignatureValid(requests[r], key)
          /\ Finish(w, r, workers[w].variant, "InvalidSignature")
       \/ /\ ~requests[r].sigShort
          /\ key # NoPoint
          /\ SignatureValid(requests[r], key)
          /\ workers' = [workers EXCEPT ![w].pc = "respond"]
          /\ UNCHANGED outcomes
    /\ UNCHANGED <<nameKeyIkm, originIndexKeys, generatedKeys, writing, crashed, requests, evaluations,
                   responses, tokens, indices, tampered, callerPanics>>

\* Bug variant: the response nonce is not sent in front of the ciphertext.
ResponseNoncePrefixedNever(variant) == FALSE

\* Whether the encrypted response starts with the response nonce.
ResponseNoncePrefixed(variant) == variant = "Evaluate"

\* Respond, up to the salt (lines 487-512, 548-576): blind the request key
\* by the origin's index key, blind-sign, draw the response nonce (an
\* error of rand.Read is returned before the request is touched), then
\* salt := append(enc, responseNonce...) with enc =
\* req.encryptedTokenRequest[0:Npk]: the append writes the nonce into the
\* request's own buffer, over the bytes after enc.  (BlindSign's error on
\* an empty blinded message is not reached: a plaintext that does not
\* decode has no request key either, and fails above.)
EvaluateRespond(w) ==
    LET wk == workers[w] IN
    /\ ~crashed
    /\ wk.pc = "respond"
    /\ \/ /\ wk.pt.requestKey = NoPoint
          /\ \E res \in {"InvalidKey", "Panic"} : Finish(w, wk.req, wk.variant, res)
          /\ UNCHANGED requests
       \/ /\ wk.pt.requestKey # NoPoint
          /\ NonceReadMayFail
          /\ Finish(w, wk.req, wk.variant, "Rng")
          /\ UNCHANGED requests
       \/ /\ wk.pt.requestKey # NoPoint
          /\ requests' = [requests EXCEPT ![wk.req].ctIntact = FALSE,
                                          ![wk.req].saltBytes = <<w, wk.req>>]
          /\ workers' = [workers EXCEPT ![w].pc = "seal"]
          /\ UNCHANGED outcomes
    /\ UNCHANGED <<nameKeyIkm, originIndexKeys, generatedKeys, writing, crashed,
                   evaluations, responses, tokens, indices, tampered, callerPanics>>

\* Seal (lines 514-531, 578-594): Extract(salt, secret) reads the salt
\* back from the request's buffer, which another Worker's append, or the
\* Client's, may have overwritten since; the response carries this
\* Worker's own nonce (Evaluate) or none (EvaluateWithoutCheck).
EvaluateSeal(w) ==
    LET wk  == workers[w]
        req == requests[wk.req]
    IN
    /\ ~crashed
    /\ wk.pc = "seal"
    /\ responses' = responses \cup
          {[req |-> wk.req, variant |-> wk.variant,
            noncePrefixed |-> ResponseNoncePrefixed(wk.variant),
            nonce |-> <<w, wk.req>>, saltNonce |-> req.saltBytes,
            blindedMsg |-> wk.pt.blindedMsg,
            blindedRequestKey |-> BlindPublicKey(wk.pt.requestKey, wk.key),
            key |-> wk.key,
            origin |-> Padding!unpadOriginName(wk.pt.paddedOrigin),
            requestKey |-> wk.pt.requestKey,
            tokenKeyID |-> req.tokenKeyID, nameKeyID |-> req.nameKeyID,
            short |-> FALSE]}
    /\ Finish(w, wk.req, wk.variant, "ok")
    /\ UNCHANGED <<nameKeyIkm, originIndexKeys, generatedKeys, writing, crashed,
                   requests, evaluations, tokens, indices, tampered, callerPanics>>

-----------------------------------------------------------------------------
(* Client: FinalizeToken.  Attester: FinalizeIndex *)

\* The first bytes of a response, which the Client takes as its nonce.
ResponsePrefix(resp) == IF resp.noncePrefixed THEN resp.nonce ELSE NoNonce

\* Open, unblind (verifier.Finalize) and verify the token under the
\* Issuer's key.  The Client derives the AEAD key and nonce from enc, its
\* HPKE secret and the response's first bytes; the Issuer derived them
\* from the same enc and secret (same request) and the salt bytes it read
\* back from the request's buffer.  The blind signature is then over this
\* state's blinded message.
FinalizeSucceeds(r, resp) ==
    /\ resp.req = r
    /\ resp.noncePrefixed
    /\ resp.saltNonce = resp.nonce

\* encryptedtokenResponse[:responseNonceLen] panics on a response shorter
\* than the nonce, before anything is written.  Otherwise salt :=
\* append(s.encapEnc, ...), with encapEnc a slice of the request's
\* encryptedTokenRequest, writes the response's first bytes into the
\* request's ciphertext, before the response is even opened.  The write
\* (line 200) and the read of the salt (line 203) are one step here: the
\* Client's own call, unlike the Issuer's, is not split.
FinalizeToken(r, resp) ==
    /\ \/ /\ resp.short
          /\ callerPanics' = callerPanics \cup {[call |-> "FinalizeToken", req |-> r]}
          /\ UNCHANGED <<requests, tokens>>
       \/ /\ ~resp.short
          /\ requests' = [requests EXCEPT ![r].ctIntact = FALSE,
                                          ![r].saltBytes = ResponsePrefix(resp)]
          /\ tokens' = IF FinalizeSucceeds(r, resp) THEN tokens \cup {r} ELSE tokens
          /\ UNCHANGED callerPanics
    /\ UNCHANGED <<nameKeyIkm, originIndexKeys, generatedKeys, writing, crashed, workers,
                   evaluations, responses, outcomes, indices, tampered>>

\* Bug variant: the HKDF salt (the index key) is left out.
ComputeIndexUnsalted(clientKey, indexKey) == <<clientKey>>

\* computeIndex: HKDF-SHA384(salt = indexKeyEnc, ikm = clientKey), a value
\* determined by the pair.
ComputeIndex(clientKey, indexKey) == <<clientKey, indexKey>>

\* The Attester, holding the Client's key and blind of the request it
\* forwarded, unblinds the Issuer's blinded request key.  A key that does
\* not decode is the (nil, nil) point, on which ecdsa.UnblindPublicKey
\* either returns an error (no state changes: a stuttering step) or
\* dereferences nil.  (ecdsa.CreateKey cannot fail on the Client's blind.)
FinalizeIndex(resp) ==
    LET req == requests[resp.req]
        indexKey == UnblindPublicKey(resp.blindedRequestKey, req.blind)
    IN
    /\ \/ /\ resp.blindedRequestKey = NoPoint
          /\ callerPanics' = callerPanics \cup {[call |-> "FinalizeIndex", req |-> resp.req]}
          /\ UNCHANGED indices
       \/ /\ resp.blindedRequestKey # NoPoint
          /\ indices' = indices \cup
                {[client |-> req.client, origin |-> resp.origin, key |-> resp.key,
                  index |-> ComputeIndex(req.client, indexKey)]}
          /\ UNCHANGED callerPanics
    /\ UNCHANGED <<nameKeyIkm, originIndexKeys, generatedKeys, writing, crashed, requests,
                   workers, evaluations, responses, outcomes, tokens, tampered>>

-----------------------------------------------------------------------------

\* A fatal error of the Go runtime ends the process, and with it every call
\* on the request objects the Client and the Issuer share.  What the
\* adversary, a Client or the Attester could still do afterwards reads
\* nothing the abort changed, so it is reachable before the abort too, and
\* a behaviour stops at the abort.
Next ==
  /\ ~crashed
  /\ \/ \E o \in Origins : AddOrigin(o)
     \/ \E e \in writing : AddOriginWrite(e)
     \/ \E o \in Origins : OriginIndexKey(o)
     \/ \E c \in Clients, b \in Blinds, o \in Origins : CreateTokenRequest(c, b, o)
     \/ \E c \in Clients, b \in Blinds : CreateMalformedRequest(c, b)
     \/ \E r \in RequestIds, f \in {"tokenKeyID", "nameKeyID", "ct", "signature"} :
           Tamper(r, f)
     \/ \E resp \in responses, part \in {"response", "blindedRequestKey"} :
           TruncateResponse(resp, part)
     \/ "Evaluate" \in Variants /\ \E w \in Workers, r \in RequestIds : Evaluate(w, r)
     \/ "EvaluateWithoutCheck" \in Variants /\
           \E w \in Workers, r \in RequestIds : EvaluateWithoutCheck(w, r)
     \/ \E w \in Workers : EvaluateVerify(w)
     \/ \E w \in Workers : EvaluateRespond(w)
     \/ \E w \in Workers : EvaluateSeal(w)
     \/ \E r \in RequestIds, resp \in responses : FinalizeToken(r, resp)
     \/ \E resp \in responses : FinalizeIndex(resp)

Spec == Init /\ [][Next]_vars

-----------------------------------------------------------------------------
(* Properties *)

Points == [Scalars -> Int]

TypeOK ==
    /\ nameKeyIkm \in ReadOutcomes
    /\ originIndexKeys \in [Origins -> OriginKeys \cup {NoKey}]
    /\ generatedKeys \in Seq(Origins)
    /\ Len(generatedKeys) \in 0..MaxRegistrations
    /\ writing \subseteq [origin : Origins, key : OriginKeys]
    /\ crashed \in BOOLEAN
    /\ Len(requests) \in 0..MaxRequests
    /\ \A r \in RequestIds :
          /\ requests[r].client \in Clients
          /\ requests[r].blind \in Blinds
          /\ requests[r].tokenKeyID \in WireIDs
          /\ requests[r].nameKeyID \in WireIDs
          /\ requests[r].ctIntact \in BOOLEAN
    /\ \A w \in Workers :
          /\ workers[w].pc \in {"idle", "verify", "respond", "seal"}
          /\ workers[w].pc # "idle" => workers[w].req \in RequestIds
          /\ workers[w].key \in OriginKeys \cup {NoKey}
    /\ evaluations \in 0..MaxEvaluations
    /\ outcomes \subseteq [req : RequestIds, variant : Variants, result : Results]
    /\ \A resp \in responses :
          /\ resp.req \in RequestIds
          /\ resp.key \in OriginKeys
          /\ resp.blindedRequestKey \in Points
          /\ resp.short \in BOOLEAN
    /\ tokens \subseteq RequestIds
    /\ tampered \subseteq RequestIds
    /\ callerPanics \subseteq [call : {"FinalizeToken", "FinalizeIndex"}, req : RequestIds]

\* Signature binding (description 8.6): every response Evaluate issues
\* answers a request exactly as its Client built and signed it: the same
\* tokenKeyID and nameKeyID on the wire, the same origin, request key and
\* blinded message, whatever the adversary flipped and however the
\* Workers interleaved.
EvaluateResponsesAuthentic ==
    \A resp \in responses :
        resp.variant = "Evaluate" =>
            LET req == requests[resp.req] IN
            /\ resp.tokenKeyID = req.signedTokenKeyID
            /\ resp.nameKeyID = req.signedNameKeyID
            /\ resp.requestKey = req.sigKey
            /\ resp.origin = req.origin
            /\ resp.blindedMsg = req.pt.blindedMsg

\* Round trip (description 8.1): every encrypted response of Evaluate,
\* given to the Client state of the request it answers, opens and
\* finalizes to a token that verifies under the Issuer's key, also when
\* Evaluate ran on several threads (section 5 allows concurrent calls) or
\* the Client finalized while a call was in progress.
EvaluateRoundTrip ==
    \A resp \in responses :
        resp.variant = "Evaluate" => FinalizeSucceeds(resp.req, resp)

\* EvaluateWithoutCheck equivalence (description 8.8): its response too
\* finalizes to a valid token.
EvaluateWithoutCheckRoundTrip ==
    \A resp \in responses :
        resp.variant = "EvaluateWithoutCheck" => FinalizeSucceeds(resp.req, resp)

\* Index stability and unlinkability (description 8.2, 8.3): two indices
\* FinalizeIndex computes for one Client are equal iff the Issuer used the
\* same origin index key, whatever blind each request used, even when
\* AddOrigin replaced the key while a Worker held the old one.
IndexPerOriginKey ==
    \A i, j \in indices :
        i.client = j.client => (i.index = j.index <=> i.key = j.key)

\* Evaluate is independent of earlier calls (description section 5): a
\* request the Issuer accepted and nobody tampered with can be evaluated
\* again, i.e. its bytes still open.
AcceptedRequestReopens ==
    \A o \in outcomes :
        (o.result = "ok" /\ o.req \notin tampered) => HpkeOpens(requests[o.req])

\* A plaintext that does not decode is reported as a decode error
\* (description section 7 and open question 2).
MalformedRequestReportedAsDecode ==
    \A o \in outcomes :
        ~requests[o.req].wellFormed /\ o.result # "HpkeOpen" => o.result = "Decode"

\* Single-writer / multi-reader discipline on originIndexKeys (description
\* section 5): Evaluate on worker threads and AddOrigin never touch the map
\* at the same time, so the Go runtime never aborts the Issuer's process.
IssuerNeverAborts == ~crashed

\* Inputs of the wrong length are reported as errors (description section
\* 7: a wrong length is a Decode error, and all errors are returned to
\* the caller): Evaluate returns an error, not a panic, for a request whose
\* signature was cut short, FinalizeToken for a response cut short, and
\* FinalizeIndex for a blinded request key cut short (which
\* UnmarshalCompressed turns into the nil point).
ShortInputsRejected ==
    /\ \A o \in outcomes : requests[o.req].sigShort => o.result # "Panic"
    /\ callerPanics = {}

\* Origin confidentiality (description 8.4): the encrypted origin request
\* of a request in flight opens only with the name key's private key,
\* which nobody but the Issuer can derive.  NewRateLimitedIssuer keeps
\* the Issuer it built even when rand.Reader.Read(ikm) failed (section 7
\* lists an Rng error for that), and every request then sealed to its
\* name key can be opened by whoever derives the key from the zero ikm.
OriginConfidential ==
    \A r \in RequestIds : HpkeOpens(requests[r]) => ~NameKeyDerivable

-----------------------------------------------------------------------------
(* Refinement: the protocol implements IssuanceAbstract.  A request maps   *)
(* to what its Client asked; it is forged when a signed wire field differs *)
(* from the signed one; a response is an answer, checked iff Evaluate made *)
(* it; the index of (client, key) is computed from the client's public key *)
(* blinded by the origin index key, i.e. the origin's public index key.    *)

Abstract == INSTANCE IssuanceAbstract WITH
    asked  <- [r \in RequestIds |->
                  [client |-> requests[r].client, origin |-> requests[r].origin,
                   wellFormed |-> requests[r].wellFormed]],
    forged <- {r \in RequestIds :
                  \/ requests[r].tokenKeyID # requests[r].signedTokenKeyID
                  \/ requests[r].nameKeyID # requests[r].signedNameKeyID},
    keyOf  <- generatedKeys,
    issued <- {[req |-> resp.req, key |-> resp.key,
                checked |-> resp.variant = "Evaluate"] : resp \in responses},
    IndexOf <- LAMBDA c, k : <<c, BlindPublicKey(ClientPublicKey(c), k)>>

\* Every behaviour of the Clients, the Issuer's Workers, AddOrigin, the
\* Attester and the adversary is one IssuanceAbstract allows: answers use
\* a key generated for the request's origin, Evaluate answers only requests
\* as signed, tokens come only from Evaluate answers to the same request,
\* and FinalizeIndex yields the index of the (client, key) pair.
RefinesAbstract == Abstract!ASpec

=============================================================================
