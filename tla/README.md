# TLA+ models of the rate-limited token issuance core

This directory models `src/rate_limited_issuance.go` (package `pat`): a
Privacy Pass variant where a Client gets a blind-RSA token from an Issuer for
an Origin. The Origin name travels HPKE-encrypted. An Attester derives a
per-(client, origin) index from an ECDSA key that the Issuer has blinded.
The other two source files, `src/unnamed/part_000` (a Makefile) and
`part_001` (README of the unrelated experimental WEI token type), contain
no logic to model.

## Inventory

| Component | State | Operations (source lines) |
|---|---|---|
| OriginNamePadding | none (pure) | `padOriginName` 120-124, `unpadOriginName` 126-139 |
| WireCodec | `OriginTokenRequest.raw` cache | `Marshal` 35-49, `Unmarshal` 51-67, outer message 287-292 / 471-476 |
| HpkeEnvelope | none | `encryptOriginTokenRequest` 142-174, `decryptOriginTokenRequest` 409-444 |
| AeadResponder | none, but it writes into the request buffer | seal: `Evaluate` 501-529, `EvaluateWithoutCheck` 566-592; open: `FinalizeToken` 195-220 |
| ClientStateMachine | `RateLimitedClient` (secret key); `RateLimitedTokenRequestState` (tokenInput, request, encapSecret, encapEnc = slice of the request's ciphertext, verifier) | `CreateRateLimitedClientFromSecret` 106-117, `CreateTokenRequest` 254-328, `FinalizeToken` 195-250 |
| IssuerEngine | `RateLimitedIssuer`: name key, token key, `originIndexKeys` map (not locked) | `NewRateLimitedIssuer` 337-363, `AddOrigin` 369-378, `Evaluate` 446-532, `EvaluateWithoutCheck` 534-595, accessors 365-400 |
| Attester index | none | `FinalizeIndex` 79-99, `computeIndex` 69-76 |
| EcdsaBlinding, BlindRsa, HPKE | external packages (`pat-go/ecdsa`, circl, go-hpke) | modelled from the description, symbolically |

How the components interact. The Client builds a request and keeps a state
that points into it. The request object (`*RateLimitedTokenRequest`) goes to
the Issuer; in the package API this is the same object, and the Issuer may
evaluate it from several goroutines (spec section 5). The Issuer returns two
things: an encrypted response, which goes to the Client's `FinalizeToken`,
and a blinded request key, which goes to the Attester's `FinalizeIndex`.
`AddOrigin` writes the Issuer's map. `Evaluate` reads that map.

What makes this code hard:
- **Shared byte buffers.** Go's `append` onto a slice of
  `req.encryptedTokenRequest` writes into the request's own buffer.
  `Evaluate` does this at line 512 and `FinalizeToken` does it through
  `encapEnc` at line 200.
- **Interleaving.** Concurrent `Evaluate` calls can run on one request.
  `AddOrigin` can run between a worker's lookup and its use of the key,
  and its unlocked map write can overlap a worker's lookup.
- **Adversarial input.** Flipped outer fields. Plaintexts that open but do
  not decode. A nil point. Signatures and responses cut short.
- **Response routing.** Any response may reach any Client state.
- **Dropped errors.** `NewRateLimitedIssuer` ignores the error of its
  random read and builds the Issuer anyway.

What makes each component correct:
- Padding: unpad inverts pad, and the padded length is aligned.
- Codec: unmarshal inverts marshal, and a short read fails.
- Issuer: it answers only requests that are exactly as signed (signature
  binding). Its errors are reported as the right kind.
- Client: a genuine response finalizes (round trip).
- Attester: indices are equal exactly when the Issuer used the same origin
  index key.
- Every call: it returns an error rather than panicking or aborting.
- The name key: only the Issuer can open a request sealed to it (origin
  confidentiality).

## Modules

- `OriginNamePadding.tla` has the padding operators: `GoRem` (Go's
  truncating `%`), `padOriginName`, and `unpadOriginName`. The unpad loop is
  the RECURSIVE operator `UnpadFrom`. The module also has the reference
  definitions from the description. A byte is 0 or "non-zero", because the
  code only compares bytes with `0x00`. `Stride` is the 32-byte block.
- `OriginTokenRequestCodec.tla` has `Marshal` and `Unmarshal` of
  `OriginTokenRequest` over byte sequences: fixed-size `blindedMsg` and
  `requestKey`, then a big-endian u16 length and the padded origin. The
  field sizes (256, 49) and the byte base (256) are constants.
- `MCOriginNamePadding.tla` is a driver whose one variable `name` ranges
  over a bounded input set. Each property is checked for every input. It
  composes the two modules above: a request carrying the padded name is
  marshalled and unmarshalled.
- `RateLimitedIssuance.tla` is the protocol, with symbolic cryptography. It
  uses `OriginNamePadding` through INSTANCE.
  - A point is a vector of scalar exponents. `BlindPublicKey` adds 1 to a
    scalar's exponent and `UnblindPublicKey` subtracts 1.
  - HPKE open succeeds iff the request's ciphertext bytes are intact and its
    `tokenKeyID` matches the one in the sealed AAD.
  - ECDSA verify succeeds iff the key matches the signer's and the rebuilt
    outer message matches the signed one.
  - The response AEAD opens iff the response answers this request and
    starts with the nonce.

  State and actions:
  - `nameKeyIkm` is what `NewRateLimitedIssuer`'s `rand.Reader.Read(ikm)`
    did (lines 343-345): `"filled"`, or `"failed"`, after which the dropped
    error leaves ikm zero and the name key is one anybody can derive
    (`NameKeyDerivable`). Init draws it from the constant `ReadOutcomes`.
  - `EvaluateRespond` returns `Rng` when `rand.Read` of the response nonce
    fails (lines 505-508 and 569-572), before anything is written into the
    request. The constant `NonceReadMayFail` says whether that may happen.
  - `requests` holds each request object together with its Client state.
  - `workers` are Issuer goroutines. `Evaluate` has four steps, one at
    each point where the code reads or writes the request:
    - `EvaluateOpen` opens the request and looks up the origin;
    - `EvaluateVerify` checks the signature;
    - `EvaluateRespond` blinds the request key, reads the response nonce and
      writes it into the request buffer (`append(enc, responseNonce...)`,
      line 512). The request field `saltBytes` holds the bytes there. A
      nonce is named `<<worker, request>>`: only one call per worker and
      request gets this far, because the write leaves the ciphertext no
      longer intact;
    - `EvaluateSeal` reads `saltBytes` back for `Extract` (line 515) and
      issues the response with its own nonce.

    `EvaluateWithoutCheck` has the open, respond and seal steps. The
    `BlindSign` error on an empty blinded message (lines 496-499) is not
    reached: a plaintext that does not decode has no request key either,
    and fails at the nil-point check before it.
  - `AddOrigin` has two steps: key generation with the start of the map
    assignment (`writing`), then `AddOriginWrite`. Go's runtime aborts the
    process (`crashed`) when a map read (`EvaluateOpen`'s lookup, or the
    exported accessor `OriginIndexKey`, lines 380-386) or a second
    assignment meets an assignment in progress. After that no step runs
    at all: the abort ends the process, so every later step of the
    package is gone. No step taken before an abort reads anything the
    abort changed, so it can also be taken before it.
  - `FinalizeToken` may take any response, so the model includes misrouted
    responses. On a response cut short it panics (`callerPanics`). Its
    write into the request buffer (line 200) and its read (line 203) are
    one step: one Client's call is not split. A concurrent `Evaluate` of
    that request is still modelled by the Issuer's own steps.
  - `FinalizeIndex` is the Attester. A blinded request key that does not
    decode (`NoPoint`, the nil point of `UnmarshalCompressed`, line 81)
    makes `UnblindPublicKey` err or panic; a panic is recorded in
    `callerPanics`, like `FinalizeToken`'s.
  - Environment actions:
    - `Tamper` flips `tokenKeyID`, `nameKeyID` or the ciphertext of a
      request in flight, or cuts its signature short.
    - `TruncateResponse(resp, part)` cuts the encrypted token response or
      the blinded request key of a response short, at most
      `MaxResponseTampers` times. Requests are altered at most
      `MaxTampers` times; the two budgets are separate.
    - `CreateMalformedRequest` seals a plaintext that does not decode.
  - Ghost fields record what the properties need: the wire IDs seen by a
    response, the origin each generated key was for (`generatedKeys`), and
    the origin and key each index was made with.
- `IssuanceAbstract.tla` is what issuance promises, with no cryptography,
  buffers or threads. Clients ask. Keys are registered for origins. Requests
  may be forged. The Issuer answers, checked or unchecked, only with a key
  once generated for the request's origin. A checked answer needs an
  unforged request. A token needs an answer to that request, checked or
not: the description (8.1, 8.8) says both kinds finalize. An index
  is `IndexOf(client, key)`.
  `RateLimitedIssuance` maps onto it in `Abstract == INSTANCE
  IssuanceAbstract WITH ...`, and `RefinesAbstract` is checked as a
  PROPERTY.
- `MCRateLimitedIssuance.tla` sets the model values, the origins (`""` and
  a one-byte name, block 2) and symmetry over clients, blinds and workers.
  No run checks liveness, so symmetry is sound in all of them.

Each property of a passing run has a mutant: a nearby "bug variant"
operator, such as `GoRemFloored`, `ReadUint16LittleEndian`,
`SignatureValidKeyOnly`, `OriginKnownIgnoringOk`, `ComputeIndexUnsalted`
or `UnblindPublicKeyNoop`.
Putting the variant in place of the code's definition makes TLC find the
property violated.

## Runs

| Run | Expect | What it shows |
|---|---|---|
| padding_bytes | pass | Covers all 1023 byte strings of up to 9 bytes, with block 4. `UnpadInvertsPad`, `UnpadStripsAllZeros`, and `PaddedLength` (the least positive multiple of the block, including the empty name). `CodecRoundTrip`: the marshalled request carrying the padded name unmarshals to itself, and every shorter prefix fails |
| padding_spec_rule | violation | The description's "a multiple of 32 grows by a block" rule fails at length 32 |
| codec_trailing | violation | `Unmarshal` accepts trailing bytes after the origin (line 66) |
| issuance_validated | pass | Covers 2 workers on a shared request, request tampering, malformed plaintexts, re-registration and the map race. `EvaluateResponsesAuthentic`: responses only answer requests exactly as signed. `IndexPerOriginKey`: indices are equal iff the origin key is |
| issuance_refinement | pass | Both variants, a failing nonce read, and responses or blinded keys cut short. `RefinesAbstract`: the protocol implements `IssuanceAbstract` |
| concurrent_respond | violation | `EvaluateRoundTrip`: two workers on one request object. The second one's nonce write (line 512) lands between the first one's write and its `Extract` (line 515), so the first response cannot be finalized |
| unchecked_round_trip | violation | An `EvaluateWithoutCheck` response never finalizes because the nonce prefix is missing (line 592) |
| retry_after_accept | violation | After one `Evaluate`, the same request no longer opens (line 512) |
| malformed_plaintext | violation | An undecodable plaintext is reported as `UnknownOrigin`, not as a decode error (line 438) |
| map_race | violation | A read of the map (`OriginIndexKey`, line 381, or `Evaluate`'s lookup, line 455) during `AddOrigin`'s assignment (line 375) aborts the Issuer |
| rng_failure | violation | With `ReadOutcomes = {"filled", "failed"}`, a request sealed to a name key from a failed random read opens for anyone (line 344) |
| short_inputs | violation | A signature cut short makes `Evaluate` panic (line 467). A response cut short does the same to `FinalizeToken` (line 200), and a blinded request key cut short to `FinalizeIndex` (line 81) |

Bounds for the protocol runs:
- 1 client, 2 blinds, 2 origins, 2 workers.
- At most 2 requests, 2 evaluations and 2 `AddOrigin` calls.
- `issuance_validated` serves `Evaluate` only, with 1 request tamper (a
  flipped field or a cut signature) and no response tamper.
- `issuance_refinement` serves both variants with 1 blind, 1 `AddOrigin`
  call, no request tamper and 1 response tamper, and lets the nonce read
  fail. Request tampering and re-registration are covered by
  `issuance_validated`, whose properties are the ones they threaten.
- `map_race` uses 1 `AddOrigin` call, so the race it reports is the
  reader/writer one, not two concurrent writers.
- `rng_failure` and `concurrent_respond` use 1 request and no tampering:
  the case is one Issuer and one request.

These are enough for the interesting cases:
- Two requests from one client with different blinds, to the same origin or
  to different ones.
- A re-registration between them, or during a lookup.
- Two workers on one request, each at any of its steps.

The padding and codec inputs use a 4-byte block and 4-valued bytes. Every
case of the length arithmetic then occurs: the empty name, an exact
multiple, and a multiple plus one. The u16 prefix's high byte is non-zero
from length 4 on. The 32-byte block is used by `padding_spec_rule`.

The pass runs reach about 459,000 (validated, about 1 minute) and 76,000
(refinement, about 25 seconds) distinct protocol states. Serving both
variants with 2 blinds and both kinds of tampering in one run did not
finish in 15 minutes, which is why the two runs split the cases.
Passing runs set `ReadOutcomes = {"filled"}`: they check the protocol with
a secret name key, and `rng_failure` checks what happens without one.
`CHECK_DEADLOCK FALSE` is set because the package is a library: it stops
when its callers stop calling (and after an abort).

## Findings

1. `EvaluateWithoutCheck` omits the response nonce, so its tokens cannot be
   finalized (code bug, line 592).
2. `Evaluate` and `FinalizeToken` write into the request's ciphertext
   through `append` (code bug, lines 512 and 200). Because of this:
   - a retried or duplicated request fails;
   - a second concurrent worker rejects a genuine request;
   - two concurrent workers that both reach line 512 leave the first
     one's response sealed under the other's nonce, so the Client cannot
     finalize it (`concurrent_respond`).
3. A decode failure is returned as success with an empty request (code bug,
   line 438).
4. Padding a 32-byte name adds no block, unlike the description's rule
   (divergence, line 121).
5. `AddOrigin` writes the map with no lock. An `Evaluate` lookup (line 455),
   an `OriginIndexKey` call (line 381), or a second `AddOrigin`, during that write aborts the whole process. The
   description requires single-writer / multi-reader discipline (code bug,
   line 375).
6. A signature shorter than 48 bytes panics in `Evaluate` (line 467). A
   response shorter than the nonce panics in `FinalizeToken` (line 200).
   A blinded request key of the wrong length reaches `UnblindPublicKey` as
   the nil point in `FinalizeIndex` (line 81).
   The description makes a wrong length a returned Decode error (code bug).
7. `Unmarshal` accepts trailing bytes (divergence from section 4.2,
   line 66).
8. `NewRateLimitedIssuer` drops the error of `rand.Reader.Read(ikm)`
   (line 344) and returns an Issuer whose name key derives from a zero
   ikm. Every origin request sealed to it can then be opened without the
   Issuer, against section 8.4; section 7 lists an `Rng` error for this
   case (code bug).

Observed but not given a run of its own: the model also shows that
flipping `tokenKeyID` or the ciphertext makes `Evaluate` return `HpkeOpen`,
not `InvalidSignature` as property 6 and scenario S3 of the description
expect. The decryption runs before the signature check. Either way no
response is issued, and `EvaluateResponsesAuthentic` and `RefinesAbstract`
check exactly that.

## Not modelled, and why

- The internals of HPKE, RSA and ECDSA. They are trusted and symbolic.
- The outer `RateLimitedTokenRequest` decoder. It is not in this
  repository. In the protocol module a signature or a response is either
  whole or cut short. A plaintext either decodes or does not; the codec
  module checks that encoding separately.
- The `raw` cache of `Marshal`. The package marshals only fresh structs.
- Other randomness failures. `ecdsa.GenerateKey` in `AddOrigin` returns
  its error, which changes no state. The response nonce and the Client's
  HPKE and blinding randomness come from code outside this file. Only the
  constructor's dropped read error is modelled (`nameKeyIkm`).
- Liveness. Each Issuer call is a fixed sequence of steps with no loop or
  wait, so that it returns is a matter of the code's shape, not of any
  interleaving. Nothing in the code makes a Client finalize or the
  Attester derive an index.
- Re-registration as its own run. `AddOrigin` on a registered origin
  replaces its index key, so later indices of that origin change; this
  follows from `IndexPerOriginKey` (indices follow the key) and is left
  to the description's wording.
- The codec inside the protocol module. The protocol's blinded message and
  request key are symbolic (a request number, a point as exponents), not
  bytes, so `Unmarshal` cannot run on them. Every way a plaintext can fail
  to decode reaches the same code path (`decryptOriginTokenRequest`
  returning an empty request, line 438), so `wellFormed` loses nothing the
  protocol properties tell apart. The codec's own boundary cases are
  checked in `padding_bytes` and `codec_trailing`.
- Larger protocol instances. Two blinds with both variants and both kinds
  of tampering did not finish in 15 minutes.
  Each run's bounds are the smallest that contain its cases; see "Bounds for the protocol runs" under Runs.
- Recovery after an abort. The Issuer's map lives only in memory, and no
  restart is part of this code.

## Plan

1. Done (first sitting): the padding operators and the protocol core:
   - the Client, the Issuer with concurrent workers, the Attester and the
     adversary;
   - signature binding, round trip and index properties;
   - five violation runs.
2. Done (second sitting):
   - the non-atomic `AddOrigin` and the map-race abort;
   - short signatures and responses;
   - the `OriginTokenRequest` codec;
   - the abstract specification `IssuanceAbstract` with its refinement;
   - the liveness of calls under weak fairness.
3. Done (third sitting):
   - the `OriginIndexKey` accessor as a second map reader;
   - `FinalizeIndex`'s nil-point path and response tampering of the
     blinded request key;
   - the codec's u16 read as its own operator (`ReadUint16`).
4. Done (fourth sitting): the constructor's failed random read and origin
   confidentiality (`rng_failure`). The index check under
   `EvaluateWithoutCheck` moved into `issuance_refinement`.
   The `Rng` error of `Evaluate`'s response-nonce read
   (`NonceReadMayFail`).

5. Done (fifth sitting): `Evaluate`'s nonce write and read as separate
   steps (`EvaluateRespond`, `EvaluateSeal`) and the concurrent-respond
   bug; the abstract `Finalize` accepts unchecked answers, as the
   description says; the liveness property was dropped.

What is left is listed under "Not modelled" with the reason.
