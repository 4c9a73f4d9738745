--------------------------- MODULE IssuanceAbstract ---------------------------
(***************************************************************************)
(* What rate-limited issuance promises, without cryptography, buffers or   *)
(* threads.  Clients ask for tokens for origins; the Issuer registers      *)
(* index keys for origins; an adversary may forge the signed fields of a   *)
(* request; the Issuer issues answers, checked (Evaluate) or unchecked     *)
(* (EvaluateWithoutCheck); a Client obtains a token only from an answer to *)
(* its own request, checked or not (description 8.1, 8.8); the Attester   *)
(* derives from an answer the index IndexOf(client, key) of the key the    *)
(* answer was made with.                                                   *)
(*                                                                         *)
(* What it rules out: an answer made with a key that was never generated   *)
(* for the request's origin, a checked answer to a forged request, an      *)
(* answer to a request that does not decode, a token without an answer to *)
(* that very request, and an index that is not the one of the (client,    *)
(* key) pair.                                                              *)
(***************************************************************************)
EXTENDS Naturals, Sequences

CONSTANTS
    Clients,
    Origins,
    IndexOf(_, _)     \* the index of a client under an origin index key

VARIABLES
    asked,      \* requests, by number: [client, origin, wellFormed]
    forged,     \* requests whose signed fields were altered in flight
    keyOf,      \* keyOf[k]: the origin index key k was generated for
    issued,     \* answers: [req, key, checked]
    tokens,     \* requests a Client obtained a token for
    indices     \* indices the Attester derived

avars == <<asked, forged, keyOf, issued, tokens, indices>>

AInit ==
    /\ asked = <<>>
    /\ forged = {}
    /\ keyOf = <<>>
    /\ issued = {}
    /\ tokens = {}
    /\ indices = {}

Register(o) ==
    /\ keyOf' = Append(keyOf, o)
    /\ UNCHANGED <<asked, forged, issued, tokens, indices>>

Ask(c, o, wellFormed) ==
    /\ asked' = Append(asked, [client |-> c, origin |-> o, wellFormed |-> wellFormed])
    /\ UNCHANGED <<forged, keyOf, issued, tokens, indices>>

Forge(r) ==
    /\ forged' = forged \cup {r}
    /\ UNCHANGED <<asked, keyOf, issued, tokens, indices>>

\* An answer uses a key once generated for the request's origin (possibly
\* replaced since); a checked answer needs the request as it was signed.
Issue(r, k, checked) ==
    /\ asked[r].wellFormed
    /\ keyOf[k] = asked[r].origin
    /\ checked => r \notin forged
    /\ issued' = issued \cup {[req |-> r, key |-> k, checked |-> checked]}
    /\ UNCHANGED <<asked, forged, keyOf, tokens, indices>>

Finalize(r) ==
    /\ \E a \in issued : a.req = r
    /\ tokens' = tokens \cup {r}
    /\ UNCHANGED <<asked, forged, keyOf, issued, indices>>

Index(a) ==
    LET c == asked[a.req].client IN
    /\ indices' = indices \cup
          {[client |-> c, origin |-> asked[a.req].origin, key |-> a.key,
            index |-> IndexOf(c, a.key)]}
    /\ UNCHANGED <<asked, forged, keyOf, issued, tokens>>

ANext ==
    \/ \E o \in Origins : Register(o)
    \/ \E c \in Clients, o \in Origins, wf \in BOOLEAN : Ask(c, o, wf)
    \/ \E r \in DOMAIN asked : Forge(r)
    \/ \E r \in DOMAIN asked, k \in DOMAIN keyOf, ch \in BOOLEAN : Issue(r, k, ch)
    \/ \E r \in DOMAIN asked : Finalize(r)
    \/ \E a \in issued : Index(a)

ASpec == AInit /\ [][ANext]_avars

=============================================================================
