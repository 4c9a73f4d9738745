----------------------- MODULE MCRateLimitedIssuance -----------------------
EXTENDS RateLimitedIssuance, TLC

CONSTANTS c1, c2, b1, b2, w1, w2

MCClients == {c1, c2}
MCOneClient == {c1}
MCOneBlind == {b1}
MCBlinds == {b1, b2}
MCWorkers == {w1, w2}

\* The empty name and a one-byte name, with a 2-byte block: both pad to
\* one block, and "" is also what an undecodable plaintext unpads to.
MCOrigins == {<<>>, <<1>>}

MCSymmetry == Permutations(MCClients) \cup Permutations(MCBlinds)
              \cup Permutations(MCWorkers)

=============================================================================
