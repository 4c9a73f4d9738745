\* NewRateLimitedIssuer when rand.Reader.Read fails as well as when it
\* fills ikm: is the origin of a request still hidden from all but the
\* Issuer?
CONSTANTS
    c1 = c1  c2 = c2  b1 = b1  b2 = b2  w1 = w1  w2 = w2
    Clients <- MCOneClient
    Blinds <- MCOneBlind
    Workers <- MCWorkers
    Origins <- MCOrigins
    Stride = 2
    Variants = {"Evaluate"}
    MaxRequests = 1
    MaxEvaluations = 1
    MaxRegistrations = 1
    MaxTampers = 0
    MaxResponseTampers = 0
    ReadOutcomes = {"filled", "failed"}
    NonceReadMayFail = FALSE
SPECIFICATION Spec
INVARIANT
    OriginConfidential
CHECK_DEADLOCK FALSE
