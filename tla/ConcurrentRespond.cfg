\* Two Issuer Workers evaluating one request at once (a duplicate or a
\* retry while the first call is running): does each Evaluate response
\* still finalize at the Client?
CONSTANTS
    c1 = c1  c2 = c2  b1 = b1  b2 = b2  w1 = w1  w2 = w2
    Clients <- MCOneClient
    Blinds <- MCOneBlind
    Workers <- MCWorkers
    Origins <- MCOrigins
    Stride = 2
    Variants = {"Evaluate"}
    MaxRequests = 1
    MaxEvaluations = 2
    MaxRegistrations = 1
    MaxTampers = 0
    MaxResponseTampers = 0
    ReadOutcomes = {"filled"}
    NonceReadMayFail = FALSE
SPECIFICATION Spec
INVARIANT
    EvaluateRoundTrip
\* The package is a library: it stops when its callers stop calling.
CHECK_DEADLOCK FALSE
