\* Can Evaluate read the origin map while AddOrigin writes it?
CONSTANTS
    c1 = c1  c2 = c2  b1 = b1  b2 = b2  w1 = w1  w2 = w2
    Clients <- MCOneClient
    Blinds <- MCBlinds
    Workers <- MCWorkers
    Origins <- MCOrigins
    Stride = 2
    Variants = {"Evaluate"}
    MaxRequests = 2
    MaxEvaluations = 3
    MaxRegistrations = 1
    MaxTampers = 1
    MaxResponseTampers = 1
    ReadOutcomes = {"filled"}
    NonceReadMayFail = FALSE
SYMMETRY MCSymmetry
SPECIFICATION Spec
INVARIANT
    IssuerNeverAborts
\* The package is a library: it stops when its callers stop calling.
CHECK_DEADLOCK FALSE
