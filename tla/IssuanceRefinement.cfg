\* Does the protocol implement IssuanceAbstract with both variants served,
\* a failing nonce read, and responses cut short on the way to the Client?
\* Request tampering and a second origin key are checked by
\* issuance_validated; here they are left out so that the run stays small.
CONSTANTS
    c1 = c1  c2 = c2  b1 = b1  b2 = b2  w1 = w1  w2 = w2
    Clients <- MCOneClient
    Blinds <- MCOneBlind
    Workers <- MCWorkers
    Origins <- MCOrigins
    Stride = 2
    Variants = {"Evaluate", "EvaluateWithoutCheck"}
    MaxRequests = 2
    MaxEvaluations = 2
    MaxRegistrations = 1
    MaxTampers = 0
    MaxResponseTampers = 1
    ReadOutcomes = {"filled"}
    NonceReadMayFail = TRUE
SYMMETRY MCSymmetry
SPECIFICATION Spec
PROPERTY
    RefinesAbstract
\* The package is a library: it stops when its callers stop calling.
CHECK_DEADLOCK FALSE
