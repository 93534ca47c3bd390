\* Five responses for three places, one body too large by itself and two that
\* exceed the aggregate together.
CONSTANTS
    Responses = {a1, a2, a3, b1, b2}
    PageOf <- Pages
    SizeOf <- Sizes
    Attempts = 2
    MaxResponses = 2
    MaxBody = 3
    MaxAggregate = 3
    a1 = a1
    a2 = a2
    a3 = a3
    b1 = b1
    b2 = b2
SPECIFICATION Spec
CHECK_DEADLOCK FALSE
INVARIANTS
    TypeOK
    WithinCaps
    FetchedOnce
    ResetForgets
