\* Two requests, three versions, a restart in between.
SPECIFICATION Spec
CONSTANTS
    Request = {r1, r2}
    Operator = operator
    NoRule = NoRule
    NotANumber = NotANumber
    None = None
    Word = 4
    Text <- MCText
    Trim <- MCTrim
    ToUpper <- MCToUpper
    Rooted <- MCRooted
    Document <- MCDocument
    Route <- MCRoute
    Call <- MCCall
    MaxLedger = 3
    MaxUnits = 2
    MaxInteger = 3
    MaxNumeric = 8
SYMMETRY Symmetric
INVARIANTS
    TypeOK
    FailsClosed
    PricedAsPublished
    LeavesTellTheRule
\* All requests may be over and the last ledger closed.
CHECK_DEADLOCK FALSE
