\* A unit price in range, a unit count in range, a charge beyond i128.
SPECIFICATION Spec
CONSTANTS
    Request = {r1}
    Operator = operator
    NoRule = NoRule
    NotANumber = NotANumber
    None = None
    Word = 4
    Text <- MCText
    Trim <- MCTrim
    ToUpper <- MCToUpper
    Rooted <- MCRooted
    Document <- MCDocument
    Route <- MCRoute
    Call <- MCCall
    MaxLedger = 3
    MaxUnits = 2
    MaxInteger = 2
    MaxNumeric = 8
INVARIANT ChargeFitsI128
\* All requests may be over and the last ledger closed.
CHECK_DEADLOCK FALSE
