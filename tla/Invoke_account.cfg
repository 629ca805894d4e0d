\* An anchor, a dual-authorized resolution, and one of them once more.
SPECIFICATION FairSpec
CONSTANTS
    anchor = anchor
    again = again
    resolve = resolve
    operator = operator
    consumer = consumer
    nonce = nonce
    Party = {consumer}
    Signer <- MCSigner
    Requires <- MCRequires
    SourceAccount = SourceAccount
    Unsigned = Unsigned
    NoAsk = NoAsk
    NoTx = NoTx
    Account = {operator}
    Call = {anchor, again, resolve}
    Source <- MCSource
    Operation <- MCOperation
    Nonce = {nonce}
    Asks <- MCAsks
    Validity = 1
    PollTurns = 1
    MaxLedger = 3
INVARIANTS
    TypeOK
    OutcomeIsOnChain
    NoAvoidableTrap
    ExecutionsAreOwned
PROPERTIES
    ImplementsSubmission
    EveryCallReturns
\* Every caller may have given up and the last ledger closed.
CHECK_DEADLOCK FALSE
