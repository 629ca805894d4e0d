\* Two statements anchored at a time, one disputed, two resolutions tried.
SPECIFICATION Spec
CONSTANTS
    operator = operator
    consumer = consumer
    channel = channel
    token = token
    h1 = h1
    h2 = h2
    a1 = a1
    a2 = a2
    open = open
    r1 = r1
    r2 = r2
    None = None
    Word = 4
    Call = {a1, a2, open, r1, r2}
    NoTx = NoTx
    Party = {operator, consumer, channel, token}
    Digest = {h1, h2}
    Want <- MCWant
    Agreement <- MCAgreement
    MaxEntries = 2
INVARIANTS
    TypeOK
    StatementsAreAsAsked
    AnchorReturnsItsOwn
    ResolvedAsAgreed
    EventsTellTheSame
\* Every call may have ended.
CHECK_DEADLOCK FALSE
