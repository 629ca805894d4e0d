\* Two commitments settled or closed with while the funder tops up and takes
\* back the rest.
SPECIFICATION Spec
CONSTANTS
    ch1 = ch1
    ch2 = ch2
    settle = settle
    last = last
    fund = fund
    back = back
    None = None
    NoTx = NoTx
    Word = 4
    ChannelId = {ch1, ch2}
    Terms <- MCTerms
    Network = "testnet"
    Commitments <- MCCommitments
    Submitted <- MCSubmitted
    Call = {settle, last, fund, back}
    Want <- MCWant
    MaxLedger = 1
INVARIANTS
    TypeOK
    VerdictsAreTrue
    PaidIsCommitted
    EventsAndGettersAgree
    ValidRowsArePayable
\* Every call may have ended.
CHECK_DEADLOCK FALSE
