\* Two calls race on one channel, and implement the abstract ledger.
SPECIFICATION FairSpec
CONSTANTS
    Proc = {p1, p2}
    Channel = {c1}
    MaxAmount = 2
    current = current
    stale = stale
    short = short
    Signer <- MCSigner
    WellFormedKey <- MCWellFormedKey
    Signature = {s1}
    Signed <- MCSigned
    Offered <- MCOffered
    NilAmount = NilAmount
    NoCommitment = NoCommitment
INVARIANTS
    TypeOK
    OneRowPerKey
    VerdictIsTheRows
    AckedAreDurable
    NoKnownRegression
    NothingAfterRejection
PROPERTIES
    ImplementsLedger
    EveryCallEnds
