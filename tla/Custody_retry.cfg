\* A retry of an older stored commitment is refused.
SPECIFICATION Spec
CONSTANTS
    Proc = {p1}
    Channel = {c1}
    MaxAmount = 2
    current = current
    stale = stale
    short = short
    Signer <- MCSigner
    WellFormedKey <- MCWellFormedKey
    Signature = {s1}
    Signed <- MCSigned
    Offered <- MCOffered
    NilAmount = NilAmount
    NoCommitment = NoCommitment
PROPERTY RetryIsNeverRefused
