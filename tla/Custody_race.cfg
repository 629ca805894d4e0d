\* Two racing calls write a lower amount after a higher one.
SPECIFICATION Spec
CONSTANTS
    Proc = {p1, p2}
    Channel = {c1}
    MaxAmount = 2
    current = current
    stale = stale
    short = short
    Signer <- MCSigner
    WellFormedKey <- MCWellFormedKey
    Signature = {s1}
    Signed <- MCSigned
    Offered <- MCOffered
    NilAmount = NilAmount
    NoCommitment = NoCommitment
PROPERTY NeverWrittenBelowHighest
