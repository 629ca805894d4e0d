\* A retry's Record mixes its own signature with the stored verdict.
SPECIFICATION Spec
CONSTANTS
    Proc = {p1}
    Channel = {c1}
    MaxAmount = 1
    current = current
    stale = stale
    short = short
    Signer <- MCSigner
    WellFormedKey <- MCWellFormedKey
    Signature = {s1}
    Signed <- MCSigned
    Offered <- MCOffered
    NilAmount = NilAmount
    NoCommitment = NoCommitment
INVARIANT RecordIsAPersistedRow
