\* Every leaf count up to one above the cap's limit of 2^4.
SPECIFICATION Spec
CONSTANTS
    MaxLeaves = 20
    Input <- MCInput
    MaxProof = 4
INVARIANTS
    TypeOK
    ProofsFold
    ProofsVerify
    ProofsAreShort
    RootIsReference
