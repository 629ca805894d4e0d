\* A rolling deployment whose second migration can be run twice.
SPECIFICATION FairSpec
CONSTANTS
    old = old
    new = new
    Service = {old, new}
    Known <- RollingBuild
    Rerunnable = {2}
    MaxFailures = 3
INVARIANTS
    TypeOK
    AppliedOnceIffRecorded
    RecordedIsAPrefix
    DoneIsCurrent
    NewlyAppliedIsExclusive
PROPERTIES
    Converges
    StartReturns
