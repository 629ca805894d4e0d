\* Two services start together on a fresh database and nothing fails.
SPECIFICATION Spec
CONSTANTS
    old = old
    new = new
    Service = {old, new}
    Known <- SameBuild
    Rerunnable = {}
    MaxFailures = 0
INVARIANT StartNeverFails
