SPECIFICATION Spec
CONSTANTS
    j1 = j1
    j2 = j2
    Jobs <- MCJobs
    Seeds = {1, 2}
    DefaultSeed = 1
    Tables = {"portfolio"}
    MaxKills = 1
INVARIANTS
    WholeBetweenJobs
PROPERTIES
    ForeignKept
    PreparedIsMatching
SYMMETRY JobsAreAlike
