SPECIFICATION Spec
CONSTANTS
    j1 = j1
    j2 = j2
    Jobs <- MCJobs
    Seeds = {1}
    DefaultSeed = 1
    Tables = {"portfolio"}
    MaxKills = 0
INVARIANT NoTraceback
