\* Two setup calls in one interpreter (two MyCacheSystem objects).
CONSTANTS
    MaxCpus = 2
    MaxL3 = 2
    LineSizes <- MCLineSizes
    MaxMemCtrls = 1
    MaxSetups = 2
INIT Init
NEXT Next
CHECK_DEADLOCK FALSE
INVARIANTS
    VersionsDense
