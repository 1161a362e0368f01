\* One cpu, 1..5 banks: does the grid have one switch per bank?
CONSTANTS
    MaxCpus = 1
    MaxL3 = 5
INIT Init
NEXT Next
CHECK_DEADLOCK FALSE
INVARIANTS
    RouterPerBank
