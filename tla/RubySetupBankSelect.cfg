\* Bank counts 1..4, including 3, which is not a power of two.
CONSTANTS
    MaxCpus = 1
    MaxL3 = 4
    LineSizes <- MCLineSizes
    MaxMemCtrls = 1
    MaxSetups = 1
INIT Init
NEXT Next
CHECK_DEADLOCK FALSE
INVARIANTS
    BankSelectCoversBanks
