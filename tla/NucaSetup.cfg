\* One NUCA setup call over every configuration up to 2 cpus and 2 banks.
CONSTANTS
    MaxCpus = 2
    MaxL3 = 2
    LineSizes <- MCNucaLineSizes
    MaxMemCtrls = 2
    MaxSetups = 1
SPECIFICATION NucaFairSpec
CHECK_DEADLOCK FALSE
PROPERTY
    ListBuiltSetupCompletes
