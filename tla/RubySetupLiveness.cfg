\* Two setup calls, every configuration up to 2 cpus and 3 banks, with
\* setup's own steps weakly fair.
CONSTANTS
    MaxCpus = 2
    MaxL3 = 3
    LineSizes <- MCLineSizes
    MaxMemCtrls = 2
    MaxSetups = 2
SPECIFICATION FairSpec
CHECK_DEADLOCK FALSE
INVARIANT
    VersionsUnique
PROPERTIES
    ValidSetupCompletes
    RegistryRefinement
