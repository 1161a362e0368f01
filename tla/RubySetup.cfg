\* One setup per interpreter, every configuration up to 2 cpus and 4 banks.
CONSTANTS
    MaxCpus = 2
    MaxL3 = 4
    LineSizes <- MCLineSizes
    MaxMemCtrls = 2
    MaxSetups = 1
INIT Init
NEXT Next
\* setup ends (returns or panics); nothing runs after it.
CHECK_DEADLOCK FALSE
INVARIANTS
    TypeOK
    RegistryOrder
    PrivatePairing
    FrontEndBinding
    VersionsDense
    IndexBitsAgree
    DoneOnlyForValidConfig
