\* Up to 2 cpus (every hash placement of their L2s) and 1..5 banks.
CONSTANTS
    MaxCpus = 2
    MaxL3 = 5
INIT Init
NEXT Next
\* makeTopology returns; nothing runs after it.
CHECK_DEADLOCK FALSE
INVARIANTS
    TypeOK
    LinkEndpointsExist
    NetworkConnected
