\* One cpu, 1..5 banks: is the router grid a mesh over every bank's router?
CONSTANTS
    MaxCpus = 1
    MaxL3 = 5
INIT Init
NEXT Next
CHECK_DEADLOCK FALSE
INVARIANTS
    MeshConnected
