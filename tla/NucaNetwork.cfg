\* 1..3 cpus (more than the cells of small grids) and 1..6 banks (square,
\* one-row, and ragged grids).
CONSTANTS
    MaxCpus = 3
    MaxL3 = 6
INIT Init
NEXT Next
\* connectControllers returns; nothing runs after it.
CHECK_DEADLOCK FALSE
INVARIANTS
    TypeOK
    LinkEndpointsExist
    OneAttachmentEach
    NetworkConnected
