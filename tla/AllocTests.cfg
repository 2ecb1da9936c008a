CONSTANTS
    ARENA <- MC_ARENA
    Requests <- MC_Requests
    REQS <- MC_REQS
    INIT_REQS <- MC_INIT_REQS
    ITERS <- MC_ITERS
    PTRS <- MC_PTRS
    ROUNDS <- MC_ROUNDS
SPECIFICATION TSpec
INVARIANT TTypeOK
INVARIANT HeapConsistent
INVARIANT Coalesced
INVARIANT DmemTableMatchesPool
INVARIANT LabosPointersMatchPool
PROPERTY SortedAfterFree
PROPERTY Terminates
\* both programs return
CHECK_DEADLOCK FALSE
