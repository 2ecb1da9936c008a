CONSTANTS
    idle = idle
    init = init
    a = a
    b = b
    sem1 = sem1
    dev1 = dev1
    g1 = g1
    u1 = u1
    Slots <- MC_Slots
    IdleSlot = idle
    InitSlot = init
    PRIO_LEVELS <- MC_PRIO_LEVELS
    WORD_SIZE <- MC_WORD_SIZE
    INIT_PRIO <- MC_INIT_PRIO
    CreatePrios <- MC_CreatePrios
    Statuses <- MC_Statuses
    Sems = {sem1}
    SEM_INIT = 0
    Devs = {dev1}
    MAX_RESOURCES <- MC_MAX_RESOURCES
    MaxCreates <- MC_MaxCreates
    MaxSemValue <- MC_MaxSemValue
    \* a build without MESSAGES
    MESSAGES = FALSE
    GQueues = {}
    UQs = {}
    MsgTypes = {1}
    MsgSizes = {1}
    BufSizes = {1}
    MinPrios = {0}
    SigTypes = {}
    SigPrios = {0}
    MaxPosts = 0
SPECIFICATION Spec
INVARIANT RefCountMatchesCollectors
CHECK_DEADLOCK FALSE
