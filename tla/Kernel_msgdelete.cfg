CONSTANTS
    idle = idle
    init = init
    a = a
    b = b
    sem1 = sem1
    dev1 = dev1
    g1 = g1
    u1 = u1
    Slots <- MC_Slots
    IdleSlot = idle
    InitSlot = init
    PRIO_LEVELS <- MC_PRIO_LEVELS
    WORD_SIZE <- MC_WORD_SIZE
    INIT_PRIO <- MC_INIT_PRIO
    CreatePrios <- MC_CreatePrios
    Statuses <- MC_Statuses
    Sems = {}
    SEM_INIT = 0
    Devs = {}
    MAX_RESOURCES <- MC_MAX_RESOURCES
    MaxCreates <- MC_MaxCreates
    MaxSemValue <- MC_MaxSemValue
    \* a build with MESSAGES: one global queue block, one msg_q
    MESSAGES = TRUE
    GQueues = {g1}
    UQs = {u1}
    MsgTypes <- MC_MsgTypes
    MsgSizes <- MC_MsgSizes
    BufSizes <- MC_BufSizes
    MinPrios <- MC_MinPrios
    SigTypes = {}
    SigPrios = {0}
    MaxPosts <- MC_MaxPosts
SPECIFICATION Spec
INVARIANT ActiveHasTopPriority
CHECK_DEADLOCK FALSE
