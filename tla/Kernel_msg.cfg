CONSTANTS
    idle = idle
    init = init
    a = a
    b = b
    sem1 = sem1
    dev1 = dev1
    g1 = g1
    u1 = u1
    Slots <- MC_MsgSlots
    IdleSlot = idle
    InitSlot = init
    PRIO_LEVELS <- MC_PRIO_LEVELS
    WORD_SIZE <- MC_WORD_SIZE
    INIT_PRIO <- MC_INIT_PRIO
    CreatePrios <- MC_MsgCreatePrios
    Statuses <- MC_Statuses
    Sems = {}
    SEM_INIT = 0
    Devs = {}
    MAX_RESOURCES <- MC_MAX_RESOURCES
    MaxCreates <- MC_MsgMaxCreates
    MaxSemValue <- MC_MaxSemValue
    \* a build with MESSAGES: one global queue block, one msg_q, and one
    \* signal type a thread may set a handler for
    MESSAGES = TRUE
    GQueues = {g1}
    UQs = {u1}
    MsgTypes <- MC_MsgTypes
    MsgSizes <- MC_MsgSizes
    BufSizes <- MC_BufSizes
    MinPrios <- MC_MinPrios
    SigTypes = {1}
    SigPrios = {0}
    MaxPosts <- MC_MaxPosts
SPECIFICATION Spec
INVARIANT TypeOK
INVARIANT QueuesConsistent
INVARIANT ReadyMaskMatchesQueues
INVARIANT MessagesConserved
INVARIANT MsgQueueOrder
INVARIANT WaitersOnLiveQueues
\* Once every program thread has exited or blocked, only the idle thread
\* runs and waits for interrupts: the system really stops there.
CHECK_DEADLOCK FALSE
