CONSTANTS
    t1 = t1
    t2 = t2
    t3 = t3
    NULL = NULL
    Tasks <- MCPairTasks
    TgidOf <- MCTgidOf
    CtrlMap <- MCCtrlMap
    SelfTgidValue = 200
    TargetTgidValue = 0
    Fds = {3}
    Heads = {"GET", "HTTP"}
    Sizes = {8, 20}
    MemoryFaults = FALSE
    MaxMapEntries = 2
    MaxSyscalls = 3
    CONN_STATS_DATA_THRESHOLD = 16
    MAX_MSG_SIZE = 16
    CHUNK_LIMIT = 2
    LOOP_LIMIT = 2
    PROTOCOL_VEC_LIMIT = 2
    IovArrays <- MCOneIovArray
    MsgLens = {0}
    ProcessExits = FALSE
    Syscalls <- HandshakeSyscalls
SPECIFICATION FairSpec
PROPERTIES
    HandshakeStagingReleased
