SPECIFICATION Spec
CONSTANTS
    NR_PROCS = 5
    MaxPid = 5
    Sig = {1, 5, 9, 17}
    KernelSig = {}
    UserCalls <- TraceCalls
    Outcome <- NoMemory
    MaxForks = 2
    MaxFrames = 2
    MaxPend = 1
INVARIANTS StoppedAgrees
CHECK_DEADLOCK FALSE
