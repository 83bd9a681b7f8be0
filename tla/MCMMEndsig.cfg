SPECIFICATION Spec
CONSTANTS
    NR_PROCS = 5
    MaxPid = 5
    Sig = {1, 9, 14, 17}
    KernelSig = {}
    UserCalls <- AlarmCalls
    Outcome <- Normal
    MaxForks = 2
    MaxFrames = 2
    MaxPend = 2
INVARIANT SignalsFinished
CHECK_DEADLOCK FALSE
