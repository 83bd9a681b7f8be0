SPECIFICATION Spec
CONSTANTS
    NR_PROCS = 4
    MaxPid = 5
    Sig = {1, 2, 9, 14, 17}
    KernelSig = {2}
    UserCalls <- SignalCalls
    Outcome <- Swapping
    MaxForks = 2
    MaxFrames = 2
    MaxPend = 2
INVARIANT NobodyForgotten
PROPERTIES  PendingDelivered
CHECK_DEADLOCK FALSE
