SPECIFICATION Spec
CONSTANTS
    NR_PROCS = 5
    MaxPid = 5
    Sig = {1, 9, 17}
    KernelSig = {}
    UserCalls <- FamilyCalls
    Outcome <- Normal
    MaxForks = 5
    MaxFrames = 2
    MaxPend = 1
INVARIANTS GroupsApart NoMissedZombie TablesSound
CHECK_DEADLOCK FALSE
