SPECIFICATION Spec
CONSTANTS
    SIGALRM = SIGALRM
    NR_PROCS = 4
    DriverTab <- TtyOnly
    Calls <- TtyCalls
    Sig = {SIGALRM}
    ClientMsg <- OneMsg
    MaxPend = 0
INVARIANTS CallerQueue NoSendCycle NoLostInterrupt
VIEW LiveState
