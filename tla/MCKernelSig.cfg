SPECIFICATION Spec
CONSTANTS
    SIGALRM = SIGALRM
    NR_PROCS = 4
    DriverTab <- NoDriver
    Calls <- SignalCalls
    Sig = {SIGALRM}
    ClientMsg <- OneMsg
    MaxPend = 2
INVARIANTS TypeOK ReadyIffRunnable RunsHighest SignalCount SignalsReported
VIEW LiveState
