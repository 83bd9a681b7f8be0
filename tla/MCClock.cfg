SPECIFICATION Spec
CONSTANTS
    Alarm = {p}
    Timeout = Timeout
    Stop = Stop
    User = {u1, u2}
    IDLE = IDLE
    NIL = NIL
    SCHED_RATE = 2
    Delays = {1, 16}
    Waits = {1}
    LONG_MAX = 7
    MaxTime = 2
INVARIANTS TimersSound Alerted TimeoutComing
PROPERTY QuantumKept
