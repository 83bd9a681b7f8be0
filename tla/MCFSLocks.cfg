SPECIFICATION Spec
CONSTANTS
    NR_PROCS = 2
    OPEN_MAX = 1
    NR_FILPS = 2
    NR_LOCKS = 3
    PIPE_SIZE = 1
    Pipes = {}
    Fifos = {}
    Files = {file}
    Ttys = {tty, tty2}
    Modes <- MCLockModes
    Sizes = {1}
    Regions <- MCRegions
    Nonblock = {FALSE}
    MaxCum = 0
    MaxSuspCount = 2
    MaxOpen = 1
INVARIANTS LocksSound DeviceAgrees
PROPERTY LockWaiterBlocked
CHECK_DEADLOCK FALSE
