SPECIFICATION Spec
CONSTANTS
    NR_PROCS = 3
    OPEN_MAX = 2
    NR_FILPS = 2
    NR_LOCKS = 0
    PIPE_SIZE = 1
    Pipes = {pipe}
    Fifos = {fifo}
    Files = {}
    Ttys = {}
    Modes <- MCModes
    Sizes = {1, 2}
    Regions <- MCRegions
    Nonblock = {TRUE, FALSE}
    MaxCum = 0
    MaxSuspCount = 2
    MaxOpen = 1
INVARIANTS PipesSound AnsweredOnce SuspCounted SlotsSound
CHECK_DEADLOCK FALSE
PROPERTIES RevivingEnds
