SPECIFICATION Spec
CONSTANTS
    NR_PROCS = 5
    Chunks <- MCChunks
    SwapSizes = {2}
    Root = {2}
    Program <- MCProgram
    InitSeg <- MCInit
INVARIANTS HolesSound QueueCurrent
PROPERTIES CallEnds MemoryKept
