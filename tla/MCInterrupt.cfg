SPECIFICATION Spec
CONSTANTS
    Irq = {clock, tty, disk}
    MaxIrq = 4
INVARIANTS SwitchingSound HeldSound
PROPERTY GetsThrough
