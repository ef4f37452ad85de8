CONSTANTS
    Callers = {c1, c2}
    Chunks = 2
    MaxConns = 2
SPECIFICATION Spec
INVARIANT NoForeignAnswer
CHECK_DEADLOCK FALSE
