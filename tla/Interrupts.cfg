CONSTANTS
    INTERRUPTS <- MC_INTERRUPTS
    prioritet <- MC_prioritet
    RaiseIrqs <- MC_RaiseIrqs
    RegisterIrqs <- MC_RegisterIrqs
    MaxRaises <- MC_MaxRaises
SPECIFICATION Spec
INVARIANT TypeOK
INVARIANT PendingNotBelowCurrent
INVARIANT NestingRestoresPriority
PROPERTY ImplementsNested
\* the machine stops on halt(), and goes idle once MaxRaises arrivals are handled
CHECK_DEADLOCK FALSE
