\* The driver is loaded, others reset the trace session twice at any time, and
\* the driver is unloaded.  Its life ends there.
SPECIFICATION FairSpec
CONSTANTS
    MaxResets = 2
    ThreadSleep = 2
    RemoveSleep = 5
INVARIANTS
    TypeOK
    UnloadSafe
    OriginalsKept
PROPERTY HookReturns
CHECK_DEADLOCK FALSE
