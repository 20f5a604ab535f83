\* A self-tracing process and the processes and threads it creates, on two cores.
\* The model stops at the first access through a bad pointer: a child uses its
\* debug store area, which is never set, or a thread inherits a freed state.
SPECIFICATION Spec
CONSTANTS
    CPU = {c1, c2}
    p = p
    q = q
    r = r
    Pid = {p, q, r}
    NoPid = NoPid
    Obj = {o1, o2, o3}
    Buf = {b1, b2, b3}
    Null = Null
    Wild = Wild
    Off = Off
    Targets <- AllButLastSelf
    Cmds = {"enable", "disable", "dump", "config"}
    EnableCodes = {0}
    ConfigCodes = {1}
    ReqSizes = {0, 2}
    Born = {p}
    CloneKinds = {"process", "thread"}
    BufferFails = FALSE
    Preemptible = FALSE
SYMMETRY Symmetric
INVARIANTS
    TypeOK
    PointerDiscipline
    RecordsInBuffers
    BitsExact
    BufferOwned
CHECK_DEADLOCK FALSE
