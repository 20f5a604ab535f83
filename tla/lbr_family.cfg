\* A self-tracing process and the processes and threads it creates.  The model
\* stops at a use of freed memory, which this instance reaches.
SPECIFICATION Spec
CONSTANTS
    CPU = {c1, c2}
    p = p
    q = q
    r = r
    Pid = {p, q, r}
    NoPid = NoPid
    Obj = {o1, o2, o3}
    NoObj = NoObj
    Off = Off
    ReqSelect = {0}
    Targets <- AllButLastSelf
    Cmds = {"enable", "disable"}
    Born = {p}
    CloneKinds = {"process", "thread"}
    Exits = FALSE
    Watched = {}
    Preemptible = FALSE
SYMMETRY Symmetric
INVARIANTS
    ListWellFormed
    OneStatePerPid
    TraceExact
CHECK_DEADLOCK FALSE
