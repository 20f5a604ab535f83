\* A process that traces itself and another one, on two cores, and changes
\* configurations; buffers may be missing.  The model stops at the first access
\* through a bad pointer, which remote requests do lead to.
SPECIFICATION Spec
CONSTANTS
    CPU = {c1, c2}
    p = p
    q = q
    r = r
    Pid = {p, q}
    NoPid = NoPid
    Obj = {o1, o2}
    Buf = {b1, b2}
    Null = Null
    Wild = Wild
    Off = Off
    Targets <- OneTracer
    Cmds = {"enable", "disable", "config"}
    EnableCodes = {0}
    ConfigCodes = {2}
    ReqSizes = {0, 2}
    Born = {p, q}
    CloneKinds = {}
    BufferFails = TRUE
    Preemptible = FALSE
SYMMETRY Symmetric
INVARIANT BufferOwned
PROPERTY ImplementsTable
CHECK_DEADLOCK FALSE
