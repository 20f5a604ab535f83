\* Two self-tracing processes on two cores of a non-preemptible kernel.
SPECIFICATION Spec
CONSTANTS
    CPU = {c1, c2}
    p = p
    q = q
    r = r
    Pid = {p, q}
    NoPid = NoPid
    Obj = {o1, o2}
    NoObj = NoObj
    Off = Off
    ReqSelect = {0, 2}
    Targets <- SelfOnly
    Cmds = {"enable", "disable", "dump", "config"}
    Born = {p, q}
    CloneKinds = {}
    Exits = FALSE
    Watched = {p, q}
    Preemptible = FALSE
SYMMETRY SymmetricAll
INVARIANTS
    TypeOK
    NoUseAfterFree
    TraceExact
    TraceIsolation
PROPERTY ImplementsTable
