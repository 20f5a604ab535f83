\* One process traces itself and another one on a single core.
SPECIFICATION FairSpec
CONSTANTS
    CPU = {c1}
    p = p
    q = q
    r = r
    Pid = {p, q}
    NoPid = NoPid
    Obj = {o1, o2}
    NoObj = NoObj
    Off = Off
    ReqSelect = {0, 2}
    Targets <- OneTracerOfBoth
    Cmds = {"enable", "disable", "dump", "config"}
    Born = {p, q}
    CloneKinds = {}
    Exits = FALSE
    Watched = {p, q}
    Preemptible = FALSE
INVARIANTS
    TraceExact
    TraceIsolation
PROPERTIES
    ImplementsTable
    OperationsReturn
    TracingStarts
