\* Two self-tracing processes on two cores of a preemptible kernel.  The
\* system may stop when both have terminated.
SPECIFICATION Spec
CONSTANTS
    CPU = {c1, c2}
    p = p
    q = q
    r = r
    Pid = {p, q}
    NoPid = NoPid
    Obj = {o1, o2}
    NoObj = NoObj
    Off = Off
    ReqSelect = {0}
    Targets <- SelfOnly
    Cmds = {"enable", "disable", "dump", "config"}
    Born = {p, q}
    CloneKinds = {}
    Exits = TRUE
    Watched = {}
    Preemptible = TRUE
SYMMETRY SymmetricAll
INVARIANTS
    NoUseAfterFree
    TracedIsRecorded
    PointerDiscipline
CHECK_DEADLOCK FALSE
