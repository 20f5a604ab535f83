\* A traced process creates another one, and both are disabled.
SPECIFICATION Spec
CONSTANTS
    CPU = {c1}
    p = p
    q = q
    r = r
    Pid = {p, q}
    NoPid = NoPid
    Obj = {o1, o2}
    NoObj = NoObj
    Off = Off
    ReqSelect = {0}
    Targets <- SelfOnly
    Cmds = {"enable", "disable"}
    Born = {p}
    CloneKinds = {"process"}
    Exits = FALSE
    Watched = {}
    Preemptible = FALSE
INVARIANT NoUseAfterFree
