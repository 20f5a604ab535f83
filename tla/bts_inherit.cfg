\* A traced process creates another one, which inherits.
SPECIFICATION Spec
CONSTANTS
    CPU = {c1, c2}
    p = p
    q = q
    r = r
    Pid = {p, q}
    NoPid = NoPid
    Obj = {o1, o2}
    Buf = {b1, b2}
    Null = Null
    Wild = Wild
    Off = Off
    Targets <- SelfOnly
    Cmds = {"enable", "disable"}
    EnableCodes = {0}
    ConfigCodes = {1}
    ReqSizes = {0}
    Born = {p}
    CloneKinds = {"process"}
    BufferFails = FALSE
    Preemptible = FALSE
SYMMETRY Symmetric
INVARIANT NoUninitialisedUse
CHECK_DEADLOCK FALSE
