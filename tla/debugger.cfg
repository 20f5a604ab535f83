\* Either debugger traces itself and another process, on processors whose ring
\* fills the buffer and on processors whose ring does not.
SPECIFICATION Spec
CONSTANTS
    self = self
    p1 = p1
    Self = self
    Pid <- Processes
    NoPid = none
    MaxLen = 3
    Capacities = {2, 3}
    MaxBranches <- Branches
    Empty = empty
    Junk = junk
    BtsLen = 2
    Shown = 1
    Engine <- Engines
    MaxHandles = 3
INVARIANTS
    TypeOK
    PrintedIsHistory
    ReleasesItsOwn
    HandlesOwned
