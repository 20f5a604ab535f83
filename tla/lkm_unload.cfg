\* rmmod while a process traces itself.
SPECIFICATION Spec
CONSTANTS
    CPU = {c1}
    Pid = {p}
    NoPid = NoPid
    Processors <- OneMachine
    Cmds <- EnableOnly
    Requests <- WhenLoaded
    AtRmmod = {"traced"}
INVARIANT CleanUp
CHECK_DEADLOCK FALSE
