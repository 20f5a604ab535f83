\* The module is loaded, used by processes that trace themselves and end, and
\* unloaded when no living process is traced; again and again.
SPECIFICATION Spec
CONSTANTS
    CPU = {c1, c2}
    Pid = {p, q}
    NoPid = NoPid
    Processors <- Machines
    Cmds <- AllButLate
    Requests <- WhenFlushed
    AtRmmod = {}
SYMMETRY Symmetry
INVARIANTS
    TypeOK
    NoFault
    BitsExact
    AreaExact
