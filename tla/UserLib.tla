------------------------------ MODULE UserLib ------------------------------
(***************************************************************************)
(* The user libraries' device handles: lib/lkm/src/api.c (port "gdb") and  *)
(* lib/kmd/kmd/kmd.cpp (port "windbg").  Both keep one handle per engine   *)
(* in a global.  Linux opens a descriptor at every enable and never closes *)
(* one; Windows closes at disable and keeps the number.                    *)
(***************************************************************************)
EXTENDS Integers, FiniteSets

CONSTANTS
    Engine,        \* the engines, each with its own globals
    MaxHandles     \* bound: handles the operating system gives the process

ASSUME HandleAssumption == MaxHandles \in Nat

VARIABLES
    port,          \* which of the two libraries
    open,          \* handles of the device that are open
    handle,        \* lbr_fd and bts_fd, lbr_hDevice and bts_hDevice
    failed         \* history: has an open failed?

lib == <<port, open, handle, failed>>

INVALID == -1      \* what a failed open returns

LibTypeOK ==
    /\ port \in {"gdb", "windbg"} /\ failed \in BOOLEAN
    /\ open \subseteq 1..MaxHandles
    /\ handle \in [Engine -> INVALID..MaxHandles]

\* Handle 0 is the globals' initial value and, on Linux, standard input.
LibInit ==
    /\ port \in {"gdb", "windbg"}
    /\ open = {} /\ handle = [e \in Engine |-> 0] /\ failed = FALSE

----------------------------------------------------------------------------
\* A call through handle h reaches the device.
Reaches(h) == h \in open

\* enable_lbr, enable_bts: the smallest free number, or a failure.
Open(e) ==
    /\ \/ \E h \in (1..MaxHandles) \ open :
            /\ \A g \in (1..MaxHandles) \ open : h <= g
            /\ open' = open \cup {h} /\ handle' = [handle EXCEPT ![e] = h]
            /\ UNCHANGED failed
       \/ handle' = [handle EXCEPT ![e] = INVALID] /\ failed' = TRUE /\ UNCHANGED open
    /\ UNCHANGED port

\* disable_lbr, disable_bts, after their request: Linux forgets the descriptor.
Forget(e) == handle' = [handle EXCEPT ![e] = 0] /\ UNCHANGED open

\* Windows closes the handle and keeps its number.  A faulty variant first.
CloseNothing(e) == UNCHANGED <<open, handle>>
CloseHandle(e) == open' = open \ {handle[e]} /\ UNCHANGED handle

Close(e) ==
    /\ \/ port = "gdb" /\ Forget(e)
       \/ port = "windbg" /\ CloseHandle(e)
    /\ UNCHANGED <<port, failed>>
=============================================================================
