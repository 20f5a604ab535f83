----------------------------- MODULE TraceTable -----------------------------
(***************************************************************************)
(* What the kernel component promises its callers, as docs/usage/kernel.md *)
(* lists it: a table that says which processes are traced and with which   *)
(* filter.  Each accepted request takes effect on the table at most once,  *)
(* at one moment between its call and its return, and nothing else changes *)
(* the table.  Rejected requests ("already enabled", "not enabled") are    *)
(* stutters.                                                               *)
(***************************************************************************)
EXTENDS Naturals

CONSTANTS
    Pid,       \* process ids
    Select,    \* filters, among them 0
    Off,       \* entry of a process that is not traced
    None       \* "no request"

VARIABLES
    traced,    \* the table
    call,      \* process -> its accepted request, until it returns
    done       \* process -> whether that request has taken effect

tvars == <<traced, call, done>>

Init == /\ traced = [t \in Pid |-> Off]
        /\ call = [p \in Pid |-> None]
        /\ done = [p \in Pid |-> FALSE]

\* A request is accepted: enable for a process that is not traced, the others
\* for one that is.
Call(p, cmd, t, s) ==
    /\ call[p] = None
    /\ (cmd = "enable") <=> (traced[t] = Off)
    /\ call' = [call EXCEPT ![p] = [cmd |-> cmd, pid |-> t, sel |-> s]]
    /\ UNCHANGED <<traced, done>>

\* A traced process p creates process q.
Create(p, q) ==
    /\ call[p] = None /\ traced[p] # Off /\ traced[q] = Off
    /\ call' = [call EXCEPT ![p] = [cmd |-> "newproc", pid |-> q, sel |-> 0]]
    /\ UNCHANGED <<traced, done>>

\* The request of p takes effect: the entry it names becomes v.
Effect(p, v) ==
    /\ ~done[p]
    /\ traced' = [traced EXCEPT ![call[p].pid] = v]
    /\ \/ done' = [done EXCEPT ![p] = TRUE] /\ UNCHANGED call
       \/ call' = [call EXCEPT ![p] = None] /\ UNCHANGED done

Pending(p, cmd) == call[p] # None /\ call[p].cmd = cmd

\* Without a filter in the request the default one is used.
Enable(p) ==
    /\ Pending(p, "enable") /\ traced[call[p].pid] = Off
    /\ \E s \in Select \ {0} : /\ call[p].sel # 0 => s = call[p].sel
                               /\ Effect(p, s)

Disable(p) ==
    Pending(p, "disable") /\ traced[call[p].pid] # Off /\ Effect(p, Off)

Config(p) ==
    Pending(p, "config") /\ traced[call[p].pid] # Off /\ Effect(p, call[p].sel)

\* The new process gets its creator's filter.
Inherit(p) ==
    /\ Pending(p, "newproc") /\ traced[p] # Off /\ traced[call[p].pid] = Off
    /\ Effect(p, traced[p])

\* Return after the effect.  A dump has none; enable and inheritance have none
\* when memory runs out.
Return(p) ==
    /\ call[p] # None
    /\ done[p] \/ call[p].cmd \in {"dump", "enable", "newproc"}
    /\ call' = [call EXCEPT ![p] = None]
    /\ done' = [done EXCEPT ![p] = FALSE]
    /\ UNCHANGED traced

Next ==
    \E p \in Pid :
        \/ \E cmd \in {"enable", "disable", "dump", "config"},
              t \in Pid, s \in Select : Call(p, cmd, t, s)
        \/ \E q \in Pid : Create(p, q)
        \/ Enable(p) \/ Disable(p) \/ Config(p) \/ Inherit(p) \/ Return(p)

Spec == Init /\ [][Next]_tvars
=============================================================================
