------------------------------ MODULE LbrTable ------------------------------
(* The list of LBR states, read as the table of TraceTable. *)
EXTENDS Lbr

CONSTANT Off      \* the entry of a process without a state

ASSUME LbrTableAssumption == Off \notin Select

\* The table entry of process t.
EntryOf(t) == IF Traced(t) THEN lbrSelect[CHOOSE o \in Matches(t) : TRUE] ELSE Off

\* An enable has taken effect once its state is on the list, a config once the
\* filter is written; what is left of both is to restart the hardware.
TookEffect(p) ==
    \/ req[p].cmd = "enable" /\ pc[p] \in {"check", "put_regs", "put_on"}
    \/ req[p].cmd = "config" /\ pc[p] \in {"put_regs", "put_on"}

Table == INSTANCE TraceTable WITH
    traced <- [t \in Pid |-> EntryOf(t)],
    call   <- req,
    done   <- [p \in Pid |-> TookEffect(p)],
    None   <- NoReq

\* The four operations, the inheritance by a new process and the context
\* switches of all cores together behave as single operations on the table:
\* none is lost, repeated or undone by another (lbr.c: get_lbr writes
\* lbr_select back at every context switch).
ImplementsTable == Table!Spec
=============================================================================
