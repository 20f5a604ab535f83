------------------------------ MODULE BtsTable ------------------------------
(* The list of BTS states, read as the table of TraceTable. *)
EXTENDS Bts

CONSTANT Off      \* the entry of a process without a state

ASSUME BtsTableAssumption == Off \notin Codes

EntryOf(t) == IF Traced(t) THEN code[CHOOSE o \in Matches(t) : TRUE] ELSE Off

\* An enable has taken effect once its state is on the list, a config once the
\* bits are stored.
TookEffect(p) ==
    \/ req[p].cmd = "enable" /\ pc[p] \in {"check", "put"}
    \/ req[p].cmd = "config" /\ pc[p] # "set_bits"

CallOf(p) == [cmd |-> req[p].cmd, pid |-> req[p].pid, sel |-> req[p].code]

Table == INSTANCE TraceTable WITH
    Select <- Codes,
    traced <- [t \in Pid |-> EntryOf(t)],
    call   <- [p \in Pid |-> CallOf(p)],
    done   <- [p \in Pid |-> TookEffect(p)],
    None   <- [cmd |-> "none", pid |-> NoPid, sel |-> 0]

\* The operations, the inheritance by a new process and the context switches of
\* all cores together behave as single operations on the table of bts_config
\* values (bts.c: bts_ioctl_handler, bts_newproc_handler, bts_cswitch_handler).
ImplementsTable == Table!Spec
=============================================================================
