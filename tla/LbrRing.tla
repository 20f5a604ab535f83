------------------------------ MODULE LbrRing ------------------------------
(***************************************************************************)
(* What the LBR engine (kernel/commons/lbr.c) does to the records          *)
(* themselves.  The processor has a ring of `capacity' records and the     *)
(* index of the newest one, lbr_tos; get_lbr and put_lbr copy both between *)
(* the registers and a process' state.                                     *)
(*                                                                         *)
(* One core: a debugger has stopped the process it traces before it takes  *)
(* a command, so the operations see no other core's registers (module Lbr  *)
(* has the cores and what they can do to each other, but no records).      *)
(***************************************************************************)
EXTENDS Integers, Sequences

CONSTANTS
    Pid,           \* processes
    MaxLen,        \* MAX_LBR_LIST_LEN
    Capacities,    \* what the processors' tables give as lbr_capacity
    MaxBranches,   \* bound: pid -> its branches
    Empty          \* a record that is zero

ASSUME RingAssumption ==
    /\ MaxLen \in Nat \ {0} /\ Capacities \subseteq 1..MaxLen
    /\ MaxBranches \in [Pid -> Nat] /\ Empty \notin Pid \X Nat

VARIABLES
    run,           \* the process that the core executes
    count,         \* history: a process' branches since the beginning
    capacity,      \* lbr_capacity
    on,            \* the LBR bit of DEBUGCTL
    tos, slots,    \* MSR_LBR_TOS, MSR_LBR_NHM_FROM and _TO
    saved,         \* pid -> the data of its lbr_state, for those on the list
    since          \* history: count when the process was enabled

lbr == <<capacity, on, tos, slots, saved, since>>

----------------------------------------------------------------------------
Traced == DOMAIN saved
Records == {Empty} \cup UNION {{p} \X (1..MaxBranches[p]) : p \in Pid}
Slot == 0..(capacity - 1)

\* The data of a new state; a faulty variant first.
EmptyDataFull == [tos |-> capacity, entries |-> [i \in Slot |-> Empty]]
EmptyData == [tos |-> 0, entries |-> [i \in Slot |-> Empty]]

RingTypeOK ==
    /\ capacity \in Capacities /\ run \in Pid /\ on \in BOOLEAN
    /\ tos \in Slot /\ slots \in [Slot -> Records]
    /\ Traced \subseteq Pid
    /\ \A p \in Traced : saved[p] \in [tos : Slot, entries : [Slot -> Records]]
    /\ count \in [Pid -> Nat] /\ since \in [Pid -> Nat]
    /\ \A p \in Pid : since[p] <= count[p] /\ count[p] <= MaxBranches[p]

\* lbr_init has flushed the core.
RingInit ==
    /\ capacity \in Capacities /\ run \in Pid
    /\ on = FALSE /\ tos = 0 /\ slots = [i \in Slot |-> Empty]
    /\ saved = << >>
    /\ count = [p \in Pid |-> 0] /\ since = [p \in Pid |-> 0]

\* The branches of p that a ring of size records ought to hold, from the oldest:
\* the last ones, as many as fit, of those numbered from+1 to upto.
History(size, p, from, upto) ==
    LET n == IF upto - from < size THEN upto - from ELSE size
    IN  [i \in 1..n |-> <<p, upto - n + i>>]

----------------------------------------------------------------------------
\* get_lbr, as far as the state of p is concerned.
AfterGet(p) == [saved EXCEPT ![p] = [tos |-> tos, entries |-> slots]]

\* put_lbr of data d.
Put(d) == on' = TRUE /\ tos' = d.tos /\ slots' = d.entries

\* lbr_cswitch_handler: the process that leaves is saved, the next one restored.
SwitchLbr(p) ==
    /\ saved' = IF run \in Traced THEN AfterGet(run) ELSE saved
    /\ IF p \in Traced THEN Put(saved[p])
       ELSE on' = (on /\ run \notin Traced) /\ UNCHANGED <<tos, slots>>
    /\ UNCHANGED <<capacity, since>>

\* The processor: a branch leaves record r in the ring.
NextTos == (tos + 1) % capacity

RecordLbr(r) ==
    /\ IF on THEN tos' = NextTos /\ slots' = [slots EXCEPT ![NextTos] = r]
             ELSE UNCHANGED <<tos, slots>>
    /\ UNCHANGED <<capacity, on, saved, since>>

----------------------------------------------------------------------------
(* The ioctl operations of the running process upon p.                     *)

\* enable_lbr puts a zeroed state on the list unless there is one.
EnableLbr(p) ==
    /\ p \notin Traced
    /\ saved' = [q \in Traced \cup {p} |-> IF q = p THEN EmptyData ELSE saved[q]]
    /\ since' = [since EXCEPT ![p] = count[p]]
    /\ IF p = run THEN Put(EmptyData) ELSE UNCHANGED <<on, tos, slots>>
    /\ UNCHANGED capacity

DisableLbr(p) ==
    /\ p \in Traced
    /\ saved' = [q \in Traced \ {p} |-> saved[q]]
    /\ on' = (on /\ p # run)
    /\ UNCHANGED <<capacity, tos, slots, since>>

\* dump_lbr reads the registers if p runs, and resumes tracing.
Fresh(p) == IF p = run THEN AfterGet(p) ELSE saved

DumpLbr(p) ==
    /\ p \in Traced /\ saved' = Fresh(p)
    /\ IF p = run THEN Put(Fresh(p)[p]) ELSE UNCHANGED <<on, tos, slots>>
    /\ UNCHANGED <<capacity, since>>

\* It copies lbr_tos and `capacity' entries into the user's buffer b.
Copied(p, b) ==
    [b EXCEPT !.tos = Fresh(p)[p].tos,
              !.entries = [i \in DOMAIN b.entries |->
                             IF i \in Slot THEN Fresh(p)[p].entries[i] ELSE b.entries[i]],
              !.since = since[p], !.upto = count[p]]
=============================================================================
