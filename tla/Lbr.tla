-------------------------------- MODULE Lbr --------------------------------
(***************************************************************************)
(* The LBR half of the kernel component (kernel/commons/lbr.c): the list   *)
(* of lbr_state records, the four ioctl operations, the context-switch     *)
(* handler and the new-process handler, run by several processes on        *)
(* several cores.                                                          *)
(*                                                                         *)
(* Grain of atomicity.  A section under lbr_state_lock (a spinlock taken   *)
(* with interrupts off) is one step.  What the code does between two such  *)
(* sections is a step of its own, and so is each access to the DEBUGCTL    *)
(* register of the core the code happens to run on.  In particular the     *)
(* pointer returned by find_lbr_state is used in later steps, after the    *)
(* lock was released.  Inside the context-switch handler interrupts are    *)
(* off, so the register accesses of get_lbr and put_lbr, which only this   *)
(* core can see, belong to the step of their locked section.               *)
(*                                                                         *)
(* A behaviour ends at the first use of freed memory (fault): what the     *)
(* kernel does after that is undefined.                                    *)
(***************************************************************************)
EXTENDS Naturals, FiniteSets

CONSTANTS
    CPU,          \* the cores
    Pid,          \* process ids (Linux: task ids), without 0
    NoPid,        \* pid 0: the idle task, and "myself" in an enable request
    Obj,          \* the lbr_state allocations that fit in memory at once
    NoObj,        \* the null pointer
    ReqSelect,    \* the lbr_select values that requests carry (0 means default)
    Targets,      \* Targets[p]: the pids that requests of process p name
    Cmds,         \* the ioctl commands in use
    Born,         \* the processes that exist when the module is loaded
    CloneKinds,   \* what a process may create: "process", "thread"
    Exits,        \* may processes terminate?
    Watched,      \* the processes whose branches the model follows
    Preemptible   \* is kernel code preempted outside spinlocks?  (In Linux never
                  \* in lbr_newproc_handler, which a tracepoint calls.)

LBR_SELECT == 1                       \* the default filter, lbr.h
Select     == ReqSelect \cup {0, LBR_SELECT}

ASSUME LbrAssumption ==
    /\ NoPid \notin Pid
    /\ NoObj \notin Obj
    /\ ReqSelect \subseteq Nat
    /\ Targets \in [Pid -> SUBSET (Pid \cup {NoPid})]
    /\ Born \subseteq Pid
    /\ Cmds \subseteq {"enable", "disable", "dump", "config"}
    /\ CloneKinds \subseteq {"process", "thread"}
    /\ Exits \in BOOLEAN
    /\ Watched \subseteq Pid \cup {NoPid}
    /\ Preemptible \in BOOLEAN

VARIABLES
    \* heap
    live,         \* lbr_state records allocated and not freed
    liveEntries,  \* entries blocks allocated and not freed
    listed,       \* lbr_state records on lbr_state_head
    statePid,     \* config.pid of each record
    lbrSelect,    \* config.lbr_select of each record
    entries,      \* data->entries of each record: the block it points to
    saved,        \* block -> the watched processes whose branches it holds
    \* cores
    run,          \* core -> its current process
    lbrOn,        \* core -> DEBUGCTLMSR_LBR
    hwSelect,     \* core -> MSR_LBR_SELECT
    stack,        \* core -> the watched processes whose branches the LBR holds
    \* the context-switch handler of each core
    at,           \* how far it is
    nxt,          \* the process being switched to
    prevState, nextState,     \* its two local pointers
    \* processes
    pc,           \* where the process is in the kernel ("user": not in it)
    req,          \* its request
    ptr,          \* its local pointer to the state it found or created
    child,        \* lbr_newproc_handler's local child_state
    real_parent,  \* the process a new process' state is inherited from
    fault         \* the first use of freed memory, if any

heap  == <<live, liveEntries, listed, statePid, lbrSelect, entries, saved>>
cores == <<run, lbrOn, hwSelect, stack>>
swtch == <<at, nxt, prevState, nextState>>
procs == <<pc, req, ptr, child, real_parent>>
vars  == <<heap, cores, swtch, procs, fault>>

----------------------------------------------------------------------------
Tag    == Pid \cup {NoPid}
NoReq  == [cmd |-> "none", pid |-> NoPid, sel |-> 0]
ReqSet == [cmd : {"none", "enable", "disable", "dump", "config", "newproc"},
           pid : Tag, sel : Select]

\* Points of the ioctl operations, in the order of the code.
IoctlPC == {"alloc", "insert", "check", "get_off", "get_regs", "set",
            "set_other", "put_regs", "put_on", "copy", "remove"}
\* Points of lbr_newproc_handler, which runs in the creating process.
NewProcPC == {"np_alloc", "np_copy", "np_insert"}
\* "none": no such process; "new": created, its creator still in the handler.
PC == {"none", "new", "user"} \cup IoctlPC \cup NewProcPC

HeapTypeOK ==
    /\ live \subseteq Obj /\ liveEntries \subseteq Obj /\ listed \subseteq Obj
    /\ statePid \in [Obj -> Tag]
    /\ lbrSelect \in [Obj -> Select]
    /\ entries \in [Obj -> Obj]
    /\ saved \in [Obj -> SUBSET Tag]

CoresTypeOK ==
    /\ run \in [CPU -> Tag]
    /\ lbrOn \in [CPU -> BOOLEAN]
    /\ hwSelect \in [CPU -> Select]
    /\ stack \in [CPU -> SUBSET Tag]

SwitchTypeOK ==
    /\ at \in [CPU -> {"no", "next", "get", "put"}]
    /\ nxt \in [CPU -> Tag]
    /\ prevState \in [CPU -> Obj \cup {NoObj}]
    /\ nextState \in [CPU -> Obj \cup {NoObj}]

ProcsTypeOK ==
    /\ pc \in [Pid -> PC]
    /\ req \in [Pid -> ReqSet]
    /\ ptr \in [Pid -> Obj \cup {NoObj}]
    /\ child \in [Pid -> Obj \cup {NoObj}]
    /\ real_parent \in [Pid -> Tag]

\* The type invariant.
TypeOK ==
    /\ HeapTypeOK /\ CoresTypeOK /\ SwitchTypeOK /\ ProcsTypeOK
    /\ fault \in {"none", "state", "entries"}

\* After lbr_init: empty list, every core flushed and running its idle task.
\* The pids outside Born are those of processes created later.
Init ==
    /\ live = {} /\ liveEntries = {} /\ listed = {}
    /\ statePid = [o \in Obj |-> NoPid]
    /\ lbrSelect = [o \in Obj |-> 0]
    /\ entries = [o \in Obj |-> o]
    /\ saved = [o \in Obj |-> {}]
    /\ run = [c \in CPU |-> NoPid]
    /\ lbrOn = [c \in CPU |-> FALSE]
    /\ hwSelect = [c \in CPU |-> 0]
    /\ stack = [c \in CPU |-> {}]
    /\ at = [c \in CPU |-> "no"]
    /\ nxt = [c \in CPU |-> NoPid]
    /\ prevState = [c \in CPU |-> NoObj]
    /\ nextState = [c \in CPU |-> NoObj]
    /\ pc = [p \in Pid |-> IF p \in Born THEN "user" ELSE "none"]
    /\ req = [p \in Pid |-> NoReq]
    /\ ptr = [p \in Pid |-> NoObj]
    /\ child = [p \in Pid |-> NoObj]
    /\ real_parent = [p \in Pid |-> NoPid]
    /\ fault = "none"

----------------------------------------------------------------------------
(* Helpers.  Some definitions are preceded by a faulty variant of theirs,  *)
(* named for the fault: with it in the place of the definition a property  *)
(* of this module fails (README, "Mutants").                               *)

MatchesAny(t) == {o \in listed : t # NoPid}
Matches(t) == {o \in listed : t # NoPid /\ statePid[o] = t}

\* find_lbr_state(t) may return o.  The code walks from the head and stops at
\* the first match; the order matters only between two states of one pid, and
\* then the model allows either.
Found(t, o) == IF Matches(t) = {} THEN o = NoObj ELSE o \in Matches(t)

\* Core c executes process p (and not the context-switch handler).
Executes(c, p) == fault = "none" /\ run[c] = p /\ at[c] = "no"

OnCore(p) == \E c \in CPU : run[c] = p \/ (at[c] # "no" /\ nxt[c] = p)

Goto(p, label) == pc' = [pc EXCEPT ![p] = label]

\* The handler of p returns to its caller; its locals are gone.
Return(p) ==
    /\ Goto(p, "user")
    /\ req' = [req EXCEPT ![p] = NoReq]
    /\ ptr' = [ptr EXCEPT ![p] = NoObj]
    /\ UNCHANGED <<child, real_parent>>

Step(p, label) ==
    /\ Goto(p, label)
    /\ UNCHANGED <<req, ptr, child, real_parent>>

\* create_lbr_state: a record with its own zeroed entries block.  The callers
\* may also get NULL, whatever memory is left.
Create(o) ==
    /\ o \in Obj \ (live \cup liveEntries)
    /\ live' = live \cup {o}
    /\ liveEntries' = liveEntries \cup {o}
    /\ entries' = [entries EXCEPT ![o] = o]
    /\ saved' = [saved EXCEPT ![o] = {}]

\* The locked section of get_lbr on core c into record o.
SaveRegisters(c, o) ==
    /\ lbrSelect' = [lbrSelect EXCEPT ![o] = hwSelect[c]]
    /\ saved' = [saved EXCEPT ![entries[o]] = stack[c]]
    /\ UNCHANGED <<live, liveEntries, listed, statePid, entries>>

\* The locked section of put_lbr on core c from record o.
LoadSelectOnly(c, o) ==
    /\ hwSelect' = [hwSelect EXCEPT ![c] = lbrSelect[o]]
    /\ UNCHANGED stack
LoadDefaultSelect(c, o) ==
    /\ hwSelect' = [hwSelect EXCEPT ![c] = LBR_SELECT]
    /\ stack' = [stack EXCEPT ![c] = saved[entries[o]]]
LoadRegisters(c, o) ==
    /\ hwSelect' = [hwSelect EXCEPT ![c] = lbrSelect[o]]
    /\ stack' = [stack EXCEPT ![c] = saved[entries[o]]]

Usable(o) == o \in live /\ entries[o] \in liveEntries

\* enable is for a pid without a state, the other three for one that has one.
Accepts(cmd, o) == (cmd = "enable") <=> (o = NoObj)

\* The pid test with which enable, disable, dump and config decide whether the
\* registers of this core concern them.
NeverOwn(p) == FALSE
IsOwn(p) == statePid[ptr[p]] = p

\* An enable without a filter gets the default one; a config without one gets 0.
EnableSelectAdds(sel) == sel + LBR_SELECT
EnableSelect(sel) == IF sel # 0 THEN sel ELSE LBR_SELECT
ConfigSelectDefault(sel) == IF sel # 0 THEN sel ELSE LBR_SELECT
ConfigSelect(sel) == sel

\* What disable, dump and config do for another process than the caller.
UnlessOwn(cmd) ==
    CASE cmd = "disable" -> "remove" [] cmd = "dump" -> "copy" [] OTHER -> "set_other"

\* What follows get_lbr in the operation it is part of.
AfterGetNoPut(cmd) ==
    CASE cmd = "disable" -> "remove" [] cmd = "dump" -> "copy" [] OTHER -> "set"
AfterGet(cmd) ==
    CASE cmd = "disable" -> "remove" [] cmd = "dump" -> "put_regs" [] OTHER -> "set"

\* What follows put_lbr.
AfterPutAgain(p) == IF req[p].cmd = "dump" THEN Step(p, "check") ELSE Return(p)
AfterPut(p) == IF req[p].cmd = "dump" THEN Step(p, "copy") ELSE Return(p)

\* xlist_del.
UnlinkNothing(o) == listed' = listed
Unlink(o) == listed' = listed \ {o}

\* The pid a new process' state gets.
ChildPidOfParent(p) == p
ChildPid(p) == req[p].pid

----------------------------------------------------------------------------
(* The ioctl operations.  Ioctl is the entry of the handler up to and      *)
(* including the locked section of find_lbr_state, with which all four     *)
(* operations begin.                                                       *)

Ioctl(c, p, cmd, t, s) ==
    /\ Executes(c, p) /\ pc[p] = "user"
    /\ \E o \in Obj \cup {NoObj} :
        /\ Found(t, o)
        /\ \/ \* "LBR already enabled" or "LBR not enabled": return -1
              /\ ~Accepts(cmd, o)
              /\ UNCHANGED procs
           \/ /\ Accepts(cmd, o) /\ cmd = "enable"
              /\ Goto(p, "alloc")
              /\ req' = [req EXCEPT ![p] = [cmd |-> cmd, pid |-> t, sel |-> s]]
              /\ UNCHANGED <<ptr, child, real_parent>>
           \/ /\ Accepts(cmd, o) /\ cmd # "enable"
              /\ Goto(p, "check")
              /\ req' = [req EXCEPT ![p] = [cmd |-> cmd, pid |-> t, sel |-> s]]
              /\ ptr' = [ptr EXCEPT ![p] = o]
              /\ UNCHANGED <<child, real_parent>>
    /\ UNCHANGED <<heap, cores, swtch, fault>>

\* enable_lbr: create_lbr_state and the set-up of the fields nobody sees yet.
Alloc(c, p) ==
    /\ Executes(c, p) /\ pc[p] = "alloc"
    /\ \/ /\ Return(p)      \* no memory
          /\ UNCHANGED heap
       \/ \E o \in Obj :
          /\ Create(o)
          /\ statePid' = [statePid EXCEPT ![o] =
                            IF req[p].pid # NoPid THEN req[p].pid ELSE p]
          /\ lbrSelect' = [lbrSelect EXCEPT ![o] = EnableSelect(req[p].sel)]
          /\ ptr' = [ptr EXCEPT ![p] = o]
          /\ Goto(p, "insert")
          /\ UNCHANGED <<listed, req, child, real_parent>>
    /\ UNCHANGED <<cores, swtch, fault>>

\* insert_lbr_state.  The new state is public from here on.
Insert(c, p) ==
    /\ Executes(c, p) /\ pc[p] = "insert"
    /\ listed' = listed \cup {ptr[p]}
    /\ Step(p, "check")
    /\ UNCHANGED <<live, liveEntries, statePid, lbrSelect, entries, saved>>
    /\ UNCHANGED <<cores, swtch, fault>>

\* All four operations: is the state that of the caller?
Check(c, p) ==
    /\ Executes(c, p) /\ pc[p] = "check" /\ ptr[p] \in live
    /\ \/ IsOwn(p) /\ Step(p, IF req[p].cmd = "enable" THEN "put_regs" ELSE "get_off")
       \/ ~IsOwn(p) /\ req[p].cmd = "enable" /\ Return(p)
       \/ ~IsOwn(p) /\ req[p].cmd # "enable" /\ Step(p, UnlessOwn(req[p].cmd))
    /\ UNCHANGED <<heap, cores, swtch, fault>>

\* get_lbr, first part: clear the LBR bit of the core p runs on.
GetOff(c, p) ==
    /\ Executes(c, p) /\ pc[p] = "get_off"
    /\ lbrOn' = [lbrOn EXCEPT ![c] = FALSE]
    /\ Step(p, "get_regs")
    /\ UNCHANGED <<heap, run, hwSelect, stack, swtch, fault>>

\* get_lbr, second part: read the registers out under the lock.
GetRegs(c, p) ==
    /\ Executes(c, p) /\ pc[p] = "get_regs" /\ Usable(ptr[p])
    /\ SaveRegisters(c, ptr[p])
    /\ Step(p, AfterGet(req[p].cmd))
    /\ UNCHANGED <<cores, swtch, fault>>

\* config_lbr: the write of lbr_select, outside the lock.  A raw 0 is stored
\* as it is.
SetSelect(c, p) ==
    /\ Executes(c, p) /\ pc[p] \in {"set", "set_other"} /\ ptr[p] \in live
    /\ lbrSelect' = [lbrSelect EXCEPT ![ptr[p]] = ConfigSelect(req[p].sel)]
    /\ IF pc[p] = "set" THEN Step(p, "put_regs") ELSE Return(p)
    /\ UNCHANGED <<live, liveEntries, listed, statePid, entries, saved>>
    /\ UNCHANGED <<cores, swtch, fault>>

\* put_lbr, first part: write the registers in under the lock.
PutRegs(c, p) ==
    /\ Executes(c, p) /\ pc[p] = "put_regs" /\ Usable(ptr[p])
    /\ LoadRegisters(c, ptr[p])
    /\ Step(p, "put_on")
    /\ UNCHANGED <<heap, run, lbrOn, swtch, fault>>

\* put_lbr, second part: set the LBR bit of the core p runs on.
PutOn(c, p) ==
    /\ Executes(c, p) /\ pc[p] = "put_on"
    /\ lbrOn' = [lbrOn EXCEPT ![c] = TRUE]
    /\ AfterPut(p)
    /\ UNCHANGED <<heap, run, hwSelect, stack, swtch, fault>>

\* dump_lbr: copy the registers to the user under the lock.  A failing copy
\* returns -1 and leaves the kernel's state as a good one does.
Copy(c, p) ==
    /\ Executes(c, p) /\ pc[p] = "copy" /\ Usable(ptr[p])
    /\ Return(p)
    /\ UNCHANGED <<heap, cores, swtch, fault>>

\* remove_lbr_state: unlink and free the entries, the data and the state.
Remove(c, p) ==
    LET o == ptr[p]
        b == entries[o]
    IN
    /\ Executes(c, p) /\ pc[p] = "remove" /\ Usable(o)
    /\ Unlink(o)
    /\ live' = live \ {o}
    /\ liveEntries' = liveEntries \ {b}
    /\ statePid' = [statePid EXCEPT ![o] = NoPid]
    /\ lbrSelect' = [lbrSelect EXCEPT ![o] = 0]
    /\ entries' = [entries EXCEPT ![o] = o]
    /\ saved' = [saved EXCEPT ![b] = {}]
    /\ Return(p)
    /\ UNCHANGED <<cores, swtch, fault>>

----------------------------------------------------------------------------
(* lbr_newproc_handler, called in the process p that creates q.  A process *)
(* inherits from its creator; a thread (CLONE_THREAD) has its creator's    *)
(* real_parent, and it is real_parent's pid that the tracepoint passes on. *)

Clone(c, p, q, kind) ==
    LET parent == IF kind = "process" THEN p ELSE real_parent[p] IN
    /\ Executes(c, p) /\ pc[p] = "user"
    /\ pc[q] = "none" /\ ~OnCore(q)
    /\ real_parent' = [real_parent EXCEPT ![q] = parent]
    /\ \E o \in Obj \cup {NoObj} :
        /\ Found(parent, o)
        /\ \/ /\ o = NoObj
              /\ Goto(q, "user")
              /\ UNCHANGED <<req, ptr>>
           \/ /\ o # NoObj
              /\ pc' = [pc EXCEPT ![p] = "np_alloc", ![q] = "new"]
              /\ req' = [req EXCEPT ![p] =
                            [cmd |-> "newproc", pid |-> q, sel |-> 0]]
              /\ ptr' = [ptr EXCEPT ![p] = o]
    /\ UNCHANGED <<heap, cores, swtch, child, fault>>

\* The handler of p is done: both processes are free to run.
NewProcReturn(p) ==
    /\ pc' = [pc EXCEPT ![p] = "user", ![req[p].pid] = "user"]
    /\ req' = [req EXCEPT ![p] = NoReq]
    /\ ptr' = [ptr EXCEPT ![p] = NoObj]
    /\ child' = [child EXCEPT ![p] = NoObj]
    /\ UNCHANGED real_parent

NewProcAlloc(c, p) ==
    /\ Executes(c, p) /\ pc[p] = "np_alloc"
    /\ \/ /\ NewProcReturn(p)      \* no memory
          /\ UNCHANGED heap
       \/ \E o \in Obj :
          /\ Create(o)
          /\ child' = [child EXCEPT ![p] = o]
          /\ Goto(p, "np_copy")
          /\ UNCHANGED <<listed, statePid, lbrSelect, req, ptr, real_parent>>
    /\ UNCHANGED <<cores, swtch, fault>>

\* The copy under the lock.  The memcpy starts at the lbr_data records and
\* not at the entries behind them, so it copies the entries pointer: the child
\* uses its parent's block, and nothing points to its own any more.
NewProcCopy(c, p) ==
    LET new == child[p] IN
    /\ Executes(c, p) /\ pc[p] = "np_copy" /\ ptr[p] \in live
    /\ statePid' = [statePid EXCEPT ![new] = ChildPid(p)]
    /\ lbrSelect' = [lbrSelect EXCEPT ![new] = lbrSelect[ptr[p]]]
    /\ entries' = [entries EXCEPT ![new] = entries[ptr[p]]]
    /\ liveEntries' = liveEntries \ {new}
    /\ Step(p, "np_insert")
    /\ UNCHANGED <<live, listed, saved, cores, swtch, fault>>

\* insert_lbr_state.  The child never is the current process here.
NewProcInsert(c, p) ==
    /\ Executes(c, p) /\ pc[p] = "np_insert"
    /\ listed' = listed \cup {child[p]}
    /\ NewProcReturn(p)
    /\ UNCHANGED <<live, liveEntries, statePid, lbrSelect, entries, saved>>
    /\ UNCHANGED <<cores, swtch, fault>>

\* A process terminates; its children pass to init, which nobody traces.
\* Neither port tells the tracing code about it.
Exit(c, p) ==
    /\ Exits
    /\ Executes(c, p) /\ pc[p] = "user"
    /\ Goto(p, "none")
    /\ real_parent' = [q \in Pid |->
                          IF q = p \/ real_parent[q] = p THEN NoPid ELSE real_parent[q]]
    /\ UNCHANGED <<heap, cores, swtch, req, ptr, child, fault>>

----------------------------------------------------------------------------
(* lbr_cswitch_handler, called by the scheduler of core c with interrupts  *)
(* off, just before n replaces the current process.                        *)

\* Where the kernel gives up the core even if it is not preemptible: in user
\* mode, after the process' end, and in kmalloc, which may sleep.
Yields == {"user", "none", "alloc"}

Runnable == {NoPid} \cup {q \in Pid : pc[q] \notin {"none", "new"} /\ ~OnCore(q)}

\* The scheduler picks n; find_lbr_state(prev_pid).
SwitchTo(c, n) ==
    /\ fault = "none" /\ at[c] = "no"
    /\ (run[c] # NoPid /\ ~Preemptible) => pc[run[c]] \in Yields
    /\ n # run[c] /\ n \in Runnable
    /\ at' = [at EXCEPT ![c] = "next"]
    /\ nxt' = [nxt EXCEPT ![c] = n]
    /\ \E o \in Obj \cup {NoObj} :
        /\ Found(run[c], o)
        /\ prevState' = [prevState EXCEPT ![c] = o]
    /\ UNCHANGED <<heap, cores, nextState, procs, fault>>

\* find_lbr_state(next_pid).
SwitchFind(c) ==
    /\ fault = "none" /\ at[c] = "next"
    /\ \E o \in Obj \cup {NoObj} :
        /\ Found(nxt[c], o)
        /\ nextState' = [nextState EXCEPT ![c] = o]
    /\ at' = [at EXCEPT ![c] = IF prevState[c] # NoObj THEN "get" ELSE "put"]
    /\ UNCHANGED <<heap, cores, nxt, prevState, procs, fault>>

\* get_lbr(prev_state).
SwitchGetKeepsOn(c) ==
    /\ fault = "none" /\ at[c] = "get" /\ Usable(prevState[c])
    /\ SaveRegisters(c, prevState[c])
    /\ at' = [at EXCEPT ![c] = "put"]
    /\ UNCHANGED <<cores, nxt, prevState, nextState, procs, fault>>
SwitchGet(c) ==
    /\ fault = "none" /\ at[c] = "get" /\ Usable(prevState[c])
    /\ lbrOn' = [lbrOn EXCEPT ![c] = FALSE]
    /\ SaveRegisters(c, prevState[c])
    /\ at' = [at EXCEPT ![c] = "put"]
    /\ UNCHANGED <<run, hwSelect, stack, nxt, prevState, nextState, procs, fault>>

\* put_lbr(o) with interrupts off.
SwitchInDark(c, o) == LoadRegisters(c, o) /\ UNCHANGED lbrOn
SwitchIn(c, o) ==
    /\ LoadRegisters(c, o)
    /\ lbrOn' = [lbrOn EXCEPT ![c] = TRUE]

\* put_lbr(next_state), if there is one, and the switch itself.
SwitchPut(c) ==
    /\ fault = "none" /\ at[c] = "put"
    /\ \/ /\ nextState[c] = NoObj
          /\ UNCHANGED <<lbrOn, hwSelect, stack>>
       \/ /\ nextState[c] # NoObj /\ Usable(nextState[c])
          /\ SwitchIn(c, nextState[c])
    /\ run' = [run EXCEPT ![c] = nxt[c]]
    /\ at' = [at EXCEPT ![c] = "no"]
    /\ nxt' = [nxt EXCEPT ![c] = NoPid]
    /\ prevState' = [prevState EXCEPT ![c] = NoObj]
    /\ nextState' = [nextState EXCEPT ![c] = NoObj]
    /\ UNCHANGED <<heap, procs, fault>>

----------------------------------------------------------------------------
(* The processor, and the end of a behaviour.                              *)

\* The current process of core c takes a branch while the LBR is on.
Branch(c) ==
    /\ fault = "none" /\ at[c] = "no" /\ lbrOn[c] /\ run[c] \in Watched
    /\ stack' = [stack EXCEPT ![c] = @ \cup {run[c]}]
    /\ UNCHANGED <<heap, run, lbrOn, hwSelect, swtch, procs, fault>>

\* The pointers that process p, or the handler of core c, is about to follow,
\* and those among them through which it reaches an entries block.
ProcDeref(p) ==
    IF pc[p] \in {"check", "get_regs", "set", "set_other", "put_regs", "copy",
                  "remove", "np_copy"}
    THEN {ptr[p]} ELSE {}
ProcDerefEntries(p) ==
    IF pc[p] \in {"get_regs", "put_regs", "copy", "remove"} THEN {ptr[p]} ELSE {}
SwitchDeref(c) ==
    (IF at[c] = "get" THEN {prevState[c]}
     ELSE IF at[c] = "put" THEN {nextState[c]} ELSE {}) \ {NoObj}

\* The next access of an executing process is to freed memory.
ProcFault(c, p) ==
    /\ Executes(c, p)
    /\ \/ /\ ~(ProcDeref(p) \subseteq live)
          /\ fault' = "state"
       \/ /\ ProcDeref(p) \subseteq live
          /\ \E o \in ProcDerefEntries(p) : entries[o] \notin liveEntries
          /\ fault' = "entries"
    /\ UNCHANGED <<heap, cores, swtch, procs>>

\* The same for the context-switch handler.
SwitchFault(c) ==
    /\ fault = "none"
    /\ \/ /\ ~(SwitchDeref(c) \subseteq live)
          /\ fault' = "state"
       \/ /\ SwitchDeref(c) \subseteq live
          /\ \E o \in SwitchDeref(c) : entries[o] \notin liveEntries
          /\ fault' = "entries"
    /\ UNCHANGED <<heap, cores, swtch, procs>>

----------------------------------------------------------------------------
\* A step of an operation of p that has begun.
KernelStep(c, p) ==
    \/ Alloc(c, p) \/ Insert(c, p) \/ Check(c, p) \/ GetOff(c, p)
    \/ GetRegs(c, p) \/ SetSelect(c, p) \/ PutRegs(c, p) \/ PutOn(c, p)
    \/ Copy(c, p) \/ Remove(c, p)
    \/ NewProcAlloc(c, p) \/ NewProcCopy(c, p) \/ NewProcInsert(c, p)

ProcStep(c, p) ==
    \/ \E cmd \in Cmds, t \in Targets[p], s \in ReqSelect : Ioctl(c, p, cmd, t, s)
    \/ KernelStep(c, p)
    \/ \E q \in Pid, kind \in CloneKinds : Clone(c, p, q, kind)
    \/ Exit(c, p)
    \/ ProcFault(c, p)

SwitchStep(c) == SwitchFind(c) \/ SwitchGet(c) \/ SwitchPut(c)

CoreStep(c) ==
    \/ \E n \in Tag : SwitchTo(c, n)
    \/ SwitchStep(c)
    \/ Branch(c)
    \/ SwitchFault(c)

Next == \/ \E c \in CPU, p \in Pid : ProcStep(c, p)
        \/ \E c \in CPU : CoreStep(c)

Spec == Init /\ [][Next]_vars

\* The scheduler's promises: a context switch that began ends, every runnable
\* process gets a core again and again, and a process in the kernel that does
\* makes progress.
Fairness ==
    /\ \A c \in CPU : WF_vars(SwitchStep(c))
    /\ \A p \in Pid : SF_vars(\E c \in CPU : KernelStep(c, p))
    /\ \A p \in Pid : SF_vars(\E c \in CPU : SwitchTo(c, p))

FairSpec == Spec /\ Fairness

----------------------------------------------------------------------------
(* Properties.                                                             *)

Traced(p) == Matches(p) # {}

\* Core c executes user code, or idles: no handler is running on it.
Settled(c) ==
    at[c] = "no" /\ (run[c] = NoPid \/ pc[run[c]] \in {"user", "none"})

\* No handler follows a pointer to a freed lbr_state or to a freed entries
\* block: the pointer find_lbr_state returns stays good after the lock is
\* released, and no two states own one block (lbr.c: find_lbr_state,
\* remove_lbr_state, lbr_newproc_handler).
NoUseAfterFree == fault = "none"

\* The part of it that concerns the lbr_state records alone.
NoStateUseAfterFree == fault # "state"

\* A pid has at most one state on the list, whatever overlaps with the enable
\* that looked the pid up and then slept in kmalloc (lbr.c: enable_lbr).
OneStatePerPid ==
    \A o1, o2 \in listed : statePid[o1] = statePid[o2] => o1 = o2

\* The list links no freed memory: find_lbr_state never walks into it
\* (lbr.c: remove_lbr_state).
ListWellFormed == listed \subseteq live

\* While a core runs user code, or idles, its LBR is on exactly if the current
\* process is traced, and then with the filter of that process' state
\* (lbr.c: lbr_cswitch_handler and the four operations).
TraceExact ==
    \A c \in CPU : Settled(c) =>
        /\ lbrOn[c] <=> Traced(run[c])
        /\ \A o \in Matches(run[c]) : hwSelect[c] = lbrSelect[o]

\* One half of it: a core runs with its LBR on only for a traced process.
UntracedIsDark ==
    \A c \in CPU : (Settled(c) /\ lbrOn[c]) => Traced(run[c])

\* The other half: a traced process never runs user code with its LBR off.
TracedIsRecorded ==
    \A c \in CPU : (Settled(c) /\ Traced(run[c])) => lbrOn[c]

\* A state holds only branches of its own process, and so does the stack of a
\* core whose LBR is on: nobody is shown another process' control flow
\* (lbr.c: get_lbr, put_lbr, create_lbr_state).
TraceIsolation ==
    /\ \A o \in listed : saved[entries[o]] \subseteq {statePid[o]}
    /\ \A c \in CPU : (lbrOn[c] /\ at[c] = "no") => stack[c] \subseteq {run[c]}

\* The filter of a state on the list stays the one its enable, or its last
\* config, asked for (lbr.c: enable_lbr and config_lbr store it, get_lbr writes
\* over it what the core holds).
FilterKept ==
    [][\A o \in listed \cap listed' :
         lbrSelect'[o] # lbrSelect[o] =>
            \E p \in Pid : pc[p] \in {"set", "set_other"} /\ ptr[p] = o]_vars

\* Every operation, and the handler of a new process, ends: no step of it waits
\* for something nobody does (lbr.c: lbr_ioctl_handler, lbr_newproc_handler).
OperationsReturn ==
    \A p \in Pid : pc[p] \in IoctlPC \cup NewProcPC ~> pc[p] = "user"

\* A traced process is recorded from some time on, or is traced no more: an
\* enable that did not start the LBR itself leaves it to the context-switch
\* handler (lbr.c: enable_lbr, lbr_cswitch_handler).
TracingStarts ==
    \A t \in Pid :
        Traced(t) ~> (~Traced(t) \/ \E c \in CPU : run[c] = t /\ lbrOn[c])

=============================================================================
