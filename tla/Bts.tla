-------------------------------- MODULE Bts --------------------------------
(***************************************************************************)
(* The BTS half of the kernel component (kernel/commons/bts.c).  Where the *)
(* LBR keeps its records in registers, the processor stores BTS records in *)
(* memory by itself: through the DS_AREA register of its core it reaches a *)
(* debug store area, and through its index the buffer.  What matters is    *)
(* that these two pointers are good whenever branches are recorded.        *)
(*                                                                         *)
(* Grain of atomicity: as in Lbr.  get_bts and put_bts hold the lock, with *)
(* interrupts off, for all that they do, so each is a step.                *)
(*                                                                         *)
(* A behaviour ends at the first access through a bad pointer (fault).     *)
(***************************************************************************)
EXTENDS Naturals, FiniteSets

CONSTANTS
    CPU,          \* the cores
    Pid,          \* process ids, without 0
    NoPid,        \* pid 0: the idle task, and "myself" in an enable request
    Obj,          \* the bts_state allocations, each with its debug store area
    Buf,          \* the buffer allocations
    Null,         \* the null pointer
    Wild,         \* what an uninitialised pointer field holds
    Targets,      \* Targets[p]: the pids that requests of process p name
    Cmds,         \* the ioctl commands in use
    EnableCodes,  \* the bts_config values of enable requests (0 means default)
    ConfigCodes,  \* those of config requests
    ReqSizes,     \* the buffer sizes in requests (0: default, or unchanged)
    Born,         \* the processes that exist when the module is loaded
    CloneKinds,   \* what a process may create: "process", "thread"
    BufferFails,  \* may the allocation of a buffer fail?
    Preemptible   \* is kernel code preempted outside spinlocks?

\* Values of bts_config, told apart by the bits of DEBUGCTL they stand for.
DEFAULT_BTS_CONFIG == 1
Codes == {0, DEFAULT_BTS_CONFIG, 2}
BitsOf(code) ==
    CASE code = 0 -> {}
      [] code = DEFAULT_BTS_CONFIG -> {"TR_BTS", "OFF_OS"}
      [] code = 2 -> {"TR_BTS"}

DEFAULT_BTS_BUFFER_SIZE == 1
Sizes == ReqSizes \cup {0, DEFAULT_BTS_BUFFER_SIZE}

ASSUME BtsAssumption ==
    /\ NoPid \notin Pid
    /\ Null \notin Obj \cup Buf /\ Wild \notin Buf /\ Null # Wild
    /\ Targets \in [Pid -> SUBSET (Pid \cup {NoPid})]
    /\ Cmds \subseteq {"enable", "disable", "dump", "config"}
    /\ EnableCodes \subseteq Codes /\ ConfigCodes \subseteq Codes
    /\ ReqSizes \subseteq Nat
    /\ Born \subseteq Pid
    /\ CloneKinds \subseteq {"process", "thread"}
    /\ BufferFails \in BOOLEAN /\ Preemptible \in BOOLEAN

VARIABLES
    \* heap
    live,         \* bts_state records, with their debug store areas, not freed
    liveBuf,      \* buffers allocated and not freed
    listed,       \* bts_state records on bts_state_head
    statePid,     \* config.pid of each record
    code,         \* its config.bts_config
    size,         \* its config.bts_buffer_size
    base,         \* its ds_area->bts_buffer_base
    index,        \* the buffer that ds_area->bts_index points into
    \* cores
    run,          \* core -> its current process
    hwBits,       \* core -> the BTS bits of DEBUGCTL
    dsArea,       \* core -> the record whose debug store area DS_AREA points to
    \* bts_cswitch_handler of each core
    at, nxt, prevState, nextState,
    \* processes
    pc, req, ptr,
    child,        \* bts_newproc_handler's local child_state
    real_parent,  \* the process a new process' state is inherited from
    fault         \* the first access through a bad pointer, by kind

heap  == <<live, liveBuf, listed, statePid, code, size, base, index>>
cores == <<run, hwBits, dsArea>>
swtch == <<at, nxt, prevState, nextState>>
procs == <<pc, req, ptr, child, real_parent>>
vars  == <<heap, cores, swtch, procs, fault>>

----------------------------------------------------------------------------
Tag   == Pid \cup {NoPid}
NoReq == [cmd |-> "none", pid |-> NoPid, code |-> 0, size |-> 0]

\* Points of the operations, in the order of the code.
IoctlPC == {"alloc", "insert", "set_bits", "check", "get", "free", "install",
            "put", "copy", "remove"}
NewProcPC == {"np_create", "np_insert"}

ReqSet == [cmd : {"none", "enable", "disable", "dump", "config", "newproc"},
           pid : Tag, code : Codes, size : Sizes]

HeapTypeOK ==
    /\ live \subseteq Obj /\ liveBuf \subseteq Buf /\ listed \subseteq Obj
    /\ statePid \in [Obj -> Tag] /\ code \in [Obj -> Codes] /\ size \in [Obj -> Sizes]
    /\ base \in [Obj -> Buf \cup {Null, Wild}] /\ index \in [Obj -> Buf \cup {Null, Wild}]
CoresTypeOK ==
    /\ run \in [CPU -> Tag] /\ dsArea \in [CPU -> Obj \cup {Null}]
    /\ hwBits \in [CPU -> SUBSET {"TR_BTS", "OFF_OS"}]
SwitchTypeOK ==
    /\ at \in [CPU -> {"no", "next", "get", "put"}] /\ nxt \in [CPU -> Tag]
    /\ prevState \in [CPU -> Obj \cup {Null}] /\ nextState \in [CPU -> Obj \cup {Null}]
ProcsTypeOK ==
    /\ pc \in [Pid -> {"none", "new", "user"} \cup IoctlPC \cup NewProcPC]
    /\ req \in [Pid -> ReqSet]
    /\ ptr \in [Pid -> Obj \cup {Null}] /\ child \in [Pid -> Obj \cup {Null}]
    /\ real_parent \in [Pid -> Tag]

\* The type invariant.
TypeOK ==
    /\ HeapTypeOK /\ CoresTypeOK /\ SwitchTypeOK /\ ProcsTypeOK
    /\ fault \in {"none", "freed", "parent", "stray", "uninitialised"}

\* After bts_init: empty list, every core flushed and running its idle task.
Init ==
    /\ live = {} /\ liveBuf = {} /\ listed = {}
    /\ statePid = [o \in Obj |-> NoPid]
    /\ code = [o \in Obj |-> 0]
    /\ size = [o \in Obj |-> 0]
    /\ base = [o \in Obj |-> Wild]
    /\ index = [o \in Obj |-> Wild]
    /\ run = [c \in CPU |-> NoPid]
    /\ hwBits = [c \in CPU |-> {}]
    /\ dsArea = [c \in CPU |-> Null]
    /\ at = [c \in CPU |-> "no"]
    /\ nxt = [c \in CPU |-> NoPid]
    /\ prevState = [c \in CPU |-> Null]
    /\ nextState = [c \in CPU |-> Null]
    /\ pc = [p \in Pid |-> IF p \in Born THEN "user" ELSE "none"]
    /\ req = [p \in Pid |-> NoReq]
    /\ ptr = [p \in Pid |-> Null]
    /\ child = [p \in Pid |-> Null]
    /\ real_parent = [p \in Pid |-> NoPid]
    /\ fault = "none"

----------------------------------------------------------------------------
(* Helpers.  Faulty variants precede some of them, as in Lbr.              *)

Matches(t) == {o \in listed : statePid[o] = t}

\* find_bts_state(t) may return o.
Found(t, o) == IF Matches(t) = {} THEN o = Null ELSE o \in Matches(t)

Executes(c, p) == fault = "none" /\ run[c] = p /\ at[c] = "no"
OnCore(p) == \E c \in CPU : run[c] = p \/ (at[c] # "no" /\ nxt[c] = p)

Goto(p, label) == pc' = [pc EXCEPT ![p] = label]
Step(p, label) == Goto(p, label) /\ UNCHANGED <<req, ptr, child, real_parent>>
Return(p) ==
    /\ Goto(p, "user")
    /\ req' = [req EXCEPT ![p] = NoReq]
    /\ ptr' = [ptr EXCEPT ![p] = Null]
    /\ UNCHANGED <<child, real_parent>>

\* The pointer x, to a buffer, can be followed.
Good(x) == x \in liveBuf

\* xfree may take it: an uninitialised pointer may happen to be null.
Freeable(x) == Good(x) \/ x \in {Null, Wild}

\* What comes of following it.
Followed(x) ==
    CASE x \in liveBuf -> "none"
      [] x = Null -> "stray"
      [] x = Wild -> "uninitialised"
      [] x \in Buf \ liveBuf -> "freed"

\* The critical section of get_bts: the bits of the state, and those alone, are
\* cleared on core c, and DS_AREA is reset.
StopKeepsBits(c, o) == UNCHANGED hwBits /\ dsArea' = [dsArea EXCEPT ![c] = Null]
Stop(c, o) ==
    /\ hwBits' = [hwBits EXCEPT ![c] = @ \ BitsOf(code[o])]
    /\ dsArea' = [dsArea EXCEPT ![c] = Null]

\* The critical section of put_bts: the bits of the state are added.
Start(c, o) ==
    /\ dsArea' = [dsArea EXCEPT ![c] = o]
    /\ hwBits' = [hwBits EXCEPT ![c] = @ \cup BitsOf(code[o])]

Accepts(cmd, o) == (cmd = "enable") <=> (o = Null)

\* Does the operation of p concern the registers of this core?  (config_bts
\* compares the pid of the request, the others that of the state.)
NeverOwn(p) == FALSE
IsOwn(p) == (IF req[p].cmd = "config" THEN req[p].pid ELSE statePid[ptr[p]]) = p

\* An enable without bits or size gets the defaults; a config without bits
\* gets none.
EnableCode(x) == IF x # 0 THEN x ELSE DEFAULT_BTS_CONFIG
ConfigCodeDefault(x) == IF x # 0 THEN DEFAULT_BTS_CONFIG ELSE 0
ConfigCode(x) == x
EnableSizeAdds(x) == x + DEFAULT_BTS_BUFFER_SIZE
EnableSize(x) == IF x # 0 THEN x ELSE DEFAULT_BTS_BUFFER_SIZE

\* config_bts replaces the buffer for a request of another size than the present.
Resizes(p) == req[p].size \notin {0, size[ptr[p]]}

\* remove_bts_state's xlist_del.
UnlinkNothing(o) == listed
Unlink(o) == listed \ {o}

\* The buffer that goes with a state.
NoBuffer(o) == {}
BufferOf(o) == {base[o]}

----------------------------------------------------------------------------
(* The ioctl operations.                                                   *)

Ioctl(c, p, cmd, t, k, s) ==
    /\ Executes(c, p) /\ pc[p] = "user"
    /\ \E o \in Obj \cup {Null} :
        /\ Found(t, o)
        /\ \/ ~Accepts(cmd, o) /\ UNCHANGED procs
           \/ /\ Accepts(cmd, o)
              /\ Goto(p, CASE cmd = "enable" -> "alloc" [] cmd = "config" -> "set_bits"
                           [] cmd = "dump" -> "copy" [] OTHER -> "check")
              /\ req' = [req EXCEPT ![p] = [cmd |-> cmd, pid |-> t, code |-> k, size |-> s]]
              /\ ptr' = [ptr EXCEPT ![p] = o]
              /\ UNCHANGED <<child, real_parent>>
    /\ UNCHANGED <<heap, cores, swtch, fault>>

\* xmalloc of a buffer: b is the result.
NewBuffer(b) ==
    \/ b \in Buf \ liveBuf /\ liveBuf' = liveBuf \cup {b}
    \/ BufferFails /\ b = Null /\ UNCHANGED liveBuf

\* enable_bts: create_bts_state, whose failure is handled, and the set-up of
\* the new state, in which the buffer's is not.
Alloc(c, p) ==
    LET s == EnableSize(req[p].size) IN
    /\ Executes(c, p) /\ pc[p] = "alloc"
    /\ \/ Return(p) /\ UNCHANGED heap
       \/ \E o \in Obj \ live, b \in Buf \cup {Null} :
          /\ live' = live \cup {o}
          /\ NewBuffer(b)
          /\ statePid' = [statePid EXCEPT ![o] =
                            IF req[p].pid # NoPid THEN req[p].pid ELSE p]
          /\ code' = [code EXCEPT ![o] = EnableCode(req[p].code)]
          /\ size' = [size EXCEPT ![o] = s]
          /\ base' = [base EXCEPT ![o] = b]
          /\ index' = [index EXCEPT ![o] = b]
          /\ ptr' = [ptr EXCEPT ![p] = o]
          /\ Goto(p, "insert")
          /\ UNCHANGED <<listed, req, child, real_parent>>
    /\ UNCHANGED <<cores, swtch, fault>>

Insert(c, p) ==
    /\ Executes(c, p) /\ pc[p] = "insert"
    /\ listed' = listed \cup {ptr[p]}
    /\ Step(p, "check")
    /\ UNCHANGED <<live, liveBuf, statePid, code, size, base, index>>
    /\ UNCHANGED <<cores, swtch, fault>>

\* config_bts stores the new bits first, before anything is stopped.
SetBits(c, p) ==
    /\ Executes(c, p) /\ pc[p] = "set_bits" /\ ptr[p] \in live
    /\ code' = [code EXCEPT ![ptr[p]] = ConfigCode(req[p].code)]
    /\ Step(p, "check")
    /\ UNCHANGED <<live, liveBuf, listed, statePid, size, base, index>>
    /\ UNCHANGED <<cores, swtch, fault>>

\* Is the target the caller?
Check(c, p) ==
    /\ Executes(c, p) /\ pc[p] = "check" /\ ptr[p] \in live
    /\ \/ IsOwn(p) /\ Step(p, IF req[p].cmd = "enable" THEN "put" ELSE "get")
       \/ ~IsOwn(p) /\ req[p].cmd = "disable" /\ Step(p, "remove")
       \/ ~IsOwn(p) /\ req[p].cmd = "config" /\ Resizes(p) /\ Step(p, "free")
       \/ /\ ~IsOwn(p)
          /\ req[p].cmd = "enable" \/ (req[p].cmd = "config" /\ ~Resizes(p))
          /\ Return(p)
    /\ UNCHANGED <<heap, cores, swtch, fault>>

\* get_bts.
Get(c, p) ==
    /\ Executes(c, p) /\ pc[p] = "get" /\ ptr[p] \in live
    /\ Stop(c, ptr[p])
    /\ Step(p, IF req[p].cmd = "disable" THEN "remove"
               ELSE IF Resizes(p) THEN "free" ELSE "put")
    /\ UNCHANGED <<heap, run, swtch, fault>>

\* config_bts: the old buffer is given back ...
Free(c, p) ==
    LET o == ptr[p] IN
    /\ Executes(c, p) /\ pc[p] = "free" /\ o \in live
    /\ size' = [size EXCEPT ![o] = req[p].size]
    /\ Freeable(base[o])
    /\ liveBuf' = liveBuf \ {base[o]}
    /\ Step(p, "install")
    /\ UNCHANGED <<live, listed, statePid, code, base, index>>
    /\ UNCHANGED <<cores, swtch, fault>>

\* ... before a new one is allocated and entered in the debug store area; for
\* another process than the caller the index becomes 0.
Install(c, p) ==
    LET o == ptr[p] IN
    /\ Executes(c, p) /\ pc[p] = "install" /\ o \in live
    /\ \E b \in Buf \cup {Null} :
        /\ NewBuffer(b)
        /\ base' = [base EXCEPT ![o] = b]
        /\ index' = [index EXCEPT ![o] = IF IsOwn(p) THEN b ELSE Null]
    /\ IF IsOwn(p) THEN Step(p, "put") ELSE Return(p)
    /\ UNCHANGED <<live, listed, statePid, code, size>>
    /\ UNCHANGED <<cores, swtch, fault>>

\* put_bts.
Put(c, p) ==
    /\ Executes(c, p) /\ pc[p] = "put" /\ ptr[p] \in live
    /\ Start(c, ptr[p])
    /\ Return(p)
    /\ UNCHANGED <<heap, run, swtch, fault>>

\* dump_bts: config.bts_buffer_size bytes are copied from the buffer.
Copy(c, p) ==
    LET o == ptr[p] IN
    /\ Executes(c, p) /\ pc[p] = "copy" /\ o \in live
    /\ Good(base[o])
    /\ Return(p)
    /\ UNCHANGED <<heap, cores, swtch, fault>>

\* remove_bts_state.  A freed slot is reset, so that equal heaps are equal states.
Remove(c, p) ==
    LET o == ptr[p] IN
    /\ Executes(c, p) /\ pc[p] = "remove" /\ o \in live
    /\ Freeable(base[o])
    /\ listed' = Unlink(o)
    /\ live' = live \ {o}
    /\ liveBuf' = liveBuf \ BufferOf(o)
    /\ statePid' = [statePid EXCEPT ![o] = NoPid]
    /\ code' = [code EXCEPT ![o] = 0]
    /\ size' = [size EXCEPT ![o] = 0]
    /\ base' = [base EXCEPT ![o] = Wild]
    /\ index' = [index EXCEPT ![o] = Wild]
    /\ Return(p)
    /\ UNCHANGED <<cores, swtch, fault>>

----------------------------------------------------------------------------
(* bts_newproc_handler, called in the process p that creates q.  As in Lbr *)
(* the tracepoint passes on real_parent: for a process its creator, for a  *)
(* thread the creator's real_parent, which may run on another core.        *)

Parent(p, kind) == IF kind = "process" THEN p ELSE real_parent[p]

Clone(c, p, q, kind) ==
    /\ Executes(c, p) /\ pc[p] = "user" /\ pc[q] = "none"
    /\ real_parent' = [real_parent EXCEPT ![q] = Parent(p, kind)]
    /\ \E o \in Obj \cup {Null} :
        /\ Found(Parent(p, kind), o)
        /\ \/ o = Null /\ Goto(q, "user") /\ UNCHANGED <<req, ptr>>
           \/ /\ o # Null
              /\ pc' = [pc EXCEPT ![p] = "np_create", ![q] = "new"]
              /\ req' = [req EXCEPT ![p] =
                            [cmd |-> "newproc", pid |-> q, code |-> 0, size |-> 0]]
              /\ ptr' = [ptr EXCEPT ![p] = o]
    /\ UNCHANGED <<heap, cores, swtch, child, fault>>

NewProcReturn(p) ==
    /\ pc' = [pc EXCEPT ![p] = "user", ![req[p].pid] = "user"]
    /\ req' = [req EXCEPT ![p] = NoReq]
    /\ ptr' = [ptr EXCEPT ![p] = Null]
    /\ child' = [child EXCEPT ![p] = Null]
    /\ UNCHANGED real_parent

\* The child gets the configuration that the parent's state has by now, read
\* without the lock, and a debug store area in which nothing is set.
NewProcCreate(c, p) ==
    LET parent == ptr[p] IN
    /\ Executes(c, p) /\ pc[p] = "np_create"
    /\ \/ NewProcReturn(p) /\ UNCHANGED heap
       \/ \E o \in Obj \ live :
          /\ parent \in live
          /\ live' = live \cup {o}
          /\ statePid' = [statePid EXCEPT ![o] = req[p].pid]
          /\ code' = [code EXCEPT ![o] = code[parent]]
          /\ size' = [size EXCEPT ![o] = size[parent]]
          /\ base' = [base EXCEPT ![o] = Wild]
          /\ index' = [index EXCEPT ![o] = Wild]
          /\ child' = [child EXCEPT ![p] = o]
          /\ Goto(p, "np_insert")
          /\ UNCHANGED <<liveBuf, listed, req, ptr, real_parent>>
    /\ UNCHANGED <<cores, swtch, fault>>

NewProcInsert(c, p) ==
    /\ Executes(c, p) /\ pc[p] = "np_insert"
    /\ listed' = listed \cup {child[p]}
    /\ NewProcReturn(p)
    /\ UNCHANGED <<live, liveBuf, statePid, code, size, base, index>>
    /\ UNCHANGED <<cores, swtch, fault>>

----------------------------------------------------------------------------
(* bts_cswitch_handler.                                                    *)

\* Where a kernel without preemption gives up the core: in user mode and in
\* kmalloc, which may sleep.
Yields == {"user", "alloc", "install"}

Runnable == {NoPid} \cup {q \in Pid : pc[q] \notin {"none", "new"} /\ ~OnCore(q)}

SwitchTo(c, n) ==
    /\ fault = "none" /\ at[c] = "no"
    /\ (run[c] # NoPid /\ ~Preemptible) => pc[run[c]] \in Yields
    /\ n # run[c] /\ n \in Runnable
    /\ at' = [at EXCEPT ![c] = "next"]
    /\ nxt' = [nxt EXCEPT ![c] = n]
    /\ \E o \in Obj \cup {Null} :
        Found(run[c], o) /\ prevState' = [prevState EXCEPT ![c] = o]
    /\ UNCHANGED <<heap, cores, nextState, procs, fault>>

SwitchFind(c) ==
    /\ fault = "none" /\ at[c] = "next"
    /\ \E o \in Obj \cup {Null} :
        Found(nxt[c], o) /\ nextState' = [nextState EXCEPT ![c] = o]
    /\ at' = [at EXCEPT ![c] = IF prevState[c] # Null THEN "get" ELSE "put"]
    /\ UNCHANGED <<heap, cores, nxt, prevState, procs, fault>>

SwitchGet(c) ==
    /\ fault = "none" /\ at[c] = "get" /\ prevState[c] \in live
    /\ Stop(c, prevState[c])
    /\ at' = [at EXCEPT ![c] = "put"]
    /\ UNCHANGED <<heap, run, nxt, prevState, nextState, procs, fault>>

SwitchPut(c) ==
    /\ fault = "none" /\ at[c] = "put"
    /\ \/ nextState[c] = Null /\ UNCHANGED <<hwBits, dsArea>>
       \/ nextState[c] \in live /\ Start(c, nextState[c])
    /\ run' = [run EXCEPT ![c] = nxt[c]]
    /\ at' = [at EXCEPT ![c] = "no"]
    /\ nxt' = [nxt EXCEPT ![c] = NoPid]
    /\ prevState' = [prevState EXCEPT ![c] = Null]
    /\ nextState' = [nextState EXCEPT ![c] = Null]
    /\ UNCHANGED <<heap, procs, fault>>

----------------------------------------------------------------------------
(* The processor, and the end of a behaviour.                              *)

InUser(c) == at[c] = "no" /\ run[c] # NoPid /\ pc[run[c]] = "user"
Recording(c) == "TR_BTS" \in hwBits[c] /\ (InUser(c) \/ "OFF_OS" \notin hwBits[c])

\* The memory that core c stores a branch record in, reached through DS_AREA,
\* is what fault says.
Stored(c) ==
    CASE dsArea[c] = Null -> "stray"
      [] dsArea[c] \in Obj \ live -> "freed"
      [] dsArea[c] \in live -> Followed(index[dsArea[c]])

\* Core c takes a branch.
Record(c) ==
    /\ fault = "none" /\ Recording(c)
    /\ fault' = Stored(c)
    /\ UNCHANGED <<heap, cores, swtch, procs>>

\* The states that process p, or the handler of core c, is about to follow a
\* pointer to.
ProcDeref(p) ==
    IF pc[p] \in {"set_bits", "check", "get", "free", "install", "put", "copy",
                  "remove", "np_create"}
    THEN {ptr[p]} ELSE {}
SwitchDeref(c) ==
    (IF at[c] = "get" THEN {prevState[c]}
     ELSE IF at[c] = "put" THEN {nextState[c]} ELSE {}) \ {Null}

\* A pointer to a freed state, or a bad pointer to a buffer, is followed.  That
\* bts_newproc_handler reads a freed parent's configuration is told apart.
ProcFault(c, p) ==
    /\ Executes(c, p)
    /\ \/ /\ ~(ProcDeref(p) \subseteq live)
          /\ fault' = IF pc[p] = "np_create" THEN "parent" ELSE "freed"
       \/ /\ ptr[p] \in live
          /\ \/ pc[p] \in {"free", "remove"} /\ base[ptr[p]] # Null
             \/ pc[p] = "copy"
          /\ ~Good(base[ptr[p]])
          /\ fault' = Followed(base[ptr[p]])
    /\ UNCHANGED <<heap, cores, swtch, procs>>

SwitchFault(c) ==
    /\ fault = "none" /\ ~(SwitchDeref(c) \subseteq live)
    /\ fault' = "freed"
    /\ UNCHANGED <<heap, cores, swtch, procs>>

----------------------------------------------------------------------------
ReqCodes(cmd) == CASE cmd = "enable" -> EnableCodes [] cmd = "config" -> ConfigCodes
                   [] OTHER -> {0}
SizesOf(cmd) == IF cmd \in {"enable", "config"} THEN ReqSizes ELSE {0}

ProcStep(c, p) ==
    \/ \E cmd \in Cmds, t \in Targets[p] :
          \E k \in ReqCodes(cmd), s \in SizesOf(cmd) : Ioctl(c, p, cmd, t, k, s)
    \/ Alloc(c, p) \/ Insert(c, p) \/ SetBits(c, p) \/ Check(c, p) \/ Get(c, p)
    \/ Free(c, p) \/ Install(c, p) \/ Put(c, p) \/ Copy(c, p) \/ Remove(c, p)
    \/ \E q \in Pid, kind \in CloneKinds : Clone(c, p, q, kind)
    \/ NewProcCreate(c, p) \/ NewProcInsert(c, p)
    \/ ProcFault(c, p)

CoreStep(c) ==
    \/ \E n \in Tag : SwitchTo(c, n)
    \/ SwitchFind(c) \/ SwitchGet(c) \/ SwitchPut(c)
    \/ Record(c) \/ SwitchFault(c)

Next == \/ \E c \in CPU, p \in Pid : ProcStep(c, p)
        \/ \E c \in CPU : CoreStep(c)

Spec == Init /\ [][Next]_vars

----------------------------------------------------------------------------
(* Properties.                                                             *)

Traced(p) == Matches(p) # {}

\* The processor stores records, and get_bts, put_bts, config_bts, dump_bts and
\* remove_bts_state reach states and buffers, only through pointers to allocated
\* memory, whatever is enabled, disabled, resized and inherited meanwhile.  Not
\* excluded: bts_newproc_handler reads the configuration of a thread's real
\* parent without the lock, and that state may be freed by then ("parent").
RecordsInBuffers == fault \notin {"freed", "stray"}

\* The parent's state is there when bts_newproc_handler copies from it.
ParentIsThere == fault # "parent"

\* A core that stores records has a buffer to store them in (bts.c: enable_bts,
\* config_bts).
NoNullUse == fault # "stray"

\* Nothing is reached through a field of a debug store area that was never set
\* (bts.c: create_bts_state, bts_newproc_handler).
NoUninitialisedUse == fault # "uninitialised"

\* In user mode a core has the bits of the current process' state and no others,
\* and DS_AREA points to its debug store area, or is null if it has no state
\* (bts.c: bts_cswitch_handler, config_bts).
BitsExact ==
    \A c \in CPU : InUser(c) =>
        /\ ~Traced(run[c]) => hwBits[c] = {} /\ dsArea[c] = Null
        /\ \A o \in Matches(run[c]) : hwBits[c] = BitsOf(code[o]) /\ dsArea[c] = o

\* Every buffer that is allocated belongs to one state, which will free it; none
\* is lost or freed twice when a state is removed or gets another size.  A state
\* between xfree and xmalloc of config_bts has none (bts.c: remove_bts_state,
\* config_bts).
Resizing == {ptr[p] : p \in {q \in Pid : pc[q] = "install"}}
BufferOwned ==
    \A b \in liveBuf : Cardinality({o \in live \ Resizing : base[o] = b}) = 1

\* A pid has at most one state on the list (bts.c: enable_bts, whose look-up and
\* insertion are sections of their own).
OneStatePerPid ==
    \A o1, o2 \in listed : statePid[o1] = statePid[o2] => o1 = o2
=============================================================================
