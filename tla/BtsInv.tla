------------------------------- MODULE BtsInv -------------------------------
(***************************************************************************)
(* Why no handler of bts.c, and no core, stores or reads through a bad     *)
(* pointer when every process traces itself: the inductive invariants      *)
(* behind the proofs.                                                      *)
(***************************************************************************)
EXTENDS Bts

\* Every request names its sender, by its pid or as 0.
SelfTracing == \A p \in Pid : Targets[p] \subseteq {p, NoPid}

\* No request is for pid 0.
NoZero == \A p \in Pid : Targets[p] \subseteq {p}

\* A created process inherits from the process that creates it, never, as a
\* thread does, from one that may run elsewhere.
NoThreads == CloneKinds \subseteq {"process"}

\* Nobody inherits.
NoCreation == CloneKinds = {}

\* Requests ask for the default bits, or name none.
DefaultBits ==
    EnableCodes \subseteq {0, DEFAULT_BTS_CONFIG} /\ ConfigCodes \subseteq {DEFAULT_BTS_CONFIG}

\* A process about to link a new state has one.
PrivateDefined ==
    \A p \in Pid : /\ pc[p] = "insert" => ptr[p] # Null
                   /\ pc[p] = "np_insert" => child[p] # Null

\* The type invariant and what it needs to be inductive.
InvType == TypeOK /\ PrivateDefined

----------------------------------------------------------------------------
(* Pointers to states.                                                     *)

\* Points at which ptr is a pointer to a state on the list; in
\* bts_newproc_handler only if the state is that of the process that runs it.
HoldingPC == {"set_bits", "check", "get", "free", "install", "put", "copy", "remove"}
             \cup (IF NoThreads THEN NewProcPC ELSE {})

\* The state a process created and has not put on the list yet.
Private(p) ==
    IF pc[p] = "insert" THEN {ptr[p]} ELSE IF pc[p] = "np_insert" THEN {child[p]} ELSE {}

ListWellFormed == listed \subseteq live /\ \A o \in live : statePid[o] \in Pid

\* A process holds pointers to listed states of its own pid only.
HeldPointers ==
    \A p \in Pid : pc[p] \in HoldingPC => ptr[p] \in listed /\ statePid[ptr[p]] = p

\* A state that is not on the list yet is known to its creator alone.
PrivatePointers ==
    /\ \A p \in Pid : Private(p) \subseteq live \ listed
    /\ \A p1, p2 \in Pid : p1 # p2 => Private(p1) \cap Private(p2) = {}

\* The context-switch handler of a core holds pointers to listed states of the
\* two processes it switches between, if they have any.
HandlerPointers ==
    \A c \in CPU :
        /\ at[c] \in {"next", "get"} =>
              Found(run[c], prevState[c]) /\ (at[c] = "get" => prevState[c] # Null)
        /\ at[c] \in {"get", "put"} => Found(nxt[c], nextState[c])

\* A process runs on one core at most, and no second core switches to it.
OnePlace ==
    /\ \A c1, c2 \in CPU : c1 # c2 =>
        /\ run[c1] \in Pid => run[c1] # run[c2]
        /\ (at[c1] # "no" /\ nxt[c1] \in Pid) =>
              /\ nxt[c1] # run[c2]
              /\ at[c2] # "no" => nxt[c1] # nxt[c2]
    /\ \A q \in Pid : pc[q] \in {"none", "new"} => ~OnCore(q)

\* At each point of an operation the request is one that leads there, and it
\* is for the caller; a new state has the pid that was asked for.
FitsRequest(p) ==
    /\ pc[p] \in {"none", "new", "user"} => req[p] = NoReq
    /\ pc[p] \in {"alloc", "insert"} => req[p].cmd = "enable" /\ req[p].pid \in {p, NoPid}
    /\ pc[p] = "insert" => statePid[ptr[p]] = p
    /\ pc[p] = "check" => req[p].cmd \in {"enable", "disable", "config"}
    /\ pc[p] = "get" => req[p].cmd \in {"disable", "config"}
    /\ pc[p] \in {"set_bits", "free", "install"} => req[p].cmd = "config"
    /\ pc[p] = "put" => req[p].cmd \in {"enable", "config"}
    /\ pc[p] = "copy" => req[p].cmd = "dump"
    /\ pc[p] = "remove" => req[p].cmd = "disable"
    /\ pc[p] \in NewProcPC => req[p].cmd = "newproc"
    /\ pc[p] = "np_insert" => statePid[child[p]] = req[p].pid
    /\ (pc[p] \in IoctlPC /\ req[p].cmd # "enable") => req[p].pid = p

RequestFits == \A p \in Pid : FitsRequest(p)

\* A process that is being created has one creator.
OneCreator ==
    /\ \A p \in Pid : pc[p] \in NewProcPC => req[p].pid \in Pid /\ pc[req[p].pid] = "new"
    /\ \A p1, p2 \in Pid :
          (p1 # p2 /\ pc[p1] \in NewProcPC /\ pc[p2] \in NewProcPC) =>
             req[p1].pid # req[p2].pid

\* Whoever is about to follow a pointer to a state follows it to one on the
\* list, and nobody else is about to free it, but for the handler of a new
\* thread (bts.c: find_bts_state, remove_bts_state, bts_cswitch_handler).
PointerDiscipline ==
    /\ ListWellFormed /\ HeldPointers /\ PrivatePointers /\ HandlerPointers /\ OnePlace
    /\ RequestFits /\ OneCreator

----------------------------------------------------------------------------
(* Pointers to buffers.                                                    *)

\* The states that have a buffer of their own, or none that was ever set.
Settled == live \ Resizing

BuffersOwned ==
    /\ \A o \in Settled : base[o] \in liveBuf \cup {Null, Wild} /\ index[o] = base[o]
    /\ \A o1, o2 \in Settled : (base[o1] \in Buf /\ base[o1] = base[o2]) => o1 = o2
    /\ \A b \in liveBuf : \E o \in Settled : base[o] = b
    /\ ~BufferFails => \A o \in Settled : base[o] # Null
    /\ NoCreation => \A o \in Settled : base[o] # Wild

CreatorsAllowed == NoCreation => \A p \in Pid : pc[p] \notin NewProcPC

Inv == InvType /\ PointerDiscipline /\ BuffersOwned /\ CreatorsAllowed

----------------------------------------------------------------------------
(* One state per process.                                                  *)

EnablingIsUntraced ==
    \A p \in Pid : pc[p] \in {"alloc", "insert"} => req[p].pid = p /\ ~Traced(p)

\* Nobody but its creator makes a state for a process that is being created.
InheritingIsNew == \A q \in Pid : pc[q] \in {"none", "new"} => ~Traced(q)

InvOneState == OneStatePerPid /\ EnablingIsUntraced /\ InheritingIsNew

\* A new state has the bits that the request asks for, or its parent's.
CodeChosen ==
    \A p \in Pid :
        /\ pc[p] = "insert" => code[ptr[p]] = EnableCode(req[p].code)
        /\ pc[p] = "np_insert" => code[child[p]] = code[ptr[p]]

InvTable == Inv /\ InvOneState /\ CodeChosen

----------------------------------------------------------------------------
(* What the cores record, and where.                                       *)

DefaultSet == BitsOf(DEFAULT_BTS_CONFIG)

\* All states have the default bits, and no request changes that.
DefaultCodes ==
    /\ \A o \in live : code[o] = DEFAULT_BTS_CONFIG
    /\ \A p \in Pid : pc[p] = "alloc" => req[p].code \in {0, DEFAULT_BTS_CONFIG}
    /\ \A p \in Pid : pc[p] = "set_bits" => req[p].code = DEFAULT_BTS_CONFIG

\* Without preemption a process that is in the kernel, and not in kmalloc, has
\* its core for itself.
KeepsCore ==
    \A p \in Pid : pc[p] \notin Yields \cup {"none", "new"} =>
        \E c \in CPU : run[c] = p /\ at[c] = "no"

OnFor(c, o) == hwBits[c] = DefaultSet /\ dsArea[c] = o
Dark(c)     == hwBits[c] = {} /\ dsArea[c] = Null

\* p's operation has stopped its core, or has not started it yet.
Stopped(p) ==
    \/ pc[p] \in {"free", "remove"}
    \/ NoZero /\ pc[p] = "check" /\ req[p].cmd = "enable"

\* It may have; the context-switch handler starts the core again for a process
\* that resizes its buffer and sleeps in kmalloc.  A process with two states,
\* by requests for pid 0, may also have lost the one that was recorded for.
MayBeStopped(p) == pc[p] \in {"install", "put"} \/ ~NoZero

CoreFor(c, p) ==
    IF at[c] = "put" \/ ~Traced(p) \/ Stopped(p) THEN Dark(c)
    ELSE (MayBeStopped(p) /\ Dark(c)) \/ \E o \in Matches(p) : OnFor(c, o)

CoresFollow == \A c \in CPU : CoreFor(c, run[c])

InvCores == DefaultCodes /\ KeepsCore /\ CoresFollow
=============================================================================
