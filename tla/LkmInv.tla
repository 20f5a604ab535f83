------------------------------- MODULE LkmInv -------------------------------
(***************************************************************************)
(* Why the two engines leave DEBUGCTL exact between them, and why nothing  *)
(* stays behind when the module goes: what the theorems take for granted   *)
(* about the users, and the inductive invariants behind the proofs.        *)
(***************************************************************************)
EXTENDS Lkm

\* What lbr_check and bts_check find on machine m.
Has(m, e) == IF e = "lbr" THEN Capacity(m.eax) # 0 ELSE m.ds /\ ~m.unavail

\* From the moment on that its list head is set up, and until rmmod.
Usable == [e \in Engine |->
    IF e = "lbr" THEN {"lbr_flush", "bts_init", "bts_flush", "in"} ELSE {"bts_flush", "in"}]

\* What the users see to, since the code does not: requests come after their
\* engine was initialised and are over when rmmod begins, and so are the
\* processes that are traced then; and nobody enables an engine that is missing.
Orderly ==
    /\ \A e \in Engine : Requests[e] \subseteq Usable[e]
    /\ AtRmmod = {}
EngineThere ==
    \A m \in Processors, b \in BOOLEAN :
        /\ 1 \in Cmds[<<m, b>>] => Has(m, "lbr")
        /\ 6 \in Cmds[<<m, b>>] => Has(m, "bts")

\* Requests wait until their engine's init is over, its flush included; on a
\* preemptible kernel nobody disables an engine.
Flushed == [e \in Engine |->
    IF e = "lbr" THEN {"bts_init", "bts_flush", "in"} ELSE {"in"}]
Patient == \A e \in Engine : Requests[e] \subseteq Flushed[e]
NoLateDisable == \A m \in Processors : Cmds[<<m, TRUE>>] \cap {2, 7} = {}

----------------------------------------------------------------------------
(* States and pointers to them.                                            *)

\* An on_each_cpu is in progress in the steps that wait for one only.
Flushing == {"lbr_flush", "bts_flush", "bts_exit", "lbr_exit"}
FlushPhase == unflushed # {} => loader \in Flushing
InvType == TypeOK /\ FlushPhase

\* No code of the module runs before the probe and the device are there, or
\* after proc_remove and the kernel have waited for what does.
Gone ==
    /\ proc_entry => loader \notin {"out", "rundown"}
    /\ probe <=> loader \notin {"out", "register", "remove", "rundown"}
    /\ loader = "out" => /\ \A p \in Pid : pc[p] = <<>>
                         /\ \A c \in CPU : at[c] = <<>>

\* The list heads that are initialised, phase by phase.
Uninitialised(e) ==
    {"out", "register", "lbr_init"} \cup (IF e = "bts" THEN {"lbr_flush", "bts_init"} ELSE {})
HeadsReady == ready = {e \in Engine : Has(processor, e) /\ loader \notin Uninitialised(e)}

\* What is there in each phase of loading and unloading.
Phases ==
    /\ table["bts"] # {} => loader \in Usable["bts"] \cup {"bts_exit", "bts_free"}
    /\ table["lbr"] # {} =>
          loader \in Usable["lbr"] \cup {"bts_exit", "bts_free", "lbr_exit", "lbr_free"}
    /\ \A p \in Pid : pc[p] # <<>> => loader \in Usable[Head(pc[p]).engine]
    /\ loader \in Unloading => \A p \in Pid : Traced(p) => p \in exited /\ ~OnCore(p)

\* A process runs on one core at most, and no second core switches to it.
OnePlace ==
    \A c1, c2 \in CPU : c1 # c2 =>
        /\ run[c1] \in Pid => run[c1] # run[c2]
        /\ (at[c1] # <<>> /\ next_task[c1] \in Pid) =>
              /\ next_task[c1] # run[c2]
              /\ at[c2] # <<>> => next_task[c1] # next_task[c2]

\* The next step of a process' operation, and the last.
NextOf(p) == Head(pc[p])
LastOf(p) == pc[p][Len(pc[p])]

\* An enable has no state of its process before it inserts one, in a list whose
\* head is initialised; every other step finds the one that was looked up.
StatesHeld ==
    \A p \in Pid : pc[p] # <<>> =>
        IF NextOf(p).step = "insert"
        THEN NextOf(p).engine \in ready /\ p \notin table[NextOf(p).engine]
        ELSE p \in table[NextOf(p).engine]

\* What the context-switch handler found is there when it uses it.
FoundRight(c) ==
    IF at[c] # <<>> /\ Head(at[c]).step = "switch"
    THEN \A w \in {"prev", "next"} :
            w \in found[c] <=> Party(c, w) \in table[Head(at[c]).engine]
    ELSE found[c] = {}
Findings == \A c \in CPU : FoundRight(c)

InvModule == InvType /\ Gone /\ HeadsReady
Inv == InvModule /\ Phases /\ OnePlace /\ StatesHeld /\ Findings /\ NoFault

----------------------------------------------------------------------------
(* The flush at unloading: what it took away does not come back.           *)

PastFlush(c, e) ==
    \/ loader \in {"lbr_free", "unregister", "remove", "rundown", "out"}
    \/ e = "bts" /\ loader \in {"bts_free", "lbr_exit"}
    \/ e = "bts" /\ loader = "bts_exit" /\ c \notin unflushed
    \/ e = "lbr" /\ loader = "lbr_exit" /\ c \notin unflushed
StaysFlushed ==
    \A c \in CPU, e \in Engine : PastFlush(c, e) =>
        e \notin debugctl[c] /\ (e = "bts" => ds_area[c] = NoPid)

----------------------------------------------------------------------------
(* The bits of the two engines.                                            *)

\* Until an engine's init is over nobody is traced by it, and no request is
\* served for it.
Untouched ==
    /\ \A p \in Pid : pc[p] # <<>> => loader \in Flushed[Head(pc[p]).engine]
    /\ \A e \in Engine : table[e] # {} => loader \in Flushed[e] \cup Unloading

DisablesUnpreempted == preempt => \A p \in Pid : pc[p] # <<>> => LastOf(p).step # "remove"

\* Without preemption a process that is in the kernel, and not in kmalloc, has
\* its core for itself.
KeepsCore ==
    ~preempt => \A p \in Pid : (pc[p] # <<>> /\ NextOf(p).step # "insert") =>
                   \E c \in CPU : run[c] = p /\ at[c] = <<>>

\* The copy of DEBUGCTL that get_lbr or put_lbr is about to write back has the
\* right BTS bits, on whatever core it was read.
CopyExact ==
    \A p \in Pid : (pc[p] # <<>> /\ NextOf(p).step \in {"clear", "set"}) =>
        ("bts" \in dbgctlmsr[p] <=> p \in table["bts"])

\* The process whose tracing by engine e core c has the bits of.
Owner(c, e) ==
    IF e = "lbr" /\ at[c] # <<>> /\ Head(at[c]).engine = "bts" THEN next_task[c] ELSE run[c]

\* p's operation changes its tracing by e; it has stopped it for good.
Changing(p, e) ==
    p \in Pid /\ pc[p] # <<>> /\ NextOf(p).engine = e /\ NextOf(p).step # "copy"
Stopped(p, e) ==
    Changing(p, e) /\ LastOf(p).step = "remove" /\ NextOf(p).step \in {"save", "remove"}

BitFollows(c, p, e) ==
    /\ e \in debugctl[c] => p \in table[e] /\ ~Stopped(p, e)
    /\ p \in table[e] => e \in debugctl[c] \/ Changing(p, e)
BitsFollow == \A c \in CPU, e \in Engine : BitFollows(c, Owner(c, e), e)

AreaFollows ==
    \A c \in CPU : ds_area[c] = IF "bts" \in debugctl[c] THEN run[c] ELSE NoPid

InvBits == DisablesUnpreempted /\ KeepsCore /\ CopyExact /\ BitsFollow /\ AreaFollows
=============================================================================
