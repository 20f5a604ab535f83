-------------------------------- MODULE Lkm --------------------------------
(***************************************************************************)
(* The life of the Linux kernel module (kernel/lkm/src/libiht_lkm.c):      *)
(* loading, the two engines side by side on the DEBUGCTL register of each  *)
(* core, and unloading, which flushes the cores and frees the states while *)
(* the tracepoints still call the context-switch handlers.                 *)
(*                                                                         *)
(* Lbr and Bts show each engine alone, between loading and unloading.      *)
(* Here a state is reduced to the pid it stands for, every process traces  *)
(* itself, and what is followed is the engines' bits, the debug store area *)
(* pointer and the two lists.                                              *)
(*                                                                         *)
(* Grain of atomicity: that of Lbr and Bts.  In an ioctl the LBR code      *)
(* reads and writes DEBUGCTL in two steps, without a lock and with         *)
(* interrupts on; the BTS code does so in one, under its lock.  A handler  *)
(* runs with interrupts off, and so does a flush.                          *)
(***************************************************************************)
EXTENDS Naturals, Sequences, FiniteSets

CONSTANTS
    CPU,            \* the cores
    Pid,            \* the processes
    NoPid,          \* the idle task; also the null pointer in DS_AREA
    Processors,     \* cpuid and MISC_ENABLE of the machines: [eax, ds, unavail]
    Cmds,           \* machine and preemptibility -> the ioctl numbers in use
    Requests,       \* engine -> the steps of the module's life during which
                    \* users send requests for it; the device takes all it gets
    AtRmmod         \* what may be going on when rmmod begins: requests that are
                    \* being "served", and processes alive that are "traced"

Engine == {"lbr", "bts"}

\* The steps of insmod and rmmod, in their order.
Loading   == {"register", "lbr_init", "lbr_flush", "bts_init", "bts_flush"}
Unloading == {"bts_exit", "bts_free", "lbr_exit", "lbr_free", "unregister", "remove", "rundown"}

ASSUME LkmAssumption ==
    /\ NoPid \notin Pid
    /\ Processors \subseteq [eax : Nat, ds : BOOLEAN, unavail : BOOLEAN]

ASSUME UsersAssumption ==
    /\ Cmds \in [Processors \X BOOLEAN -> SUBSET Nat]
    /\ Requests \in [Engine -> SUBSET ({"in"} \cup Loading \cup Unloading)]
    /\ AtRmmod \subseteq {"served", "traced"}

VARIABLES
    processor,      \* what the machine is
    preempt,        \* is its kernel preemptible outside spinlocks?
    \* the module
    loader,         \* the step of insmod or rmmod that comes next
    unflushed,      \* the cores an on_each_cpu in progress has yet to reach
    proc_entry,     \* is the device there?
    probe,          \* is tp_sched_switch_handler registered?
    lbr_capacity,
    ready,          \* the engines whose list head is initialised
    table,          \* engine -> the pids with a state on its list
    \* cores
    debugctl,       \* core -> the engines whose bits are set in DEBUGCTL
    ds_area,        \* core -> the pid whose debug store area DS_AREA points to
    run,            \* core -> its current process
    at,             \* core -> the steps left of tp_sched_switch_handler
    next_task,      \* core -> its argument
    found,          \* core -> which of its two lookups found a state
    \* processes
    pc,             \* process -> the steps left of its ioctl
    dbgctlmsr,      \* process -> the local copy of DEBUGCTL in get_lbr, put_lbr
    exited,         \* the processes that have terminated
    fault           \* the first access through a bad pointer

module == <<loader, unflushed, proc_entry, probe, lbr_capacity, ready>>
msrs   == <<debugctl, ds_area>>
swtch  == <<run, at, next_task, found>>
procs  == <<pc, dbgctlmsr, exited>>
vars   == <<processor, preempt, module, table, msrs, swtch, procs, fault>>

----------------------------------------------------------------------------
Task == Pid \cup {NoPid}

\* What an operation does on its way, engine by engine: LBR's get_lbr is read,
\* clear, save and its put_lbr load, read, set.
Steps(engine, op) ==
    CASE op = "enable" /\ engine = "lbr"  -> <<"insert", "load", "read", "set">>
      [] op = "disable" /\ engine = "lbr" -> <<"read", "clear", "save", "remove">>
      [] op \in {"dump", "config"} /\ engine = "lbr" ->
            <<"read", "clear", "save", "load", "read", "set">>
      [] op = "enable" /\ engine = "bts"  -> <<"insert", "put">>
      [] op = "disable" /\ engine = "bts" -> <<"get", "remove">>
      [] op = "config" /\ engine = "bts"  -> <<"get", "put">>
      [] op = "dump" /\ engine = "bts"    -> <<"copy">>

Program(engine, op) ==
    [i \in DOMAIN Steps(engine, op) |-> [engine |-> engine, step |-> Steps(engine, op)[i]]]

\* tp_sched_switch_handler: the LBR handler, then the BTS handler.
Handler(engine) ==
    <<[engine |-> engine, step |-> "find"], [engine |-> engine, step |-> "switch"]>>
Switching == Handler("lbr") \o Handler("bts")

\* The rest of the handler, or of an operation, after i steps.
From(s, i) == SubSeq(s, i, Len(s))

Operation == {"enable", "disable", "dump", "config"}
Rests == {From(Program(e, op), i) : e \in Engine, op \in Operation, i \in 1..7}

\* The type invariant.
TypeOK ==
    /\ processor \in Processors /\ preempt \in BOOLEAN
    /\ loader \in {"out", "in"} \cup Loading \cup Unloading
    /\ unflushed \subseteq CPU
    /\ proc_entry \in BOOLEAN /\ probe \in BOOLEAN
    /\ lbr_capacity \in {0, 4, 8, 16, 32}
    /\ ready \subseteq Engine /\ table \in [Engine -> SUBSET Pid]
    /\ debugctl \in [CPU -> SUBSET Engine] /\ ds_area \in [CPU -> Task]
    /\ run \in [CPU -> Task] /\ next_task \in [CPU -> Task]
    /\ at \in [CPU -> {From(Switching, i) : i \in 1..5}]
    /\ found \in [CPU -> SUBSET {"prev", "next"}]
    /\ pc \in [Pid -> Rests]
    /\ dbgctlmsr \in [Pid -> SUBSET Engine]
    /\ exited \subseteq Pid
    /\ fault \in {"none", "null", "freed"}

\* A machine that has booted; the module is not loaded.
Init ==
    /\ processor \in Processors /\ preempt \in BOOLEAN
    /\ loader = "out" /\ unflushed = {}
    /\ proc_entry = FALSE /\ probe = FALSE /\ lbr_capacity = 0 /\ ready = {}
    /\ table = [e \in Engine |-> {}]
    /\ debugctl = [c \in CPU |-> {}] /\ ds_area = [c \in CPU |-> NoPid]
    /\ run = [c \in CPU |-> NoPid] /\ next_task = [c \in CPU |-> NoPid]
    /\ at = [c \in CPU |-> <<>>] /\ found = [c \in CPU |-> {}]
    /\ pc = [p \in Pid |-> <<>>] /\ dbgctlmsr = [p \in Pid |-> {}]
    /\ exited = {}
    /\ fault = "none"

----------------------------------------------------------------------------
(* Helpers.                                                                *)

\* lbr_check: the model number is bits 4..7 of eax, preceded by bits 16..19;
\* the family is not looked at.  cpu_lbr_maps gives the capacity.
Model(eax) == ((eax \div 16) % 16) + 16 * ((eax \div 65536) % 16)
CapacityTypo(eax) == IF Model(eax) = \h5e THEN 23 ELSE 0
Capacity(eax) ==
    LET m == Model(eax) IN
    CASE m \in {\h5c, \h5f, \h4e, \h5e, \h8e, \h9e, \h55, \h66, \h7a, \h67, \h6a, \h6c,
                \h7d, \h7e, \h8c, \h8d, \ha5, \ha6, \ha7, \ha8, \h86, \h8a, \h96, \h9c} -> 32
      [] m \in {\h3d, \h47, \h4f, \h56, \h3c, \h45, \h46, \h3f, \h2a, \h2d, \h3a, \h3e,
                \h1a, \h1e, \h1f, \h2e, \h25, \h2c, \h2f} -> 16
      [] m \in {\h37, \h4a, \h4c, \h4d, \h5a, \h5d, \h1c, \h26, \h27, \h35, \h36} -> 8
      [] m \in {\h17, \h1d, \h0f} -> 4
      [] OTHER -> 0

\* bts_check.
BtsAvailable == processor.ds /\ ~processor.unavail

\* xinit_list_head: the engines with a list head, engine e's initialised.
HeadForgotten(e) == ready
HeadInitialised(e) == ready \cup {e}

\* device_ioctl's choice of a handler by number, and the handlers' switches;
\* other numbers are refused and change nothing.
Request(cmd) ==
    IF cmd \in 1..4 THEN [engine |-> "lbr", op |-> <<"enable", "disable", "dump", "config">>[cmd]]
    ELSE IF cmd \in 6..9
         THEN [engine |-> "bts", op |-> <<"enable", "disable", "dump", "config">>[cmd - 5]]
    ELSE [engine |-> "none", op |-> "invalid"]

\* What get_lbr and put_lbr write back to DEBUGCTL.
WithoutLbr(bits) == bits \ {"lbr"}
WithLbrAlone(bits) == {"lbr"}
WithLbr(bits) == bits \cup {"lbr"}

\* The cores an on_each_cpu still has to reach after core c ran its function.
LeftUnflushed(c) == unflushed \ {c}

\* free_lbr_state_list, free_bts_state_list: what stays on the list.
FreeAll(e) == {}

Executes(c, p) == fault = "none" /\ run[c] = p /\ at[c] = <<>> /\ p \notin exited
OnCore(p) == \E c \in CPU : run[c] = p \/ (at[c] # <<>> /\ next_task[c] = p)
Traced(p) == \E e \in Engine : p \in table[e]

\* Core c stops, or starts, process p's tracing by engine e.
StopKeepsArea(c, e) ==
    debugctl' = [debugctl EXCEPT ![c] = @ \ {e}] /\ UNCHANGED ds_area
Stop(c, e) ==
    /\ debugctl' = [debugctl EXCEPT ![c] = @ \ {e}]
    /\ ds_area' = IF e = "bts" THEN [ds_area EXCEPT ![c] = NoPid] ELSE ds_area
Start(c, p, e) ==
    /\ debugctl' = [debugctl EXCEPT ![c] = @ \cup {e}]
    /\ ds_area' = IF e = "bts" THEN [ds_area EXCEPT ![c] = p] ELSE ds_area

----------------------------------------------------------------------------
(* insmod: libiht_lkm_init.                                                *)

Loader(from, to) == fault = "none" /\ loader = from /\ loader' = to

\* proc_create may fail; the module is not loaded then.  The lists are those of
\* the new image, whatever the last one left behind.
CreateEntry ==
    /\ \/ Loader("out", "register") /\ proc_entry' = TRUE
          /\ table' = [e \in Engine |-> {}]
       \/ Loader("out", "out") /\ proc_entry' = FALSE /\ UNCHANGED table
    /\ UNCHANGED <<processor, preempt, unflushed, probe, lbr_capacity, ready>>
    /\ UNCHANGED <<msrs, swtch, procs, fault>>

RegisterTracepoints ==
    /\ Loader("register", "lbr_init")
    /\ probe' = TRUE
    /\ UNCHANGED <<processor, preempt, unflushed, proc_entry, lbr_capacity, ready>>
    /\ UNCHANGED <<table, msrs, swtch, procs, fault>>

\* lbr_init and bts_init; libiht_lkm_init ignores their results, so an engine
\* that is not there leaves its list head zeroed.
LbrInit ==
    /\ lbr_capacity' = Capacity(processor.eax)
    /\ \/ /\ lbr_capacity' = 0 /\ Loader("lbr_init", "bts_init")
          /\ UNCHANGED <<unflushed, ready>>
       \/ /\ lbr_capacity' # 0 /\ Loader("lbr_init", "lbr_flush")
          /\ unflushed' = CPU /\ ready' = HeadInitialised("lbr")
    /\ UNCHANGED <<processor, preempt, proc_entry, probe, table, msrs, swtch, procs, fault>>

BtsInit ==
    /\ \/ /\ ~BtsAvailable /\ Loader("bts_init", "in")
          /\ UNCHANGED <<unflushed, ready>>
       \/ /\ BtsAvailable /\ Loader("bts_init", "bts_flush")
          /\ unflushed' = CPU /\ ready' = HeadInitialised("bts")
    /\ UNCHANGED <<processor, preempt, proc_entry, probe, lbr_capacity>>
    /\ UNCHANGED <<table, msrs, swtch, procs, fault>>

\* on_each_cpu(flush_lbr), on_each_cpu(flush_bts): the interrupt reaches core c
\* when it executes with interrupts on; the caller waits for every core.
Flush(c) ==
    /\ fault = "none" /\ c \in unflushed /\ at[c] = <<>>
    /\ Stop(c, IF loader \in {"lbr_flush", "lbr_exit"} THEN "lbr" ELSE "bts")
    /\ unflushed' = LeftUnflushed(c)
    /\ loader' = IF unflushed' # {} THEN loader
                 ELSE CASE loader = "lbr_flush" -> "bts_init"
                        [] loader = "bts_flush" -> "in"
                        [] loader = "bts_exit"  -> "bts_free"
                        [] loader = "lbr_exit"  -> "lbr_free"
    /\ UNCHANGED <<processor, preempt, proc_entry, probe, lbr_capacity, ready>>
    /\ UNCHANGED <<table, swtch, procs, fault>>

----------------------------------------------------------------------------
(* rmmod: libiht_lkm_exit.                                                 *)

\* The code does not ask what is going on; AtRmmod is what users see to.
Unload ==
    /\ Loader("in", "bts_exit")
    /\ "served" \notin AtRmmod => \A p \in Pid : pc[p] = <<>>
    /\ "traced" \notin AtRmmod => \A p \in Pid : Traced(p) => p \in exited /\ ~OnCore(p)
    /\ unflushed' = CPU
    /\ UNCHANGED <<processor, preempt, proc_entry, probe, lbr_capacity, ready>>
    /\ UNCHANGED <<table, msrs, swtch, procs, fault>>

\* bts_exit and lbr_exit free their lists; lbr_exit is called after bts_exit.
FreeStates ==
    /\ \/ /\ Loader("bts_free", "lbr_exit")
          /\ table' = [table EXCEPT !["bts"] = FreeAll("bts")]
          /\ unflushed' = CPU
       \/ /\ Loader("lbr_free", "unregister")
          /\ table' = [table EXCEPT !["lbr"] = FreeAll("lbr")]
          /\ UNCHANGED unflushed
    /\ UNCHANGED <<processor, preempt, proc_entry, probe, lbr_capacity, ready>>
    /\ UNCHANGED <<msrs, swtch, procs, fault>>

UnregisterTracepoints ==
    /\ Loader("unregister", "remove")
    /\ probe' = FALSE
    /\ UNCHANGED <<processor, preempt, unflushed, proc_entry, lbr_capacity, ready>>
    /\ UNCHANGED <<table, msrs, swtch, procs, fault>>

\* proc_remove first refuses new calls ...
RemoveEntry ==
    /\ Loader("remove", "rundown")
    /\ proc_entry' = FALSE
    /\ UNCHANGED <<processor, preempt, unflushed, probe, lbr_capacity, ready>>
    /\ UNCHANGED <<table, msrs, swtch, procs, fault>>

\* ... and then waits for those in progress, as the kernel does for handlers;
\* then the memory of the module is gone.
Rundown ==
    /\ Loader("rundown", "out")
    /\ \A p \in Pid : pc[p] = <<>>
    /\ \A c \in CPU : at[c] = <<>>
    /\ lbr_capacity' = 0 /\ ready' = {}
    /\ UNCHANGED <<processor, preempt, unflushed, proc_entry, probe>>
    /\ UNCHANGED <<table, msrs, swtch, procs, fault>>

----------------------------------------------------------------------------
(* ioctls.                                                                 *)

\* The operation begins if the lookup finds what it needs; whether the engine
\* is there, or the module coming or going, is not asked.
Ioctl(c, p, cmd) ==
    LET r == Request(cmd) IN
    /\ Executes(c, p) /\ pc[p] = <<>> /\ proc_entry
    /\ r.op # "invalid" /\ loader \in Requests[r.engine]
    /\ (r.op = "enable") <=> (p \notin table[r.engine])
    /\ pc' = [pc EXCEPT ![p] = Program(r.engine, r.op)]
    /\ UNCHANGED <<processor, preempt, module, table, msrs, swtch, dbgctlmsr, exited, fault>>

\* The next step of p's operation is this one.
Does(c, p, engine, step) ==
    /\ Executes(c, p) /\ pc[p] # <<>>
    /\ Head(pc[p]) = [engine |-> engine, step |-> step]
    /\ pc' = [pc EXCEPT ![p] = Tail(@)]
    /\ UNCHANGED <<processor, preempt, module, swtch, exited>>

\* The state of p that was looked up is used, whether or not it is there still.
UseState(p, e) == fault' = IF p \in table[e] THEN fault ELSE "freed"

\* create_lbr_state or create_bts_state, which sleeps and may fail, and the
\* insertion at the list head, which follows the head's pointers.
Insert(c, p) ==
    \E e \in Engine :
        /\ Does(c, p, e, "insert")
        /\ \/ e \in ready /\ table' = [table EXCEPT ![e] = @ \cup {p}] /\ UNCHANGED fault
           \/ e \notin ready /\ fault' = "null" /\ UNCHANGED table
        /\ UNCHANGED <<msrs, dbgctlmsr>>

CreateFails(c, p) ==
    /\ Executes(c, p) /\ pc[p] # <<>> /\ Head(pc[p]).step = "insert"
    /\ pc' = [pc EXCEPT ![p] = <<>>]
    /\ UNCHANGED <<processor, preempt, module, table, msrs, swtch, dbgctlmsr, exited, fault>>

\* get_lbr and put_lbr: DEBUGCTL is read ...
ReadDebugctl(c, p) ==
    /\ Does(c, p, "lbr", "read")
    /\ dbgctlmsr' = [dbgctlmsr EXCEPT ![p] = debugctl[c]]
    /\ UNCHANGED <<table, msrs, fault>>

\* ... and written, on the core that p is on by then.
WriteDebugctl(c, p) ==
    /\ \/ /\ Does(c, p, "lbr", "clear")
          /\ debugctl' = [debugctl EXCEPT ![c] = WithoutLbr(dbgctlmsr[p])]
       \/ /\ Does(c, p, "lbr", "set")
          /\ debugctl' = [debugctl EXCEPT ![c] = WithLbr(dbgctlmsr[p])]
    /\ dbgctlmsr' = [dbgctlmsr EXCEPT ![p] = {}]
    /\ UNCHANGED <<table, ds_area, fault>>

\* The LBR stack is copied from or to the state, or the BTS buffer to the user.
CopyRecords(c, p) ==
    /\ \/ Does(c, p, "lbr", "save") /\ UseState(p, "lbr")
       \/ Does(c, p, "lbr", "load") /\ UseState(p, "lbr")
       \/ Does(c, p, "bts", "copy") /\ UseState(p, "bts")
    /\ UNCHANGED <<table, msrs, dbgctlmsr>>

\* get_bts and put_bts.
SwitchBts(c, p) ==
    /\ \/ Does(c, p, "bts", "get") /\ Stop(c, "bts")
       \/ Does(c, p, "bts", "put") /\ Start(c, p, "bts")
    /\ UseState(p, "bts")
    /\ UNCHANGED <<table, dbgctlmsr>>

Remove(c, p) ==
    \E e \in Engine :
        /\ Does(c, p, e, "remove")
        /\ UseState(p, e)
        /\ table' = [table EXCEPT ![e] = @ \ {p}]
        /\ UNCHANGED <<msrs, dbgctlmsr>>

\* Process p terminates; nothing in the module hears of it.
Exit(c, p) ==
    /\ Executes(c, p) /\ pc[p] = <<>>
    /\ exited' = exited \cup {p}
    /\ UNCHANGED <<processor, preempt, module, table, msrs, swtch, pc, dbgctlmsr, fault>>

----------------------------------------------------------------------------
(* The scheduler and tp_sched_switch_handler.                              *)

\* A kernel without preemption gives up the core in user mode and in kmalloc.
Yields(p) == pc[p] # <<>> => Head(pc[p]).step = "insert"

\* The scheduler switches core c to task n; the handler runs first.
SwitchTo(c, n) ==
    /\ fault = "none" /\ at[c] = <<>> /\ n # run[c]
    /\ (run[c] # NoPid /\ ~preempt) => Yields(run[c])
    /\ n # NoPid => n \notin exited /\ ~OnCore(n)
    /\ \/ probe /\ at' = [at EXCEPT ![c] = Switching]
                /\ next_task' = [next_task EXCEPT ![c] = n] /\ UNCHANGED run
       \/ ~probe /\ run' = [run EXCEPT ![c] = n] /\ UNCHANGED <<at, next_task>>
    /\ UNCHANGED <<processor, preempt, module, table, msrs, found, procs, fault>>

\* The handler's next step is this one; after the last the task is switched.
Handles(c, e, step) ==
    /\ fault = "none" /\ at[c] # <<>>
    /\ Head(at[c]) = [engine |-> e, step |-> step]
    /\ at' = [at EXCEPT ![c] = Tail(@)]
    /\ IF at'[c] # <<>> THEN UNCHANGED <<run, next_task>>
       ELSE /\ run' = [run EXCEPT ![c] = next_task[c]]
            /\ next_task' = [next_task EXCEPT ![c] = NoPid]
    /\ UNCHANGED <<processor, preempt, module, table, procs>>

Party(c, w) == IF w = "prev" THEN run[c] ELSE next_task[c]

SwitchFind(c) ==
    \E e \in Engine :
        /\ Handles(c, e, "find")
        /\ found' = [found EXCEPT ![c] =
                        {w \in {"prev", "next"} : Party(c, w) \in table[e]}]
        /\ UNCHANGED <<msrs, fault>>

\* The previous task's get and the next one's put.  Only this core sees its
\* registers meanwhile, so they are one step.
SwitchRegisters(c) ==
    \E e \in Engine :
        /\ Handles(c, e, "switch")
        /\ debugctl' = [debugctl EXCEPT ![c] =
                IF "next" \in found[c] THEN @ \cup {e}
                ELSE IF "prev" \in found[c] THEN @ \ {e} ELSE @]
        /\ ds_area' = IF e = "lbr" \/ found[c] = {} THEN ds_area
                      ELSE [ds_area EXCEPT ![c] =
                                IF "next" \in found[c] THEN next_task[c] ELSE NoPid]
        /\ fault' = IF \A w \in found[c] : Party(c, w) \in table[e] THEN fault ELSE "freed"
        /\ found' = [found EXCEPT ![c] = {}]

----------------------------------------------------------------------------
LoaderStep ==
    \/ RegisterTracepoints \/ LbrInit \/ BtsInit
    \/ FreeStates \/ UnregisterTracepoints \/ RemoveEntry \/ Rundown

SwitchStep(c) == SwitchFind(c) \/ SwitchRegisters(c)

Proceeds(c, p) ==
    \/ Insert(c, p) \/ CreateFails(c, p)
    \/ ReadDebugctl(c, p) \/ WriteDebugctl(c, p) \/ CopyRecords(c, p)
    \/ SwitchBts(c, p) \/ Remove(c, p)

ProcStep(c, p) ==
    \/ \E cmd \in Cmds[<<processor, preempt>>] : Ioctl(c, p, cmd)
    \/ Proceeds(c, p)
    \/ Exit(c, p)

Next ==
    \/ CreateEntry \/ LoaderStep \/ Unload
    \/ \E c \in CPU : Flush(c) \/ SwitchStep(c) \/ (\E n \in Task : SwitchTo(c, n))
    \/ \E c \in CPU, p \in Pid : ProcStep(c, p)

Spec == Init /\ [][Next]_vars

----------------------------------------------------------------------------
(* Properties.                                                             *)

\* No insertion goes through a list head that was never initialised, and no
\* handler or operation uses a state that was freed, although requests come
\* while insmod is still at work on the other engine.  The code checks neither
\* that an engine is there nor that no request is being served when the module
\* goes: that is left to the users, as Requests, Cmds and AtRmmod say, and an
\* instance with other users has faults (lbr.c: lbr_init, lbr_exit; bts.c:
\* bts_init, bts_exit).
NoFault == fault = "none"

\* A core that runs user code, or idles, has the bits of exactly the engines
\* that trace its process: the update of DEBUGCTL in get_lbr and put_lbr,
\* read and written back unlocked and maybe on another core, neither loses
\* the BTS bits nor brings them back, and flushes take away nothing in use.
BitsExact ==
    \A c \in CPU : (at[c] = <<>> /\ (run[c] = NoPid \/ pc[run[c]] = <<>>)) =>
        debugctl[c] = {e \in Engine : run[c] \in table[e]}

\* Whenever a core may store branches it stores them to the debug store area of
\* a process that has one, and an area is set up only for that (put_bts,
\* get_bts, flush_bts, remove_bts_state, free_bts_state_list).
AreaExact ==
    \A c \in CPU :
        /\ "bts" \in debugctl[c] <=> ds_area[c] # NoPid
        /\ ds_area[c] # NoPid => ds_area[c] \in table["bts"]

\* Once the module is out nothing of it is left: no state, no tracing on any
\* core, no probe (libiht_lkm_exit: "It will unregister all the registered
\* services and clean up the module").  It takes users that begin to unload it
\* when no living process is traced, as lkm_unload shows, and that send no
\* request from then on.
CleanUp ==
    loader = "out" =>
        /\ \A e \in Engine : table[e] = {}
        /\ \A c \in CPU : debugctl[c] = {} /\ ds_area[c] = NoPid
        /\ ~probe /\ ~proc_entry

=============================================================================
