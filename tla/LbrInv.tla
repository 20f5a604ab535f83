------------------------------- MODULE LbrInv -------------------------------
(***************************************************************************)
(* Why no handler of lbr.c follows a stale pointer when every process      *)
(* traces itself: the inductive invariant behind the proofs.               *)
(***************************************************************************)
EXTENDS Lbr

\* A process about to link a new state has one.
PrivateDefined ==
    \A p \in Pid :
        /\ pc[p] = "insert" => ptr[p] # NoObj
        /\ pc[p] \in {"np_copy", "np_insert"} => child[p] # NoObj

\* The type invariant and what it needs to be inductive.
InvType == TypeOK /\ PrivateDefined

\* Every request names its sender, by its pid or as 0.
SelfTracing == \A p \in Pid : Targets[p] \subseteq {p, NoPid}

\* A created process inherits from the process that creates it, never, as a
\* thread does, from one that may run elsewhere.
NoThreads == CloneKinds \subseteq {"process"}

\* Points at which ptr is a pointer that find_lbr_state returned, or one to a
\* state that is on the list by now; in lbr_newproc_handler only if the state is
\* that of the process that runs the handler.
HoldingPC == {"check", "get_off", "get_regs", "set", "set_other", "put_regs",
              "put_on", "copy", "remove"}
             \cup (IF NoThreads THEN NewProcPC ELSE {})

\* The state a process created and has not put on the list yet.
Private(p) ==
    IF pc[p] = "insert" THEN {ptr[p]}
    ELSE IF pc[p] \in {"np_copy", "np_insert"} THEN {child[p]} ELSE {}

\* A process holds pointers to listed states of its own pid only.
HeldPointers ==
    \A p \in Pid : pc[p] \in HoldingPC =>
        ptr[p] \in listed /\ statePid[ptr[p]] = p

\* A state that is not on the list yet is known to its creator alone.
PrivatePointers ==
    /\ \A p \in Pid : Private(p) \subseteq live \ listed
    /\ \A p1, p2 \in Pid : p1 # p2 => Private(p1) \cap Private(p2) = {}

\* The context-switch handler of a core holds pointers to listed states of the
\* two processes it switches between.
HandlerPointers ==
    \A c \in CPU :
        /\ (at[c] \in {"next", "get"} /\ prevState[c] # NoObj) =>
              prevState[c] \in listed /\ statePid[prevState[c]] = run[c]
        /\ (at[c] \in {"get", "put"} /\ nextState[c] # NoObj) =>
              nextState[c] \in listed /\ statePid[nextState[c]] = nxt[c]

\* A process runs on one core at most, and no second core switches to it.
OnePlace ==
    \A c1, c2 \in CPU : c1 # c2 =>
        /\ run[c1] \in Pid => run[c1] # run[c2]
        /\ (at[c1] # "no" /\ nxt[c1] \in Pid) =>
              /\ nxt[c1] # run[c2]
              /\ at[c2] # "no" => nxt[c1] # nxt[c2]

\* Whoever is about to follow a pointer follows it to a state on the list, and
\* nobody else is about to free it: only the process itself frees its state,
\* and while it does its core runs no context-switch handler
\* (lbr.c: find_lbr_state, remove_lbr_state, lbr_cswitch_handler).
PointerDiscipline ==
    ListWellFormed /\ HeldPointers /\ PrivatePointers /\ HandlerPointers /\ OnePlace

\* A process that is enabling is enabling itself.
EnablesItself ==
    \A p \in Pid :
        /\ pc[p] = "alloc" => req[p].pid \in {p, NoPid}
        /\ pc[p] = "insert" => statePid[ptr[p]] = p

\* The inductive invariant.
Inv == /\ InvType /\ EnablesItself /\ PointerDiscipline
       /\ NoThreads => NoStateUseAfterFree

\* Without new processes every state has an entries block of its own, too.
NoCreation == CloneKinds = {}

OwnEntries ==
    /\ \A o \in live : entries[o] = o /\ o \in liveEntries
    /\ \A p \in Pid : pc[p] \notin NewProcPC

InvNoCreation == OwnEntries /\ NoUseAfterFree

\* If no request is for pid 0, the look-up at the start of enable_lbr is still
\* right when its state is inserted: nobody else enables this process.
NoZero == \A p \in Pid : Targets[p] \subseteq {p}

\* No pid is used again: either processes terminate or new ones appear.
NoReuse == Exits => NoCreation

EnablingIsUntraced ==
    \A p \in Pid :
        /\ pc[p] = "alloc" => req[p].pid = p
        /\ pc[p] = "insert" => statePid[ptr[p]] = p
        /\ pc[p] \in {"alloc", "insert"} => ~Traced(p)

\* A process that is being created has one creator, which alone makes its state.
InheritingIsNew ==
    /\ \A p \in Pid : pc[p] \in NewProcPC => req[p].pid \in Pid /\ pc[req[p].pid] = "new"
    /\ \A p1, p2 \in Pid :
          (p1 # p2 /\ pc[p1] \in NewProcPC /\ pc[p2] \in NewProcPC) =>
             req[p1].pid # req[p2].pid
    /\ \A p \in Pid : pc[p] = "np_insert" => statePid[child[p]] = req[p].pid
    /\ \A q \in Pid : (pc[q] = "new" \/ (pc[q] = "none" /\ ~Exits)) => ~Traced(q)

InvOneState == OneStatePerPid /\ EnablingIsUntraced /\ InheritingIsNew

----------------------------------------------------------------------------
(* Why exactly the traced processes are recorded.                          *)

\* At each point of an operation the request is one that leads there, and it
\* is for the caller.
FitsRequest(p) ==
    /\ pc[p] \in {"none", "new", "user"} => req[p] = NoReq
    /\ pc[p] \in {"alloc", "insert"} => req[p].cmd = "enable"
    /\ pc[p] = "check" => req[p].cmd \in {"enable", "disable", "dump", "config"}
    /\ pc[p] \in {"get_off", "get_regs"} => req[p].cmd \in {"disable", "dump", "config"}
    /\ pc[p] \in {"put_regs", "put_on"} => req[p].cmd \in {"enable", "dump", "config"}
    /\ pc[p] = "set" => req[p].cmd = "config"
    /\ pc[p] = "copy" => req[p].cmd = "dump"
    /\ pc[p] = "remove" => req[p].cmd = "disable"
    /\ pc[p] \in NewProcPC => req[p].cmd = "newproc"
    /\ pc[p] \in IoctlPC => req[p].pid = p
    /\ pc[p] # "set_other"

RequestFits == \A p \in Pid : FitsRequest(p)

\* p is at a point at which its LBR is off although it is on the list: its
\* operation has stopped it, or has not started it yet.
Stopped(p) ==
    \/ pc[p] \in {"get_regs", "set", "put_regs", "put_on", "remove"}
    \/ pc[p] = "check" /\ req[p].cmd = "enable"

\* The branches of p are to be recorded where it runs.
Recording(p) == Traced(p) /\ ~Stopped(p)

\* Until the current process of a core is replaced its LBR is on if it has to be.
Recorded ==
    \A c \in CPU :
        (at[c] # "put" /\ run[c] \in Pid /\ Recording(run[c])) => lbrOn[c]

\* The context-switch handler did find what was there to be found.
HandlerKnows ==
    \A c \in CPU :
        /\ at[c] = "get" => prevState[c] # NoObj
        /\ at[c] \in {"next", "get"} =>
              IF prevState[c] = NoObj THEN ~Traced(run[c]) ELSE run[c] \in Pid
        /\ at[c] \in {"get", "put"} =>
              IF nextState[c] = NoObj THEN ~Traced(nxt[c]) ELSE nxt[c] \in Pid

NewIsOffCore == \A q \in Pid : pc[q] = "new" => ~OnCore(q)

InvRecorded == RequestFits /\ Recorded /\ HandlerKnows /\ NewIsOffCore

\* Without preemption an operation that has stopped the LBR of a core has that
\* core until it has started it again.
KeepsCore ==
    \A p \in Pid : pc[p] \notin Yields \cup {"new"} =>
        \E c \in CPU : run[c] = p /\ at[c] = "no"

\* So the LBR of a core is off whenever it has to be.
Dark ==
    \A c \in CPU : lbrOn[c] => at[c] # "put" /\ run[c] \in Pid /\ Recording(run[c])

\* The registers of core c are those of its current process.
Loaded(c) ==
    /\ at[c] # "put" /\ run[c] \in Pid
    /\ lbrOn[c] \/ pc[run[c]] \in {"get_regs", "put_on"}

FilterLoaded ==
    \A c \in CPU : Loaded(c) =>
        \A o \in Matches(run[c]) : hwSelect[c] = lbrSelect[o]

InvExact == KeepsCore /\ Dark /\ FilterLoaded

\* Registers and entries hold branches of their own process only.
StackOwn == \A c \in CPU : Loaded(c) => stack[c] \subseteq {run[c]}
SavedOwn == \A o \in live : saved[o] \subseteq {statePid[o]}

InvIsolation == StackOwn /\ SavedOwn

\* The filter of a state that is about to be linked is the one that was asked
\* for, or the creator's.
FilterChosen ==
    \A p \in Pid :
        /\ pc[p] = "insert" => lbrSelect[ptr[p]] = EnableSelect(req[p].sel)
        /\ pc[p] = "np_insert" => lbrSelect[child[p]] = lbrSelect[ptr[p]]
=============================================================================
