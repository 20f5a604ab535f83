----------------------------- MODULE Lbr_proofs -----------------------------
(* Theorems about the LBR component, for any number of cores, processes and *)
(* allocations, on preemptible and on non-preemptible kernels.             *)
EXTENDS LbrInv, TLAPS

USE LbrAssumption

----------------------------------------------------------------------------
(* Type correctness.                                                       *)

ProcsInv == ProcsTypeOK /\ PrivateDefined

LEMMA ReqInSet ==
    ASSUME NEW p \in Pid, NEW cmd \in Cmds, NEW t \in Targets[p], NEW s \in ReqSelect
    PROVE  [cmd |-> cmd, pid |-> t, sel |-> s] \in ReqSet
BY DEF ReqSet, Select, Tag

\* Return and Step keep the local variables of the processes well typed.
LEMMA ReturnTypes ==
    ASSUME ProcsInv, NEW p \in Pid, Return(p)
    PROVE  ProcsInv'
BY DEF ProcsInv, PrivateDefined, ProcsTypeOK, Return, Goto, PC, NoReq, ReqSet, Tag, Select

LEMMA StepTypes ==
    ASSUME ProcsInv, NEW p \in Pid, NEW label \in PC \ {"insert", "np_copy"},
           label = "np_insert" => child[p] # NoObj,
           Step(p, label)
    PROVE  ProcsInv'
BY DEF ProcsInv, PrivateDefined, ProcsTypeOK, Step, Goto

LEMMA NewProcReturnTypes ==
    ASSUME ProcsInv, NEW p \in Pid, NewProcReturn(p)
    PROVE  ProcsInv'
BY DEF ProcsInv, PrivateDefined, ProcsTypeOK, NewProcReturn, PC, NoReq, ReqSet, Tag, Select

\* A use of the registers keeps the heap and the cores well typed.
LEMMA SaveTypes ==
    ASSUME HeapTypeOK, CoresTypeOK, NEW c \in CPU, NEW o \in Obj, SaveRegisters(c, o)
    PROVE  HeapTypeOK'
BY DEF HeapTypeOK, CoresTypeOK, SaveRegisters

LEMMA LoadTypes ==
    ASSUME HeapTypeOK, CoresTypeOK, NEW c \in CPU, NEW o \in Obj, LoadRegisters(c, o)
    PROVE  /\ hwSelect' \in [CPU -> Select]
           /\ stack' \in [CPU -> SUBSET Tag]
BY DEF HeapTypeOK, CoresTypeOK, LoadRegisters

LEMMA InitTypes == Init => InvType
BY DEF Init, InvType, PrivateDefined, TypeOK, HeapTypeOK, CoresTypeOK, SwitchTypeOK,
       ProcsTypeOK, PC, Tag, Select, NoReq, ReqSet

\* What an action leaves alone stays well typed.
LEMMA UnchangedTypes ==
    ASSUME TypeOK
    PROVE  /\ UNCHANGED heap => HeapTypeOK'
           /\ UNCHANGED cores => CoresTypeOK'
           /\ UNCHANGED swtch => SwitchTypeOK'
BY DEF TypeOK, HeapTypeOK, CoresTypeOK, SwitchTypeOK, heap, cores, swtch

LEMMA TypesOfParts ==
    ASSUME HeapTypeOK', CoresTypeOK', SwitchTypeOK', ProcsInv',
           fault' \in {"none", "state", "entries"}
    PROVE  InvType'
BY DEF InvType, TypeOK, ProcsInv

LEMMA PartsOfTypes ==
    ASSUME InvType
    PROVE  /\ TypeOK /\ HeapTypeOK /\ CoresTypeOK /\ SwitchTypeOK /\ ProcsTypeOK
           /\ ProcsInv /\ PrivateDefined
           /\ fault \in {"none", "state", "entries"}
BY DEF InvType, TypeOK, ProcsInv

\* enable_lbr's steps.
LEMMA EnableTypes ==
    ASSUME InvType, NEW c \in CPU, NEW p \in Pid, Alloc(c, p) \/ Insert(c, p)
    PROVE  InvType'
<1> USE PartsOfTypes
<1>1. UNCHANGED <<cores, swtch, fault>>
  BY DEF Alloc, Insert
<1>2. CASE Alloc(c, p)
  <2>1. CASE Return(p) /\ UNCHANGED heap
    BY <1>1, <2>1, ReturnTypes, UnchangedTypes, TypesOfParts
  <2>2. ASSUME NEW o \in Obj,
               Create(o),
               statePid' = [statePid EXCEPT ![o] =
                              IF req[p].pid # NoPid THEN req[p].pid ELSE p],
               lbrSelect' = [lbrSelect EXCEPT ![o] = EnableSelect(req[p].sel)],
               ptr' = [ptr EXCEPT ![p] = o],
               Goto(p, "insert"),
               UNCHANGED <<listed, req, child, real_parent>>
        PROVE  InvType'
    <3>1. req[p].pid \in Tag /\ EnableSelect(req[p].sel) \in Select
      BY DEF ProcsTypeOK, ReqSet, EnableSelect, Select
    <3>2. HeapTypeOK'
      BY <2>2, <3>1 DEF HeapTypeOK, Create, Tag
    <3>3. ProcsInv'
      BY <2>2 DEF ProcsInv, ProcsTypeOK, PrivateDefined, Goto, PC, IoctlPC
    <3>4. QED
      BY <1>1, <3>2, <3>3, UnchangedTypes, TypesOfParts
  <2>3. QED
    BY <1>2, <2>1, <2>2 DEF Alloc
<1>3. CASE Insert(c, p)
  <2>1. HeapTypeOK'
    BY <1>3 DEF Insert, HeapTypeOK, ProcsTypeOK, PrivateDefined
  <2>2. ProcsInv'
    BY <1>3, StepTypes DEF Insert, PC, IoctlPC
  <2>3. QED
    BY <1>1, <2>1, <2>2, UnchangedTypes, TypesOfParts
<1>4. QED
  BY <1>2, <1>3

\* The steps of disable_lbr, dump_lbr and config_lbr.
LEMMA OperationTypes ==
    ASSUME InvType, NEW c \in CPU, NEW p \in Pid,
           \/ Check(c, p) \/ GetOff(c, p) \/ GetRegs(c, p) \/ SetSelect(c, p)
           \/ PutRegs(c, p) \/ PutOn(c, p) \/ Copy(c, p) \/ Remove(c, p)
    PROVE  InvType'
<1> USE PartsOfTypes
<1>1. UNCHANGED swtch /\ UNCHANGED fault
  BY DEF Check, GetOff, GetRegs, SetSelect, PutRegs, PutOn, Copy, Remove
<1>2. CASE Check(c, p)
  <2>1. ProcsInv'
    BY <1>2, ReturnTypes, StepTypes DEF Check, UnlessOwn, PC, IoctlPC
  <2>2. QED
    BY <1>1, <1>2, <2>1, UnchangedTypes, TypesOfParts DEF Check
<1>3. CASE GetOff(c, p)
  <2>1. ProcsInv'
    BY <1>3, StepTypes DEF GetOff, PC, IoctlPC
  <2>2. CoresTypeOK'
    BY <1>3 DEF GetOff, CoresTypeOK
  <2>3. QED
    BY <1>1, <1>3, <2>1, <2>2, UnchangedTypes, TypesOfParts DEF GetOff
<1>4. CASE GetRegs(c, p)
  <2>1. ProcsInv'
    BY <1>4, StepTypes DEF GetRegs, AfterGet, PC, IoctlPC
  <2>2. HeapTypeOK'
    BY <1>4, SaveTypes DEF GetRegs, Usable, HeapTypeOK
  <2>3. QED
    BY <1>1, <1>4, <2>1, <2>2, UnchangedTypes, TypesOfParts DEF GetRegs
<1>5. CASE SetSelect(c, p)
  <2>1. ProcsInv'
    BY <1>5, StepTypes, ReturnTypes DEF SetSelect, PC, IoctlPC
  <2>2. ConfigSelect(req[p].sel) \in Select
    BY DEF ProcsTypeOK, ReqSet, ConfigSelect
  <2>3. HeapTypeOK'
    BY <1>5, <2>2 DEF SetSelect, HeapTypeOK
  <2>4. QED
    BY <1>1, <1>5, <2>1, <2>3, UnchangedTypes, TypesOfParts DEF SetSelect
<1>6. CASE PutRegs(c, p)
  <2>1. ProcsInv'
    BY <1>6, StepTypes DEF PutRegs, PC, IoctlPC
  <2>2. CoresTypeOK'
    BY <1>6, LoadTypes DEF PutRegs, Usable, HeapTypeOK, CoresTypeOK
  <2>3. QED
    BY <1>1, <1>6, <2>1, <2>2, UnchangedTypes, TypesOfParts DEF PutRegs
<1>7. CASE PutOn(c, p)
  <2>1. ProcsInv'
    BY <1>7, StepTypes, ReturnTypes DEF PutOn, AfterPut, PC, IoctlPC
  <2>2. CoresTypeOK'
    BY <1>7 DEF PutOn, CoresTypeOK
  <2>3. QED
    BY <1>1, <1>7, <2>1, <2>2, UnchangedTypes, TypesOfParts DEF PutOn
<1>8. CASE Copy(c, p)
  BY <1>1, <1>8, ReturnTypes, UnchangedTypes, TypesOfParts DEF Copy
<1>9. CASE Remove(c, p)
  <2>1. HeapTypeOK'
    BY <1>9 DEF Remove, Unlink, Usable, HeapTypeOK, Tag, Select
  <2>2. QED
    BY <1>1, <1>9, <2>1, ReturnTypes, UnchangedTypes, TypesOfParts DEF Remove
<1>10. QED
  BY <1>2, <1>3, <1>4, <1>5, <1>6, <1>7, <1>8, <1>9

\* lbr_newproc_handler's steps after the first.
LEMMA NewProcTypes ==
    ASSUME InvType, NEW c \in CPU, NEW p \in Pid,
           NewProcAlloc(c, p) \/ NewProcCopy(c, p) \/ NewProcInsert(c, p)
    PROVE  InvType'
<1> USE PartsOfTypes
<1>1. UNCHANGED <<cores, swtch, fault>>
  BY DEF NewProcAlloc, NewProcCopy, NewProcInsert
<1>2. CASE NewProcAlloc(c, p)
  <2>1. CASE NewProcReturn(p) /\ UNCHANGED heap
    BY <1>1, <2>1, NewProcReturnTypes, UnchangedTypes, TypesOfParts
  <2>2. ASSUME NEW o \in Obj,
               Create(o),
               child' = [child EXCEPT ![p] = o],
               Goto(p, "np_copy"),
               UNCHANGED <<listed, statePid, lbrSelect, req, ptr, real_parent>>
        PROVE  InvType'
    <3>1. HeapTypeOK'
      BY <2>2 DEF HeapTypeOK, Create
    <3>2. ProcsInv'
      BY <2>2 DEF ProcsInv, ProcsTypeOK, PrivateDefined, Goto, PC, NewProcPC
    <3>3. QED
      BY <1>1, <3>1, <3>2, UnchangedTypes, TypesOfParts
  <2>3. QED
    BY <1>2, <2>1, <2>2 DEF NewProcAlloc
<1>3. CASE NewProcCopy(c, p)
  <2>1. ChildPid(p) \in Tag
    BY DEF ProcsTypeOK, ReqSet, ChildPid
  <2>2. HeapTypeOK'
    BY <1>3, <2>1 DEF NewProcCopy, HeapTypeOK
  <2>3. ProcsInv'
    BY <1>3, StepTypes DEF NewProcCopy, PrivateDefined, PC, NewProcPC
  <2>4. QED
    BY <1>1, <2>2, <2>3, UnchangedTypes, TypesOfParts
<1>4. CASE NewProcInsert(c, p)
  <2>1. HeapTypeOK'
    BY <1>4 DEF NewProcInsert, HeapTypeOK, ProcsTypeOK, PrivateDefined
  <2>2. ProcsInv'
    BY <1>4, NewProcReturnTypes DEF NewProcInsert
  <2>3. QED
    BY <1>1, <2>1, <2>2, UnchangedTypes, TypesOfParts
<1>5. QED
  BY <1>2, <1>3, <1>4

\* What a process does from user mode, and its faults.
LEMMA UserTypes ==
    ASSUME InvType, NEW c \in CPU, NEW p \in Pid,
           \/ \E cmd \in Cmds, t \in Targets[p], s \in ReqSelect : Ioctl(c, p, cmd, t, s)
           \/ \E q \in Pid, kind \in CloneKinds : Clone(c, p, q, kind)
           \/ Exit(c, p) \/ ProcFault(c, p)
    PROVE  InvType'
<1> USE PartsOfTypes
<1>1. UNCHANGED <<heap, cores, swtch>>
  BY DEF Ioctl, Clone, Exit, ProcFault
<1>2. fault' \in {"none", "state", "entries"}
  BY DEF Ioctl, Clone, Exit, ProcFault
<1>3. ASSUME NEW cmd \in Cmds, NEW t \in Targets[p], NEW s \in ReqSelect,
             Ioctl(c, p, cmd, t, s)
      PROVE  ProcsInv'
  <2>1. PICK o \in Obj \cup {NoObj} :
          \/ UNCHANGED procs
          \/ /\ Goto(p, "alloc")
             /\ req' = [req EXCEPT ![p] = [cmd |-> cmd, pid |-> t, sel |-> s]]
             /\ UNCHANGED <<ptr, child, real_parent>>
          \/ /\ Goto(p, "check")
             /\ req' = [req EXCEPT ![p] = [cmd |-> cmd, pid |-> t, sel |-> s]]
             /\ ptr' = [ptr EXCEPT ![p] = o]
             /\ UNCHANGED <<child, real_parent>>
    BY <1>3 DEF Ioctl
  <2>2. QED
    BY <2>1, ReqInSet
       DEF ProcsInv, ProcsTypeOK, PrivateDefined, Goto, PC, IoctlPC, procs
<1>4. ASSUME NEW q \in Pid, NEW kind \in CloneKinds, Clone(c, p, q, kind)
      PROVE  ProcsInv'
  <2>1. real_parent' \in [Pid -> Tag] /\ UNCHANGED child
    BY <1>4 DEF Clone, ProcsTypeOK, Tag
  <2>2. PICK o \in Obj \cup {NoObj} :
          \/ Goto(q, "user") /\ UNCHANGED <<req, ptr>>
          \/ /\ pc' = [pc EXCEPT ![p] = "np_alloc", ![q] = "new"]
             /\ req' = [req EXCEPT ![p] = [cmd |-> "newproc", pid |-> q, sel |-> 0]]
             /\ ptr' = [ptr EXCEPT ![p] = o]
    BY <1>4 DEF Clone
  <2>3. [cmd |-> "newproc", pid |-> q, sel |-> 0] \in ReqSet
    BY DEF ReqSet, Tag, Select
  <2>4. QED
    BY <2>1, <2>2, <2>3 DEF ProcsInv, ProcsTypeOK, PrivateDefined, Goto, PC, NewProcPC
<1>5. Exit(c, p) => ProcsInv'
  BY DEF Exit, ProcsInv, ProcsTypeOK, PrivateDefined, Goto, PC, Tag
<1>6. ProcFault(c, p) => ProcsInv'
  BY DEF ProcFault, ProcsInv, ProcsTypeOK, PrivateDefined, procs
<1>7. QED
  BY <1>1, <1>2, <1>3, <1>4, <1>5, <1>6, UnchangedTypes, TypesOfParts

\* The steps of a core.
LEMMA CoreTypes ==
    ASSUME InvType, NEW c \in CPU, CoreStep(c)
    PROVE  InvType'
<1> USE PartsOfTypes
<1>1. UNCHANGED procs
  BY DEF CoreStep, SwitchStep, SwitchTo, SwitchFind, SwitchGet, SwitchPut, Branch, SwitchFault
<1>2. ProcsInv'
  BY <1>1 DEF ProcsInv, ProcsTypeOK, PrivateDefined, procs
<1>3. ASSUME NEW n \in Tag, SwitchTo(c, n)  PROVE InvType'
  <2>1. SwitchTypeOK'
    BY <1>3 DEF SwitchTo, SwitchTypeOK
  <2>2. QED
    BY <1>2, <1>3, <2>1, UnchangedTypes, TypesOfParts DEF SwitchTo
<1>4. CASE SwitchFind(c)
  <2>1. SwitchTypeOK'
    BY <1>4 DEF SwitchFind, SwitchTypeOK
  <2>2. QED
    BY <1>2, <1>4, <2>1, UnchangedTypes, TypesOfParts DEF SwitchFind
<1>5. CASE SwitchGet(c)
  <2>1. SwitchTypeOK'
    BY <1>5 DEF SwitchGet, SwitchTypeOK
  <2>2. CoresTypeOK'
    BY <1>5 DEF SwitchGet, CoresTypeOK
  <2>3. HeapTypeOK'
    BY <1>5, SaveTypes DEF SwitchGet, Usable, HeapTypeOK
  <2>4. QED
    BY <1>2, <1>5, <2>1, <2>2, <2>3, TypesOfParts DEF SwitchGet
<1>6. CASE SwitchPut(c)
  <2>1. SwitchTypeOK'
    BY <1>6 DEF SwitchPut, SwitchTypeOK, Tag
  <2>2. CoresTypeOK'
    <3>1. run' \in [CPU -> Tag]
      BY <1>6 DEF SwitchPut, SwitchTypeOK, CoresTypeOK
    <3>2. CASE UNCHANGED <<lbrOn, hwSelect, stack>>
      BY <3>1, <3>2 DEF CoresTypeOK
    <3>3. CASE Usable(nextState[c]) /\ SwitchIn(c, nextState[c])
      BY <3>1, <3>3, LoadTypes DEF SwitchIn, Usable, CoresTypeOK, HeapTypeOK
    <3>4. QED
      BY <1>6, <3>2, <3>3 DEF SwitchPut
  <2>3. QED
    BY <1>2, <1>6, <2>1, <2>2, UnchangedTypes, TypesOfParts DEF SwitchPut
<1>7. CASE Branch(c)
  <2>1. CoresTypeOK'
    BY <1>7 DEF Branch, CoresTypeOK
  <2>2. QED
    BY <1>2, <1>7, <2>1, UnchangedTypes, TypesOfParts DEF Branch
<1>8. CASE SwitchFault(c)
  BY <1>2, <1>8, UnchangedTypes, TypesOfParts DEF SwitchFault
<1>9. QED
  BY <1>3, <1>4, <1>5, <1>6, <1>7, <1>8 DEF CoreStep, SwitchStep

LEMMA NextTypes == InvType /\ [Next]_vars => InvType'
<1>1. ASSUME InvType, UNCHANGED vars  PROVE InvType'
  BY <1>1 DEF InvType, TypeOK, HeapTypeOK, CoresTypeOK, SwitchTypeOK, ProcsTypeOK,
              PrivateDefined, vars, heap, cores, swtch, procs
<1>2. QED
  BY <1>1, EnableTypes, OperationTypes, NewProcTypes, UserTypes, CoreTypes
     DEF Next, ProcStep, KernelStep

\* TypeCorrect: the type invariant, and that whoever links a new state into the
\* list has one (lbr.c: insert_lbr_state), hold in every behaviour, whatever
\* the processes request.
THEOREM TypeCorrect == Spec => [](TypeOK /\ PrivateDefined)
<1>1. InvType => TypeOK /\ PrivateDefined
  BY DEF InvType
<1>2. QED
  BY <1>1, InitTypes, NextTypes, PTL DEF Spec

----------------------------------------------------------------------------
(* No use of a freed lbr_state.                                            *)

\* What the pointer invariants depend on, apart from the processes.
Frame == <<live, listed, statePid, run, at, nxt, prevState, nextState>>

LEMMA FrameKeeps ==
    ASSUME PointerDiscipline, UNCHANGED Frame
    PROVE  ListWellFormed' /\ HandlerPointers' /\ OnePlace'
BY DEF PointerDiscipline, Frame, ListWellFormed, HandlerPointers, OnePlace

\* A process goes on with the pointer it has.
LEMMA HoldStep ==
    ASSUME InvType, PointerDiscipline, NEW p \in Pid,
           NEW label \in HoldingPC \ {"np_copy", "np_insert"},
           pc[p] \in HoldingPC, Step(p, label), UNCHANGED Frame
    PROVE  PointerDiscipline'
<1> USE PartsOfTypes
<1>1. HeldPointers'
  BY DEF PointerDiscipline, HeldPointers, Step, Goto, ProcsTypeOK, Frame
<1>2. PrivatePointers'
  BY DEF PointerDiscipline, PrivatePointers, Private, Step, Goto, ProcsTypeOK, Frame, HoldingPC, NewProcPC
<1>3. QED
  BY <1>1, <1>2, FrameKeeps DEF PointerDiscipline

\* A process returns from its handler.
LEMMA ReturnKeeps ==
    ASSUME InvType, PointerDiscipline, NEW p \in Pid, Return(p), UNCHANGED Frame
    PROVE  PointerDiscipline'
<1> USE PartsOfTypes
<1>1. HeldPointers'
  BY DEF PointerDiscipline, HeldPointers, Return, Goto, ProcsTypeOK, Frame, HoldingPC, NewProcPC
<1>2. PrivatePointers'
  BY DEF PointerDiscipline, PrivatePointers, Private, Return, Goto, ProcsTypeOK, Frame
<1>3. QED
  BY <1>1, <1>2, FrameKeeps DEF PointerDiscipline

\* The steps of the operations that neither allocate, link nor free.
LEMMA OperationKeeps ==
    ASSUME InvType, PointerDiscipline, NEW c \in CPU, NEW p \in Pid,
           \/ Check(c, p) \/ GetOff(c, p) \/ GetRegs(c, p) \/ SetSelect(c, p)
           \/ PutRegs(c, p) \/ PutOn(c, p) \/ Copy(c, p)
    PROVE  PointerDiscipline'
<1>1. UNCHANGED Frame
  BY DEF Check, GetOff, GetRegs, SetSelect, PutRegs, PutOn, Copy, SaveRegisters,
         Frame, heap, cores, swtch
<1>2. pc[p] \in HoldingPC
  BY DEF Check, GetOff, GetRegs, SetSelect, PutRegs, PutOn, Copy, HoldingPC, NewProcPC
<1>3. \/ Return(p)
      \/ \E label \in HoldingPC \ {"np_copy", "np_insert"} : Step(p, label)
  BY DEF Check, GetOff, GetRegs, SetSelect, PutRegs, PutOn, Copy, UnlessOwn, AfterGet,
         AfterPut, HoldingPC, NewProcPC
<1>4. QED
  BY <1>1, <1>2, <1>3, HoldStep, ReturnKeeps

\* enable_lbr: the new state is private until it is linked, and is the
\* caller's own.
LEMMA EnableKeeps ==
    ASSUME InvType, EnablesItself, PointerDiscipline, NEW c \in CPU, NEW p \in Pid,
           Alloc(c, p) \/ Insert(c, p)
    PROVE  PointerDiscipline'
<1> USE PartsOfTypes
<1>1. UNCHANGED <<cores, swtch>>
  BY DEF Alloc, Insert
<1>2. OnePlace'
  BY <1>1 DEF PointerDiscipline, OnePlace, cores, swtch
<1>3. CASE Alloc(c, p)
  <2>1. CASE Return(p) /\ UNCHANGED heap
    BY <1>1, <2>1, ReturnKeeps DEF Frame, heap, cores, swtch
  <2>2. ASSUME NEW o \in Obj,
               Create(o),
               statePid' = [statePid EXCEPT ![o] =
                              IF req[p].pid # NoPid THEN req[p].pid ELSE p],
               ptr' = [ptr EXCEPT ![p] = o],
               Goto(p, "insert"),
               UNCHANGED <<listed, child>>
        PROVE  PointerDiscipline'
    <3>1. o \notin live /\ o \notin listed /\ live' = live \cup {o}
      BY <2>2 DEF Create, PointerDiscipline, ListWellFormed
    <3>2. \A x \in listed : statePid'[x] = statePid[x]
      BY <2>2, <3>1 DEF HeapTypeOK
    <3>3. ListWellFormed'
      BY <2>2, <3>1 DEF PointerDiscipline, ListWellFormed
    <3>4. HeldPointers'
      BY <2>2, <3>2 DEF PointerDiscipline, HeldPointers, Goto, ProcsTypeOK, HoldingPC, NewProcPC
    <3>5. PrivatePointers'
      <4>1. Private(p)' = {o} /\ \A p2 \in Pid : p2 # p => Private(p2)' = Private(p2)
        BY <2>2 DEF Private, Goto, ProcsTypeOK
      <4>2. QED
        BY <2>2, <3>1, <4>1 DEF PointerDiscipline, PrivatePointers
    <3>6. HandlerPointers'
      BY <1>1, <2>2, <3>2 DEF PointerDiscipline, HandlerPointers, cores, swtch
    <3>7. QED
      BY <1>2, <3>3, <3>4, <3>5, <3>6 DEF PointerDiscipline
  <2>3. QED
    BY <1>3, <2>1, <2>2 DEF Alloc
<1>4. CASE Insert(c, p)
  <2>1. /\ ptr[p] \in live \ listed
        /\ listed' = listed \cup {ptr[p]}
        /\ pc[p] = "insert"
        /\ UNCHANGED <<live, statePid>>
    BY <1>4 DEF Insert, PointerDiscipline, PrivatePointers, Private
  <2>2. ListWellFormed'
    BY <2>1 DEF PointerDiscipline, ListWellFormed
  <2>3. HandlerPointers'
    BY <1>1, <2>1 DEF PointerDiscipline, HandlerPointers, cores, swtch
  <2>4. statePid[ptr[p]] = p /\ Step(p, "check")
    BY <1>4, <2>1 DEF Insert, EnablesItself
  <2>5. HeldPointers'
    BY <2>1, <2>4 DEF PointerDiscipline, HeldPointers, Step, Goto, ProcsTypeOK, HoldingPC, NewProcPC
  <2>6. \A p2 \in Pid : p2 # p => ptr[p] \notin Private(p2)
    BY <2>1 DEF PointerDiscipline, PrivatePointers, Private
  <2>7. Private(p)' = {} /\ \A p2 \in Pid : p2 # p => Private(p2)' = Private(p2)
    BY <2>4 DEF Private, Step, Goto, ProcsTypeOK
  <2>8. PrivatePointers'
    BY <2>1, <2>6, <2>7 DEF PointerDiscipline, PrivatePointers
  <2>9. QED
    BY <1>2, <2>2, <2>3, <2>5, <2>8 DEF PointerDiscipline
<1>5. QED
  BY <1>3, <1>4

\* disable_lbr: the state that is freed is the caller's own, so no other process
\* holds it; and no core switches from or to the caller, which runs here.
LEMMA RemoveKeeps ==
    ASSUME InvType, PointerDiscipline, NEW c \in CPU, NEW p \in Pid, Remove(c, p)
    PROVE  PointerDiscipline'
<1> USE PartsOfTypes
<1> DEFINE o == ptr[p]
<1>1. /\ o \in listed /\ statePid[o] = p
      /\ run[c] = p /\ at[c] = "no" /\ pc[p] = "remove"
  BY DEF Remove, Executes, PointerDiscipline, HeldPointers, HoldingPC, NewProcPC
<1>2. /\ listed' = listed \ {o} /\ live' = live \ {o}
      /\ statePid' = [statePid EXCEPT ![o] = NoPid]
      /\ Return(p)
      /\ UNCHANGED <<cores, swtch>>
  BY DEF Remove, Unlink
<1>3. OnePlace'
  BY <1>2 DEF PointerDiscipline, OnePlace, cores, swtch
<1>4. ListWellFormed'
  BY <1>2 DEF PointerDiscipline, ListWellFormed
<1>5. \A x \in listed : statePid[x] # p => x \in listed' /\ statePid'[x] = statePid[x]
  BY <1>1, <1>2 DEF HeapTypeOK
<1>6. HeldPointers'
  BY <1>2, <1>5 DEF PointerDiscipline, HeldPointers, Return, Goto, ProcsTypeOK, HoldingPC, NewProcPC
<1>7. PrivatePointers'
  <2>1. Private(p)' = {} /\ \A p2 \in Pid : p2 # p => Private(p2)' = Private(p2)
    BY <1>2 DEF Private, Return, Goto, ProcsTypeOK
  <2>2. QED
    BY <1>1, <1>2, <2>1 DEF PointerDiscipline, PrivatePointers
<1>8. HandlerPointers'
  <2>1. \A c2 \in CPU : at[c2] # "no" => run[c2] # p /\ nxt[c2] # p
    BY <1>1 DEF PointerDiscipline, OnePlace
  <2>2. QED
    BY <1>2, <1>5, <2>1 DEF PointerDiscipline, HandlerPointers, cores, swtch
<1>9. QED
  BY <1>3, <1>4, <1>6, <1>7, <1>8 DEF PointerDiscipline

\* What find_lbr_state returns.
LEMMA FoundIsListed ==
    ASSUME NEW t, NEW o, o # NoObj, Found(t, o)
    PROVE  o \in listed /\ statePid[o] = t /\ t # NoPid
BY DEF Found, Matches

\* The entry of the handlers: a self-tracing process finds its own state.
LEMMA UserKeeps ==
    ASSUME SelfTracing, InvType, PointerDiscipline, NEW c \in CPU, NEW p \in Pid,
           \/ \E cmd \in Cmds, t \in Targets[p], s \in ReqSelect : Ioctl(c, p, cmd, t, s)
           \/ \E q \in Pid, kind \in CloneKinds : Clone(c, p, q, kind)
           \/ Exit(c, p)
    PROVE  PointerDiscipline'
<1> USE PartsOfTypes
<1>1. UNCHANGED Frame /\ pc[p] = "user" /\ UNCHANGED <<listed, live, child>>
  BY DEF Ioctl, Clone, Exit, Frame, heap, cores, swtch, procs
<1>2. ASSUME NEW cmd \in Cmds, NEW t \in Targets[p], NEW s \in ReqSelect,
             Ioctl(c, p, cmd, t, s)
      PROVE  HeldPointers' /\ PrivatePointers'
  <2>1. PICK o \in Obj \cup {NoObj} :
          /\ Found(t, o)
          /\ \/ UNCHANGED procs
             \/ Goto(p, "alloc") /\ UNCHANGED <<ptr, child>>
             \/ /\ Goto(p, "check") /\ UNCHANGED child
                /\ ptr' = [ptr EXCEPT ![p] = o]
                /\ o # NoObj
    BY <1>2 DEF Ioctl, Accepts
  <2>2. o # NoObj => o \in listed /\ statePid[o] = p
    BY <2>1, FoundIsListed DEF SelfTracing
  <2>3. HeldPointers'
    BY <1>1, <2>1, <2>2
       DEF PointerDiscipline, HeldPointers, Goto, ProcsTypeOK, HoldingPC, NewProcPC, procs, Frame
  <2>4. \A p2 \in Pid : Private(p2)' = Private(p2)
    BY <1>1, <2>1 DEF Private, Goto, ProcsTypeOK, procs
  <2>5. QED
    BY <1>1, <2>3, <2>4 DEF PointerDiscipline, PrivatePointers
<1>3. ASSUME NEW q \in Pid, NEW kind \in CloneKinds, Clone(c, p, q, kind)
      PROVE  HeldPointers' /\ PrivatePointers'
  <2>0. pc[q] = "none" /\ p # q
    BY <1>1, <1>3 DEF Clone
  <2>1. PICK o \in Obj \cup {NoObj} :
          /\ NoThreads => Found(p, o)
          /\ \/ Goto(q, "user") /\ UNCHANGED <<req, ptr>>
             \/ /\ pc' = [pc EXCEPT ![p] = "np_alloc", ![q] = "new"]
                /\ ptr' = [ptr EXCEPT ![p] = o]
                /\ o # NoObj
    BY <1>3 DEF Clone, NoThreads
  <2>2. NoThreads /\ o # NoObj => o \in listed /\ statePid[o] = p
    BY <2>1, FoundIsListed
  <2>3. HeldPointers'
    BY <1>1, <2>0, <2>1, <2>2
       DEF PointerDiscipline, HeldPointers, Goto, ProcsTypeOK, HoldingPC, NewProcPC, Frame
  <2>4. \A p2 \in Pid : Private(p2)' = Private(p2)
    BY <1>1, <2>0, <2>1 DEF Private, Goto, ProcsTypeOK
  <2>5. QED
    BY <1>1, <2>3, <2>4 DEF PointerDiscipline, PrivatePointers
<1>4. Exit(c, p) => HeldPointers' /\ PrivatePointers'
  <2>1. Exit(c, p) => HeldPointers'
    BY <1>1 DEF Exit, PointerDiscipline, HeldPointers, Goto, ProcsTypeOK, HoldingPC, NewProcPC, Frame
  <2>2. Exit(c, p) => \A p2 \in Pid : Private(p2)' = Private(p2)
    BY <1>1 DEF Exit, Private, Goto, ProcsTypeOK
  <2>3. QED
    BY <1>1, <2>1, <2>2 DEF PointerDiscipline, PrivatePointers
<1>5. QED
  BY <1>1, <1>2, <1>3, <1>4, FrameKeeps DEF PointerDiscipline

LEMMA NewProcReturnKeeps ==
    ASSUME InvType, NEW p \in Pid, NewProcReturn(p)
    PROVE  /\ Private(p)' = {}
           /\ \A p2 \in Pid : Private(p2)' \subseteq Private(p2)
           /\ \A p2 \in Pid : pc'[p2] \in HoldingPC =>
                 pc[p2] \in HoldingPC /\ ptr'[p2] = ptr[p2]
<1> USE PartsOfTypes
<1>1. \A p2 \in Pid : pc'[p2] = "user" \/ (p2 # p /\ pc'[p2] = pc[p2])
  BY DEF NewProcReturn, ProcsTypeOK
<1>2. pc'[p] = "user"
  BY DEF NewProcReturn, ProcsTypeOK
<1>3. \A p2 \in Pid : p2 # p => ptr'[p2] = ptr[p2] /\ child'[p2] = child[p2]
  BY DEF NewProcReturn, ProcsTypeOK
<1>4. QED
  BY <1>1, <1>2, <1>3 DEF Private, HoldingPC, NewProcPC

\* lbr_newproc_handler: the child's state is private until it is linked.
LEMMA NewProcKeeps ==
    ASSUME InvType, PointerDiscipline, NEW c \in CPU, NEW p \in Pid,
           NewProcAlloc(c, p) \/ NewProcCopy(c, p) \/ NewProcInsert(c, p)
    PROVE  PointerDiscipline'
<1> USE PartsOfTypes
<1>1. UNCHANGED <<cores, swtch>>
  BY DEF NewProcAlloc, NewProcCopy, NewProcInsert
<1>2. OnePlace'
  BY <1>1 DEF PointerDiscipline, OnePlace, cores, swtch
<1>3. CASE NewProcAlloc(c, p)
  <2>1. CASE NewProcReturn(p) /\ UNCHANGED heap
    <3>1. UNCHANGED Frame
      BY <1>1, <2>1 DEF Frame, heap, cores, swtch
    <3>2. HeldPointers'
      BY <2>1, <3>1, NewProcReturnKeeps DEF PointerDiscipline, HeldPointers, Frame
    <3>3. PrivatePointers'
      BY <2>1, <3>1, NewProcReturnKeeps DEF PointerDiscipline, PrivatePointers, Frame
    <3>4. QED
      BY <3>1, <3>2, <3>3, FrameKeeps DEF PointerDiscipline
  <2>2. ASSUME NEW o \in Obj,
               Create(o),
               child' = [child EXCEPT ![p] = o],
               Goto(p, "np_copy"),
               UNCHANGED <<listed, statePid, ptr>>
        PROVE  PointerDiscipline'
    <3>1. o \notin live /\ o \notin listed /\ live' = live \cup {o} /\ pc[p] = "np_alloc"
      BY <1>3, <2>2 DEF NewProcAlloc, Create, PointerDiscipline, ListWellFormed
    <3>2. ListWellFormed'
      BY <2>2, <3>1 DEF PointerDiscipline, ListWellFormed
    <3>3. HeldPointers'
      BY <2>2, <3>1 DEF PointerDiscipline, HeldPointers, Goto, ProcsTypeOK, HoldingPC, NewProcPC
    <3>4. PrivatePointers'
      <4>1. Private(p)' = {o} /\ \A p2 \in Pid : p2 # p => Private(p2)' = Private(p2)
        BY <2>2 DEF Private, Goto, ProcsTypeOK
      <4>2. QED
        BY <2>2, <3>1, <4>1 DEF PointerDiscipline, PrivatePointers
    <3>5. HandlerPointers'
      BY <1>1, <2>2 DEF PointerDiscipline, HandlerPointers, cores, swtch
    <3>6. QED
      BY <1>2, <3>2, <3>3, <3>4, <3>5 DEF PointerDiscipline
  <2>3. QED
    BY <1>3, <2>1, <2>2 DEF NewProcAlloc
<1>4. CASE NewProcCopy(c, p)
  <2>1. /\ child[p] \in live \ listed /\ pc[p] = "np_copy"
        /\ statePid' = [statePid EXCEPT ![child[p]] = ChildPid(p)]
        /\ Step(p, "np_insert")
        /\ UNCHANGED <<live, listed>>
    BY <1>4 DEF NewProcCopy, PointerDiscipline, PrivatePointers, Private
  <2>2. \A x \in listed : statePid'[x] = statePid[x]
    BY <2>1 DEF HeapTypeOK
  <2>3. ListWellFormed'
    BY <2>1 DEF PointerDiscipline, ListWellFormed
  <2>4. HeldPointers'
    BY <2>1, <2>2 DEF PointerDiscipline, HeldPointers, Step, Goto, ProcsTypeOK, HoldingPC, NewProcPC
  <2>5. PrivatePointers'
    <3>1. \A p2 \in Pid : Private(p2)' = Private(p2)
      BY <2>1 DEF Private, Step, Goto, ProcsTypeOK
    <3>2. QED
      BY <2>1, <3>1 DEF PointerDiscipline, PrivatePointers
  <2>6. HandlerPointers'
    BY <1>1, <2>1, <2>2 DEF PointerDiscipline, HandlerPointers, cores, swtch
  <2>7. QED
    BY <1>2, <2>3, <2>4, <2>5, <2>6 DEF PointerDiscipline
<1>5. CASE NewProcInsert(c, p)
  <2>1. /\ child[p] \in live \ listed /\ Private(p) = {child[p]}
        /\ listed' = listed \cup {child[p]}
        /\ NewProcReturn(p)
        /\ UNCHANGED <<live, statePid>>
    BY <1>5 DEF NewProcInsert, PointerDiscipline, PrivatePointers, Private
  <2>2. ListWellFormed'
    BY <2>1 DEF PointerDiscipline, ListWellFormed
  <2>3. HeldPointers'
    BY <2>1, NewProcReturnKeeps DEF PointerDiscipline, HeldPointers
  <2>4. PrivatePointers'
    <3>1. \A p2 \in Pid : p2 # p => child[p] \notin Private(p2)
      BY <2>1 DEF PointerDiscipline, PrivatePointers
    <3>2. QED
      BY <2>1, <3>1, NewProcReturnKeeps DEF PointerDiscipline, PrivatePointers
  <2>5. HandlerPointers'
    BY <1>1, <2>1 DEF PointerDiscipline, HandlerPointers, cores, swtch
  <2>6. QED
    BY <1>2, <2>2, <2>3, <2>4, <2>5 DEF PointerDiscipline
<1>6. QED
  BY <1>3, <1>4, <1>5

\* The context-switch handler finds the states of the two processes, and the
\* scheduler hands no process to two cores.
LEMMA CoreKeeps ==
    ASSUME InvType, PointerDiscipline, NEW c \in CPU,
           (\E n \in Tag : SwitchTo(c, n)) \/ SwitchStep(c) \/ Branch(c)
    PROVE  PointerDiscipline'
<1> USE PartsOfTypes
<1>1. UNCHANGED <<live, listed, statePid, procs>>
  BY DEF SwitchTo, SwitchStep, SwitchFind, SwitchGet, SwitchPut, Branch, SaveRegisters, heap
<1>2. ListWellFormed' /\ HeldPointers' /\ PrivatePointers'
  BY <1>1 DEF PointerDiscipline, ListWellFormed, HeldPointers, PrivatePointers, Private, procs
<1>3. ASSUME NEW n \in Tag, SwitchTo(c, n)  PROVE HandlerPointers' /\ OnePlace'
  <2>1. PICK o \in Obj \cup {NoObj} :
          /\ Found(run[c], o)
          /\ prevState' = [prevState EXCEPT ![c] = o]
    BY <1>3 DEF SwitchTo
  <2>2. /\ at' = [at EXCEPT ![c] = "next"] /\ nxt' = [nxt EXCEPT ![c] = n]
        /\ at[c] = "no" /\ n \in Runnable /\ n # run[c]
        /\ UNCHANGED <<run, nextState>>
    BY <1>3 DEF SwitchTo, cores
  <2>3. HandlerPointers'
    BY <1>1, <2>1, <2>2, FoundIsListed DEF PointerDiscipline, HandlerPointers, SwitchTypeOK
  <2>4. n \in Pid => \A c2 \in CPU : run[c2] # n /\ (at[c2] # "no" => nxt[c2] # n)
    BY <2>2 DEF Runnable, OnCore
  <2>5. OnePlace'
    BY <2>2, <2>4 DEF PointerDiscipline, OnePlace, SwitchTypeOK
  <2>6. QED
    BY <2>3, <2>5
<1>4. CASE SwitchFind(c)
  <2>1. PICK o \in Obj \cup {NoObj} :
          /\ Found(nxt[c], o)
          /\ nextState' = [nextState EXCEPT ![c] = o]
    BY <1>4 DEF SwitchFind
  <2>2. /\ at' = [at EXCEPT ![c] = IF prevState[c] # NoObj THEN "get" ELSE "put"]
        /\ at[c] = "next"
        /\ UNCHANGED <<run, nxt, prevState>>
    BY <1>4 DEF SwitchFind, cores
  <2>3. HandlerPointers'
    BY <1>1, <2>1, <2>2, FoundIsListed DEF PointerDiscipline, HandlerPointers, SwitchTypeOK
  <2>4. OnePlace'
    BY <2>2 DEF PointerDiscipline, OnePlace, SwitchTypeOK
  <2>5. QED
    BY <1>2, <2>3, <2>4 DEF PointerDiscipline
<1>5. CASE SwitchGet(c)
  <2>1. /\ at' = [at EXCEPT ![c] = "put"] /\ at[c] = "get"
        /\ UNCHANGED <<run, nxt, prevState, nextState>>
    BY <1>5 DEF SwitchGet
  <2>2. HandlerPointers'
    BY <1>1, <2>1 DEF PointerDiscipline, HandlerPointers, SwitchTypeOK
  <2>3. OnePlace'
    BY <2>1 DEF PointerDiscipline, OnePlace, SwitchTypeOK
  <2>4. QED
    BY <1>2, <2>2, <2>3 DEF PointerDiscipline
<1>6. CASE SwitchPut(c)
  <2>1. /\ run' = [run EXCEPT ![c] = nxt[c]] /\ at' = [at EXCEPT ![c] = "no"]
        /\ at[c] = "put"
        /\ nxt' = [nxt EXCEPT ![c] = NoPid]
        /\ prevState' = [prevState EXCEPT ![c] = NoObj]
        /\ nextState' = [nextState EXCEPT ![c] = NoObj]
    BY <1>6 DEF SwitchPut
  <2>2. HandlerPointers'
    BY <1>1, <2>1 DEF PointerDiscipline, HandlerPointers, SwitchTypeOK, CoresTypeOK
  <2>3. OnePlace'
    BY <2>1 DEF PointerDiscipline, OnePlace, SwitchTypeOK, CoresTypeOK
  <2>4. QED
    BY <1>2, <2>2, <2>3 DEF PointerDiscipline
<1>7. CASE Branch(c)
  BY <1>1, <1>2, <1>7 DEF Branch, PointerDiscipline, HandlerPointers, OnePlace, swtch
<1>8. QED
  BY <1>2, <1>3, <1>4, <1>5, <1>6, <1>7 DEF PointerDiscipline, SwitchStep

\* With the discipline kept, nobody is about to use a freed state.
LEMMA NoStateFault ==
    ASSUME PointerDiscipline
    PROVE  /\ \A p \in Pid : NoThreads \/ pc[p] # "np_copy" => ProcDeref(p) \subseteq live
           /\ \A c \in CPU : SwitchDeref(c) \subseteq live
<1>1. \A p \in Pid : NoThreads \/ pc[p] # "np_copy" => ProcDeref(p) \subseteq live
  BY DEF ProcDeref, PointerDiscipline, ListWellFormed, HeldPointers, HoldingPC, NewProcPC
<1>2. \A c \in CPU : SwitchDeref(c) \subseteq live
  BY DEF SwitchDeref, PointerDiscipline, ListWellFormed, HandlerPointers
<1>3. QED
  BY <1>1, <1>2

\* A step that leaves the enables in progress and their states alone.
LEMMA EnablesKept ==
    ASSUME EnablesItself,
           \A p \in Pid : pc'[p] \in {"alloc", "insert"} =>
              pc'[p] = pc[p] /\ req'[p] = req[p] /\ ptr'[p] = ptr[p],
           \A p \in Pid : pc[p] = "insert" => statePid'[ptr[p]] = statePid[ptr[p]]
    PROVE  EnablesItself'
BY DEF EnablesItself

\* Requests name their sender, and nobody else writes to a private state.
LEMMA EnablesItselfStep ==
    ASSUME SelfTracing, InvType, EnablesItself, PointerDiscipline, [Next]_vars
    PROVE  EnablesItself'
<1> USE PartsOfTypes
<1>1. ASSUME NEW c \in CPU, NEW p \in Pid, NEW cmd \in Cmds, NEW t \in Targets[p],
             NEW s \in ReqSelect, Ioctl(c, p, cmd, t, s)
      PROVE  EnablesItself'
  <2>1. /\ UNCHANGED statePid
        /\ \/ UNCHANGED procs
           \/ /\ Goto(p, "alloc") /\ UNCHANGED ptr
              /\ req' = [req EXCEPT ![p] = [cmd |-> cmd, pid |-> t, sel |-> s]]
           \/ /\ Goto(p, "check")
              /\ req' = [req EXCEPT ![p] = [cmd |-> cmd, pid |-> t, sel |-> s]]
              /\ \E o \in Obj \cup {NoObj} : ptr' = [ptr EXCEPT ![p] = o]
    BY <1>1 DEF Ioctl, heap
  <2>2. t \in {p, NoPid}
    BY DEF SelfTracing
  <2>3. QED
    BY <2>1, <2>2 DEF EnablesItself, Goto, ProcsTypeOK, procs
<1>2. ASSUME NEW c \in CPU, NEW p \in Pid, Alloc(c, p)
      PROVE  EnablesItself'
  <2>1. CASE Return(p) /\ UNCHANGED heap
    BY <2>1, EnablesKept DEF Return, Goto, ProcsTypeOK, heap
  <2>2. ASSUME NEW o \in Obj,
               Create(o),
               statePid' = [statePid EXCEPT ![o] =
                              IF req[p].pid # NoPid THEN req[p].pid ELSE p],
               ptr' = [ptr EXCEPT ![p] = o],
               Goto(p, "insert"),
               UNCHANGED req
        PROVE  EnablesItself'
    <3>1. statePid'[o] = p
      BY <1>2, <2>2 DEF Alloc, EnablesItself, HeapTypeOK
    <3>2. \A x \in Pid : pc[x] = "insert" => ptr[x] # o
      BY <2>2 DEF Create, PointerDiscipline, PrivatePointers, Private
    <3>3. pc'[p] = "insert" /\ ptr'[p] = o
      BY <2>2 DEF Goto, ProcsTypeOK
    <3>4. \A x \in Pid : x # p => pc'[x] = pc[x] /\ ptr'[x] = ptr[x]
      BY <2>2 DEF Goto, ProcsTypeOK
    <3>5. \A x \in Pid : pc[x] = "insert" => statePid'[ptr[x]] = statePid[ptr[x]]
      BY <2>2, <3>2 DEF HeapTypeOK, PointerDiscipline, PrivatePointers, Private
    <3>6. QED
      BY <2>2, <3>1, <3>3, <3>4, <3>5 DEF EnablesItself
  <2>3. QED
    BY <1>2, <2>1, <2>2 DEF Alloc
<1>3. ASSUME NEW c \in CPU, NEW p \in Pid,
             \/ Insert(c, p) \/ Check(c, p) \/ GetOff(c, p) \/ GetRegs(c, p)
             \/ SetSelect(c, p) \/ PutRegs(c, p) \/ PutOn(c, p) \/ Copy(c, p)
             \/ Exit(c, p)
      PROVE  EnablesItself'
  <2>1. UNCHANGED statePid
    BY <1>3 DEF Insert, Check, GetOff, GetRegs, SetSelect, PutRegs, PutOn, Copy, Exit,
         SaveRegisters, heap
  <2>2. \/ Return(p)
        \/ \E label \in PC \ {"alloc", "insert"} : Step(p, label)
        \/ Goto(p, "none") /\ UNCHANGED <<req, ptr>>
    BY <1>3 DEF Insert, Check, GetOff, GetRegs, SetSelect, PutRegs, PutOn, Copy, Exit,
         UnlessOwn, AfterGet, AfterPut, PC, IoctlPC
  <2>3. \A x \in Pid : pc'[x] \in {"alloc", "insert"} =>
           pc'[x] = pc[x] /\ req'[x] = req[x] /\ ptr'[x] = ptr[x]
    BY <2>2 DEF Return, Step, Goto, ProcsTypeOK
  <2>4. QED
    BY <2>1, <2>3, EnablesKept
<1>4. ASSUME NEW c \in CPU, NEW p \in Pid, Remove(c, p)
      PROVE  EnablesItself'
  <2>1. /\ statePid' = [statePid EXCEPT ![ptr[p]] = NoPid]
        /\ Return(p)
        /\ ptr[p] \in listed
    BY <1>4 DEF Remove, PointerDiscipline, HeldPointers, HoldingPC, NewProcPC
  <2>2. \A x \in Pid : pc[x] = "insert" => statePid'[ptr[x]] = statePid[ptr[x]]
    BY <2>1 DEF PointerDiscipline, PrivatePointers, Private, HeapTypeOK
  <2>3. \A x \in Pid : pc'[x] \in {"alloc", "insert"} =>
           pc'[x] = pc[x] /\ req'[x] = req[x] /\ ptr'[x] = ptr[x]
    BY <2>1 DEF Return, Goto, ProcsTypeOK
  <2>4. QED
    BY <2>2, <2>3, EnablesKept
<1>5. ASSUME NEW c \in CPU, NEW p \in Pid,
             NewProcAlloc(c, p) \/ NewProcCopy(c, p) \/ NewProcInsert(c, p)
      PROVE  EnablesItself'
  <2>1. \A x \in Pid : pc'[x] \in {"alloc", "insert"} =>
           pc'[x] = pc[x] /\ req'[x] = req[x] /\ ptr'[x] = ptr[x]
    BY <1>5 DEF NewProcAlloc, NewProcCopy, NewProcInsert, NewProcReturn, Step, Goto, ProcsTypeOK
  <2>2. CASE NewProcCopy(c, p)
    <3>1. /\ statePid' = [statePid EXCEPT ![child[p]] = ChildPid(p)]
          /\ Private(p) = {child[p]} /\ pc[p] # "insert"
      BY <2>2 DEF NewProcCopy, Private
    <3>2. \A x \in Pid : pc[x] = "insert" => ptr[x] \in Obj /\ ptr[x] # child[p]
      BY <3>1 DEF PointerDiscipline, PrivatePointers, Private, HeapTypeOK
    <3>3. \A x \in Pid : pc[x] = "insert" => statePid'[ptr[x]] = statePid[ptr[x]]
      BY <3>1, <3>2 DEF HeapTypeOK
    <3>4. QED
      BY <2>1, <3>3, EnablesKept
  <2>3. CASE ~NewProcCopy(c, p)
    <3>1. UNCHANGED statePid
      BY <1>5, <2>3 DEF NewProcAlloc, NewProcInsert, heap
    <3>2. QED
      BY <2>1, <3>1, EnablesKept
  <2>4. QED
    BY <2>2, <2>3
<1>6. ASSUME NEW c \in CPU, NEW p \in Pid, NEW q \in Pid, NEW kind \in CloneKinds,
             Clone(c, p, q, kind)
      PROVE  EnablesItself'
  <2>1. UNCHANGED statePid
    BY <1>6 DEF Clone, heap
  <2>2. \/ Goto(q, "user") /\ UNCHANGED <<req, ptr>>
        \/ /\ pc' = [pc EXCEPT ![p] = "np_alloc", ![q] = "new"]
           /\ req' = [req EXCEPT ![p] = [cmd |-> "newproc", pid |-> q, sel |-> 0]]
           /\ \E o \in Obj \cup {NoObj} : ptr' = [ptr EXCEPT ![p] = o]
    BY <1>6 DEF Clone
  <2>3. \A x \in Pid : pc'[x] \in {"alloc", "insert"} =>
           pc'[x] = pc[x] /\ req'[x] = req[x] /\ ptr'[x] = ptr[x]
    BY <2>2 DEF Goto, ProcsTypeOK
  <2>4. QED
    BY <2>1, <2>3, EnablesKept
<1>7. ASSUME UNCHANGED <<statePid, procs>>
      PROVE  EnablesItself'
  BY <1>7, EnablesKept DEF procs
<1>8. ASSUME NEW c \in CPU, CoreStep(c)
      PROVE  UNCHANGED <<statePid, procs>>
  BY <1>8 DEF CoreStep, SwitchStep, SwitchTo, SwitchFind, SwitchGet, SwitchPut, Branch,
     SwitchFault, SaveRegisters, heap
<1>9. ASSUME NEW c \in CPU, NEW p \in Pid, ProcStep(c, p)
      PROVE  EnablesItself'
  BY <1>1, <1>2, <1>3, <1>4, <1>5, <1>6, <1>7, <1>9 DEF ProcStep, KernelStep, ProcFault, heap
<1>10. CASE UNCHANGED vars
  BY <1>7, <1>10 DEF vars, heap
<1>11. QED
  BY <1>7, <1>8, <1>9, <1>10 DEF Next

LEMMA InitInv == Init => Inv
<1> SUFFICES ASSUME Init PROVE Inv
  OBVIOUS
<1>1. InvType
  BY InitTypes
<1>2. PointerDiscipline /\ EnablesItself
  BY DEF Init, EnablesItself, PointerDiscipline, ListWellFormed, HeldPointers, PrivatePointers, Private,
         HandlerPointers, OnePlace, HoldingPC, NewProcPC
<1>3. QED
  BY <1>1, <1>2 DEF Inv, Init, NoStateUseAfterFree

LEMMA NextInv == SelfTracing /\ Inv /\ [Next]_vars => Inv'
<1> SUFFICES ASSUME SelfTracing, Inv, [Next]_vars PROVE Inv'
  OBVIOUS
<1> USE DEF Inv
<1>1. InvType' /\ EnablesItself'
  BY NextTypes, EnablesItselfStep
<1>2. ASSUME NEW c \in CPU, NEW p \in Pid, ProcStep(c, p), ~ProcFault(c, p)
      PROVE  PointerDiscipline' /\ UNCHANGED fault
  <2>1. PointerDiscipline'
    BY <1>2, EnableKeeps, OperationKeeps, RemoveKeeps, NewProcKeeps, UserKeeps
       DEF ProcStep, KernelStep
  <2>2. UNCHANGED fault
    BY <1>2 DEF ProcStep, KernelStep, Ioctl, Clone, Exit, Alloc, Insert, Check, GetOff,
         GetRegs, SetSelect, PutRegs, PutOn, Copy, Remove, NewProcAlloc, NewProcCopy,
         NewProcInsert
  <2>3. QED
    BY <2>1, <2>2
<1>3. ASSUME NEW c \in CPU, CoreStep(c), ~SwitchFault(c)
      PROVE  PointerDiscipline' /\ UNCHANGED fault
  <2>1. PointerDiscipline'
    BY <1>3, CoreKeeps DEF CoreStep
  <2>2. UNCHANGED fault
    BY <1>3 DEF CoreStep, SwitchTo, SwitchStep, SwitchFind, SwitchGet, SwitchPut, Branch
  <2>3. QED
    BY <2>1, <2>2
<1>4. ASSUME UNCHANGED <<heap, cores, swtch, procs>>
      PROVE  PointerDiscipline'
  BY <1>4 DEF heap, cores, swtch, procs, PointerDiscipline, ListWellFormed, HeldPointers,
       PrivatePointers, Private, HandlerPointers, OnePlace
<1>5. ASSUME NEW c \in CPU, NEW p \in Pid, ProcFault(c, p)
      PROVE  PointerDiscipline' /\ (NoThreads => NoStateUseAfterFree')
  BY <1>4, <1>5, NoStateFault DEF ProcFault, NoStateUseAfterFree
<1>6. ASSUME NEW c \in CPU, SwitchFault(c)
      PROVE  PointerDiscipline' /\ NoStateUseAfterFree'
  BY <1>4, <1>6, NoStateFault DEF SwitchFault, NoStateUseAfterFree
<1>7. CASE UNCHANGED vars
  BY <1>1, <1>4, <1>7 DEF vars, NoStateUseAfterFree
<1>8. QED
  BY <1>1, <1>2, <1>3, <1>5, <1>6, <1>7 DEF Next, NoStateUseAfterFree

LEMMA Invariance == SelfTracing => (Spec => []Inv)
<1> SUFFICES ASSUME SelfTracing PROVE Spec => []Inv
  OBVIOUS
<1>1. Inv /\ [Next]_vars => Inv'
  BY NextInv
<1>2. QED
  BY <1>1, InitInv, PTL DEF Spec

\* PointersStayGood: if every process traces itself, the pointers that
\* find_lbr_state hands out after releasing the lock stay good for as long as
\* the operations and the context-switch handlers use them, on any number of
\* cores, with preemption anywhere outside the spinlock, with processes and
\* threads created and terminated at any time
\* (lbr.c: find_lbr_state, remove_lbr_state, lbr_cswitch_handler).
THEOREM PointersStayGood == SelfTracing => (Spec => []PointerDiscipline)
<1>1. Inv => PointerDiscipline
  BY DEF Inv
<1>2. QED
  BY <1>1, Invariance, PTL

\* ListStaysWellFormed: then the list never links a freed state, although
\* states are linked and freed on all cores at once and new processes and
\* threads inherit them (lbr.c: insert_lbr_state, remove_lbr_state).
THEOREM ListStaysWellFormed == SelfTracing => (Spec => []ListWellFormed)
<1>1. PointerDiscipline => ListWellFormed
  BY DEF PointerDiscipline
<1>2. QED
  BY <1>1, PointersStayGood, PTL

\* NoFreedState: and if no threads are created either, nobody uses a freed
\* lbr_state; the creator of a thread copies a state that its owner, on another
\* core, may be freeing (lbr.c: lbr_newproc_handler).
THEOREM NoFreedState == SelfTracing /\ NoThreads => (Spec => []NoStateUseAfterFree)
<1> SUFFICES ASSUME SelfTracing, NoThreads PROVE Spec => []NoStateUseAfterFree
  OBVIOUS
<1>1. Inv => NoStateUseAfterFree
  BY DEF Inv
<1>2. QED
  BY <1>1, Invariance, PTL

----------------------------------------------------------------------------
(* No use of freed memory at all.                                          *)

\* A step that allocates and frees nothing keeps the blocks.
LEMMA OwnEntriesKept ==
    ASSUME OwnEntries, UNCHANGED <<live, liveEntries, entries>>,
           \A p \in Pid : pc'[p] \notin NewProcPC
    PROVE  OwnEntries'
BY DEF OwnEntries

\* No step enters lbr_newproc_handler.
LEMMA NoNewProc ==
    ASSUME NoCreation, InvType, OwnEntries, [Next]_vars
    PROVE  \A p \in Pid : pc'[p] \notin NewProcPC
<1> USE PartsOfTypes
<1>1. CASE UNCHANGED vars
  BY <1>1 DEF vars, procs, OwnEntries
<1>2. ASSUME NEW c \in CPU, CoreStep(c)
      PROVE  UNCHANGED procs
  BY <1>2 DEF CoreStep, SwitchStep, SwitchTo, SwitchFind, SwitchGet, SwitchPut, Branch, SwitchFault
<1>3. ASSUME NEW c \in CPU, NEW p \in Pid, ProcStep(c, p)
      PROVE  \/ UNCHANGED pc
             \/ \E label \in PC \ NewProcPC : Goto(p, label)
  <2>1. ASSUME NEW cmd \in Cmds, NEW t \in Targets[p], NEW s \in ReqSelect,
               Ioctl(c, p, cmd, t, s)
        PROVE  UNCHANGED pc \/ Goto(p, "alloc") \/ Goto(p, "check")
    BY <2>1 DEF Ioctl, procs
  <2>2. CASE Alloc(c, p)
    BY <2>2 DEF Alloc, Return, PC, IoctlPC, NewProcPC
  <2>3. CASE Insert(c, p) \/ Check(c, p) \/ GetOff(c, p) \/ GetRegs(c, p)
    BY <2>3 DEF Insert, Check, GetOff, GetRegs, UnlessOwn, AfterGet, Step, Return, PC, IoctlPC, NewProcPC
  <2>4. CASE SetSelect(c, p) \/ PutRegs(c, p) \/ PutOn(c, p) \/ Copy(c, p) \/ Remove(c, p)
    BY <2>4 DEF SetSelect, PutRegs, PutOn, AfterPut, Copy, Remove, Step, Return, PC, IoctlPC,
         NewProcPC
  <2>5. ~(NewProcAlloc(c, p) \/ NewProcCopy(c, p) \/ NewProcInsert(c, p))
    BY DEF NewProcAlloc, NewProcCopy, NewProcInsert, OwnEntries, NewProcPC
  <2>6. Exit(c, p) => Goto(p, "none")
    BY DEF Exit
  <2>7. ProcFault(c, p) => UNCHANGED pc
    BY DEF ProcFault, procs
  <2>8. \A q \in Pid, kind \in CloneKinds : ~Clone(c, p, q, kind)
    BY DEF NoCreation
  <2>9. QED
    BY <1>3, <2>1, <2>2, <2>3, <2>4, <2>5, <2>6, <2>7, <2>8
       DEF ProcStep, KernelStep, PC, IoctlPC, NewProcPC
<1>4. QED
  BY <1>1, <1>2, <1>3 DEF Next, Goto, ProcsTypeOK, OwnEntries, procs

\* Allocation and removal take and give back a state with its own block.
LEMMA OwnEntriesStep ==
    ASSUME NoCreation, InvType, OwnEntries, [Next]_vars
    PROVE  OwnEntries'
<1> USE PartsOfTypes
<1>1. \A p \in Pid : pc'[p] \notin NewProcPC
  BY NoNewProc
<1>2. ASSUME NEW c \in CPU, NEW p \in Pid, Alloc(c, p)
      PROVE  OwnEntries'
  <2>1. CASE UNCHANGED heap
    BY <1>1, <2>1, OwnEntriesKept DEF heap
  <2>2. ASSUME NEW o \in Obj, Create(o)  PROVE OwnEntries'
    BY <1>1, <2>2 DEF Create, OwnEntries, HeapTypeOK
  <2>3. QED
    BY <1>2, <2>1, <2>2 DEF Alloc
<1>3. ASSUME NEW c \in CPU, NEW p \in Pid, Remove(c, p)
      PROVE  OwnEntries'
  <2>1. entries[ptr[p]] = ptr[p]
    BY <1>3 DEF Remove, Usable, OwnEntries
  <2>2. QED
    BY <1>1, <1>3, <2>1 DEF Remove, OwnEntries, HeapTypeOK
<1>4. ASSUME NEW c \in CPU, NEW p \in Pid, ProcStep(c, p), ~Alloc(c, p), ~Remove(c, p)
      PROVE  UNCHANGED <<live, liveEntries, entries>>
  <2>1. ~(NewProcAlloc(c, p) \/ NewProcCopy(c, p) \/ NewProcInsert(c, p))
    BY DEF NewProcAlloc, NewProcCopy, NewProcInsert, OwnEntries, NewProcPC
  <2>2. QED
    BY <1>4, <2>1 DEF ProcStep, KernelStep, Ioctl, Insert, Check, GetOff, GetRegs, SetSelect,
       PutRegs, PutOn, Copy, Clone, Exit, ProcFault, SaveRegisters, heap
<1>5. ASSUME NEW c \in CPU, CoreStep(c)
      PROVE  UNCHANGED <<live, liveEntries, entries>>
  BY <1>5 DEF CoreStep, SwitchStep, SwitchTo, SwitchFind, SwitchGet, SwitchPut, Branch,
       SwitchFault, SaveRegisters, heap
<1>6. CASE UNCHANGED vars
  BY <1>1, <1>6, OwnEntriesKept DEF vars, heap
<1>7. QED
  BY <1>1, <1>2, <1>3, <1>4, <1>5, <1>6, OwnEntriesKept DEF Next

\* A step can only find memory freed that is.
LEMMA NoFaultStep ==
    ASSUME NoCreation, PointerDiscipline, OwnEntries, NoUseAfterFree, [Next]_vars
    PROVE  NoUseAfterFree'
<1>1. \A p \in Pid : ProcDeref(p) \subseteq live /\ ProcDerefEntries(p) \subseteq ProcDeref(p)
  BY NoStateFault DEF ProcDeref, ProcDerefEntries, NoCreation, NoThreads
<1>2. \A c \in CPU, p \in Pid : ~ProcFault(c, p)
  BY <1>1 DEF ProcFault, OwnEntries
<1>3. \A c \in CPU : ~SwitchFault(c)
  BY NoStateFault DEF SwitchFault, OwnEntries
<1>4. ASSUME NEW c \in CPU, NEW p \in Pid, ProcStep(c, p)
      PROVE  UNCHANGED fault
  BY <1>2, <1>4 DEF ProcStep, KernelStep, Ioctl, Clone, Exit, Alloc, Insert, Check, GetOff,
     GetRegs, SetSelect, PutRegs, PutOn, Copy, Remove, NewProcAlloc, NewProcCopy, NewProcInsert
<1>5. ASSUME NEW c \in CPU, CoreStep(c)
      PROVE  UNCHANGED fault
  BY <1>3, <1>5 DEF CoreStep, SwitchTo, SwitchStep, SwitchFind, SwitchGet, SwitchPut, Branch
<1>6. QED
  BY <1>4, <1>5 DEF Next, NoUseAfterFree, vars

\* MemorySafe: if every process traces itself and no process is created,
\* no handler ever uses a freed state or a freed entries block
\* (lbr.c: get_lbr, put_lbr, dump_lbr, remove_lbr_state).
THEOREM MemorySafe ==
    SelfTracing /\ NoCreation => (Spec => []NoUseAfterFree)
<1> SUFFICES ASSUME SelfTracing, NoCreation
             PROVE  Spec => []NoUseAfterFree
  OBVIOUS
<1>1. Init => OwnEntries /\ NoUseAfterFree
  BY DEF Init, OwnEntries, NoUseAfterFree, NewProcPC
<1>2. Inv /\ OwnEntries /\ NoUseAfterFree /\ [Next]_vars
      => Inv' /\ OwnEntries' /\ NoUseAfterFree'
  BY NextInv, OwnEntriesStep, NoFaultStep DEF Inv
<1>3. QED
  BY <1>1, <1>2, InitInv, PTL DEF Spec

----------------------------------------------------------------------------
(* One state per process.                                                  *)

\* No process begins to enable, to inherit or to be created, and none ends
\* unless processes may.
PhasesKept ==
    \A x \in Pid :
        /\ pc'[x] \in {"alloc", "insert"} \cup NewProcPC =>
              pc'[x] = pc[x] /\ req'[x] = req[x] /\ ptr'[x] = ptr[x] /\ child'[x] = child[x]
        /\ pc[x] = "new" <=> pc'[x] = "new"
        /\ pc'[x] = "none" => pc[x] = "none" \/ Exits

\* Then, if the list is left alone too, all is kept.
LEMMA OneStateKept ==
    ASSUME InvOneState, UNCHANGED <<listed, statePid>>, PhasesKept
    PROVE  InvOneState'
<1>1. \A x \in Pid : Traced(x)' = Traced(x)
  BY DEF Traced, Matches
<1>2. EnablingIsUntraced'
  BY <1>1 DEF InvOneState, EnablingIsUntraced, PhasesKept
<1>3. InheritingIsNew'
  BY <1>1 DEF InvOneState, InheritingIsNew, PhasesKept, NewProcPC
<1>4. QED
  BY <1>2, <1>3 DEF InvOneState, OneStatePerPid

\* The steps that leave the list alone and do not lead to a new phase.
LEMMA OtherOneState ==
    ASSUME InvType, InvOneState, NEW c \in CPU, NEW p \in Pid,
           \/ Check(c, p) \/ GetOff(c, p) \/ GetRegs(c, p) \/ SetSelect(c, p)
           \/ PutRegs(c, p) \/ PutOn(c, p) \/ Copy(c, p) \/ Exit(c, p) \/ ProcFault(c, p)
           \/ CoreStep(c) \/ UNCHANGED vars
    PROVE  InvOneState'
<1> USE PartsOfTypes
<1>1. UNCHANGED <<listed, statePid>>
  BY DEF Check, GetOff, GetRegs, SetSelect, PutRegs, PutOn, Copy, Exit, ProcFault, CoreStep,
     SwitchStep, SwitchTo, SwitchFind, SwitchGet, SwitchPut, Branch, SwitchFault,
     SaveRegisters, heap, vars
<1>2. \/ UNCHANGED procs
      \/ pc[p] \in IoctlPC /\ Return(p)
      \/ pc[p] \in IoctlPC /\ \E label \in IoctlPC \ {"alloc", "insert"} : Step(p, label)
      \/ pc[p] = "user" /\ Goto(p, "none") /\ Exits /\ UNCHANGED <<req, ptr, child>>
  BY DEF Check, GetOff, GetRegs, SetSelect, PutRegs, PutOn, Copy, Exit, ProcFault, CoreStep,
     SwitchStep, SwitchTo, SwitchFind, SwitchGet, SwitchPut, Branch, SwitchFault, vars,
     UnlessOwn, AfterGet, AfterPut, IoctlPC
<1>3. PhasesKept
  BY <1>2 DEF PhasesKept, Return, Step, Goto, ProcsTypeOK, procs, IoctlPC, NewProcPC
<1>4. QED
  BY <1>1, <1>3, OneStateKept

\* The look-up of enable_lbr found nothing, and only its caller can change that.
LEMMA IoctlOneState ==
    ASSUME NoZero, InvType, InvOneState, NEW c \in CPU, NEW p \in Pid,
           NEW cmd \in Cmds, NEW t \in Targets[p], NEW s \in ReqSelect,
           Ioctl(c, p, cmd, t, s)
    PROVE  InvOneState'
<1> USE PartsOfTypes
<1>1. t = p
  BY DEF NoZero
<1>2. PICK o \in Obj \cup {NoObj} :
        /\ Found(p, o)
        /\ \/ UNCHANGED procs
           \/ /\ o = NoObj
              /\ Goto(p, "alloc")
              /\ req' = [req EXCEPT ![p] = [cmd |-> cmd, pid |-> p, sel |-> s]]
              /\ UNCHANGED <<ptr, child>>
           \/ /\ Goto(p, "check")
              /\ req' = [req EXCEPT ![p] = [cmd |-> cmd, pid |-> p, sel |-> s]]
              /\ ptr' = [ptr EXCEPT ![p] = o]
              /\ UNCHANGED child
  BY <1>1 DEF Ioctl, Accepts
<1>3. UNCHANGED <<listed, statePid>> /\ pc[p] = "user"
  BY DEF Ioctl, heap
<1>4. CASE UNCHANGED procs
  BY <1>3, <1>4, OneStateKept DEF procs, PhasesKept
<1>5. CASE /\ o = NoObj
           /\ Goto(p, "alloc")
           /\ req' = [req EXCEPT ![p] = [cmd |-> cmd, pid |-> p, sel |-> s]]
           /\ UNCHANGED <<ptr, child>>
  <2>1. ~Traced(p)
    BY <1>2, <1>5, LbrAssumption DEF Found, Traced, Matches, HeapTypeOK
  <2>2. \A x \in Pid : Traced(x)' = Traced(x)
    BY <1>3 DEF Traced, Matches
  <2>3. pc'[p] = "alloc" /\ req'[p].pid = p
    BY <1>5 DEF Goto, ProcsTypeOK
  <2>4. \A x \in Pid : x # p =>
           pc'[x] = pc[x] /\ req'[x] = req[x] /\ ptr'[x] = ptr[x] /\ child'[x] = child[x]
    BY <1>5 DEF Goto, ProcsTypeOK
  <2>5. EnablingIsUntraced'
    BY <1>3, <2>1, <2>2, <2>3, <2>4 DEF InvOneState, EnablingIsUntraced
  <2>6. InheritingIsNew'
    BY <1>3, <2>2, <2>3, <2>4 DEF InvOneState, InheritingIsNew, NewProcPC
  <2>7. QED
    BY <1>3, <2>5, <2>6 DEF InvOneState, OneStatePerPid
<1>6. CASE /\ Goto(p, "check")
           /\ req' = [req EXCEPT ![p] = [cmd |-> cmd, pid |-> p, sel |-> s]]
           /\ ptr' = [ptr EXCEPT ![p] = o]
           /\ UNCHANGED child
  BY <1>3, <1>6, OneStateKept DEF Goto, ProcsTypeOK, PhasesKept, NewProcPC
<1>7. QED
  BY <1>2, <1>4, <1>5, <1>6

\* The new state gets its creator's pid and is the only one with it.
LEMMA EnableOneState ==
    ASSUME InvType, PointerDiscipline, InvOneState, NEW c \in CPU, NEW p \in Pid,
           Alloc(c, p) \/ Insert(c, p)
    PROVE  InvOneState'
<1> USE PartsOfTypes
<1>1. CASE Alloc(c, p)
  <2>1. CASE Return(p) /\ UNCHANGED heap
    BY <1>1, <2>1, OneStateKept
       DEF Alloc, Return, Goto, ProcsTypeOK, heap, PhasesKept, NewProcPC
  <2>2. ASSUME NEW o \in Obj,
               Create(o),
               statePid' = [statePid EXCEPT ![o] =
                              IF req[p].pid # NoPid THEN req[p].pid ELSE p],
               ptr' = [ptr EXCEPT ![p] = o],
               Goto(p, "insert"),
               UNCHANGED <<listed, req, child>>
        PROVE  InvOneState'
    <3>1. o \notin listed /\ pc[p] = "alloc"
      BY <1>1, <2>2 DEF Alloc, Create, PointerDiscipline, ListWellFormed
    <3>2. \A x \in listed : statePid'[x] = statePid[x]
      BY <2>2, <3>1 DEF HeapTypeOK
    <3>3. statePid'[o] = p
      BY <2>2, <3>1 DEF InvOneState, EnablingIsUntraced, HeapTypeOK
    <3>4. \A x \in Pid : Traced(x)' = Traced(x)
      BY <2>2, <3>2 DEF Traced, Matches
    <3>5. OneStatePerPid'
      BY <2>2, <3>2 DEF InvOneState, OneStatePerPid
    <3>6. \A x \in Pid : x # p => pc'[x] = pc[x] /\ ptr'[x] = ptr[x]
      BY <2>2 DEF Goto, ProcsTypeOK
    <3>7. pc'[p] = "insert" /\ ptr'[p] = o
      BY <2>2 DEF Goto, ProcsTypeOK
    <3>8. \A x \in Pid : x # p => o \notin Private(x)
      BY <2>2 DEF Create, PointerDiscipline, PrivatePointers
    <3>9. \A x \in Pid : (x # p /\ pc[x] = "insert") => statePid'[ptr[x]] = x
      BY <2>2, <3>8 DEF InvOneState, EnablingIsUntraced, HeapTypeOK, PointerDiscipline,
         PrivatePointers, Private
    <3>10. EnablingIsUntraced'
      BY <2>2, <3>1, <3>3, <3>4, <3>6, <3>7, <3>9 DEF InvOneState, EnablingIsUntraced
    <3>11. \A x \in Pid : pc[x] = "np_insert" => statePid'[child[x]] = statePid[child[x]]
      BY <2>2, <3>1, <3>8 DEF Private, HeapTypeOK, PointerDiscipline, PrivatePointers
    <3>12. InheritingIsNew'
      BY <2>2, <3>1, <3>4, <3>6, <3>7, <3>11 DEF InvOneState, InheritingIsNew, NewProcPC
    <3>13. QED
      BY <3>5, <3>10, <3>12 DEF InvOneState
  <2>3. QED
    BY <1>1, <2>1, <2>2 DEF Alloc
<1>2. CASE Insert(c, p)
  <2>1. /\ listed' = listed \cup {ptr[p]} /\ UNCHANGED statePid
        /\ statePid[ptr[p]] = p /\ ~Traced(p) /\ pc[p] = "insert"
    BY <1>2 DEF Insert, InvOneState, EnablingIsUntraced
  <2>2. \A x \in listed : statePid[x] # p
    BY <2>1, LbrAssumption DEF Traced, Matches
  <2>3. OneStatePerPid'
    BY <2>1, <2>2 DEF InvOneState, OneStatePerPid
  <2>4. \A x \in Pid : x # p => Traced(x)' = Traced(x)
    BY <2>1 DEF Traced, Matches
  <2>5. /\ pc'[p] = "check"
        /\ \A x \in Pid : x # p => pc'[x] = pc[x]
        /\ UNCHANGED <<req, ptr, child>>
    BY <1>2 DEF Insert, Step, Goto, ProcsTypeOK
  <2>6. EnablingIsUntraced'
    BY <2>1, <2>4, <2>5 DEF InvOneState, EnablingIsUntraced
  <2>7. InheritingIsNew'
    BY <2>1, <2>4, <2>5 DEF InvOneState, InheritingIsNew, NewProcPC
  <2>8. QED
    BY <2>3, <2>6, <2>7 DEF InvOneState
<1>3. QED
  BY <1>1, <1>2

LEMMA RemoveOneState ==
    ASSUME InvType, PointerDiscipline, InvOneState, NEW c \in CPU, NEW p \in Pid, Remove(c, p)
    PROVE  InvOneState'
<1> USE PartsOfTypes
<1>1. /\ listed' = listed \ {ptr[p]}
      /\ statePid' = [statePid EXCEPT ![ptr[p]] = NoPid]
      /\ Return(p) /\ pc[p] = "remove"
      /\ ptr[p] \in listed
  BY DEF Remove, Unlink, PointerDiscipline, HeldPointers, HoldingPC, NewProcPC
<1>2. \A x \in Obj \ {ptr[p]} : statePid'[x] = statePid[x]
  BY <1>1 DEF HeapTypeOK
<1>3. OneStatePerPid'
  BY <1>1, <1>2 DEF InvOneState, OneStatePerPid, HeapTypeOK
<1>4. \A x \in Pid : Traced(x)' => Traced(x)
  BY <1>1, <1>2 DEF Traced, Matches, HeapTypeOK
<1>5. /\ pc'[p] = "user" /\ UNCHANGED child
      /\ \A x \in Pid : x # p => pc'[x] = pc[x] /\ req'[x] = req[x] /\ ptr'[x] = ptr[x]
  BY <1>1 DEF Return, Goto, ProcsTypeOK
<1>6. \A x \in Pid : Private(x) \subseteq Obj \ {ptr[p]}
  BY <1>1 DEF PointerDiscipline, PrivatePointers, HeapTypeOK
<1>7. EnablingIsUntraced'
  BY <1>2, <1>4, <1>5, <1>6 DEF InvOneState, EnablingIsUntraced, Private
<1>8. InheritingIsNew'
  <2>1. \A x \in Pid : /\ pc'[x] \in NewProcPC => pc[x] \in NewProcPC /\ req'[x] = req[x]
                       /\ pc'[x] \in {"new", "none"} <=> pc[x] \in {"new", "none"}
                       /\ pc'[x] = "new" <=> pc[x] = "new"
                       /\ pc'[x] = "none" <=> pc[x] = "none"
    BY <1>1, <1>5 DEF NewProcPC
  <2>2. ASSUME NEW x \in Pid, pc'[x] = "np_insert"
        PROVE  statePid'[child'[x]] = req'[x].pid
    <3>1. x # p /\ pc[x] = "np_insert" /\ req'[x] = req[x] /\ child'[x] = child[x]
      BY <1>5, <2>2
    <3>2. child[x] \in Obj \ {ptr[p]}
      BY <1>6, <3>1 DEF Private
    <3>3. QED
      BY <1>2, <3>1, <3>2 DEF InvOneState, InheritingIsNew
  <2>3. QED
    BY <1>1, <1>4, <2>1, <2>2 DEF InvOneState, InheritingIsNew, Return
<1>9. QED
  BY <1>3, <1>7, <1>8 DEF InvOneState

\* A pid that is given to a new process has no state, as it was never used.
LEMMA CloneOneState ==
    ASSUME NoReuse, InvType, InvOneState, NEW c \in CPU, NEW p \in Pid, NEW q \in Pid,
           NEW kind \in CloneKinds, Clone(c, p, q, kind)
    PROVE  InvOneState'
<1> USE PartsOfTypes
<1>1. /\ UNCHANGED <<listed, statePid, child>>
      /\ pc[p] = "user" /\ pc[q] = "none" /\ p # q /\ ~Exits
  BY DEF Clone, heap, NoReuse, NoCreation
<1>2. \A x \in Pid : Traced(x)' = Traced(x)
  BY <1>1 DEF Traced, Matches
<1>3. CASE Goto(q, "user") /\ UNCHANGED <<req, ptr>>
  BY <1>1, <1>3, OneStateKept DEF PhasesKept, Goto, ProcsTypeOK, NewProcPC
<1>4. ASSUME pc' = [pc EXCEPT ![p] = "np_alloc", ![q] = "new"],
             req' = [req EXCEPT ![p] = [cmd |-> "newproc", pid |-> q, sel |-> 0]],
             \E o \in Obj \cup {NoObj} : ptr' = [ptr EXCEPT ![p] = o]
      PROVE  InvOneState'
  <2>1. /\ pc'[p] = "np_alloc" /\ pc'[q] = "new" /\ req'[p].pid = q
        /\ \A x \in Pid : x # p => req'[x] = req[x] /\ ptr'[x] = ptr[x]
        /\ \A x \in Pid : (x # p /\ x # q) => pc'[x] = pc[x]
    BY <1>1, <1>4 DEF ProcsTypeOK
  <2>2. EnablingIsUntraced'
    BY <1>1, <1>2, <2>1 DEF InvOneState, EnablingIsUntraced
  <2>3. InheritingIsNew'
    BY <1>1, <1>2, <2>1 DEF InvOneState, InheritingIsNew, NewProcPC
  <2>4. QED
    BY <1>1, <2>2, <2>3 DEF InvOneState, OneStatePerPid
<1>5. QED
  BY <1>3, <1>4 DEF Clone

\* When the handler of p is done, the process it created is new no more.
LEMMA NewProcReturnPhases ==
    ASSUME InvType, InvOneState, NEW p \in Pid, pc[p] \in NewProcPC, NewProcReturn(p)
    PROVE  LET q == req[p].pid IN
           /\ q \in Pid /\ pc[q] = "new" /\ q # p /\ pc'[p] = "user" /\ pc'[q] = "user"
           /\ \A x \in Pid : (x # p /\ x # q) => pc'[x] = pc[x]
           /\ \A x \in Pid : x # p =>
                 req'[x] = req[x] /\ ptr'[x] = ptr[x] /\ child'[x] = child[x]
<1> USE PartsOfTypes
<1> DEFINE q == req[p].pid
<1>1. q \in Pid /\ pc[q] = "new" /\ q # p
  BY DEF InvOneState, InheritingIsNew, NewProcPC
<1>2. QED
  BY <1>1 DEF NewProcReturn, ProcsTypeOK

\* The child's state gets the child's pid and is the only one with it.
LEMMA NewProcOneState ==
    ASSUME InvType, PointerDiscipline, InvOneState, NEW c \in CPU, NEW p \in Pid,
           NewProcAlloc(c, p) \/ NewProcCopy(c, p) \/ NewProcInsert(c, p)
    PROVE  InvOneState'
<1> USE PartsOfTypes
<1>1. CASE NewProcAlloc(c, p)
  <2>1. UNCHANGED <<listed, statePid>> /\ pc[p] = "np_alloc"
    BY <1>1 DEF NewProcAlloc, heap
  <2>2. \A x \in Pid : Traced(x)' = Traced(x)
    BY <2>1 DEF Traced, Matches
  <2>3. CASE NewProcReturn(p)
    <3>1. EnablingIsUntraced'
      BY <2>1, <2>2, <2>3, NewProcReturnPhases DEF InvOneState, EnablingIsUntraced, NewProcPC
    <3>2. InheritingIsNew'
      BY <2>1, <2>2, <2>3, NewProcReturnPhases DEF InvOneState, InheritingIsNew, NewProcPC
    <3>3. QED
      BY <2>1, <3>1, <3>2 DEF InvOneState, OneStatePerPid
  <2>4. ASSUME NEW o \in Obj,
               child' = [child EXCEPT ![p] = o], Goto(p, "np_copy"), UNCHANGED <<req, ptr>>
        PROVE  InvOneState'
    <3>1. /\ pc'[p] = "np_copy"
          /\ \A x \in Pid : x # p => pc'[x] = pc[x] /\ child'[x] = child[x]
      BY <2>4 DEF Goto, ProcsTypeOK
    <3>2. EnablingIsUntraced'
      BY <2>1, <2>2, <2>4, <3>1 DEF InvOneState, EnablingIsUntraced
    <3>3. InheritingIsNew'
      BY <2>1, <2>2, <2>4, <3>1 DEF InvOneState, InheritingIsNew, NewProcPC
    <3>4. QED
      BY <2>1, <3>2, <3>3 DEF InvOneState, OneStatePerPid
  <2>5. QED
    BY <1>1, <2>3, <2>4 DEF NewProcAlloc
<1>2. CASE NewProcCopy(c, p)
  <2>1. /\ child[p] \in live \ listed /\ pc[p] = "np_copy" /\ Private(p) = {child[p]}
        /\ statePid' = [statePid EXCEPT ![child[p]] = req[p].pid]
        /\ Step(p, "np_insert")
        /\ UNCHANGED listed
    BY <1>2 DEF NewProcCopy, ChildPid, PointerDiscipline, PrivatePointers, Private
  <2>2. /\ pc'[p] = "np_insert" /\ \A x \in Pid : x # p => pc'[x] = pc[x]
        /\ UNCHANGED <<req, ptr, child>>
    BY <2>1 DEF Step, Goto, ProcsTypeOK
  <2>3. \A x \in Obj \ {child[p]} : statePid'[x] = statePid[x]
    BY <2>1 DEF HeapTypeOK
  <2>4. statePid'[child[p]] = req[p].pid
    BY <2>1 DEF HeapTypeOK
  <2>5. listed \subseteq Obj \ {child[p]}
    BY <2>1 DEF HeapTypeOK
  <2>6. \A x \in Pid : Traced(x)' = Traced(x)
    BY <2>1, <2>3, <2>5 DEF Traced, Matches
  <2>7. \A x \in Pid : x # p => Private(x) \subseteq Obj \ {child[p]}
    BY <2>1 DEF PointerDiscipline, PrivatePointers, HeapTypeOK
  <2>8. EnablingIsUntraced'
    BY <2>1, <2>2, <2>3, <2>6, <2>7 DEF InvOneState, EnablingIsUntraced, Private
  <2>9. InheritingIsNew'
    <3>1. \A x \in Pid : /\ pc'[x] \in NewProcPC <=> pc[x] \in NewProcPC
                         /\ pc'[x] \in {"new", "none"} <=> pc[x] \in {"new", "none"}
                         /\ pc'[x] = "new" <=> pc[x] = "new"
                         /\ req'[x] = req[x]
      BY <2>1, <2>2 DEF NewProcPC
    <3>2. ASSUME NEW x \in Pid, pc'[x] = "np_insert"
          PROVE  statePid'[child'[x]] = req'[x].pid
      <4>1. CASE x = p
        BY <2>2, <2>4, <4>1
      <4>2. CASE x # p
        <5>1. pc[x] = "np_insert" /\ child[x] \in Obj \ {child[p]}
          BY <2>2, <2>7, <3>2, <4>2 DEF Private
        <5>2. QED
          BY <2>2, <2>3, <5>1 DEF InvOneState, InheritingIsNew
      <4>3. QED
        BY <4>1, <4>2
    <3>3. QED
      BY <2>6, <3>1, <3>2 DEF InvOneState, InheritingIsNew
  <2>10. OneStatePerPid'
    BY <2>1, <2>3, <2>5 DEF InvOneState, OneStatePerPid
  <2>11. QED
    BY <2>8, <2>9, <2>10 DEF InvOneState
<1>3. CASE NewProcInsert(c, p)
  <2> DEFINE q == req[p].pid
  <2>1. /\ listed' = listed \cup {child[p]} /\ UNCHANGED statePid
        /\ pc[p] = "np_insert" /\ NewProcReturn(p)
        /\ statePid[child[p]] = q /\ q \in Pid /\ pc[q] = "new" /\ ~Traced(q)
    BY <1>3 DEF NewProcInsert, InvOneState, InheritingIsNew, NewProcPC
  <2>2. \A x \in listed : statePid[x] # q
    BY <2>1, LbrAssumption DEF Traced, Matches
  <2>3. OneStatePerPid'
    BY <2>1, <2>2 DEF InvOneState, OneStatePerPid
  <2>4. \A x \in Pid : x # q => Traced(x)' = Traced(x)
    BY <2>1 DEF Traced, Matches
  <2>5. EnablingIsUntraced'
    BY <2>1, <2>4, NewProcReturnPhases DEF InvOneState, EnablingIsUntraced, NewProcPC
  <2>6. InheritingIsNew'
    BY <2>1, <2>4, NewProcReturnPhases DEF InvOneState, InheritingIsNew, NewProcPC
  <2>7. QED
    BY <2>3, <2>5, <2>6 DEF InvOneState
<1>4. QED
  BY <1>1, <1>2, <1>3

LEMMA NextOneState ==
    ASSUME NoZero, NoReuse, Inv, InvOneState, [Next]_vars
    PROVE  InvOneState'
<1> USE DEF Inv
<1>1. ASSUME NEW c \in CPU, NEW p \in Pid, ProcStep(c, p)
      PROVE  InvOneState'
  BY <1>1, IoctlOneState, EnableOneState, RemoveOneState, CloneOneState, NewProcOneState,
     OtherOneState DEF ProcStep, KernelStep
<1>2. ASSUME NEW c \in CPU, CoreStep(c)
      PROVE  InvOneState'
  <2>1. UNCHANGED <<listed, statePid, procs>>
    BY <1>2 DEF CoreStep, SwitchStep, SwitchTo, SwitchFind, SwitchGet, SwitchPut, Branch,
       SwitchFault, SaveRegisters, heap
  <2>2. QED
    BY <2>1, OneStateKept DEF procs, PhasesKept
<1>3. CASE UNCHANGED vars
  BY <1>3, OneStateKept DEF vars, heap, procs, PhasesKept
<1>4. QED
  BY <1>1, <1>2, <1>3 DEF Next

LEMMA InitOneState == Init => InvOneState
BY DEF Init, NewProcPC, InvOneState, OneStatePerPid, EnablingIsUntraced, InheritingIsNew,
       Traced, Matches
=============================================================================
