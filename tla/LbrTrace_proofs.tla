-------------------------- MODULE LbrTrace_proofs --------------------------
(* Without preemption exactly the traced processes are recorded, with their *)
(* own filter, and nobody's branches reach another process; with it a      *)
(* traced process is still recorded.  These proofs build on Lbr_proofs.      *)
EXTENDS Lbr_proofs

----------------------------------------------------------------------------
(* What a step of one process leaves to the others.                        *)

LEMMA ProcFrame ==
    ASSUME NEW c \in CPU, NEW p \in Pid, ProcStep(c, p)
    PROVE  Executes(c, p) /\ UNCHANGED <<run, swtch>>
BY DEF ProcStep, KernelStep, Ioctl, Clone, Exit, ProcFault, Alloc, Insert, Check, GetOff, GetRegs,
     SetSelect, PutRegs, PutOn, Copy, Remove, NewProcAlloc, NewProcCopy, NewProcInsert, cores

LEMMA CoresStep ==
    ASSUME InvType, NEW c \in CPU, NEW p \in Pid, ProcStep(c, p)
    PROVE  /\ lbrOn' = IF GetOff(c, p) THEN [lbrOn EXCEPT ![c] = FALSE]
                       ELSE IF PutOn(c, p) THEN [lbrOn EXCEPT ![c] = TRUE] ELSE lbrOn
           /\ PutRegs(c, p) => LoadRegisters(c, ptr[p])
           /\ ~PutRegs(c, p) => UNCHANGED <<hwSelect, stack>>
<1>1. ~(GetOff(c, p) /\ PutOn(c, p))
  BY DEF GetOff, PutOn
<1>2. QED
  BY <1>1 DEF ProcStep, KernelStep, Ioctl, Clone, Exit, ProcFault, Alloc, Insert, Check, GetOff, GetRegs,
     SetSelect, PutRegs, PutOn, Copy, Remove, NewProcAlloc, NewProcCopy, NewProcInsert, cores

\* Only a process that is being created is moved by another one.
LEMMA OthersKept ==
    ASSUME InvType, InvOneState, NEW c \in CPU, NEW p \in Pid, ProcStep(c, p),
           NEW x \in Pid \ {p}
    PROVE  /\ req'[x] = req[x] /\ ptr'[x] = ptr[x] /\ child'[x] = child[x]
           /\ \/ pc'[x] = pc[x]
              \/ pc[x] = "none" /\ pc'[x] \in {"user", "new"} /\ ~OnCore(x)
              \/ pc[x] = "new" /\ pc'[x] = "user"
<1> USE PartsOfTypes
<1> DEFINE Same == req'[x] = req[x] /\ ptr'[x] = ptr[x] /\ child'[x] = child[x]
<1>1. ASSUME NEW cmd \in Cmds, NEW t \in Targets[p], NEW s \in ReqSelect,
             Ioctl(c, p, cmd, t, s)
      PROVE  Same /\ pc'[x] = pc[x]
  BY <1>1 DEF Ioctl, procs, Goto, ProcsTypeOK
<1>2. ASSUME \/ Alloc(c, p) \/ Insert(c, p) \/ Check(c, p) \/ GetOff(c, p) \/ GetRegs(c, p)
             \/ SetSelect(c, p) \/ PutRegs(c, p) \/ PutOn(c, p) \/ Copy(c, p) \/ Remove(c, p)
      PROVE  Same /\ pc'[x] = pc[x]
  BY <1>2 DEF Alloc, Insert, Check, GetOff, GetRegs, SetSelect, PutRegs, PutOn, AfterPut, Copy,
       Remove, Step, Return, Goto, ProcsTypeOK
<1>3. CASE NewProcAlloc(c, p) \/ NewProcCopy(c, p) \/ NewProcInsert(c, p)
  <2>1. CASE NewProcReturn(p) /\ pc[p] \in NewProcPC
    BY <2>1, NewProcReturnPhases
  <2>2. CASE (Goto(p, "np_copy") \/ Goto(p, "np_insert")) /\ UNCHANGED <<req, ptr>>
              /\ \A y \in Pid \ {p} : child'[y] = child[y]
    BY <2>2 DEF Goto, ProcsTypeOK
  <2>3. QED
    BY <1>3, <2>1, <2>2
       DEF NewProcAlloc, NewProcCopy, NewProcInsert, Step, NewProcPC, ProcsTypeOK
<1>4. ASSUME NEW q \in Pid, NEW kind \in CloneKinds, Clone(c, p, q, kind)
      PROVE  /\ Same
             /\ \/ pc'[x] = pc[x]
                \/ pc[x] = "none" /\ pc'[x] \in {"user", "new"} /\ ~OnCore(x)
  BY <1>4 DEF Clone, Goto, ProcsTypeOK
<1>5. CASE Exit(c, p)
  BY <1>5 DEF Exit, Goto, ProcsTypeOK
<1>6. CASE ProcFault(c, p)
  BY <1>6 DEF ProcFault, procs
<1>7. QED
  BY <1>1, <1>2, <1>3, <1>4, <1>5, <1>6 DEF ProcStep, KernelStep

LEMMA OwnNotNew ==
    ASSUME InvType, InvOneState, NEW c \in CPU, NEW p \in Pid, ProcStep(c, p)
    PROVE  pc'[p] # "new"
<1> USE PartsOfTypes
<1>1. pc[p] # "new"
  BY DEF ProcStep, KernelStep, Ioctl, Clone, Exit, ProcFault, ProcDeref, ProcDerefEntries, Alloc,
     Insert, Check, GetOff, GetRegs, SetSelect, PutRegs, PutOn, Copy, Remove, NewProcAlloc, NewProcCopy, NewProcInsert
<1>2. CASE \/ Alloc(c, p) \/ Insert(c, p) \/ Check(c, p) \/ GetOff(c, p) \/ GetRegs(c, p)
           \/ SetSelect(c, p) \/ PutRegs(c, p) \/ PutOn(c, p) \/ Copy(c, p) \/ Remove(c, p)
  BY <1>2 DEF Alloc, Insert, Check, UnlessOwn, GetOff, GetRegs, AfterGet, SetSelect, PutRegs,
       PutOn, AfterPut, Copy, Remove, Step, Return, Goto, ProcsTypeOK
<1>3. CASE NewProcAlloc(c, p) \/ NewProcCopy(c, p) \/ NewProcInsert(c, p)
  BY <1>3, NewProcReturnPhases
     DEF NewProcAlloc, NewProcCopy, NewProcInsert, NewProcPC, Step, Goto, ProcsTypeOK
<1>4. ASSUME NEW q \in Pid, NEW kind \in CloneKinds, Clone(c, p, q, kind)
      PROVE  pc'[p] # "new"
  BY <1>4 DEF Clone, Goto, ProcsTypeOK
<1>5. CASE Exit(c, p)
  BY <1>5 DEF Exit, Goto, ProcsTypeOK
<1>6. CASE ProcFault(c, p)
  BY <1>1, <1>6 DEF ProcFault, procs
<1>7. ASSUME NEW cmd \in Cmds, NEW t \in Targets[p], NEW s \in ReqSelect, Ioctl(c, p, cmd, t, s)
      PROVE  pc'[p] # "new"
  BY <1>1, <1>7 DEF Ioctl, procs, Goto, ProcsTypeOK
<1>8. QED
  BY <1>2, <1>3, <1>4, <1>5, <1>6, <1>7 DEF ProcStep, KernelStep

----------------------------------------------------------------------------
(* The request a process is at work on.                                    *)

\* A return forgets the request.
LEMMA ReturnFits ==
    ASSUME InvType, InvOneState, NEW p \in Pid,
           Return(p) \/ (NewProcReturn(p) /\ pc[p] \in NewProcPC)
    PROVE  FitsRequest(p)'
<1> USE PartsOfTypes
<1>1. CASE Return(p)
  BY <1>1 DEF Return, Goto, ProcsTypeOK, FitsRequest, IoctlPC, NewProcPC
<1>2. CASE NewProcReturn(p) /\ pc[p] \in NewProcPC
  <2>1. pc'[p] = "user" /\ req'[p] = NoReq
    BY <1>2, NewProcReturnPhases DEF NewProcReturn, ProcsTypeOK
  <2>2. QED
    BY <2>1 DEF FitsRequest, IoctlPC, NewProcPC
<1>3. QED
  BY <1>1, <1>2

\* A step to the point label keeps the request.
LEMMA StepFits ==
    ASSUME InvType, NEW p \in Pid, NEW label, Goto(p, label), UNCHANGED req
    PROVE  pc'[p] = label /\ req'[p] = req[p]
BY PartsOfTypes DEF Goto, ProcsTypeOK

LEMMA OwnRequestFits ==
    ASSUME NoZero, Inv, InvOneState, RequestFits, NEW c \in CPU, NEW p \in Pid, ProcStep(c, p)
    PROVE  FitsRequest(p)'
<1> USE PartsOfTypes DEF Inv
<1>0. FitsRequest(p)
  BY DEF RequestFits
<1>1. ASSUME NEW cmd \in Cmds, NEW t \in Targets[p], NEW s \in ReqSelect,
             Ioctl(c, p, cmd, t, s)
      PROVE  FitsRequest(p)'
  <2>1. t = p
    BY DEF NoZero
  <2>2. \/ UNCHANGED procs
        \/ /\ req'[p] = [cmd |-> cmd, pid |-> p, sel |-> s]
           /\ \/ cmd = "enable" /\ pc'[p] = "alloc"
              \/ pc'[p] = "check"
    BY <1>1, <2>1 DEF Ioctl, Goto, ProcsTypeOK
  <2>3. CASE UNCHANGED procs
    BY <1>0, <2>3 DEF procs, FitsRequest
  <2>4. QED
    BY <2>2, <2>3, LbrAssumption DEF FitsRequest, IoctlPC, NewProcPC
<1>2. CASE Alloc(c, p) \/ Insert(c, p)
  <2>1. CASE Return(p) /\ pc[p] = "alloc"
    BY <2>1, ReturnFits DEF NewProcPC
  <2>2. CASE UNCHANGED req /\ pc[p] = "alloc" /\ Goto(p, "insert")
    BY <1>0, <2>2, StepFits DEF FitsRequest, IoctlPC, NewProcPC
  <2>3. CASE UNCHANGED req /\ pc[p] = "insert" /\ Goto(p, "check")
    BY <1>0, <2>3, StepFits DEF FitsRequest, IoctlPC, NewProcPC
  <2>4. QED
    BY <1>2, <2>1, <2>2, <2>3 DEF Alloc, Insert, Step
<1>3. CASE Check(c, p)
  <2>1. IsOwn(p) /\ pc[p] = "check"
    BY <1>3 DEF Check, PointerDiscipline, HeldPointers, HoldingPC, IsOwn
  <2>2. Step(p, IF req[p].cmd = "enable" THEN "put_regs" ELSE "get_off")
    BY <1>3, <2>1 DEF Check
  <2>3. pc'[p] = (IF req[p].cmd = "enable" THEN "put_regs" ELSE "get_off") /\ req'[p] = req[p]
    BY <2>2, StepFits DEF Step
  <2>4. QED
    BY <1>0, <2>1, <2>3 DEF FitsRequest, IoctlPC, NewProcPC
<1>4. CASE GetOff(c, p) \/ PutRegs(c, p)
  <2>1. \/ pc[p] = "get_off" /\ pc'[p] = "get_regs" /\ req'[p] = req[p]
        \/ pc[p] = "put_regs" /\ pc'[p] = "put_on" /\ req'[p] = req[p]
    BY <1>4, StepFits DEF GetOff, PutRegs, Step
  <2>2. QED
    BY <1>0, <2>1 DEF FitsRequest, IoctlPC, NewProcPC
<1>5. CASE GetRegs(c, p)
  <2>1. pc[p] = "get_regs" /\ pc'[p] = AfterGet(req[p].cmd) /\ req'[p] = req[p]
    BY <1>5, StepFits DEF GetRegs, Step
  <2>2. QED
    BY <1>0, <2>1 DEF AfterGet, FitsRequest, IoctlPC, NewProcPC
<1>6. CASE SetSelect(c, p)
  <2>1. pc[p] = "set" /\ pc'[p] = "put_regs" /\ req'[p] = req[p]
    BY <1>0, <1>6, StepFits DEF SetSelect, Step, FitsRequest
  <2>2. QED
    BY <1>0, <2>1 DEF FitsRequest, IoctlPC, NewProcPC
<1>7. CASE PutOn(c, p) \/ Copy(c, p) \/ Remove(c, p)
  <2>1. CASE Return(p) /\ pc[p] \in IoctlPC
    BY <2>1, ReturnFits DEF IoctlPC, NewProcPC
  <2>2. CASE pc[p] = "put_on" /\ req[p].cmd = "dump" /\ Step(p, "copy")
    <3>1. pc'[p] = "copy" /\ req'[p] = req[p]
      BY <2>2, StepFits DEF Step
    <3>2. QED
      BY <1>0, <2>2, <3>1 DEF FitsRequest, IoctlPC, NewProcPC
  <2>3. QED
    BY <1>7, <2>1, <2>2 DEF PutOn, AfterPut, Copy, Remove, IoctlPC
<1>8. CASE NewProcAlloc(c, p) \/ NewProcCopy(c, p) \/ NewProcInsert(c, p)
  <2>1. pc[p] \in NewProcPC
    BY <1>8 DEF NewProcAlloc, NewProcCopy, NewProcInsert, NewProcPC
  <2>2. CASE NewProcReturn(p)
    BY <2>1, <2>2, ReturnFits
  <2>3. CASE (Goto(p, "np_copy") \/ Goto(p, "np_insert")) /\ UNCHANGED req
    <3>1. pc'[p] \in {"np_copy", "np_insert"} /\ req'[p] = req[p]
      BY <2>3, StepFits
    <3>2. QED
      BY <1>0, <2>1, <3>1 DEF FitsRequest, IoctlPC, NewProcPC
  <2>4. QED
    BY <1>8, <2>2, <2>3 DEF NewProcAlloc, NewProcCopy, NewProcInsert, Step
<1>9. ASSUME NEW q \in Pid, NEW kind \in CloneKinds, Clone(c, p, q, kind)
      PROVE  FitsRequest(p)'
  <2>1. \/ pc'[p] = pc[p] /\ req'[p] = req[p]
        \/ pc'[p] = "np_alloc" /\ req'[p].cmd = "newproc"
    BY <1>9 DEF Clone, Goto, ProcsTypeOK
  <2>2. QED
    BY <1>0, <2>1 DEF FitsRequest, IoctlPC, NewProcPC
<1>10. CASE Exit(c, p)
  <2>1. pc[p] = "user" /\ pc'[p] = "none" /\ req'[p] = req[p]
    BY <1>10, StepFits DEF Exit
  <2>2. QED
    BY <1>0, <2>1 DEF FitsRequest, IoctlPC, NewProcPC
<1>11. CASE ProcFault(c, p)
  BY <1>0, <1>11 DEF ProcFault, procs, FitsRequest
<1>12. QED
  BY <1>1, <1>2, <1>3, <1>4, <1>5, <1>6, <1>7, <1>8, <1>9, <1>10, <1>11 DEF ProcStep, KernelStep

LEMMA CoreFrame ==
    ASSUME NEW c \in CPU, CoreStep(c)
    PROVE  UNCHANGED <<live, liveEntries, listed, statePid, entries, procs>>
BY DEF CoreStep, SwitchStep, SwitchTo, SwitchFind, SwitchGet, SwitchPut, Branch, SwitchFault,
     SaveRegisters, heap

LEMMA RequestFitsStep ==
    ASSUME NoZero, Inv, InvOneState, RequestFits, [Next]_vars
    PROVE  RequestFits'
<1>1. ASSUME NEW c \in CPU, NEW p \in Pid, ProcStep(c, p)
      PROVE  RequestFits'
  <2>1. FitsRequest(p)'
    BY <1>1, OwnRequestFits
  <2>2. ASSUME NEW x \in Pid \ {p}  PROVE FitsRequest(x)'
    <3>1. /\ req'[x] = req[x]
          /\ \/ pc'[x] = pc[x]
             \/ pc[x] \in {"none", "new"} /\ pc'[x] \in {"user", "new"}
      BY <1>1, OthersKept DEF Inv
    <3>2. QED
      BY <3>1 DEF RequestFits, FitsRequest, IoctlPC, NewProcPC
  <2>3. QED
    BY <2>1, <2>2 DEF RequestFits
<1>2. ASSUME UNCHANGED procs PROVE RequestFits'
  BY <1>2 DEF procs, RequestFits, FitsRequest
<1>3. QED
  BY <1>1, <1>2, CoreFrame DEF Next, vars

----------------------------------------------------------------------------
(* The list.                                                               *)

\* Of the listed states a process writes its own only.
LEMMA ListedStep ==
    ASSUME Inv, InvOneState, RequestFits, NEW c \in CPU, NEW p \in Pid, ProcStep(c, p)
    PROVE  /\ \A o \in listed :
                 /\ ~Remove(c, p) => statePid'[o] = statePid[o]
                 /\ ~(GetRegs(c, p) \/ SetSelect(c, p) \/ Remove(c, p)) =>
                       lbrSelect'[o] = lbrSelect[o]
           /\ Insert(c, p) => listed' = listed \cup {ptr[p]}
           /\ Remove(c, p) => listed' = listed \ {ptr[p]}
           /\ NewProcInsert(c, p) => listed' = listed \cup {child[p]}
           /\ ~(Insert(c, p) \/ Remove(c, p) \/ NewProcInsert(c, p)) => UNCHANGED listed
<1> USE PartsOfTypes DEF Inv
<1>1. CASE Alloc(c, p)
  <2>1. ~(Insert(c, p) \/ Remove(c, p) \/ NewProcInsert(c, p)) /\ UNCHANGED listed
    BY <1>1 DEF Alloc, Insert, Remove, NewProcInsert, heap
  <2>2. CASE UNCHANGED heap
    BY <2>1, <2>2 DEF heap
  <2>3. ASSUME NEW o \in Obj, Create(o),
               statePid' = [statePid EXCEPT ![o] =
                              IF req[p].pid # NoPid THEN req[p].pid ELSE p],
               lbrSelect' = [lbrSelect EXCEPT ![o] = EnableSelect(req[p].sel)]
        PROVE  \A x \in listed : statePid'[x] = statePid[x] /\ lbrSelect'[x] = lbrSelect[x]
    BY <2>3 DEF Create, HeapTypeOK, PointerDiscipline, ListWellFormed
  <2>4. QED
    BY <1>1, <2>1, <2>2, <2>3 DEF Alloc
<1>2. CASE NewProcCopy(c, p)
  <2>1. ~(Insert(c, p) \/ Remove(c, p) \/ NewProcInsert(c, p)) /\ UNCHANGED listed
    BY <1>2 DEF NewProcCopy, Insert, Remove, NewProcInsert, heap
  <2>2. child[p] \in Obj \ listed
    BY <1>2 DEF NewProcCopy, PointerDiscipline, PrivatePointers, Private, HeapTypeOK
  <2>3. \A x \in listed : statePid'[x] = statePid[x] /\ lbrSelect'[x] = lbrSelect[x]
    BY <1>2, <2>2 DEF NewProcCopy, HeapTypeOK
  <2>4. QED
    BY <2>1, <2>3
<1>3. CASE Insert(c, p)
  BY <1>3 DEF Insert, Remove, NewProcInsert
<1>4. CASE NewProcInsert(c, p)
  BY <1>4 DEF Insert, Remove, NewProcInsert
<1>5. CASE Remove(c, p)
  BY <1>5 DEF Insert, Remove, NewProcInsert, Unlink
<1>6. CASE GetRegs(c, p) \/ SetSelect(c, p)
  BY <1>6 DEF GetRegs, SetSelect, SaveRegisters, Insert, Remove, NewProcInsert
<1>7. CASE \/ Check(c, p) \/ GetOff(c, p) \/ PutRegs(c, p) \/ PutOn(c, p) \/ Copy(c, p)
           \/ Exit(c, p) \/ ProcFault(c, p) \/ NewProcAlloc(c, p)
           \/ \E cmd \in Cmds, t \in Targets[p], s \in ReqSelect : Ioctl(c, p, cmd, t, s)
           \/ \E q \in Pid, kind \in CloneKinds : Clone(c, p, q, kind)
  <2>1. UNCHANGED <<listed, statePid, lbrSelect>>
    BY <1>7 DEF Check, GetOff, PutRegs, PutOn, Copy, Exit, ProcFault, NewProcAlloc, Ioctl, Clone,
       heap
  <2>2. CASE Insert(c, p) \/ Remove(c, p) \/ NewProcInsert(c, p)
    BY <1>3, <1>4, <1>5, <2>2
  <2>3. QED
    BY <2>1, <2>2
<1>8. QED
  BY <1>1, <1>2, <1>3, <1>4, <1>5, <1>6, <1>7 DEF ProcStep, KernelStep

\* A state leads to its process and back.
LEMMA HeldMatches ==
    ASSUME Inv, InvOneState, NEW p \in Pid, pc[p] \in HoldingPC
    PROVE  Matches(p) = {ptr[p]} /\ ptr[p] \in listed /\ Traced(p)
<1>1. ptr[p] \in listed /\ statePid[ptr[p]] = p /\ p # NoPid
  BY LbrAssumption DEF Inv, PointerDiscipline, HeldPointers
<1>2. QED
  BY <1>1 DEF InvOneState, OneStatePerPid, Matches, Traced

LEMMA MatchesStep ==
    ASSUME Inv, InvOneState, RequestFits, NEW c \in CPU, NEW p \in Pid, ProcStep(c, p),
           NEW x \in Pid
    PROVE  Matches(x)' =
              IF x = p /\ Insert(c, p) THEN {ptr[p]}
              ELSE IF x = p /\ Remove(c, p) THEN {}
              ELSE IF x = req[p].pid /\ NewProcInsert(c, p) THEN {child[p]}
              ELSE Matches(x)
<1> USE PartsOfTypes DEF Inv
<1>0. x # NoPid
  BY LbrAssumption
<1>1. CASE Insert(c, p)
  <2>1. statePid' = statePid /\ statePid[ptr[p]] = p /\ ~Traced(p) /\ listed' = listed \cup {ptr[p]}
    BY <1>1, ListedStep DEF Insert, InvOneState, EnablingIsUntraced
  <2>2. ~Remove(c, p) /\ ~NewProcInsert(c, p)
    BY <1>1 DEF Insert, Remove, NewProcInsert
  <2>3. QED
    BY <1>0, <1>1, <2>1, <2>2 DEF Matches, Traced
<1>2. CASE Remove(c, p)
  <2>1. Matches(p) = {ptr[p]} /\ pc[p] = "remove"
    BY <1>2, HeldMatches DEF Remove, HoldingPC
  <2>2. \A o \in listed' : statePid'[o] = statePid[o] /\ o # ptr[p] /\ o \in listed
    BY <1>2 DEF Remove, Unlink, HeapTypeOK
  <2>3. listed' = listed \ {ptr[p]}
    BY <1>2, ListedStep
  <2>4. ~Insert(c, p) /\ ~NewProcInsert(c, p)
    BY <1>2 DEF Insert, Remove, NewProcInsert
  <2>5. ptr[p] \in listed /\ statePid[ptr[p]] = p
    BY <2>1 DEF Matches
  <2>6. CASE x = p
    BY <1>2, <2>1, <2>2, <2>4, <2>6 DEF Matches
  <2>7. CASE x # p
    BY <1>0, <2>2, <2>3, <2>4, <2>5, <2>7 DEF Matches
  <2>8. QED
    BY <2>6, <2>7
<1>3. CASE NewProcInsert(c, p)
  <2>1. /\ statePid' = statePid /\ statePid[child[p]] = req[p].pid
        /\ ~Traced(req[p].pid) /\ listed' = listed \cup {child[p]}
    BY <1>3, ListedStep DEF NewProcInsert, InvOneState, InheritingIsNew, NewProcPC
  <2>2. ~Remove(c, p) /\ ~Insert(c, p)
    BY <1>3 DEF Insert, Remove, NewProcInsert
  <2>3. QED
    BY <1>0, <1>3, <2>1, <2>2 DEF Matches, Traced
<1>4. CASE ~Insert(c, p) /\ ~Remove(c, p) /\ ~NewProcInsert(c, p)
  BY <1>4, ListedStep DEF Matches
<1>5. QED
  BY <1>1, <1>2, <1>3, <1>4

----------------------------------------------------------------------------
(* When the branches of a process are to be recorded.                      *)

\* A process inherits nothing from itself.
LEMMA InheritsElsewhere ==
    ASSUME InvOneState, NEW c \in CPU, NEW p \in Pid, NewProcInsert(c, p)
    PROVE  /\ req[p].pid \in Pid \ {p} /\ pc[req[p].pid] = "new"
           /\ ~Insert(c, p) /\ ~Remove(c, p) /\ ~PutOn(c, p) /\ ~GetOff(c, p)
BY DEF NewProcInsert, Insert, Remove, PutOn, GetOff, InvOneState, InheritingIsNew, NewProcPC

LEMMA OwnTraced ==
    ASSUME Inv, InvOneState, RequestFits, NEW c \in CPU, NEW p \in Pid, ProcStep(c, p)
    PROVE  /\ Insert(c, p) => Traced(p)'
           /\ Remove(c, p) => ~Traced(p)'
           /\ ~Insert(c, p) /\ ~Remove(c, p) => Matches(p)' = Matches(p) /\ Traced(p)' = Traced(p)
<1>1. ~(Insert(c, p) /\ Remove(c, p))
  BY DEF Insert, Remove
<1>2. QED
  BY <1>1, MatchesStep, InheritsElsewhere DEF Traced

\* An operation starts recording where it sets the LBR bit, and stops it where
\* it clears it.
LEMMA OwnRecording ==
    ASSUME NoZero, Inv, InvOneState, RequestFits, NEW c \in CPU, NEW p \in Pid, ProcStep(c, p)
    PROVE  Recording(p)' <=> PutOn(c, p) \/ (Recording(p) /\ ~GetOff(c, p))
<1> USE PartsOfTypes DEF Inv
<1>0. FitsRequest(p) /\ FitsRequest(p)'
  BY RequestFitsStep, OwnRequestFits DEF RequestFits
<1>1. CASE Insert(c, p)
  <2>1. pc'[p] = "check" /\ req'[p] = req[p] /\ req[p].cmd = "enable"
    BY <1>0, <1>1, StepFits DEF Insert, Step, FitsRequest
  <2>2. ~Traced(p)
    BY <1>1 DEF Insert, InvOneState, EnablingIsUntraced
  <2>3. ~PutOn(c, p)
    BY <1>1 DEF Insert, PutOn
  <2>4. QED
    BY <2>1, <2>2, <2>3 DEF Recording, Stopped
<1>2. CASE Remove(c, p)
  <2>1. ~Traced(p)' /\ pc[p] = "remove" /\ ~PutOn(c, p)
    BY <1>2, OwnTraced DEF Remove, PutOn
  <2>2. QED
    BY <2>1 DEF Recording, Stopped
<1>3. CASE PutOn(c, p)
  <2>1. pc'[p] \in {"user", "copy"}
    BY <1>3 DEF PutOn, AfterPut, Step, Return, Goto, ProcsTypeOK
  <2>2. Traced(p)' = Traced(p)
    BY <1>3, OwnTraced DEF PutOn, Insert, Remove
  <2>3. Traced(p)
    BY <1>3, HeldMatches DEF PutOn, HoldingPC
  <2>4. QED
    BY <1>3, <2>1, <2>2, <2>3 DEF Recording, Stopped
<1>4. CASE GetOff(c, p)
  <2>1. pc'[p] = "get_regs" /\ ~PutOn(c, p)
    BY <1>4 DEF GetOff, PutOn, Step, Goto, ProcsTypeOK
  <2>2. QED
    BY <1>4, <2>1 DEF Recording, Stopped
<1>5. ASSUME ~Insert(c, p), ~Remove(c, p), ~PutOn(c, p), ~GetOff(c, p)
      PROVE  Recording(p)' <=> Recording(p)
  <2>1. Traced(p)' = Traced(p)
    BY <1>5, OwnTraced
  <2>2. Traced(p) => (Stopped(p)' <=> Stopped(p))
    <3>1. CASE Check(c, p)
      <4>1. IsOwn(p) /\ pc[p] = "check"
        BY <3>1 DEF Check, PointerDiscipline, HeldPointers, HoldingPC, IsOwn
      <4>2. Step(p, IF req[p].cmd = "enable" THEN "put_regs" ELSE "get_off")
        BY <3>1, <4>1 DEF Check
      <4>3. pc'[p] = (IF req[p].cmd = "enable" THEN "put_regs" ELSE "get_off")
        BY <4>2, StepFits DEF Step
      <4>4. QED
        BY <4>1, <4>3 DEF Stopped
    <3>2. CASE GetRegs(c, p)
      BY <3>2 DEF GetRegs, Step, Goto, ProcsTypeOK, AfterGet, Stopped
    <3>3. CASE SetSelect(c, p) \/ PutRegs(c, p)
      <4>1. pc[p] # "set_other"
        BY <1>0 DEF FitsRequest
      <4>2. QED
        BY <3>3, <4>1 DEF SetSelect, PutRegs, Step, Goto, ProcsTypeOK, Stopped
    <3>4. CASE Alloc(c, p) \/ Copy(c, p)
      BY <3>4 DEF Alloc, Copy, Return, Goto, ProcsTypeOK, Stopped
    <3>5. CASE NewProcAlloc(c, p) \/ NewProcCopy(c, p) \/ NewProcInsert(c, p)
      <4>1. CASE NewProcReturn(p) /\ pc[p] \in NewProcPC
        BY <4>1, NewProcReturnPhases DEF Stopped, NewProcPC
      <4>2. CASE (Goto(p, "np_copy") \/ Goto(p, "np_insert")) /\ pc[p] \in NewProcPC
        BY <4>2 DEF Goto, ProcsTypeOK, Stopped, NewProcPC
      <4>3. QED
        BY <3>5, <4>1, <4>2 DEF NewProcAlloc, NewProcCopy, NewProcInsert, Step, NewProcPC
    <3>6. ASSUME NEW q \in Pid, NEW kind \in CloneKinds, Clone(c, p, q, kind)
          PROVE  pc[p] = "user" /\ pc'[p] \in {"user", "np_alloc"}
      BY <3>6 DEF Clone, Goto, ProcsTypeOK
    <3>7. CASE Exit(c, p)
      BY <3>7 DEF Exit, Goto, ProcsTypeOK, Stopped
    <3>8. CASE ProcFault(c, p)
      BY <3>8 DEF ProcFault, procs, Stopped
    <3>9. ASSUME NEW cmd \in Cmds, NEW t \in Targets[p], NEW s \in ReqSelect,
                 Ioctl(c, p, cmd, t, s), Traced(p)
          PROVE  Stopped(p)' <=> Stopped(p)
      <4>1. t = p
        BY DEF NoZero
      <4>2. cmd # "enable" \/ UNCHANGED procs
        <5>1. PICK o \in Obj \cup {NoObj} :
                Found(p, o) /\ (UNCHANGED procs \/ Accepts(cmd, o))
          BY <3>9, <4>1 DEF Ioctl
        <5>2. o # NoObj
          BY <3>9, <5>1, LbrAssumption DEF Found, Traced, Matches, HeapTypeOK
        <5>3. QED
          BY <5>1, <5>2 DEF Accepts
      <4>3. CASE UNCHANGED procs
        BY <4>3 DEF procs, Stopped
      <4>4. CASE cmd # "enable" /\ ~UNCHANGED procs
        BY <3>9, <4>4 DEF Ioctl, Goto, ProcsTypeOK, Stopped
      <4>5. QED
        BY <4>2, <4>3, <4>4
    <3>10. QED
      BY <1>5, <3>1, <3>2, <3>3, <3>4, <3>5, <3>6, <3>7, <3>8, <3>9
         DEF ProcStep, KernelStep, Stopped
  <2>3. QED
    BY <2>1, <2>2 DEF Recording
<1>6. QED
  BY <1>1, <1>2, <1>3, <1>4, <1>5

\* The steps of the others do not concern a process that is on a core.
LEMMA OthersRecording ==
    ASSUME Inv, InvOneState, InvRecorded, NEW c \in CPU, NEW p \in Pid, ProcStep(c, p),
           NEW x \in Pid \ {p}, OnCore(x)
    PROVE  /\ Matches(x)' = Matches(x) /\ Traced(x)' = Traced(x)
           /\ pc'[x] = pc[x] /\ (Recording(x)' <=> Recording(x))
<1>1. pc[x] # "new"
  BY DEF InvRecorded, NewIsOffCore
<1>2. pc'[x] = pc[x] /\ req'[x] = req[x]
  BY <1>1, OthersKept DEF Inv
<1>3. Matches(x)' = Matches(x)
  BY <1>1, MatchesStep, InheritsElsewhere DEF InvRecorded
<1>4. QED
  BY <1>2, <1>3 DEF Recording, Stopped, Traced

----------------------------------------------------------------------------
(* A traced process is recorded.                                           *)

\* A process that executes on a core is nowhere else.
LEMMA OnlyHere ==
    ASSUME Inv, NEW c \in CPU, NEW p \in Pid, Executes(c, p), NEW c2 \in CPU
    PROVE  /\ run[c2] = p => c2 = c
           /\ at[c2] # "no" => run[c2] # p /\ nxt[c2] # p
BY DEF Inv, PointerDiscipline, OnePlace, Executes

LEMMA ProcRecorded ==
    ASSUME NoZero, Inv, InvOneState, InvRecorded, NEW c \in CPU, NEW p \in Pid, ProcStep(c, p)
    PROVE  Recorded' /\ HandlerKnows' /\ NewIsOffCore'
<1> USE PartsOfTypes DEF Inv
<1>1. RequestFits /\ Executes(c, p) /\ UNCHANGED <<run, swtch>>
  BY ProcFrame DEF InvRecorded
<1>2. Recorded'
  <2> SUFFICES ASSUME NEW c2 \in CPU, NEW x \in Pid, run[c2] = x, at[c2] # "put", Recording(x)'
               PROVE  lbrOn'[c2]
    BY <1>1 DEF Recorded, swtch
  <2>1. CASE x = p
    <3>1. c2 = c
      BY <1>1, <2>1, OnlyHere
    <3>2. PutOn(c, p) \/ (Recording(p) /\ ~GetOff(c, p))
      BY <1>1, <2>1, OwnRecording
    <3>3. Recording(p) => lbrOn[c]
      BY <2>1, <3>1 DEF InvRecorded, Recorded
    <3>4. PutOn(c, p) => ~GetOff(c, p)
      BY DEF PutOn, GetOff
    <3>5. QED
      BY <3>1, <3>2, <3>3, <3>4, CoresStep DEF CoresTypeOK
  <2>2. CASE x # p
    <3>1. c2 # c
      BY <1>1, <2>2 DEF Executes
    <3>2. Recording(x)
      BY <2>2, OthersRecording DEF OnCore
    <3>3. lbrOn[c2]
      BY <3>2 DEF InvRecorded, Recorded
    <3>4. QED
      BY <3>1, <3>3, CoresStep DEF CoresTypeOK
  <2>3. QED
    BY <2>1, <2>2
<1>3. HandlerKnows'
  <2>1. ASSUME NEW c2 \in CPU, at[c2] # "no", NEW x \in Tag, x = run[c2] \/ x = nxt[c2], ~Traced(x)
        PROVE  ~Traced(x)'
    <3>1. CASE x = NoPid
      BY <3>1 DEF Traced, Matches
    <3>2. CASE x \in Pid
      <4>1. x # p /\ OnCore(x)
        BY <1>1, <2>1, OnlyHere DEF OnCore
      <4>2. QED
        BY <2>1, <3>2, <4>1, OthersRecording
    <3>3. QED
      BY <3>1, <3>2 DEF Tag
  <2> SUFFICES ASSUME NEW c2 \in CPU
               PROVE  /\ at[c2] = "get" => prevState[c2] # NoObj
                      /\ at[c2] \in {"next", "get"} =>
                            IF prevState[c2] = NoObj THEN ~Traced(run[c2])' ELSE run[c2] \in Pid
                      /\ at[c2] \in {"get", "put"} =>
                            IF nextState[c2] = NoObj THEN ~Traced(nxt[c2])' ELSE nxt[c2] \in Pid
    BY <1>1 DEF HandlerKnows, swtch
  <2>2. PICK x \in Tag, y \in Tag : x = run[c2] /\ y = nxt[c2] /\ x = run'[c2] /\ y = nxt'[c2]
    BY <1>1 DEF CoresTypeOK, SwitchTypeOK, swtch
  <2>3. at[c2] # "no" => (~Traced(x) => ~Traced(x)') /\ (~Traced(y) => ~Traced(y)')
    BY <2>1, <2>2
  <2>4. QED
    BY <2>2, <2>3 DEF InvRecorded, HandlerKnows
<1>4. NewIsOffCore'
  <2> SUFFICES ASSUME NEW q \in Pid, pc'[q] = "new", OnCore(q)
               PROVE  FALSE
    BY <1>1 DEF NewIsOffCore, OnCore, swtch
  <2>1. q # p
    <3>1. pc[p] # "new"
      BY <1>1 DEF InvRecorded, NewIsOffCore, OnCore, Executes
    <3>2. QED
      BY <3>1, OwnNotNew
  <2>2. pc[q] # "new"
    BY DEF InvRecorded, NewIsOffCore
  <2>3. QED
    BY <2>1, <2>2, OthersRecording
<1>5. QED
  BY <1>2, <1>3, <1>4

\* A context switch changes no process and no list.
LEMMA CoreKeepsProcs ==
    ASSUME NEW c \in CPU, CoreStep(c) \/ UNCHANGED vars
    PROVE  /\ \A x : /\ Matches(x)' = Matches(x) /\ Traced(x)' = Traced(x)
                     /\ Recording(x)' <=> Recording(x)
           /\ UNCHANGED <<live, listed, statePid, entries, pc, req, ptr, child>>
<1>1. UNCHANGED <<live, listed, statePid, entries, procs>>
  BY CoreFrame DEF vars, heap
<1>2. \A x : Matches(x)' = Matches(x)
  BY <1>1 DEF Matches
<1>3. \A x : Traced(x)' = Traced(x)
  BY <1>2 DEF Traced
<1>4. \A x : Stopped(x)' <=> Stopped(x)
  BY <1>1 DEF Stopped, procs
<1>5. QED
  BY <1>1, <1>2, <1>3, <1>4 DEF Recording, procs

LEMMA CoreRecorded ==
    ASSUME Inv, InvRecorded, NEW c \in CPU, CoreStep(c)
    PROVE  Recorded' /\ HandlerKnows' /\ NewIsOffCore'
<1> USE PartsOfTypes DEF Inv
<1>1. ASSUME NEW n \in Tag, SwitchTo(c, n)
      PROVE  Recorded' /\ HandlerKnows' /\ NewIsOffCore'
  <2>1. PICK o \in Obj \cup {NoObj} : Found(run[c], o) /\ prevState' = [prevState EXCEPT ![c] = o]
    BY <1>1 DEF SwitchTo
  <2>2. /\ at' = [at EXCEPT ![c] = "next"] /\ nxt' = [nxt EXCEPT ![c] = n]
        /\ at[c] = "no" /\ n \in Runnable
        /\ UNCHANGED <<run, lbrOn, nextState>>
    BY <1>1 DEF SwitchTo, cores
  <2>3. IF o = NoObj THEN ~Traced(run[c]) ELSE run[c] \in Pid
    BY <2>1, LbrAssumption DEF Found, Traced, Matches, HeapTypeOK, CoresTypeOK, Tag
  <2>4. Recorded'
    BY <1>1, <2>2, CoreKeepsProcs DEF CoreStep, SwitchTypeOK, InvRecorded, Recorded
  <2>5. HandlerKnows'
    BY <1>1, <2>1, <2>2, <2>3, CoreKeepsProcs
       DEF CoreStep, SwitchTypeOK, InvRecorded, HandlerKnows
  <2>6. NewIsOffCore'
    BY <1>1, <2>2, CoreKeepsProcs, LbrAssumption
       DEF CoreStep, SwitchTypeOK, InvRecorded, NewIsOffCore, OnCore, Runnable
  <2>7. QED
    BY <2>4, <2>5, <2>6
<1>2. CASE SwitchFind(c)
  <2>1. PICK o \in Obj \cup {NoObj} : Found(nxt[c], o) /\ nextState' = [nextState EXCEPT ![c] = o]
    BY <1>2 DEF SwitchFind
  <2>2. /\ at' = [at EXCEPT ![c] = IF prevState[c] # NoObj THEN "get" ELSE "put"]
        /\ at[c] = "next"
        /\ UNCHANGED <<run, lbrOn, nxt, prevState>>
    BY <1>2 DEF SwitchFind, cores
  <2>3. IF o = NoObj THEN ~Traced(nxt[c]) ELSE nxt[c] \in Pid
    BY <2>1, LbrAssumption DEF Found, Traced, Matches, HeapTypeOK, SwitchTypeOK, Tag
  <2>4. Recorded'
    BY <1>2, <2>2, CoreKeepsProcs DEF CoreStep, SwitchStep, SwitchTypeOK, InvRecorded, Recorded
  <2>5. HandlerKnows'
    BY <1>2, <2>1, <2>2, <2>3, CoreKeepsProcs
       DEF CoreStep, SwitchStep, SwitchTypeOK, InvRecorded, HandlerKnows
  <2>6. NewIsOffCore'
    BY <1>2, <2>2, CoreKeepsProcs
       DEF CoreStep, SwitchStep, SwitchTypeOK, InvRecorded, NewIsOffCore, OnCore
  <2>7. QED
    BY <2>4, <2>5, <2>6
<1>3. CASE SwitchGet(c)
  <2>1. /\ at' = [at EXCEPT ![c] = "put"] /\ at[c] = "get"
        /\ lbrOn' = [lbrOn EXCEPT ![c] = FALSE]
        /\ UNCHANGED <<run, nxt, prevState, nextState>>
    BY <1>3 DEF SwitchGet
  <2>2. Recorded' /\ HandlerKnows'
    BY <1>3, <2>1, CoreKeepsProcs
       DEF CoreStep, SwitchStep, SwitchTypeOK, CoresTypeOK, InvRecorded, Recorded, HandlerKnows
  <2>3. NewIsOffCore'
    BY <1>3, <2>1, CoreKeepsProcs
       DEF CoreStep, SwitchStep, SwitchTypeOK, InvRecorded, NewIsOffCore, OnCore
  <2>4. QED
    BY <2>2, <2>3
<1>4. CASE SwitchPut(c)
  <2>1. /\ at[c] = "put"
        /\ run' = [run EXCEPT ![c] = nxt[c]]
        /\ at' = [at EXCEPT ![c] = "no"] /\ nxt' = [nxt EXCEPT ![c] = NoPid]
        /\ prevState' = [prevState EXCEPT ![c] = NoObj]
        /\ nextState' = [nextState EXCEPT ![c] = NoObj]
        /\ IF nextState[c] = NoObj THEN UNCHANGED lbrOn ELSE lbrOn' = [lbrOn EXCEPT ![c] = TRUE]
    BY <1>4 DEF SwitchPut, SwitchIn
  <2>2. nextState[c] = NoObj => ~Traced(nxt[c])
    BY <2>1 DEF InvRecorded, HandlerKnows
  <2>3. Recorded'
    BY <1>4, <2>1, <2>2, CoreKeepsProcs
       DEF CoreStep, SwitchStep, SwitchTypeOK, CoresTypeOK, InvRecorded, Recorded, Recording
  <2>4. HandlerKnows'
    BY <1>4, <2>1, CoreKeepsProcs
       DEF CoreStep, SwitchStep, SwitchTypeOK, CoresTypeOK, InvRecorded, HandlerKnows
  <2>5. NewIsOffCore'
    BY <1>4, <2>1, CoreKeepsProcs, LbrAssumption
       DEF CoreStep, SwitchStep, SwitchTypeOK, CoresTypeOK, InvRecorded, NewIsOffCore, OnCore
  <2>6. QED
    BY <2>3, <2>4, <2>5
<1>5. CASE Branch(c) \/ SwitchFault(c)
  BY <1>5, CoreKeepsProcs
     DEF Branch, SwitchFault, CoreStep, swtch, cores, InvRecorded, Recorded, HandlerKnows, NewIsOffCore, OnCore
<1>6. QED
  BY <1>1, <1>2, <1>3, <1>4, <1>5 DEF CoreStep, SwitchStep

LEMMA NextRecorded ==
    ASSUME NoZero, Inv, InvOneState, InvRecorded, [Next]_vars
    PROVE  InvRecorded'
<1>1. RequestFits'
  BY RequestFitsStep DEF InvRecorded
<1>2. CASE UNCHANGED vars
  BY <1>2 DEF vars, heap, cores, swtch, procs, InvRecorded, RequestFits, FitsRequest, Recorded,
     Recording, Stopped, Traced, Matches, HandlerKnows, NewIsOffCore, OnCore
<1>3. QED
  BY <1>1, <1>2, ProcRecorded, CoreRecorded DEF Next, InvRecorded

LEMMA InitRecorded == Init => InvRecorded
<1> SUFFICES ASSUME Init PROVE InvRecorded
  OBVIOUS
<1>1. RequestFits /\ NewIsOffCore
  BY DEF Init, RequestFits, FitsRequest, NewIsOffCore, IoctlPC, NewProcPC
<1>2. Recorded /\ HandlerKnows
  BY LbrAssumption DEF Init, Recorded, HandlerKnows
<1>3. QED
  BY <1>1, <1>2 DEF InvRecorded

\* The invariants whose proofs need no word about preemption.
InvAnyKernel == Inv /\ InvOneState /\ InvRecorded

LEMMA NextAnyKernel == NoZero /\ NoReuse /\ InvAnyKernel /\ [Next]_vars => InvAnyKernel'
<1>1. NoZero => SelfTracing
  BY DEF NoZero, SelfTracing
<1>2. QED
  BY <1>1, NextInv, NextOneState, NextRecorded DEF InvAnyKernel

LEMMA InitAnyKernel == Init => InvAnyKernel
BY InitInv, InitOneState, InitRecorded DEF InvAnyKernel

\* EveryTracedRecorded: if every process traces itself and no pid is used again,
\* a traced process never runs user code with the LBR of its core off, even if
\* an operation is switched out between its look-up, its accesses to the bit
\* and its insertion or removal, and continued on another core
\* (lbr.c: get_lbr, put_lbr, lbr_cswitch_handler).
THEOREM EveryTracedRecorded == NoZero /\ NoReuse => (Spec => []TracedIsRecorded)
<1> SUFFICES ASSUME NoZero, NoReuse PROVE Spec => []TracedIsRecorded
  OBVIOUS
<1>1. InvAnyKernel /\ [Next]_vars => InvAnyKernel'
  BY NextAnyKernel
<1>2. InvAnyKernel => TracedIsRecorded
  <2> SUFFICES ASSUME InvAnyKernel, NEW c \in CPU, Settled(c), Traced(run[c]) PROVE lbrOn[c]
    BY DEF TracedIsRecorded
  <2>1. run[c] \in Pid
    BY PartsOfTypes DEF InvAnyKernel, Inv, CoresTypeOK, Tag, Traced, Matches
  <2>2. Recording(run[c])
    BY <2>1, LbrAssumption DEF Settled, Recording, Stopped
  <2>3. QED
    BY <2>1, <2>2 DEF InvAnyKernel, InvRecorded, Recorded, Settled
<1>3. QED
  BY <1>1, <1>2, InitAnyKernel, PTL DEF Spec

----------------------------------------------------------------------------
(* Without preemption nobody else is.                                      *)

\* A process that is being switched, or is on no core, is in no operation.
LEMMA SwitchedIsQuiet ==
    ASSUME Inv, KeepsCore, NEW p \in Pid, NEW c \in CPU, at[c] # "no",
           run[c] = p \/ nxt[c] = p
    PROVE  pc[p] \in Yields \cup {"new"} /\ ~Stopped(p)
<1>1. pc[p] \in Yields \cup {"new"}
  BY DEF KeepsCore, Inv, PointerDiscipline, OnePlace
<1>2. QED
  BY <1>1 DEF Stopped, Yields

\* An operation that clears the LBR bit, or reads the registers, of its core
\* finds them loaded.
LEMMA LoadedWhere ==
    ASSUME Inv, InvOneState, InvRecorded, NEW c \in CPU, NEW p \in Pid, Executes(c, p),
           pc[p] \in {"get_off", "get_regs", "put_on"}
    PROVE  Loaded(c) /\ (pc[p] = "get_off" => lbrOn[c])
<1>1. pc[p] = "get_off" => lbrOn[c]
  <2>1. pc[p] = "get_off" => Recording(p)
    BY HeldMatches DEF HoldingPC, Recording, Stopped
  <2>2. QED
    BY <2>1 DEF InvRecorded, Recorded, Executes
<1>2. QED
  BY <1>1 DEF Loaded, Executes

\* So does the context-switch handler.
LEMMA LoadedAtGet ==
    ASSUME Inv, InvOneState, InvRecorded, KeepsCore, NEW c \in CPU, at[c] = "get"
    PROVE  /\ run[c] \in Pid /\ Loaded(c)
           /\ prevState[c] \in Matches(run[c])
<1>1. prevState[c] # NoObj /\ run[c] \in Pid
  BY DEF InvRecorded, HandlerKnows
<1>2. prevState[c] \in Matches(run[c])
  BY <1>1, LbrAssumption DEF Inv, PointerDiscipline, HandlerPointers, Matches
<1>3. Recording(run[c])
  BY <1>1, <1>2, SwitchedIsQuiet DEF Recording, Traced
<1>4. QED
  BY <1>1, <1>2, <1>3 DEF InvRecorded, Recorded, Loaded

LEMMA KeepsCoreStep ==
    ASSUME ~Preemptible, Inv, InvOneState, KeepsCore, [Next]_vars
    PROVE  KeepsCore'
<1> USE PartsOfTypes DEF Inv
<1>1. ASSUME NEW c \in CPU, NEW p \in Pid, ProcStep(c, p)
      PROVE  KeepsCore'
  <2>1. Executes(c, p) /\ UNCHANGED <<run, at>>
    BY <1>1, ProcFrame DEF swtch
  <2>2. ASSUME NEW x \in Pid \ {p}, pc'[x] \notin Yields \cup {"new"}
        PROVE  pc[x] \notin Yields \cup {"new"}
    BY <1>1, <2>2, OthersKept DEF Yields
  <2>3. QED
    BY <2>1, <2>2 DEF KeepsCore, Executes
<1>2. ASSUME NEW c \in CPU, NEW n \in Tag, SwitchTo(c, n)
      PROVE  KeepsCore'
  <2>1. /\ UNCHANGED <<run, pc>> /\ at' = [at EXCEPT ![c] = "next"]
        /\ run[c] \in Pid => pc[run[c]] \in Yields
    BY <1>2, LbrAssumption DEF SwitchTo, cores, procs
  <2>2. QED
    BY <2>1 DEF KeepsCore, SwitchTypeOK
<1>3. ASSUME NEW c \in CPU, SwitchStep(c) \/ Branch(c) \/ SwitchFault(c)
      PROVE  KeepsCore'
  <2>1. /\ UNCHANGED pc
        /\ \/ UNCHANGED <<run, at>>
           \/ /\ at[c] # "no"
              /\ \/ UNCHANGED run
                 \/ run' = [run EXCEPT ![c] = nxt[c]]
              /\ \E l : at' = [at EXCEPT ![c] = l]
    BY <1>3 DEF SwitchStep, SwitchFind, SwitchGet, SwitchPut, Branch, SwitchFault, cores, swtch, procs
  <2>2. QED
    BY <2>1 DEF KeepsCore, SwitchTypeOK, CoresTypeOK
<1>4. CASE UNCHANGED vars
  BY <1>4 DEF vars, cores, swtch, procs, KeepsCore
<1>5. QED
  BY <1>1, <1>2, <1>3, <1>4 DEF Next, CoreStep

LEMMA DarkStep ==
    ASSUME NoZero, Inv, InvOneState, InvRecorded, KeepsCore, Dark, [Next]_vars
    PROVE  Dark'
<1> USE PartsOfTypes DEF Inv
<1>1. ASSUME NEW c \in CPU, NEW p \in Pid, ProcStep(c, p)
      PROVE  Dark'
  <2>1. Executes(c, p) /\ UNCHANGED <<run, at>> /\ RequestFits
    BY <1>1, ProcFrame DEF swtch, InvRecorded
  <2> SUFFICES ASSUME NEW c2 \in CPU, lbrOn'[c2]
               PROVE  at[c2] # "put" /\ run[c2] \in Pid /\ \A x \in Pid : x = run[c2] => Recording(x)'
    BY <2>1 DEF Dark
  <2>2. CASE c2 = c
    <3>1. PutOn(c, p) \/ (Recording(p) /\ ~GetOff(c, p))
      BY <1>1, <2>1, <2>2, CoresStep DEF CoresTypeOK, Dark, Executes
    <3>2. QED
      BY <1>1, <2>1, <2>2, <3>1, OwnRecording DEF Executes
  <2>3. CASE c2 # c
    <3>1. lbrOn[c2] /\ run[c2] # p
      BY <1>1, <2>1, <2>3, CoresStep, OnlyHere DEF CoresTypeOK
    <3>2. QED
      BY <1>1, <3>1, OthersRecording DEF Dark, OnCore
  <2>4. QED
    BY <2>2, <2>3
<1>2. ASSUME NEW c \in CPU, (\E n \in Tag : SwitchTo(c, n)) \/ Branch(c) \/ SwitchFault(c)
      PROVE  Dark'
  <2>1. /\ UNCHANGED <<run, lbrOn>>
        /\ \A c2 \in CPU : at[c2] # "put" => at'[c2] # "put"
    BY <1>2 DEF SwitchTo, Branch, SwitchFault, cores, swtch, SwitchTypeOK
  <2>2. QED
    BY <1>2, <2>1, CoreKeepsProcs DEF Dark, CoreStep
<1>3. ASSUME NEW c \in CPU, SwitchFind(c)
      PROVE  Dark'
  <2>1. /\ UNCHANGED <<run, lbrOn>> /\ at[c] = "next"
        /\ at' = [at EXCEPT ![c] = IF prevState[c] # NoObj THEN "get" ELSE "put"]
    BY <1>3 DEF SwitchFind, cores
  <2>2. lbrOn[c] => prevState[c] # NoObj
    BY <2>1 DEF InvRecorded, HandlerKnows, Dark, Recording
  <2>3. QED
    BY <1>3, <2>1, <2>2, CoreKeepsProcs DEF Dark, CoreStep, SwitchStep, SwitchTypeOK
<1>4. ASSUME NEW c \in CPU, SwitchGet(c)
      PROVE  Dark'
  <2>1. /\ UNCHANGED run /\ lbrOn' = [lbrOn EXCEPT ![c] = FALSE]
        /\ at' = [at EXCEPT ![c] = "put"]
    BY <1>4 DEF SwitchGet
  <2>2. QED
    BY <1>4, <2>1, CoreKeepsProcs DEF Dark, CoreStep, SwitchStep, SwitchTypeOK, CoresTypeOK
<1>5. ASSUME NEW c \in CPU, SwitchPut(c)
      PROVE  Dark'
  <2>1. /\ at[c] = "put"
        /\ run' = [run EXCEPT ![c] = nxt[c]] /\ at' = [at EXCEPT ![c] = "no"]
        /\ IF nextState[c] = NoObj THEN UNCHANGED lbrOn ELSE lbrOn' = [lbrOn EXCEPT ![c] = TRUE]
    BY <1>5 DEF SwitchPut, SwitchIn
  <2>2. ~lbrOn[c]
    BY <2>1 DEF Dark
  <2>3. nextState[c] # NoObj => nxt[c] \in Pid /\ Recording(nxt[c])
    <3>1. nextState[c] # NoObj => nxt[c] \in Pid /\ Traced(nxt[c])
      BY <2>1, LbrAssumption
         DEF InvRecorded, HandlerKnows, PointerDiscipline, HandlerPointers, Traced, Matches
    <3>2. QED
      BY <2>1, <3>1, SwitchedIsQuiet DEF Recording
  <2>4. QED
    BY <1>5, <2>1, <2>2, <2>3, CoreKeepsProcs
       DEF Dark, CoreStep, SwitchStep, SwitchTypeOK, CoresTypeOK
<1>6. CASE UNCHANGED vars
  <2>1. UNCHANGED <<at, run, lbrOn>>
    BY <1>6 DEF vars, cores, swtch
  <2>2. \A x : Recording(x)' <=> Recording(x)
    BY <1>6 DEF vars, heap, procs, Recording, Stopped, Traced, Matches
  <2>3. QED
    BY <2>1, <2>2 DEF Dark
<1>7. QED
  BY <1>1, <1>2, <1>3, <1>4, <1>5, <1>6 DEF Next, CoreStep, SwitchStep

\* get_lbr stores the filter that is stored already.
LEMMA SameFilterSaved ==
    ASSUME Inv, InvOneState, InvRecorded, KeepsCore, FilterLoaded, NEW c \in CPU,
           SwitchGet(c) \/ \E p \in Pid : GetRegs(c, p)
    PROVE  UNCHANGED lbrSelect
<1> USE PartsOfTypes DEF Inv
<1>1. ASSUME NEW p \in Pid, GetRegs(c, p)
      PROVE  UNCHANGED lbrSelect
  <2>1. run[c] = p /\ Loaded(c) /\ ptr[p] \in Matches(p)
    BY <1>1, LoadedWhere, HeldMatches DEF GetRegs, Executes, HoldingPC
  <2>2. hwSelect[c] = lbrSelect[ptr[p]]
    BY <2>1 DEF FilterLoaded
  <2>3. QED
    BY <1>1, <2>2 DEF GetRegs, SaveRegisters, HeapTypeOK
<1>2. CASE SwitchGet(c)
  <2>1. Loaded(c) /\ prevState[c] \in Matches(run[c])
    BY <1>2, LoadedAtGet DEF SwitchGet
  <2>2. hwSelect[c] = lbrSelect[prevState[c]]
    BY <2>1 DEF FilterLoaded
  <2>3. QED
    BY <1>2, <2>2 DEF SwitchGet, SaveRegisters, HeapTypeOK
<1>3. QED
  BY <1>1, <1>2

\* The steps that lead to a point where the registers are loaded and the bit is
\* not set.
LEMMA LoadedPoints ==
    ASSUME Inv, InvOneState, RequestFits, NEW c \in CPU, NEW p \in Pid, ProcStep(c, p),
           ~GetOff(c, p), ~PutRegs(c, p), pc'[p] \in {"get_regs", "put_on"}
    PROVE  pc'[p] = pc[p]
<1> USE PartsOfTypes DEF Inv
<1>1. ASSUME NEW cmd \in Cmds, NEW t \in Targets[p], NEW s \in ReqSelect, Ioctl(c, p, cmd, t, s)
      PROVE  pc'[p] = pc[p]
  BY <1>1 DEF Ioctl, procs, Goto, ProcsTypeOK
<1>2. ~(Alloc(c, p) \/ Insert(c, p) \/ PutOn(c, p) \/ Copy(c, p) \/ Remove(c, p) \/ Exit(c, p))
  BY DEF Alloc, Insert, PutOn, AfterPut, Copy, Remove, Exit, Step, Return, Goto, ProcsTypeOK
<1>3. ~Check(c, p)
  <2>1. IsOwn(p) \/ ~Check(c, p)
    BY DEF Check, PointerDiscipline, HeldPointers, HoldingPC, IsOwn
  <2>2. QED
    BY <2>1 DEF Check, Step, Goto, ProcsTypeOK
<1>4. ~(GetRegs(c, p) \/ SetSelect(c, p))
  BY DEF GetRegs, AfterGet, SetSelect, Step, Return, Goto, ProcsTypeOK
<1>5. ~(NewProcAlloc(c, p) \/ NewProcCopy(c, p) \/ NewProcInsert(c, p))
  BY NewProcReturnPhases
     DEF NewProcAlloc, NewProcCopy, NewProcInsert, NewProcPC, Step, Goto, ProcsTypeOK
<1>6. ASSUME NEW q \in Pid, NEW kind \in CloneKinds, Clone(c, p, q, kind)
      PROVE  pc'[p] = pc[p]
  BY <1>6 DEF Clone, Goto, ProcsTypeOK
<1>7. CASE ProcFault(c, p)
  BY <1>7 DEF ProcFault, procs
<1>8. QED
  BY <1>1, <1>2, <1>3, <1>4, <1>5, <1>6, <1>7 DEF ProcStep, KernelStep

\* An operation loads the registers of its core with put_lbr only.
LEMMA ProcLoaded ==
    ASSUME NoZero, Inv, InvOneState, InvRecorded, NEW c \in CPU, NEW p \in Pid,
           ProcStep(c, p), NEW c2 \in CPU, Loaded(c2)'
    PROVE  (c2 = c /\ PutRegs(c, p)) \/ Loaded(c2)
<1> USE PartsOfTypes DEF Inv
<1>1. Executes(c, p) /\ UNCHANGED <<run, at>> /\ RequestFits
  BY ProcFrame DEF swtch, InvRecorded
<1>2. CASE c2 # c
  <2>1. lbrOn'[c2] = lbrOn[c2] /\ run[c2] # p
    BY <1>1, <1>2, CoresStep, OnlyHere DEF CoresTypeOK
  <2>2. \A x \in Pid : x = run[c2] => pc'[x] = pc[x]
    BY <2>1, OthersRecording DEF OnCore
  <2>3. QED
    BY <1>1, <2>1, <2>2 DEF Loaded
<1>3. CASE c2 = c /\ ~PutRegs(c, p)
  <2>1. CASE GetOff(c, p) \/ PutOn(c, p)
    BY <1>1, <1>3, <2>1, LoadedWhere DEF GetOff, PutOn
  <2>2. CASE ~GetOff(c, p) /\ ~PutOn(c, p)
    <3>1. UNCHANGED lbrOn
      BY <2>2, CoresStep
    <3>2. pc'[p] \in {"get_regs", "put_on"} => pc'[p] = pc[p]
      BY <1>1, <1>3, <2>2, LoadedPoints
    <3>3. QED
      BY <1>1, <1>3, <3>1, <3>2 DEF Loaded, Executes
  <2>3. QED
    BY <2>1, <2>2
<1>4. QED
  BY <1>2, <1>3

LEMMA ProcFilter ==
    ASSUME NoZero, Inv, InvOneState, InvRecorded, InvExact, NEW c \in CPU, NEW p \in Pid,
           ProcStep(c, p)
    PROVE  FilterLoaded'
<1> USE PartsOfTypes DEF Inv
<1>1. Executes(c, p) /\ UNCHANGED <<run, at>> /\ RequestFits
  BY ProcFrame DEF swtch, InvRecorded
<1> SUFFICES ASSUME NEW c2 \in CPU, NEW x \in Pid, x = run[c2], Loaded(c2)',
                    NEW o \in Matches(x)'
             PROVE  hwSelect'[c2] = lbrSelect'[o]
  <2>1. \A c2 \in CPU : Loaded(c2)' => run[c2] \in Pid
    BY <1>1 DEF Loaded
  <2>2. QED
    BY <1>1, <2>1 DEF FilterLoaded
<1>2. GetRegs(c, p) => UNCHANGED lbrSelect
  BY SameFilterSaved DEF InvExact
<1>3. CASE x # p
  <2>1. c2 # c
    BY <1>1, <1>3 DEF Executes
  <2>2. Matches(x)' = Matches(x)
    BY <1>3, OthersRecording DEF OnCore
  <2>3. Loaded(c2) /\ hwSelect'[c2] = hwSelect[c2]
    BY <2>1, ProcLoaded, CoresStep DEF CoresTypeOK, LoadRegisters
  <2>4. hwSelect[c2] = lbrSelect[o]
    BY <2>2, <2>3 DEF InvExact, FilterLoaded
  <2>5. o \in listed /\ statePid[o] = x
    BY <2>2 DEF Matches
  <2>6. SetSelect(c, p) \/ Remove(c, p) => ptr[p] # o
    BY <1>1, <1>3, <2>5 DEF SetSelect, Remove, RequestFits, FitsRequest, PointerDiscipline,
       HeldPointers, HoldingPC
  <2>7. lbrSelect'[o] = lbrSelect[o]
    BY <1>2, <2>5, <2>6, ListedStep, <1>1 DEF SetSelect, Remove, HeapTypeOK
  <2>8. QED
    BY <2>3, <2>4, <2>7
<1>4. CASE x = p
  <2>1. c2 = c
    BY <1>1, <1>4, OnlyHere
  <2>2. CASE PutRegs(c, p)
    <3>1. Matches(p)' = {ptr[p]}
      BY <1>1, <2>2, HeldMatches, OwnTraced DEF PutRegs, HoldingPC, Insert, Remove
    <3>2. UNCHANGED lbrSelect /\ hwSelect'[c] = lbrSelect[ptr[p]]
      BY <2>2 DEF PutRegs, LoadRegisters, heap, CoresTypeOK
    <3>3. QED
      BY <1>4, <2>1, <3>1, <3>2
  <2>3. CASE Insert(c, p) \/ SetSelect(c, p) \/ Remove(c, p)
    <3>1. ~Recording(p)
      BY <1>1, <2>3 DEF Insert, SetSelect, Remove, Recording, Stopped, RequestFits, FitsRequest,
         InvOneState, EnablingIsUntraced
    <3>2. ~lbrOn[c]
      BY <1>1, <3>1 DEF InvExact, Dark, Executes
    <3>3. ~lbrOn'[c]
      BY <2>3, <3>2 DEF Insert, SetSelect, Remove, cores
    <3>4. pc'[p] \notin {"get_regs", "put_on"}
      BY <2>3 DEF Insert, SetSelect, Remove, Step, Return, Goto, ProcsTypeOK
    <3>5. QED
      BY <1>1, <1>4, <2>1, <3>3, <3>4 DEF Loaded
  <2>4. CASE ~PutRegs(c, p) /\ ~Insert(c, p) /\ ~SetSelect(c, p) /\ ~Remove(c, p)
    <3>1. Matches(p)' = Matches(p)
      BY <1>1, <2>4, OwnTraced
    <3>2. Loaded(c)
      BY <2>1, <2>4, ProcLoaded
    <3>3. UNCHANGED hwSelect
      BY <2>4, CoresStep
    <3>4. o \in Matches(p) /\ o \in listed
      BY <1>4, <3>1 DEF Matches
    <3>5. lbrSelect'[o] = lbrSelect[o]
      BY <1>1, <1>2, <2>4, <3>4, ListedStep
    <3>6. QED
      BY <1>4, <2>1, <3>2, <3>3, <3>4, <3>5 DEF InvExact, FilterLoaded
  <2>5. QED
    BY <2>2, <2>3, <2>4
<1>5. QED
  BY <1>3, <1>4

\* What the context-switch handler loads is the state of the new process.
LEMMA LoadedAfterPut ==
    ASSUME Inv, InvOneState, InvRecorded, KeepsCore, Dark, NEW c \in CPU, SwitchPut(c), Loaded(c)'
    PROVE  /\ nxt[c] \in Pid /\ run'[c] = nxt[c] /\ LoadRegisters(c, nextState[c])
           /\ nextState[c] \in listed /\ statePid[nextState[c]] = nxt[c]
           /\ Matches(nxt[c]) = {nextState[c]}
<1> USE PartsOfTypes DEF Inv
<1>1. at[c] = "put" /\ run'[c] = nxt[c] /\ UNCHANGED pc
  BY DEF SwitchPut, procs, CoresTypeOK
<1>2. nxt[c] \in Pid
  BY <1>1 DEF Loaded
<1>3. lbrOn'[c]
  BY <1>1, <1>2, SwitchedIsQuiet DEF Loaded, Yields
<1>4. nextState[c] # NoObj /\ LoadRegisters(c, nextState[c])
  BY <1>1, <1>3 DEF SwitchPut, SwitchIn, Dark
<1>5. nextState[c] \in listed /\ statePid[nextState[c]] = nxt[c]
  BY <1>1, <1>4 DEF PointerDiscipline, HandlerPointers
<1>6. QED
  BY <1>1, <1>2, <1>4, <1>5, LbrAssumption DEF Matches, InvOneState, OneStatePerPid

\* The other steps of a core load nothing.
LEMMA LoadedBefore ==
    ASSUME InvType, NEW c \in CPU, CoreStep(c), NEW c2 \in CPU, Loaded(c2)',
           ~(c2 = c /\ SwitchPut(c))
    PROVE  Loaded(c2) /\ run'[c2] = run[c2] /\ hwSelect'[c2] = hwSelect[c2]
<1> USE PartsOfTypes
<1>1. UNCHANGED pc
  BY CoreKeepsProcs
<1>2. CASE c2 # c
  <2>1. at'[c2] = at[c2] /\ run'[c2] = run[c2] /\ lbrOn'[c2] = lbrOn[c2] /\ hwSelect'[c2] = hwSelect[c2]
    BY <1>2 DEF CoreStep, SwitchStep, SwitchTo, SwitchFind, SwitchGet, SwitchPut, SwitchIn,
       LoadRegisters, Branch, SwitchFault, cores, swtch, CoresTypeOK, SwitchTypeOK
  <2>2. QED
    BY <1>1, <2>1 DEF Loaded
<1>3. CASE c2 = c /\ ~SwitchGet(c) /\ ~SwitchPut(c)
  <2>1. UNCHANGED <<run, lbrOn, hwSelect>> /\ at[c] # "put"
    <3>1. at[c] = "put" => at'[c] = "put"
      BY <1>3 DEF CoreStep, SwitchStep, SwitchTo, SwitchFind, Branch, SwitchFault, swtch
    <3>2. UNCHANGED <<run, lbrOn, hwSelect>>
      BY <1>3 DEF CoreStep, SwitchStep, SwitchTo, SwitchFind, Branch, SwitchFault, cores
    <3>3. QED
      BY <1>3, <3>1, <3>2 DEF Loaded
  <2>2. QED
    BY <1>1, <1>3, <2>1 DEF Loaded
<1>4. CASE c2 = c /\ SwitchGet(c)
  BY <1>4 DEF SwitchGet, SwitchTypeOK, Loaded
<1>5. QED
  BY <1>2, <1>3, <1>4

LEMMA CoreFilter ==
    ASSUME Inv, InvOneState, InvRecorded, InvExact, NEW c \in CPU, CoreStep(c)
    PROVE  FilterLoaded'
<1> USE PartsOfTypes DEF Inv
<1>1. UNCHANGED lbrSelect
  BY SameFilterSaved DEF InvExact, CoreStep, SwitchStep, SwitchTo, SwitchFind, SwitchPut, Branch,
     SwitchFault, heap
<1> SUFFICES ASSUME NEW c2 \in CPU, Loaded(c2)', NEW x, x = run'[c2], NEW o \in Matches(x)
             PROVE  hwSelect'[c2] = lbrSelect[o]
  BY <1>1, CoreKeepsProcs DEF FilterLoaded
<1>2. CASE c2 = c /\ SwitchPut(c)
  <2>1. Matches(x) = {nextState[c]} /\ LoadRegisters(c, nextState[c])
    BY <1>2, LoadedAfterPut DEF InvExact
  <2>2. QED
    BY <1>2, <2>1 DEF LoadRegisters, CoresTypeOK
<1>3. CASE ~(c2 = c /\ SwitchPut(c))
  BY <1>3, LoadedBefore DEF InvExact, FilterLoaded
<1>4. QED
  BY <1>2, <1>3

LEMMA NextExact ==
    ASSUME ~Preemptible, NoZero, Inv, InvOneState, InvRecorded, InvExact, [Next]_vars
    PROVE  InvExact'
<1>1. KeepsCore' /\ Dark'
  BY KeepsCoreStep, DarkStep DEF InvExact
<1>2. FilterLoaded'
  <2>1. CASE UNCHANGED vars
    <3>1. UNCHANGED <<at, run, lbrOn, hwSelect, lbrSelect, pc>>
      BY <2>1 DEF vars, heap, cores, swtch, procs
    <3>2. \A x : Matches(x)' = Matches(x)
      BY <2>1 DEF vars, heap, Matches
    <3>3. QED
      BY <3>1, <3>2 DEF InvExact, FilterLoaded, Loaded
  <2>2. QED
    BY <2>1, ProcFilter, CoreFilter DEF Next
<1>3. QED
  BY <1>1, <1>2 DEF InvExact

LEMMA InitExact == Init => InvExact
BY LbrAssumption DEF Init, InvExact, KeepsCore, Dark, FilterLoaded, Loaded, Yields

\* ExactlyTheTraced: if every process traces itself, no pid is used again and
\* the kernel is not preempted outside spinlocks, then on every core the LBR is
\* on while user code runs if and only if the current process is traced, and
\* holds that process' filter, with processes and threads created at any time
\* (lbr.c: the four operations, lbr_cswitch_handler, lbr_newproc_handler).
THEOREM ExactlyTheTraced ==
    NoZero /\ NoReuse /\ ~Preemptible => (Spec => []TraceExact)
<1> SUFFICES ASSUME NoZero, NoReuse, ~Preemptible PROVE Spec => []TraceExact
  OBVIOUS
<1>1. InvAnyKernel /\ InvExact /\ [Next]_vars => InvAnyKernel' /\ InvExact'
  BY NextAnyKernel, NextExact DEF InvAnyKernel
<1>2. InvAnyKernel /\ InvExact => TraceExact
  <2> SUFFICES ASSUME InvAnyKernel, InvExact, NEW c \in CPU, Settled(c)
               PROVE  /\ lbrOn[c] <=> Traced(run[c])
                      /\ \A o \in Matches(run[c]) : hwSelect[c] = lbrSelect[o]
    BY DEF TraceExact
  <2>1. lbrOn[c] => Traced(run[c])
    BY DEF InvExact, Dark, Recording
  <2>2. Traced(run[c]) => run[c] \in Pid /\ lbrOn[c]
    <3>1. Traced(run[c]) => run[c] \in Pid
      BY PartsOfTypes DEF InvAnyKernel, Inv, CoresTypeOK, Tag, Traced, Matches
    <3>2. Traced(run[c]) => Recording(run[c])
      BY <3>1, LbrAssumption DEF Settled, Recording, Stopped
    <3>3. QED
      BY <3>1, <3>2 DEF InvAnyKernel, InvRecorded, Recorded, Settled
  <2>3. Traced(run[c]) => Loaded(c)
    BY <2>2 DEF Loaded, Settled
  <2>4. QED
    BY <2>1, <2>2, <2>3 DEF InvExact, FilterLoaded, Traced
<1>3. QED
  BY <1>1, <1>2, InitAnyKernel, InitExact, PTL DEF Spec

----------------------------------------------------------------------------
(* Nobody's branches reach another process.                                *)

LEMMA ProcIsolation ==
    ASSUME NoCreation, NoZero, Inv, InvOneState, InvRecorded, OwnEntries, InvIsolation,
           NEW c \in CPU, NEW p \in Pid, ProcStep(c, p)
    PROVE  InvIsolation'
<1> USE PartsOfTypes DEF Inv
<1>1. Executes(c, p) /\ UNCHANGED run
  BY ProcFrame
<1>2. ASSUME NEW c2 \in CPU, Loaded(c2)'
      PROVE  stack'[c2] \subseteq {run[c2]}
  <2>1. CASE c2 = c /\ PutRegs(c, p)
    <3>1. ptr[p] \in live /\ statePid[ptr[p]] = p /\ entries[ptr[p]] = ptr[p]
      BY <2>1 DEF PutRegs, Usable, OwnEntries, PointerDiscipline, HeldPointers, HoldingPC
    <3>2. stack'[c] = saved[ptr[p]]
      BY <2>1, <3>1 DEF PutRegs, LoadRegisters, CoresTypeOK
    <3>3. QED
      BY <1>1, <2>1, <3>1, <3>2 DEF InvIsolation, SavedOwn, Executes
  <2>2. CASE ~(c2 = c /\ PutRegs(c, p))
    <3>1. Loaded(c2)
      BY <1>2, <2>2, ProcLoaded
    <3>2. stack'[c2] = stack[c2]
      BY <2>2, CoresStep DEF LoadRegisters, CoresTypeOK
    <3>3. QED
      BY <3>1, <3>2 DEF InvIsolation, StackOwn
  <2>3. QED
    BY <2>1, <2>2
<1>3. SavedOwn'
  <2>1. CASE Alloc(c, p)
    <3>1. CASE UNCHANGED heap
      BY <3>1 DEF heap, InvIsolation, SavedOwn
    <3>2. ASSUME NEW o \in Obj, NEW t, Create(o), statePid' = [statePid EXCEPT ![o] = t]
          PROVE  SavedOwn'
      BY <3>2 DEF Create, InvIsolation, SavedOwn, HeapTypeOK
    <3>3. QED
      BY <2>1, <3>1, <3>2 DEF Alloc
  <2>2. CASE GetRegs(c, p)
    <3>1. Loaded(c) /\ run[c] = p
      BY <1>1, <2>2, LoadedWhere DEF GetRegs, Executes
    <3>2. ptr[p] \in live /\ statePid[ptr[p]] = p /\ entries[ptr[p]] = ptr[p]
      BY <2>2 DEF GetRegs, Usable, OwnEntries, PointerDiscipline, HeldPointers, HoldingPC
    <3>3. saved' = [saved EXCEPT ![ptr[p]] = stack[c]] /\ UNCHANGED <<live, statePid>>
      BY <2>2, <3>2 DEF GetRegs, SaveRegisters
    <3>4. QED
      BY <3>1, <3>2, <3>3 DEF InvIsolation, StackOwn, SavedOwn, HeapTypeOK
  <2>3. CASE Remove(c, p)
    <3>1. ptr[p] \in live /\ entries[ptr[p]] = ptr[p]
      BY <2>3 DEF Remove, Usable, OwnEntries
    <3>2. QED
      BY <2>3, <3>1 DEF Remove, InvIsolation, SavedOwn, HeapTypeOK
  <2>4. CASE ~Alloc(c, p) /\ ~GetRegs(c, p) /\ ~Remove(c, p)
    <3>1. ~(NewProcAlloc(c, p) \/ NewProcCopy(c, p) \/ NewProcInsert(c, p))
      BY DEF NewProcAlloc, NewProcCopy, NewProcInsert, OwnEntries, NewProcPC
    <3>2. UNCHANGED <<live, statePid, saved>>
      BY <2>4, <3>1 DEF ProcStep, KernelStep, Ioctl, Insert, Check, GetOff, SetSelect, PutRegs,
         PutOn, Copy, Clone, Exit, ProcFault, heap
    <3>3. QED
      BY <3>2 DEF InvIsolation, SavedOwn
  <2>5. QED
    BY <2>1, <2>2, <2>3, <2>4
<1>4. QED
  BY <1>1, <1>2, <1>3 DEF InvIsolation, StackOwn

LEMMA CoreIsolation ==
    ASSUME Inv, InvOneState, InvRecorded, InvExact, OwnEntries, InvIsolation,
           NEW c \in CPU, CoreStep(c)
    PROVE  InvIsolation'
<1> USE PartsOfTypes DEF Inv
<1>1. UNCHANGED <<live, listed, statePid, entries>>
  BY CoreKeepsProcs
<1>2. ASSUME NEW c2 \in CPU, Loaded(c2)'
      PROVE  stack'[c2] \subseteq {run'[c2]}
  <2>1. CASE c2 = c /\ SwitchPut(c)
    <3>1. /\ run'[c] = nxt[c] /\ LoadRegisters(c, nextState[c])
          /\ nextState[c] \in listed /\ statePid[nextState[c]] = nxt[c]
      BY <1>2, <2>1, LoadedAfterPut DEF InvExact
    <3>2. stack'[c] = saved[nextState[c]] /\ nextState[c] \in live
      BY <3>1 DEF LoadRegisters, CoresTypeOK, OwnEntries, PointerDiscipline, ListWellFormed
    <3>3. QED
      BY <2>1, <3>1, <3>2 DEF InvIsolation, SavedOwn
  <2>2. CASE ~(c2 = c /\ SwitchPut(c))
    <3>1. Loaded(c2) /\ run'[c2] = run[c2]
      BY <1>2, <2>2, LoadedBefore
    <3>2. stack'[c2] = stack[c2] \/ stack'[c2] = stack[c2] \cup {run[c2]}
      BY <2>2 DEF CoreStep, SwitchStep, SwitchTo, SwitchFind, SwitchGet, SwitchPut, SwitchIn,
         LoadRegisters, Branch, SwitchFault, cores, CoresTypeOK
    <3>3. QED
      BY <3>1, <3>2 DEF InvIsolation, StackOwn
  <2>3. QED
    BY <2>1, <2>2
<1>3. SavedOwn'
  <2>1. CASE SwitchGet(c)
    <3>1. run[c] \in Pid /\ Loaded(c) /\ prevState[c] \in Matches(run[c])
      BY <2>1, LoadedAtGet DEF SwitchGet, InvExact
    <3>2. statePid[prevState[c]] = run[c] /\ prevState[c] \in live /\ entries[prevState[c]] = prevState[c]
      BY <2>1, <3>1 DEF Matches, SwitchGet, Usable, OwnEntries
    <3>3. saved' = [saved EXCEPT ![prevState[c]] = stack[c]]
      BY <2>1, <3>2 DEF SwitchGet, SaveRegisters
    <3>4. QED
      BY <1>1, <3>1, <3>2, <3>3 DEF InvIsolation, StackOwn, SavedOwn, HeapTypeOK
  <2>2. CASE ~SwitchGet(c)
    <3>1. UNCHANGED saved
      BY <2>2 DEF CoreStep, SwitchStep, SwitchTo, SwitchFind, SwitchPut, Branch, SwitchFault, heap
    <3>2. QED
      BY <1>1, <3>1 DEF InvIsolation, SavedOwn
  <2>3. QED
    BY <2>1, <2>2
<1>4. QED
  BY <1>2, <1>3 DEF InvIsolation, StackOwn

\* NobodyElsesBranches: if every process traces itself, no process is created
\* and the kernel is not preempted outside spinlocks, then a state on the list
\* holds branches of its own process only, and so does the LBR of a core while
\* it is on: what dump_lbr shows a process is its own control flow
\* (lbr.c: get_lbr, put_lbr, lbr_cswitch_handler, create_lbr_state).
THEOREM NobodyElsesBranches ==
    NoZero /\ NoCreation /\ ~Preemptible => (Spec => []TraceIsolation)
<1> SUFFICES ASSUME NoZero, NoCreation, ~Preemptible PROVE Spec => []TraceIsolation
  OBVIOUS
<1> DEFINE IInv == InvAnyKernel /\ InvExact /\ OwnEntries /\ InvIsolation
<1>1. Init => IInv
  <2>1. Init => OwnEntries /\ InvIsolation
    BY LbrAssumption DEF Init, OwnEntries, NewProcPC, InvIsolation, StackOwn, SavedOwn
  <2>2. QED
    BY <2>1, InitAnyKernel, InitExact
<1>2. IInv /\ [Next]_vars => IInv'
  <2> SUFFICES ASSUME IInv, [Next]_vars PROVE IInv'
    OBVIOUS
  <2>1. InvAnyKernel' /\ InvExact'
    BY NextAnyKernel, NextExact DEF InvAnyKernel, NoReuse
  <2>2. OwnEntries'
    BY OwnEntriesStep DEF InvAnyKernel, Inv
  <2>3. InvIsolation'
    <3>1. CASE UNCHANGED vars
      BY <3>1 DEF vars, heap, cores, swtch, procs, InvIsolation, StackOwn, SavedOwn, Loaded
    <3>2. QED
      BY <3>1, ProcIsolation, CoreIsolation DEF Next, InvAnyKernel
  <2>4. QED
    BY <2>1, <2>2, <2>3
<1>3. IInv => TraceIsolation
  <2> SUFFICES ASSUME IInv PROVE TraceIsolation
    OBVIOUS
  <2>1. \A o \in listed : saved[entries[o]] \subseteq {statePid[o]}
    BY DEF OwnEntries, InvIsolation, SavedOwn, InvAnyKernel, Inv, PointerDiscipline, ListWellFormed
  <2>2. \A c \in CPU : (lbrOn[c] /\ at[c] = "no") => stack[c] \subseteq {run[c]}
    BY DEF InvIsolation, StackOwn, Loaded, InvExact, Dark
  <2>3. QED
    BY <2>1, <2>2 DEF TraceIsolation
<1>4. QED
  BY <1>1, <1>2, <1>3, PTL DEF Spec
=============================================================================
