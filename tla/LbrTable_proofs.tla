-------------------------- MODULE LbrTable_proofs --------------------------
(* The list of LBR states implements the table of TraceTable.  These proofs *)
(* build on LbrTrace_proofs.                                               *)
EXTENDS LbrTable, LbrTrace_proofs

\* The invariants of a kernel without preemption, in short.
InvTable == InvAnyKernel /\ InvExact /\ FilterChosen

----------------------------------------------------------------------------
(* The filter of a state that is not on the list yet.                      *)

\* The writes of a filter.
LEMMA SelectStep ==
    ASSUME InvAnyKernel, InvExact, NEW c \in CPU, NEW p \in Pid, ProcStep(c, p),
           NEW o \in Obj, lbrSelect'[o] # lbrSelect[o]
    PROVE  \/ Alloc(c, p) /\ o \notin live
           \/ NewProcCopy(c, p) /\ o = child[p]
           \/ (SetSelect(c, p) \/ Remove(c, p)) /\ o = ptr[p] /\ o \in listed /\ statePid[o] = p
<1> USE PartsOfTypes DEF InvAnyKernel, Inv
<1>1. ~GetRegs(c, p)
  BY SameFilterSaved DEF InvExact
<1>2. CASE Alloc(c, p)
  BY <1>2 DEF Alloc, Create, heap, HeapTypeOK
<1>3. CASE NewProcCopy(c, p)
  BY <1>3 DEF NewProcCopy, HeapTypeOK
<1>4. CASE SetSelect(c, p) \/ Remove(c, p)
  <2>1. o = ptr[p]
    BY <1>4 DEF SetSelect, Remove, HeapTypeOK
  <2>2. pc[p] \in {"set", "remove"}
    BY <1>4 DEF SetSelect, Remove, InvRecorded, RequestFits, FitsRequest
  <2>3. QED
    BY <1>4, <2>1, <2>2 DEF PointerDiscipline, HeldPointers, HoldingPC
<1>5. QED
  BY <1>1, <1>2, <1>3, <1>4 DEF ProcStep, KernelStep, Ioctl, Insert, Check, GetOff, PutRegs, PutOn,
     Copy, NewProcAlloc, NewProcInsert, Clone, Exit, ProcFault, heap

\* The steps that lead to the insertion of a new state.
LEMMA ToInsert ==
    ASSUME InvAnyKernel, NEW c \in CPU, NEW p \in Pid, ProcStep(c, p)
    PROVE  /\ pc'[p] = "insert" => Alloc(c, p) \/ ProcFault(c, p)
           /\ pc'[p] = "np_insert" => NewProcCopy(c, p) \/ ProcFault(c, p)
<1> USE PartsOfTypes DEF InvAnyKernel, Inv
<1>1. ASSUME NEW cmd \in Cmds, NEW t \in Targets[p], NEW s \in ReqSelect, Ioctl(c, p, cmd, t, s)
      PROVE  pc'[p] \notin {"insert", "np_insert"}
  BY <1>1 DEF Ioctl, procs, Goto, ProcsTypeOK
<1>2. CASE \/ Insert(c, p) \/ Check(c, p) \/ GetOff(c, p) \/ GetRegs(c, p)
           \/ SetSelect(c, p) \/ PutRegs(c, p) \/ PutOn(c, p) \/ Copy(c, p) \/ Remove(c, p)
  BY <1>2 DEF Insert, Check, UnlessOwn, GetOff, GetRegs, AfterGet, SetSelect, PutRegs,
       PutOn, AfterPut, Copy, Remove, Step, Return, Goto, ProcsTypeOK
<1>3. CASE NewProcAlloc(c, p) \/ NewProcInsert(c, p)
  BY <1>3, NewProcReturnPhases
     DEF NewProcAlloc, NewProcInsert, NewProcPC, Goto, ProcsTypeOK
<1>4. ASSUME NEW q \in Pid, NEW kind \in CloneKinds, Clone(c, p, q, kind)
      PROVE  pc'[p] \notin {"insert", "np_insert"}
  BY <1>4 DEF Clone, Goto, ProcsTypeOK
<1>5. CASE Exit(c, p)
  BY <1>5 DEF Exit, Goto, ProcsTypeOK
<1>6. CASE Alloc(c, p)
  BY <1>6 DEF Alloc, Return, Goto, ProcsTypeOK
<1>7. CASE NewProcCopy(c, p)
  BY <1>7 DEF NewProcCopy, Step, Goto, ProcsTypeOK
<1>8. QED
  BY <1>1, <1>2, <1>3, <1>4, <1>5, <1>6, <1>7 DEF ProcStep, KernelStep

LEMMA ProcFilterChosen ==
    ASSUME NoThreads, InvTable, NEW c \in CPU, NEW p \in Pid, ProcStep(c, p)
    PROVE  FilterChosen'
<1> USE PartsOfTypes DEF InvTable, InvAnyKernel, Inv
<1>1. ASSUME NEW x \in Pid \ {p}, pc'[x] \in {"insert", "np_insert"}
      PROVE  /\ pc'[x] = "insert" => lbrSelect'[ptr'[x]] = EnableSelect(req'[x].sel)
             /\ pc'[x] = "np_insert" => lbrSelect'[child'[x]] = lbrSelect'[ptr'[x]]
  <2>1. pc'[x] = pc[x] /\ req'[x] = req[x] /\ ptr'[x] = ptr[x] /\ child'[x] = child[x]
    BY <1>1, OthersKept
  <2>2. \A o \in Private(x) : lbrSelect'[o] = lbrSelect[o]
    <3>1. Private(x) \subseteq live \ listed
      BY DEF PointerDiscipline, PrivatePointers
    <3>2. NewProcCopy(c, p) => child[p] \notin Private(x)
      BY <1>1 DEF NewProcCopy, PointerDiscipline, PrivatePointers, Private
    <3>3. QED
      BY <3>1, <3>2, SelectStep DEF HeapTypeOK
  <2>3. pc[x] = "np_insert" => lbrSelect'[ptr[x]] = lbrSelect[ptr[x]]
    <3>1. pc[x] = "np_insert" => ptr[x] \in listed /\ statePid[ptr[x]] = x
      BY DEF PointerDiscipline, HeldPointers, HoldingPC, NewProcPC
    <3>2. NewProcCopy(c, p) => child[p] \notin listed
      BY DEF NewProcCopy, PointerDiscipline, PrivatePointers, Private
    <3>3. QED
      BY <3>1, <3>2, SelectStep DEF PointerDiscipline, ListWellFormed, HeapTypeOK
  <2>4. QED
    BY <1>1, <2>1, <2>2, <2>3 DEF FilterChosen, Private
<1>2. ASSUME pc'[p] \in {"insert", "np_insert"}
      PROVE  /\ pc'[p] = "insert" => lbrSelect'[ptr'[p]] = EnableSelect(req'[p].sel)
             /\ pc'[p] = "np_insert" => lbrSelect'[child'[p]] = lbrSelect'[ptr'[p]]
  <2>1. CASE ProcFault(c, p)
    BY <1>2, <2>1 DEF ProcFault, heap, procs, FilterChosen
  <2>2. CASE Alloc(c, p)
    BY <1>2, <2>2 DEF Alloc, Return, Goto, ProcsTypeOK, HeapTypeOK
  <2>3. CASE NewProcCopy(c, p)
    <3>1. ptr[p] \in listed /\ child[p] \in Obj \ listed
      BY <2>3 DEF NewProcCopy, PointerDiscipline, HeldPointers, HoldingPC, NewProcPC,
         PrivatePointers, Private, HeapTypeOK
    <3>2. QED
      BY <2>3, <3>1 DEF NewProcCopy, Step, Goto, ProcsTypeOK, HeapTypeOK
  <2>4. QED
    BY <1>2, <2>1, <2>2, <2>3, ToInsert
<1>3. QED
  BY <1>1, <1>2 DEF FilterChosen

LEMMA CoreSelect ==
    ASSUME InvAnyKernel, InvExact, NEW c \in CPU, CoreStep(c)
    PROVE  UNCHANGED lbrSelect
BY SameFilterSaved DEF InvAnyKernel, InvExact, CoreStep, SwitchStep, SwitchTo, SwitchFind, SwitchPut,
   Branch, SwitchFault, heap

LEMMA NextTable ==
    ASSUME NoZero, NoReuse, NoThreads, ~Preemptible, InvTable, [Next]_vars
    PROVE  InvTable'
<1>1. InvAnyKernel' /\ InvExact'
  BY NextAnyKernel, NextExact DEF InvTable, InvAnyKernel
<1>2. FilterChosen'
  <2>1. ASSUME UNCHANGED <<lbrSelect, pc, req, ptr, child>>  PROVE FilterChosen'
    BY <2>1 DEF InvTable, FilterChosen
  <2>2. ASSUME NEW c \in CPU, CoreStep(c)  PROVE FilterChosen'
    BY <2>1, <2>2, CoreSelect, CoreKeepsProcs DEF InvTable
  <2>3. QED
    BY <2>1, <2>2, ProcFilterChosen DEF Next, vars, heap, procs
<1>3. QED
  BY <1>1, <1>2 DEF InvTable

LEMMA InitTable == Init => InvTable
BY InitAnyKernel, InitExact DEF InvTable, Init, FilterChosen

----------------------------------------------------------------------------
(* The table that the list stands for.                                     *)

TracedTable == [t \in Pid |-> EntryOf(t)]
DoneTable   == [p \in Pid |-> TookEffect(p)]

LEMMA EntryIs ==
    ASSUME NEW x, NEW o, Matches(x) = {o}
    PROVE  EntryOf(x) = lbrSelect[o]
BY DEF EntryOf, Traced

LEMMA EntryOff ==
    ASSUME HeapTypeOK, NEW x
    PROVE  EntryOf(x) = Off <=> ~Traced(x)
<1>1. CASE Traced(x)
  <2>1. PICK o : o \in Matches(x) /\ o = CHOOSE y \in Matches(x) : TRUE
    BY <1>1 DEF Traced
  <2>2. EntryOf(x) \in Select
    BY <1>1, <2>1 DEF EntryOf, HeapTypeOK, Matches
  <2>3. QED
    BY <1>1, <2>2, LbrTableAssumption
<1>2. CASE ~Traced(x)
  BY <1>2 DEF EntryOf
<1>3. QED
  BY <1>1, <1>2

LEMMA EntryKept ==
    ASSUME NEW x, Matches(x)' = Matches(x), \A o \in Matches(x) : lbrSelect'[o] = lbrSelect[o]
    PROVE  EntryOf(x)' = EntryOf(x)
BY DEF EntryOf, Traced

\* The steps that change the table, and how.
LEMMA TableStep ==
    ASSUME InvAnyKernel, InvExact, NEW c \in CPU, NEW p \in Pid, ProcStep(c, p)
    PROVE  /\ Insert(c, p) =>
                 TracedTable' = [TracedTable EXCEPT ![p] = lbrSelect[ptr[p]]]
           /\ SetSelect(c, p) =>
                 TracedTable' = [TracedTable EXCEPT ![p] = req[p].sel]
           /\ Remove(c, p) =>
                 TracedTable' = [TracedTable EXCEPT ![p] = Off]
           /\ NewProcInsert(c, p) =>
                 TracedTable' = [TracedTable EXCEPT ![req[p].pid] = lbrSelect[child[p]]]
           /\ ~Insert(c, p) /\ ~SetSelect(c, p) /\ ~Remove(c, p) /\ ~NewProcInsert(c, p) =>
                 TracedTable' = TracedTable
<1> USE PartsOfTypes DEF InvAnyKernel, Inv
<1>1. RequestFits
  BY DEF InvRecorded
<1>2. ASSUME NEW x \in Pid, Matches(x)' = Matches(x), SetSelect(c, p) => x # p
      PROVE  EntryOf(x)' = EntryOf(x)
  <2>1. \A o \in Matches(x) : o \in listed /\ statePid[o] = x
    BY DEF Matches
  <2>2. SetSelect(c, p) => pc[p] \in HoldingPC
    BY <1>1 DEF SetSelect, RequestFits, FitsRequest, HoldingPC
  <2>3. \A o \in Matches(x) : SetSelect(c, p) => o # ptr[p]
    BY <1>2, <2>1, <2>2 DEF PointerDiscipline, HeldPointers
  <2>4. Remove(c, p) => ptr[p] \notin Matches(x)
    <3>1. Remove(c, p) => Matches(x)' \subseteq listed \ {ptr[p]}
      BY <1>1, ListedStep DEF Matches
    <3>2. QED
      BY <1>2, <3>1
  <2>5. \A o \in Matches(x) : lbrSelect'[o] = lbrSelect[o]
    <3>1. NewProcCopy(c, p) => child[p] \notin listed
      BY DEF NewProcCopy, PointerDiscipline, PrivatePointers, Private
    <3>2. QED
      BY <2>1, <2>3, <2>4, <3>1, SelectStep DEF PointerDiscipline, ListWellFormed, HeapTypeOK
  <2>6. QED
    BY <1>2, <2>5, EntryKept
<1>3. CASE Insert(c, p)
  <2>1. \A x \in Pid \ {p} : EntryOf(x)' = EntryOf(x)
    BY <1>1, <1>2, <1>3, MatchesStep DEF Insert, SetSelect, Remove, NewProcInsert
  <2>2. Matches(p)' = {ptr[p]}
    BY <1>1, <1>3, MatchesStep
  <2>3. EntryOf(p)' = lbrSelect'[ptr'[p]] /\ ptr' = ptr /\ lbrSelect' = lbrSelect
    BY <1>3, <2>2 DEF EntryOf, Traced, Insert, Step
  <2>4. ~SetSelect(c, p) /\ ~Remove(c, p) /\ ~NewProcInsert(c, p)
    BY <1>3 DEF Insert, SetSelect, Remove, NewProcInsert
  <2>5. QED
    BY <1>3, <2>1, <2>3, <2>4 DEF TracedTable
<1>4. CASE SetSelect(c, p)
  <2>1. \A x \in Pid : Matches(x)' = Matches(x)
    BY <1>1, <1>4, MatchesStep DEF Insert, SetSelect, Remove, NewProcInsert
  <2>2. \A x \in Pid \ {p} : EntryOf(x)' = EntryOf(x)
    BY <1>2, <2>1
  <2>3. Matches(p) = {ptr[p]}
    BY <1>1, <1>4, HeldMatches DEF SetSelect, RequestFits, FitsRequest, HoldingPC
  <2>4. lbrSelect'[ptr[p]] = req[p].sel
    BY <1>4 DEF SetSelect, ConfigSelect, HeapTypeOK
  <2>5. EntryOf(p)' = req[p].sel
    BY <2>1, <2>3, <2>4 DEF EntryOf, Traced
  <2>6. ~Insert(c, p) /\ ~Remove(c, p) /\ ~NewProcInsert(c, p)
    BY <1>4 DEF Insert, SetSelect, Remove, NewProcInsert
  <2>7. QED
    BY <1>4, <2>2, <2>5, <2>6 DEF TracedTable
<1>5. CASE Remove(c, p)
  <2>1. ~Insert(c, p) /\ ~SetSelect(c, p) /\ ~NewProcInsert(c, p)
    BY <1>5 DEF Insert, SetSelect, Remove, NewProcInsert
  <2>2. \A x \in Pid \ {p} : EntryOf(x)' = EntryOf(x)
    BY <1>1, <1>2, <2>1, MatchesStep
  <2>3. EntryOf(p)' = Off
    BY <1>1, <1>5, <2>1, MatchesStep DEF EntryOf, Traced
  <2>4. QED
    BY <1>5, <2>1, <2>2, <2>3 DEF TracedTable
<1>6. CASE NewProcInsert(c, p)
  <2>1. /\ ~Insert(c, p) /\ ~SetSelect(c, p) /\ ~Remove(c, p)
        /\ req[p].pid \in Pid \ {p}
    BY <1>6, InheritsElsewhere DEF SetSelect, NewProcInsert
  <2>2. \A x \in Pid \ {req[p].pid} : EntryOf(x)' = EntryOf(x)
    BY <1>1, <1>2, <2>1, MatchesStep
  <2>3. \A x \in Pid : x = req[p].pid => EntryOf(x)' = lbrSelect[child[p]]
    <3> SUFFICES ASSUME NEW x \in Pid, x = req[p].pid PROVE EntryOf(x)' = lbrSelect[child[p]]
      OBVIOUS
    <3>1. Matches(x)' = {child[p]}
      BY <1>1, <1>6, <2>1, MatchesStep
    <3>2. UNCHANGED lbrSelect
      BY <1>6 DEF NewProcInsert
    <3>3. QED
      BY <3>1, <3>2 DEF EntryOf, Traced
  <2>4. QED
    BY <1>6, <2>1, <2>2, <2>3 DEF TracedTable
<1>7. CASE ~Insert(c, p) /\ ~SetSelect(c, p) /\ ~Remove(c, p) /\ ~NewProcInsert(c, p)
  BY <1>1, <1>2, <1>7, MatchesStep DEF TracedTable
<1>8. QED
  BY <1>3, <1>4, <1>5, <1>6, <1>7

\* Which requests have taken effect changes for the acting process only.
LEMMA DoneStep ==
    ASSUME InvAnyKernel, NEW c \in CPU, NEW p \in Pid, ProcStep(c, p), NEW b \in BOOLEAN,
           TookEffect(p)' <=> b
    PROVE  /\ DoneTable' = [DoneTable EXCEPT ![p] = b]
           /\ (TookEffect(p) <=> b) => DoneTable' = DoneTable
<1>1. \A x \in Pid \ {p} : TookEffect(x)' = TookEffect(x)
  <2> SUFFICES ASSUME NEW x \in Pid \ {p} PROVE TookEffect(x)' = TookEffect(x)
    OBVIOUS
  <2>1. /\ req'[x] = req[x]
        /\ \/ pc'[x] = pc[x]
           \/ pc[x] \in {"none", "new"} /\ pc'[x] \in {"user", "new"}
    BY OthersKept DEF InvAnyKernel, Inv
  <2>2. QED
    BY <2>1 DEF TookEffect
<1>2. TookEffect(p) \in BOOLEAN /\ TookEffect(p)' \in BOOLEAN
  BY DEF TookEffect
<1>3. TookEffect(p)' = b /\ ((TookEffect(p) <=> b) => TookEffect(p)' = TookEffect(p))
  BY <1>2, Zenon
<1>4. QED
  BY <1>1, <1>3, Zenon DEF DoneTable

----------------------------------------------------------------------------
(* Step by step.                                                           *)

\* A step of the table, or none.
TableMoves == Table!Next \/ UNCHANGED Table!tvars

LEMMA Stutter ==
    ASSUME TracedTable' = TracedTable, DoneTable' = DoneTable, UNCHANGED req
    PROVE  TableMoves
BY DEF TableMoves, Table!tvars, TracedTable, DoneTable

\* The steps after which the table is the same, and the same requests are at
\* work on it.
LEMMA QuietStep ==
    ASSUME InvTable, NEW c \in CPU, NEW p \in Pid, ProcStep(c, p), UNCHANGED req,
           ~Insert(c, p), ~SetSelect(c, p), ~Remove(c, p), ~NewProcInsert(c, p),
           TookEffect(p)' <=> TookEffect(p)
    PROVE  TableMoves
<1>1. TracedTable' = TracedTable
  BY TableStep DEF InvTable
<1>2. TookEffect(p) \in BOOLEAN
  BY DEF TookEffect
<1>3. DoneTable' = DoneTable
  BY <1>2, DoneStep DEF InvTable
<1>4. QED
  BY <1>1, <1>3, Stutter

\* The table's Return, for the returns that leave the table alone.
LEMMA ReturnStep ==
    ASSUME InvTable, NEW c \in CPU, NEW p \in Pid, ProcStep(c, p),
           req' = [req EXCEPT ![p] = NoReq], pc'[p] = "user",
           req[p] # NoReq, TookEffect(p) \/ req[p].cmd \in {"dump", "enable", "newproc"},
           ~Insert(c, p), ~SetSelect(c, p), ~Remove(c, p), ~NewProcInsert(c, p)
    PROVE  TableMoves
<1>1. TracedTable' = TracedTable
  BY TableStep DEF InvTable
<1>2. DoneTable' = [DoneTable EXCEPT ![p] = FALSE]
  <2>1. ~TookEffect(p)'
    BY DEF TookEffect
  <2>2. QED
    BY <2>1, DoneStep DEF InvTable
<1>3. DoneTable[p] \/ req[p].cmd \in {"dump", "enable", "newproc"}
  BY DEF DoneTable
<1>4. Table!Return(p)
  BY <1>1, <1>2, <1>3 DEF Table!Return, TracedTable, DoneTable
<1>5. QED
  BY <1>4 DEF TableMoves, Table!Next

LEMMA FitsHere ==
    ASSUME InvTable, NEW p \in Pid
    PROVE  FitsRequest(p) /\ pc[p] \in PC /\ req[p] \in ReqSet
BY PartsOfTypes DEF InvTable, InvAnyKernel, Inv, InvRecorded, RequestFits, ProcsTypeOK

\* The entry of the handlers: the request is accepted or not.
LEMMA IoctlImplements ==
    ASSUME NoZero, InvTable, NEW c \in CPU, NEW p \in Pid, NEW cmd \in Cmds,
           NEW t \in Targets[p], NEW s \in ReqSelect, Ioctl(c, p, cmd, t, s)
    PROVE  TableMoves
<1> USE PartsOfTypes, FitsHere DEF InvTable, InvAnyKernel, Inv
<1>1. t = p /\ ProcStep(c, p) /\ pc[p] = "user"
  BY DEF NoZero, ProcStep, Ioctl
<1>2. req[p] = NoReq
  BY <1>1 DEF FitsRequest
<1>3. ~Insert(c, p) /\ ~SetSelect(c, p) /\ ~Remove(c, p) /\ ~NewProcInsert(c, p)
  BY <1>1 DEF Insert, SetSelect, Remove, NewProcInsert
<1>4. CASE UNCHANGED procs
  BY <1>1, <1>3, <1>4, QuietStep DEF procs, TookEffect
<1>5. CASE ~UNCHANGED procs
  <2>1. PICK o \in Obj \cup {NoObj} :
          /\ Found(p, o) /\ Accepts(cmd, o)
          /\ req' = [req EXCEPT ![p] = [cmd |-> cmd, pid |-> p, sel |-> s]]
          /\ pc'[p] \in {"alloc", "check"}
          /\ cmd = "enable" => pc'[p] = "alloc"
    BY <1>1, <1>5 DEF Ioctl, Goto, ProcsTypeOK
  <2>2. o = NoObj <=> ~Traced(p)
    BY <2>1, LbrAssumption DEF Found, Traced, Matches, HeapTypeOK
  <2>3. (cmd = "enable") <=> (TracedTable[p] = Off)
    BY <2>1, <2>2, EntryOff DEF Accepts, TracedTable
  <2>4. TracedTable' = TracedTable
    BY <1>1, <1>3, TableStep
  <2>5. DoneTable' = DoneTable
    <3>1. ~TookEffect(p)
      BY <1>1 DEF TookEffect
    <3>2. ~TookEffect(p)'
      BY <2>1 DEF TookEffect, ProcsTypeOK
    <3>3. QED
      BY <1>1, <3>1, <3>2, DoneStep
  <2>6. Table!Call(p, cmd, p, s)
    BY <1>2, <2>1, <2>3, <2>4, <2>5 DEF Table!Call, TracedTable, DoneTable
  <2>7. cmd \in {"enable", "disable", "dump", "config"} /\ s \in Select
    BY LbrAssumption DEF Select
  <2>8. QED
    BY <2>6, <2>7 DEF TableMoves, Table!Next
<1>6. QED
  BY <1>4, <1>5

\* enable_lbr takes effect when it links the state.
LEMMA EnableImplements ==
    ASSUME InvTable, NEW c \in CPU, NEW p \in Pid, Alloc(c, p) \/ Insert(c, p)
    PROVE  TableMoves
<1> USE PartsOfTypes, FitsHere DEF InvTable, InvAnyKernel, Inv
<1>1. ProcStep(c, p)
  BY DEF ProcStep, KernelStep
<1>2. CASE Alloc(c, p)
  <2>1. pc[p] = "alloc" /\ req[p].cmd = "enable" /\ req[p] # NoReq
    BY <1>2 DEF Alloc, FitsRequest, NoReq
  <2>2. ~Insert(c, p) /\ ~SetSelect(c, p) /\ ~Remove(c, p) /\ ~NewProcInsert(c, p)
    BY <2>1 DEF Insert, SetSelect, Remove, NewProcInsert
  <2>3. CASE Return(p)
    <3>1. req' = [req EXCEPT ![p] = NoReq] /\ pc'[p] = "user"
      BY <2>3 DEF Return, Goto, ProcsTypeOK
    <3>2. QED
      BY <1>1, <2>1, <2>2, <3>1, ReturnStep
  <2>4. CASE Goto(p, "insert") /\ UNCHANGED req
    <3>1. TookEffect(p)' <=> TookEffect(p)
      BY <2>1, <2>4 DEF TookEffect, Goto, ProcsTypeOK
    <3>2. QED
      BY <1>1, <2>2, <2>4, <3>1, QuietStep
  <2>5. QED
    BY <1>2, <2>3, <2>4 DEF Alloc
<1>3. CASE Insert(c, p)
  <2>1. /\ pc[p] = "insert" /\ req[p].cmd = "enable" /\ req[p].pid = p /\ req[p] # NoReq
        /\ pc'[p] = "check" /\ UNCHANGED req
    BY <1>3 DEF Insert, FitsRequest, IoctlPC, NoReq, Step, Goto, ProcsTypeOK
  <2>2. TracedTable' = [TracedTable EXCEPT ![p] = lbrSelect[ptr[p]]]
    BY <1>1, <1>3, TableStep
  <2>3. ~TookEffect(p) /\ TookEffect(p)'
    BY <2>1 DEF TookEffect
  <2>4. DoneTable' = [DoneTable EXCEPT ![p] = TRUE] /\ ~DoneTable[p]
    BY <1>1, <2>3, DoneStep DEF DoneTable
  <2>5. TracedTable[p] = Off
    BY <2>1, EntryOff DEF TracedTable, InvOneState, EnablingIsUntraced
  <2>6. /\ lbrSelect[ptr[p]] \in Select \ {0}
        /\ req[p].sel # 0 => lbrSelect[ptr[p]] = req[p].sel
    <3>1. lbrSelect[ptr[p]] = EnableSelect(req[p].sel)
      BY <2>1 DEF FilterChosen
    <3>2. req[p].sel \in Select
      BY DEF ReqSet
    <3>3. QED
      BY <3>1, <3>2 DEF EnableSelect, Select, LBR_SELECT
  <2>7. Table!Effect(p, lbrSelect[ptr[p]])
    BY <2>1, <2>2, <2>4 DEF Table!Effect, TracedTable, DoneTable
  <2>8. Table!Enable(p)
    BY <2>1, <2>5, <2>6, <2>7 DEF Table!Enable, Table!Pending, TracedTable
  <2>9. QED
    BY <2>8 DEF TableMoves, Table!Next
<1>4. QED
  BY <1>2, <1>3

\* disable_lbr takes effect when it unlinks the state, and returns with that.
LEMMA DisableImplements ==
    ASSUME InvTable, NEW c \in CPU, NEW p \in Pid, Remove(c, p)
    PROVE  TableMoves
<1> USE PartsOfTypes, FitsHere DEF InvTable, InvAnyKernel, Inv
<1>1. ProcStep(c, p)
  BY DEF ProcStep, KernelStep
<1>2. /\ pc[p] = "remove" /\ req[p].cmd = "disable" /\ req[p].pid = p /\ req[p] # NoReq
      /\ pc'[p] = "user" /\ req' = [req EXCEPT ![p] = NoReq]
  BY DEF Remove, FitsRequest, IoctlPC, NoReq, Return, Goto, ProcsTypeOK
<1>3. TracedTable' = [TracedTable EXCEPT ![p] = Off]
  BY <1>1, TableStep
<1>4. ~TookEffect(p) /\ ~TookEffect(p)'
  BY <1>2 DEF TookEffect
<1>5. DoneTable' = DoneTable /\ ~DoneTable[p]
  BY <1>1, <1>4, DoneStep DEF DoneTable
<1>6. TracedTable[p] # Off
  BY <1>2, HeldMatches, EntryOff DEF TracedTable, HoldingPC
<1>7. Table!Effect(p, Off)
  BY <1>2, <1>3, <1>5 DEF Table!Effect, TracedTable, DoneTable
<1>8. Table!Disable(p)
  BY <1>2, <1>6, <1>7 DEF Table!Disable, Table!Pending, TracedTable
<1>9. QED
  BY <1>8 DEF TableMoves, Table!Next

\* config_lbr takes effect when it writes the filter.
LEMMA ConfigImplements ==
    ASSUME InvTable, NEW c \in CPU, NEW p \in Pid, SetSelect(c, p)
    PROVE  TableMoves
<1> USE PartsOfTypes, FitsHere DEF InvTable, InvAnyKernel, Inv
<1>1. ProcStep(c, p)
  BY DEF ProcStep, KernelStep
<1>2. /\ pc[p] = "set" /\ req[p].cmd = "config" /\ req[p].pid = p /\ req[p] # NoReq
      /\ pc'[p] = "put_regs" /\ UNCHANGED req
  BY DEF SetSelect, FitsRequest, IoctlPC, NoReq, Step, Goto, ProcsTypeOK
<1>3. TracedTable' = [TracedTable EXCEPT ![p] = req[p].sel]
  BY <1>1, TableStep
<1>4. ~TookEffect(p) /\ TookEffect(p)'
  BY <1>2 DEF TookEffect
<1>5. DoneTable' = [DoneTable EXCEPT ![p] = TRUE] /\ ~DoneTable[p]
  BY <1>1, <1>4, DoneStep DEF DoneTable
<1>6. TracedTable[p] # Off
  BY <1>2, HeldMatches, EntryOff DEF TracedTable, HoldingPC
<1>7. Table!Effect(p, req[p].sel)
  BY <1>2, <1>3, <1>5 DEF Table!Effect, TracedTable, DoneTable
<1>8. Table!Config(p)
  BY <1>2, <1>6, <1>7 DEF Table!Config, Table!Pending, TracedTable
<1>9. QED
  BY <1>8 DEF TableMoves, Table!Next

\* The other steps of the operations have no effect, or return.
LEMMA OperationImplements ==
    ASSUME InvTable, NEW c \in CPU, NEW p \in Pid,
           \/ Check(c, p) \/ GetOff(c, p) \/ GetRegs(c, p) \/ PutRegs(c, p)
           \/ PutOn(c, p) \/ Copy(c, p)
    PROVE  TableMoves
<1> USE PartsOfTypes, FitsHere DEF InvTable, InvAnyKernel, Inv
<1>1. ProcStep(c, p)
  BY DEF ProcStep, KernelStep
<1>2. ~Insert(c, p) /\ ~SetSelect(c, p) /\ ~Remove(c, p) /\ ~NewProcInsert(c, p)
  BY DEF Check, GetOff, GetRegs, PutRegs, PutOn, Copy, Insert, SetSelect, Remove, NewProcInsert
<1>3. IsOwn(p) \/ pc[p] # "check"
  BY DEF PointerDiscipline, HeldPointers, HoldingPC, IsOwn
<1>4. \/ UNCHANGED req /\ (TookEffect(p)' <=> TookEffect(p))
      \/ /\ req' = [req EXCEPT ![p] = NoReq] /\ pc'[p] = "user"
         /\ req[p] # NoReq /\ (TookEffect(p) \/ req[p].cmd = "dump")
  <2>1. CASE Check(c, p)
    BY <1>3, <2>1 DEF Check, Step, Goto, ProcsTypeOK, TookEffect
  <2>2. CASE GetOff(c, p) \/ PutRegs(c, p)
    BY <2>2 DEF GetOff, PutRegs, Step, Goto, ProcsTypeOK, TookEffect
  <2>3. CASE GetRegs(c, p)
    BY <2>3 DEF GetRegs, AfterGet, FitsRequest, Step, Goto, ProcsTypeOK, TookEffect
  <2>4. CASE PutOn(c, p)
    BY <2>4 DEF PutOn, AfterPut, FitsRequest, NoReq, Step, Return, Goto, ProcsTypeOK, TookEffect
  <2>5. CASE Copy(c, p)
    BY <2>5 DEF Copy, FitsRequest, NoReq, Return, Goto, ProcsTypeOK
  <2>6. QED
    BY <2>1, <2>2, <2>3, <2>4, <2>5
<1>5. QED
  BY <1>1, <1>2, <1>4, QuietStep, ReturnStep

\* lbr_newproc_handler takes effect when it links the child's state.
LEMMA NewProcImplements ==
    ASSUME NoThreads, InvTable, NEW c \in CPU, NEW p \in Pid,
           NewProcAlloc(c, p) \/ NewProcCopy(c, p) \/ NewProcInsert(c, p)
    PROVE  TableMoves
<1> USE PartsOfTypes, FitsHere DEF InvTable, InvAnyKernel, Inv
<1>1. ProcStep(c, p)
  BY DEF ProcStep, KernelStep
<1>2. pc[p] \in NewProcPC /\ req[p].cmd = "newproc" /\ req[p] # NoReq /\ ~TookEffect(p)
  <2>1. pc[p] \in NewProcPC
    BY DEF NewProcAlloc, NewProcCopy, NewProcInsert, NewProcPC
  <2>2. QED
    BY <2>1 DEF FitsRequest, NoReq, TookEffect
<1>3. ~Insert(c, p) /\ ~SetSelect(c, p) /\ ~Remove(c, p)
  BY DEF NewProcAlloc, NewProcCopy, NewProcInsert, Insert, SetSelect, Remove
<1>4. CASE NewProcAlloc(c, p) \/ NewProcCopy(c, p)
  <2>1. ~NewProcInsert(c, p)
    BY <1>4 DEF NewProcAlloc, NewProcCopy, NewProcInsert
  <2>2. \/ NewProcReturn(p)
        \/ UNCHANGED req
    BY <1>4 DEF NewProcAlloc, NewProcCopy, Step
  <2>3. CASE NewProcReturn(p)
    <3>1. req' = [req EXCEPT ![p] = NoReq] /\ pc'[p] = "user"
      BY <1>2, <2>3, NewProcReturnPhases DEF NewProcReturn
    <3>2. QED
      BY <1>1, <1>2, <1>3, <2>1, <3>1, ReturnStep
  <2>4. CASE UNCHANGED req
    <3>1. ~TookEffect(p)'
      BY <1>2, <2>4 DEF TookEffect
    <3>2. QED
      BY <1>1, <1>2, <1>3, <2>1, <2>4, <3>1, QuietStep
  <2>5. QED
    BY <2>2, <2>3, <2>4
<1>5. CASE NewProcInsert(c, p)
  <2> DEFINE q == req[p].pid
  <2>1. /\ pc[p] = "np_insert" /\ req' = [req EXCEPT ![p] = NoReq]
        /\ q \in Pid \ {p} /\ ~Traced(q)
    BY <1>5, InheritsElsewhere DEF NewProcInsert, NewProcReturn, InvOneState, InheritingIsNew
  <2>2. Matches(p) = {ptr[p]} /\ Traced(p)
    BY <1>2, HeldMatches DEF HoldingPC
  <2>3. TracedTable[p] # Off /\ TracedTable[q] = Off
    BY <2>1, <2>2, EntryOff DEF TracedTable
  <2>4. lbrSelect[child[p]] = TracedTable[p]
    BY <2>1, <2>2, EntryIs DEF TracedTable, FilterChosen
  <2>5. TracedTable' = [TracedTable EXCEPT ![q] = TracedTable[p]]
    BY <1>1, <1>5, <2>4, TableStep
  <2>6. ~TookEffect(p)'
    BY <2>1 DEF TookEffect, NoReq, ProcsTypeOK
  <2>7. DoneTable' = DoneTable /\ ~DoneTable[p]
    BY <1>1, <1>2, <2>6, DoneStep DEF DoneTable
  <2>8. Table!Effect(p, TracedTable[p])
    BY <2>1, <2>5, <2>7 DEF Table!Effect, TracedTable, DoneTable
  <2>9. Table!Inherit(p)
    BY <1>2, <2>3, <2>8 DEF Table!Inherit, Table!Pending, TracedTable
  <2>10. QED
    BY <2>9 DEF TableMoves, Table!Next
<1>6. QED
  BY <1>4, <1>5

LEMMA CloneImplements ==
    ASSUME NoReuse, NoThreads, InvTable, NEW c \in CPU, NEW p \in Pid, NEW q \in Pid,
           NEW kind \in CloneKinds, Clone(c, p, q, kind)
    PROVE  TableMoves
<1> USE PartsOfTypes, FitsHere DEF InvTable, InvAnyKernel, Inv
<1>1. ProcStep(c, p) /\ pc[p] = "user" /\ pc[q] = "none" /\ p # q /\ kind = "process" /\ ~Exits
  BY DEF ProcStep, Clone, NoThreads, NoReuse, NoCreation
<1>2. req[p] = NoReq
  BY <1>1 DEF FitsRequest
<1>3. ~Insert(c, p) /\ ~SetSelect(c, p) /\ ~Remove(c, p) /\ ~NewProcInsert(c, p)
  BY <1>1 DEF Insert, SetSelect, Remove, NewProcInsert
<1>4. ~TookEffect(p)
  BY <1>1 DEF TookEffect
<1>5. PICK o \in Obj \cup {NoObj} :
        /\ Found(p, o)
        /\ \/ UNCHANGED req /\ Goto(q, "user")
           \/ /\ o # NoObj
              /\ pc' = [pc EXCEPT ![p] = "np_alloc", ![q] = "new"]
              /\ req' = [req EXCEPT ![p] = [cmd |-> "newproc", pid |-> q, sel |-> 0]]
  BY <1>1 DEF Clone
<1>6. CASE UNCHANGED req /\ Goto(q, "user")
  <2>1. ~TookEffect(p)'
    BY <1>1, <1>6 DEF TookEffect, Goto, ProcsTypeOK
  <2>2. QED
    BY <1>1, <1>3, <1>4, <1>6, <2>1, QuietStep
<1>7. CASE /\ o # NoObj
           /\ pc' = [pc EXCEPT ![p] = "np_alloc", ![q] = "new"]
           /\ req' = [req EXCEPT ![p] = [cmd |-> "newproc", pid |-> q, sel |-> 0]]
  <2>1. Traced(p)
    BY <1>5, <1>7, FoundIsListed DEF Found, Traced, Matches
  <2>2. ~Traced(q)
    BY <1>1 DEF InvOneState, InheritingIsNew
  <2>3. TracedTable[p] # Off /\ TracedTable[q] = Off
    BY <2>1, <2>2, EntryOff DEF TracedTable
  <2>4. ~TookEffect(p)'
    BY <1>1, <1>7 DEF TookEffect, ProcsTypeOK
  <2>5. DoneTable' = DoneTable /\ TracedTable' = TracedTable
    BY <1>1, <1>3, <1>4, <2>4, DoneStep, TableStep
  <2>6. Table!Create(p, q)
    BY <1>2, <1>7, <2>3, <2>5 DEF Table!Create, TracedTable, DoneTable
  <2>7. QED
    BY <2>6 DEF TableMoves, Table!Next
<1>8. QED
  BY <1>5, <1>6, <1>7

LEMMA UserImplements ==
    ASSUME InvTable, NEW c \in CPU, NEW p \in Pid, Exit(c, p) \/ ProcFault(c, p)
    PROVE  TableMoves
<1> USE PartsOfTypes DEF InvTable, InvAnyKernel, Inv
<1>1. ProcStep(c, p) /\ UNCHANGED <<listed, lbrSelect, req>>
  BY DEF ProcStep, Exit, ProcFault, heap, procs
<1>2. TookEffect(p)' <=> TookEffect(p)
  BY DEF Exit, ProcFault, procs, TookEffect, Goto, ProcsTypeOK
<1>3. CASE Exit(c, p)
  <2>1. ~Insert(c, p) /\ ~SetSelect(c, p) /\ ~Remove(c, p) /\ ~NewProcInsert(c, p)
    BY <1>3 DEF Exit, Insert, SetSelect, Remove, NewProcInsert
  <2>2. QED
    BY <1>1, <1>2, <2>1, QuietStep
<1>4. CASE ProcFault(c, p)
  <2>1. UNCHANGED <<heap, procs>>
    BY <1>4 DEF ProcFault
  <2>2. \A x : EntryOf(x)' = EntryOf(x)
    BY <2>1 DEF heap, EntryOf, Traced, Matches
  <2>3. \A x : TookEffect(x)' = TookEffect(x)
    BY <2>1 DEF procs, TookEffect
  <2>4. QED
    BY <1>1, <2>2, <2>3, Stutter DEF TracedTable, DoneTable
<1>5. QED
  BY <1>3, <1>4

\* The context switches write the filters back as they are.
LEMMA CoreImplements ==
    ASSUME InvTable, NEW c \in CPU, CoreStep(c)
    PROVE  TableMoves
<1>1. UNCHANGED <<lbrSelect, pc, req>> /\ \A x : Matches(x)' = Matches(x)
  BY CoreSelect, CoreKeepsProcs DEF InvTable
<1>2. \A x : EntryOf(x)' = EntryOf(x)
  BY <1>1, EntryKept
<1>3. \A x : TookEffect(x)' = TookEffect(x)
  BY <1>1 DEF TookEffect
<1>4. QED
  BY <1>1, <1>2, <1>3, Stutter DEF TracedTable, DoneTable

LEMMA NextImplements ==
    ASSUME NoZero, NoReuse, NoThreads, InvTable, [Next]_vars
    PROVE  TableMoves
<1>1. CASE UNCHANGED vars
  <2>1. UNCHANGED <<heap, procs>>
    BY <1>1 DEF vars
  <2>2. \A x : EntryOf(x)' = EntryOf(x)
    BY <2>1 DEF heap, EntryOf, Traced, Matches
  <2>3. \A x : TookEffect(x)' = TookEffect(x)
    BY <2>1 DEF procs, TookEffect
  <2>4. QED
    BY <2>1, <2>2, <2>3, Stutter DEF TracedTable, DoneTable, procs
<1>2. ASSUME NEW c \in CPU, NEW p \in Pid, ProcStep(c, p)
      PROVE  TableMoves
  BY <1>2, IoctlImplements, EnableImplements, DisableImplements, ConfigImplements,
     OperationImplements, NewProcImplements, CloneImplements, UserImplements
     DEF ProcStep, KernelStep
<1>3. QED
  BY <1>1, <1>2, CoreImplements DEF Next

\* Implementation: if every process traces itself, no pid is used again, only
\* processes are created and the kernel is not preempted outside spinlocks,
\* then whatever the processes do on whatever cores, the list of states is a
\* table on which each accepted request takes effect once, between its call and
\* its return, and which nothing else changes: no context switch undoes a
\* config, although each writes the filter of the state it saves
\* (lbr.c: the four operations, lbr_newproc_handler, get_lbr, put_lbr).
THEOREM Implementation ==
    NoZero /\ NoReuse /\ NoThreads /\ ~Preemptible => (Spec => ImplementsTable)
<1> SUFFICES ASSUME NoZero, NoReuse, NoThreads, ~Preemptible PROVE Spec => Table!Spec
  BY DEF ImplementsTable
<1>1. Init => Table!Init
  BY DEF Init, Table!Init, EntryOf, Traced, Matches, TookEffect, NoReq
<1>2. InvTable /\ [Next]_vars => [Table!Next]_(Table!tvars)
  BY NextImplements DEF TableMoves
<1>3. InvTable /\ [Next]_vars => InvTable'
  BY NextTable
<1>4. QED
  BY <1>1, <1>2, <1>3, InitTable, PTL DEF Spec, Table!Spec
=============================================================================
