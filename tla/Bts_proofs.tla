----------------------------- MODULE Bts_proofs -----------------------------
(* Theorems about the states and buffers of the BTS component, for any     *)
(* number of cores, processes and allocations, on preemptible and on       *)
(* non-preemptible kernels.                                                *)
EXTENDS BtsInv, FiniteSetTheorems, TLAPS

USE BtsAssumption

----------------------------------------------------------------------------
(* Type correctness.                                                       *)

PC == {"none", "new", "user"} \cup IoctlPC \cup NewProcPC
ProcsInv == ProcsTypeOK /\ PrivateDefined

LEMMA PartsOfTypes ==
    ASSUME InvType
    PROVE  /\ TypeOK /\ HeapTypeOK /\ CoresTypeOK /\ SwitchTypeOK /\ ProcsTypeOK
           /\ ProcsInv /\ PrivateDefined
           /\ fault \in {"none", "freed", "parent", "stray", "uninitialised"}
BY DEF InvType, TypeOK, ProcsInv

LEMMA TypesOfParts ==
    ASSUME HeapTypeOK', CoresTypeOK', SwitchTypeOK', ProcsInv',
           fault' \in {"none", "freed", "parent", "stray", "uninitialised"}
    PROVE  InvType'
BY DEF InvType, TypeOK, ProcsInv

\* What an action leaves alone stays well typed.
LEMMA UnchangedTypes ==
    ASSUME TypeOK
    PROVE  /\ UNCHANGED heap => HeapTypeOK'
           /\ UNCHANGED cores => CoresTypeOK'
           /\ UNCHANGED swtch => SwitchTypeOK'
BY DEF TypeOK, HeapTypeOK, CoresTypeOK, SwitchTypeOK, heap, cores, swtch

LEMMA CodesKnown ==
    /\ 0 \in Codes /\ DEFAULT_BTS_CONFIG \in Codes
    /\ \A x \in Codes : EnableCode(x) \in Codes
BY DEF Codes, DEFAULT_BTS_CONFIG, EnableCode

LEMMA SizesKnown ==
    /\ 0 \in Sizes /\ DEFAULT_BTS_BUFFER_SIZE \in Sizes
    /\ \A x \in Sizes : EnableSize(x) \in Sizes
BY DEF Sizes, DEFAULT_BTS_BUFFER_SIZE, EnableSize

LEMMA ReqInSet ==
    ASSUME NEW cmd \in Cmds, NEW t \in Pid \cup {NoPid},
           NEW k \in ReqCodes(cmd), NEW s \in SizesOf(cmd)
    PROVE  [cmd |-> cmd, pid |-> t, code |-> k, size |-> s] \in ReqSet
<1>1. k \in Codes
  BY CodesKnown DEF ReqCodes
<1>2. s \in Sizes
  BY DEF SizesOf, Sizes
<1>3. QED
  BY <1>1, <1>2 DEF ReqSet, Tag

LEMMA NoReqInSet == NoReq \in ReqSet
BY CodesKnown, SizesKnown DEF NoReq, ReqSet, Tag

\* Return and Step keep the local variables of the processes well typed.
LEMMA ReturnTypes ==
    ASSUME ProcsInv, NEW p \in Pid, Return(p)
    PROVE  ProcsInv'
BY NoReqInSet DEF ProcsInv, PrivateDefined, ProcsTypeOK, Return, Goto

LEMMA StepTypes ==
    ASSUME ProcsInv, NEW p \in Pid, NEW label \in PC \ {"insert", "np_insert"},
           Step(p, label)
    PROVE  ProcsInv'
BY DEF ProcsInv, PrivateDefined, ProcsTypeOK, Step, Goto, PC

LEMMA NewProcReturnTypes ==
    ASSUME ProcsInv, NEW p \in Pid, NewProcReturn(p)
    PROVE  ProcsInv'
BY NoReqInSet DEF ProcsInv, PrivateDefined, ProcsTypeOK, NewProcReturn

\* The critical sections of get_bts and put_bts keep the cores well typed.
LEMMA StopTypes ==
    ASSUME CoresTypeOK, NEW c \in CPU, NEW o \in Obj, Stop(c, o), UNCHANGED run
    PROVE  CoresTypeOK'
BY DEF CoresTypeOK, Stop

LEMMA StartTypes ==
    ASSUME CoresTypeOK, NEW c \in CPU, NEW o \in Obj, Start(c, o), code[o] \in Codes
    PROVE  dsArea' \in [CPU -> Obj \cup {Null}] /\ hwBits' \in [CPU -> SUBSET {"TR_BTS", "OFF_OS"}]
BY DEF CoresTypeOK, Start, BitsOf, Codes, DEFAULT_BTS_CONFIG

LEMMA InitTypes == Init => InvType
<1> SUFFICES ASSUME Init PROVE InvType
  OBVIOUS
<1>1. HeapTypeOK
  BY CodesKnown, SizesKnown DEF Init, HeapTypeOK, Tag
<1>2. CoresTypeOK /\ SwitchTypeOK
  BY DEF Init, CoresTypeOK, SwitchTypeOK, Tag
<1>3. ProcsTypeOK /\ PrivateDefined
  BY NoReqInSet DEF Init, ProcsTypeOK, PrivateDefined, Tag
<1>4. QED
  BY <1>1, <1>2, <1>3 DEF InvType, TypeOK, Init

\* What a new buffer is.
LEMMA NewBufferTypes ==
    ASSUME HeapTypeOK, NEW b, NewBuffer(b)
    PROVE  b \in Buf \cup {Null} /\ liveBuf' \subseteq Buf
BY DEF HeapTypeOK, NewBuffer

\* enable_bts's steps.
LEMMA EnableTypes ==
    ASSUME InvType, NEW c \in CPU, NEW p \in Pid, Alloc(c, p) \/ Insert(c, p)
    PROVE  InvType'
<1> USE PartsOfTypes
<1>1. UNCHANGED <<cores, swtch, fault>>
  BY DEF Alloc, Insert
<1>2. CASE Alloc(c, p)
  <2>1. CASE Return(p) /\ UNCHANGED heap
    BY <1>1, <2>1, ReturnTypes, UnchangedTypes, TypesOfParts
  <2>2. ASSUME NEW o \in Obj \ live, NEW b \in Buf \cup {Null},
               live' = live \cup {o},
               NewBuffer(b),
               statePid' = [statePid EXCEPT ![o] =
                              IF req[p].pid # NoPid THEN req[p].pid ELSE p],
               code' = [code EXCEPT ![o] = EnableCode(req[p].code)],
               size' = [size EXCEPT ![o] = EnableSize(req[p].size)],
               base' = [base EXCEPT ![o] = b],
               index' = [index EXCEPT ![o] = b],
               ptr' = [ptr EXCEPT ![p] = o],
               Goto(p, "insert"),
               UNCHANGED <<listed, req, child, real_parent>>
        PROVE  InvType'
    <3>1. req[p].pid \in Tag /\ EnableCode(req[p].code) \in Codes /\ EnableSize(req[p].size) \in Sizes
      BY CodesKnown, SizesKnown DEF ProcsTypeOK, ReqSet
    <3>2. HeapTypeOK'
      BY <2>2, <3>1, NewBufferTypes DEF HeapTypeOK, Tag
    <3>3. ProcsInv'
      BY <2>2 DEF ProcsInv, ProcsTypeOK, PrivateDefined, Goto, IoctlPC
    <3>4. QED
      BY <1>1, <3>2, <3>3, UnchangedTypes, TypesOfParts
  <2>3. QED
    BY <1>2, <2>1, <2>2 DEF Alloc
<1>3. CASE Insert(c, p)
  <2>1. HeapTypeOK'
    BY <1>3 DEF Insert, HeapTypeOK, ProcsTypeOK, PrivateDefined
  <2>2. ProcsInv'
    BY <1>3, StepTypes DEF Insert, PC, IoctlPC
  <2>3. QED
    BY <1>1, <2>1, <2>2, UnchangedTypes, TypesOfParts
<1>4. QED
  BY <1>2, <1>3

\* The steps of disable_bts, dump_bts and config_bts.
LEMMA OperationTypes ==
    ASSUME InvType, NEW c \in CPU, NEW p \in Pid,
           \/ SetBits(c, p) \/ Check(c, p) \/ Get(c, p) \/ Free(c, p)
           \/ Install(c, p) \/ Put(c, p) \/ Copy(c, p) \/ Remove(c, p)
    PROVE  InvType'
<1> USE PartsOfTypes
<1>1. UNCHANGED swtch /\ UNCHANGED fault
  BY DEF SetBits, Check, Get, Free, Install, Put, Copy, Remove, Unlink
<1>2. ProcsInv'
  BY ReturnTypes, StepTypes
     DEF SetBits, Check, Get, Free, Install, Put, Copy, Remove, Unlink, PC, IoctlPC
<1>3. req[p].code \in Codes /\ req[p].size \in Sizes /\ live \subseteq Obj
  BY DEF ProcsTypeOK, ReqSet, HeapTypeOK
<1>4. CASE Check(c, p) \/ Copy(c, p)
  BY <1>1, <1>2, <1>4, UnchangedTypes, TypesOfParts DEF Check, Copy
<1>5. CASE SetBits(c, p)
  <2>1. HeapTypeOK'
    BY <1>3, <1>5 DEF SetBits, ConfigCode, HeapTypeOK
  <2>2. QED
    BY <1>1, <1>2, <1>5, <2>1, UnchangedTypes, TypesOfParts DEF SetBits
<1>6. CASE Get(c, p)
  <2>1. CoresTypeOK'
    BY <1>3, <1>6, StopTypes DEF Get
  <2>2. QED
    BY <1>1, <1>2, <1>6, <2>1, UnchangedTypes, TypesOfParts DEF Get
<1>7. CASE Put(c, p)
  <2>1. CoresTypeOK'
    BY <1>3, <1>7, StartTypes DEF Put, CoresTypeOK, HeapTypeOK
  <2>2. QED
    BY <1>1, <1>2, <1>7, <2>1, UnchangedTypes, TypesOfParts DEF Put
<1>8. CASE Free(c, p)
  <2>1. HeapTypeOK'
    BY <1>3, <1>8 DEF Free, HeapTypeOK
  <2>2. QED
    BY <1>1, <1>2, <1>8, <2>1, UnchangedTypes, TypesOfParts DEF Free
<1>9. CASE Install(c, p)
  <2>1. HeapTypeOK'
    BY <1>3, <1>9, NewBufferTypes DEF Install, HeapTypeOK
  <2>2. QED
    BY <1>1, <1>2, <1>9, <2>1, UnchangedTypes, TypesOfParts DEF Install
<1>10. CASE Remove(c, p)
  <2>1. HeapTypeOK'
    BY <1>3, <1>10, CodesKnown, SizesKnown DEF Remove, Unlink, HeapTypeOK, Tag
  <2>2. QED
    BY <1>1, <1>2, <1>10, <2>1, UnchangedTypes, TypesOfParts DEF Remove, Unlink
<1>11. QED
  BY <1>4, <1>5, <1>6, <1>7, <1>8, <1>9, <1>10

\* bts_newproc_handler's steps after the first.
LEMMA NewProcTypes ==
    ASSUME InvType, NEW c \in CPU, NEW p \in Pid,
           NewProcCreate(c, p) \/ NewProcInsert(c, p)
    PROVE  InvType'
<1> USE PartsOfTypes
<1>1. UNCHANGED <<cores, swtch, fault>>
  BY DEF NewProcCreate, NewProcInsert
<1>2. CASE NewProcCreate(c, p)
  <2>1. CASE NewProcReturn(p) /\ UNCHANGED heap
    BY <1>1, <2>1, NewProcReturnTypes, UnchangedTypes, TypesOfParts
  <2>2. ASSUME NEW o \in Obj \ live,
               ptr[p] \in live,
               live' = live \cup {o},
               statePid' = [statePid EXCEPT ![o] = req[p].pid],
               code' = [code EXCEPT ![o] = code[ptr[p]]],
               size' = [size EXCEPT ![o] = size[ptr[p]]],
               base' = [base EXCEPT ![o] = Wild],
               index' = [index EXCEPT ![o] = Wild],
               child' = [child EXCEPT ![p] = o],
               Goto(p, "np_insert"),
               UNCHANGED <<liveBuf, listed, req, ptr, real_parent>>
        PROVE  InvType'
    <3>1. req[p].pid \in Tag
      BY DEF ProcsTypeOK, ReqSet
    <3>2. HeapTypeOK'
      BY <2>2, <3>1 DEF HeapTypeOK
    <3>3. ProcsInv'
      BY <2>2 DEF ProcsInv, ProcsTypeOK, PrivateDefined, Goto, NewProcPC
    <3>4. QED
      BY <1>1, <3>2, <3>3, UnchangedTypes, TypesOfParts
  <2>3. QED
    BY <1>2, <2>1, <2>2 DEF NewProcCreate
<1>3. CASE NewProcInsert(c, p)
  <2>1. HeapTypeOK'
    BY <1>3 DEF NewProcInsert, HeapTypeOK, ProcsTypeOK, PrivateDefined
  <2>2. ProcsInv'
    BY <1>3, NewProcReturnTypes DEF NewProcInsert
  <2>3. QED
    BY <1>1, <2>1, <2>2, UnchangedTypes, TypesOfParts
<1>4. QED
  BY <1>2, <1>3

\* What a process does from user mode.
LEMMA IoctlEffect ==
    ASSUME NEW c \in CPU, NEW p \in Pid,
           \E cmd \in Cmds, t \in Targets[p] :
              \E k \in ReqCodes(cmd), s \in SizesOf(cmd) : Ioctl(c, p, cmd, t, k, s)
    PROVE  /\ pc[p] = "user" /\ Executes(c, p)
           /\ UNCHANGED <<heap, cores, swtch, fault, child, real_parent>>
           /\ \/ UNCHANGED procs
              \/ \E o \in Obj \cup {Null}, r \in ReqSet :
                    /\ Found(r.pid, o) /\ Accepts(r.cmd, o)
                    /\ r.cmd \in Cmds /\ r.pid \in Targets[p]
                    /\ r.code \in ReqCodes(r.cmd) /\ r.size \in SizesOf(r.cmd)
                    /\ Goto(p, CASE r.cmd = "enable" -> "alloc" [] r.cmd = "config" -> "set_bits"
                                 [] r.cmd = "dump" -> "copy" [] OTHER -> "check")
                    /\ req' = [req EXCEPT ![p] = r]
                    /\ ptr' = [ptr EXCEPT ![p] = o]
<1>1. PICK cmd \in Cmds, t \in Targets[p] :
         \E k \in ReqCodes(cmd), s \in SizesOf(cmd) : Ioctl(c, p, cmd, t, k, s)
  OBVIOUS
<1>2. PICK k \in ReqCodes(cmd), s \in SizesOf(cmd) : Ioctl(c, p, cmd, t, k, s)
  BY <1>1
<1> DEFINE r == [cmd |-> cmd, pid |-> t, code |-> k, size |-> s]
<1>3. r \in ReqSet
  BY ReqInSet
<1>4. QED
  BY <1>2, <1>3 DEF Ioctl, procs

LEMMA UserTypes ==
    ASSUME InvType, NEW c \in CPU, NEW p \in Pid,
           \/ \E cmd \in Cmds, t \in Targets[p] :
                 \E k \in ReqCodes(cmd), s \in SizesOf(cmd) : Ioctl(c, p, cmd, t, k, s)
           \/ \E q \in Pid, kind \in CloneKinds : Clone(c, p, q, kind)
           \/ ProcFault(c, p)
    PROVE  InvType'
<1> USE PartsOfTypes
<1>1. UNCHANGED <<heap, cores, swtch>>
  BY DEF Ioctl, Clone, ProcFault
<1>2. ASSUME \E cmd \in Cmds, t \in Targets[p] :
                \E k \in ReqCodes(cmd), s \in SizesOf(cmd) : Ioctl(c, p, cmd, t, k, s)
      PROVE  ProcsInv' /\ UNCHANGED fault
  BY <1>2, IoctlEffect DEF ProcsInv, ProcsTypeOK, PrivateDefined, Goto, IoctlPC, procs
<1>3. ASSUME NEW q \in Pid, NEW kind \in CloneKinds, Clone(c, p, q, kind)
      PROVE  ProcsInv' /\ UNCHANGED fault
  <2>1. [cmd |-> "newproc", pid |-> q, code |-> 0, size |-> 0] \in ReqSet
    BY CodesKnown, SizesKnown DEF ReqSet, Tag
  <2>2. Parent(p, kind) \in Tag
    BY DEF Parent, ProcsTypeOK, Tag
  <2>3. QED
    BY <1>3, <2>1, <2>2 DEF Clone, ProcsInv, ProcsTypeOK, PrivateDefined, Goto, NewProcPC
<1>4. ASSUME ProcFault(c, p)
      PROVE  ProcsInv' /\ fault' \in {"none", "freed", "parent", "stray", "uninitialised"}
  <2>1. ProcsInv'
    BY <1>4 DEF ProcFault, ProcsInv, ProcsTypeOK, PrivateDefined, procs
  <2>2. ptr[p] \in live => base[ptr[p]] \in Buf \cup {Null, Wild}
    BY DEF HeapTypeOK
  <2>3. QED
    BY <1>4, <2>1, <2>2 DEF ProcFault, Followed, HeapTypeOK
<1>5. QED
  BY <1>1, <1>2, <1>3, <1>4, UnchangedTypes, TypesOfParts

\* The steps of a core.
LEMMA CoreTypes ==
    ASSUME InvType, NEW c \in CPU, CoreStep(c)
    PROVE  InvType'
<1> USE PartsOfTypes
<1>1. UNCHANGED procs /\ UNCHANGED heap
  BY DEF CoreStep, SwitchTo, SwitchFind, SwitchGet, SwitchPut, Record, SwitchFault
<1>2. ProcsInv' /\ HeapTypeOK'
  BY <1>1, UnchangedTypes DEF ProcsInv, ProcsTypeOK, PrivateDefined, procs
<1>3. ASSUME NEW n \in Tag, SwitchTo(c, n)  PROVE InvType'
  <2>1. SwitchTypeOK'
    BY <1>3 DEF SwitchTo, SwitchTypeOK
  <2>2. QED
    BY <1>2, <1>3, <2>1, UnchangedTypes, TypesOfParts DEF SwitchTo
<1>4. CASE SwitchFind(c)
  <2>1. SwitchTypeOK'
    BY <1>4 DEF SwitchFind, SwitchTypeOK
  <2>2. QED
    BY <1>2, <1>4, <2>1, UnchangedTypes, TypesOfParts DEF SwitchFind
<1>5. CASE SwitchGet(c)
  <2>1. SwitchTypeOK'
    BY <1>5 DEF SwitchGet, SwitchTypeOK
  <2>2. CoresTypeOK'
    BY <1>5, StopTypes DEF SwitchGet, HeapTypeOK
  <2>3. QED
    BY <1>2, <1>5, <2>1, <2>2, TypesOfParts DEF SwitchGet
<1>6. CASE SwitchPut(c)
  <2>1. SwitchTypeOK'
    BY <1>6 DEF SwitchPut, SwitchTypeOK, Tag
  <2>2. CoresTypeOK'
    <3>1. run' \in [CPU -> Tag]
      BY <1>6 DEF SwitchPut, SwitchTypeOK, CoresTypeOK
    <3>2. QED
      BY <1>6, <3>1, StartTypes DEF SwitchPut, CoresTypeOK, HeapTypeOK
  <2>3. QED
    BY <1>2, <1>6, <2>1, <2>2, UnchangedTypes, TypesOfParts DEF SwitchPut
<1>7. CASE Record(c)
  <2>1. fault' \in {"none", "freed", "parent", "stray", "uninitialised"}
    <3>1. dsArea[c] \in Obj \cup {Null} /\ \A o \in live : index[o] \in Buf \cup {Null, Wild}
      BY DEF CoresTypeOK, HeapTypeOK
    <3>2. QED
      BY <1>7, <3>1 DEF Record, Stored, Followed
  <2>2. QED
    BY <1>2, <1>7, <2>1, UnchangedTypes, TypesOfParts DEF Record
<1>8. CASE SwitchFault(c)
  BY <1>2, <1>8, UnchangedTypes, TypesOfParts DEF SwitchFault
<1>9. QED
  BY <1>3, <1>4, <1>5, <1>6, <1>7, <1>8 DEF CoreStep

LEMMA NextTypes == InvType /\ [Next]_vars => InvType'
<1>1. ASSUME InvType, UNCHANGED vars  PROVE InvType'
  BY <1>1 DEF InvType, TypeOK, HeapTypeOK, CoresTypeOK, SwitchTypeOK, ProcsTypeOK,
              PrivateDefined, vars, heap, cores, swtch, procs
<1>2. QED
  BY <1>1, EnableTypes, OperationTypes, NewProcTypes, UserTypes, CoreTypes
     DEF Next, ProcStep

\* TypeCorrect: the type invariant, and that whoever links a new state into the
\* list has one (bts.c: insert_bts_state), hold in every behaviour, whatever
\* the processes request.
THEOREM TypeCorrect == Spec => [](TypeOK /\ PrivateDefined)
<1>1. InvType => TypeOK /\ PrivateDefined
  BY DEF InvType
<1>2. QED
  BY <1>1, InitTypes, NextTypes, PTL DEF Spec

----------------------------------------------------------------------------
(* Pointers to states.                                                     *)

\* What the pointer invariants depend on, apart from the processes.
Frame == <<live, listed, statePid, run, at, nxt, prevState, nextState>>

\* All processes but p stay as they are.
OthersStay(p) ==
    \A x \in Pid : x # p =>
        /\ pc'[x] = pc[x] /\ req'[x] = req[x] /\ ptr'[x] = ptr[x] /\ child'[x] = child[x]

LEMMA ReturnEffect ==
    ASSUME ProcsTypeOK, NEW p \in Pid, Return(p)
    PROVE  /\ OthersStay(p)
           /\ pc'[p] = "user" /\ req'[p] = NoReq /\ ptr'[p] = Null /\ child'[p] = child[p]
BY DEF OthersStay, Return, Goto, ProcsTypeOK

LEMMA StepEffect ==
    ASSUME ProcsTypeOK, NEW p \in Pid, NEW label, Step(p, label)
    PROVE  /\ OthersStay(p)
           /\ pc'[p] = label /\ req'[p] = req[p] /\ ptr'[p] = ptr[p] /\ child'[p] = child[p]
BY DEF OthersStay, Step, Goto, ProcsTypeOK

LEMMA NewProcReturnEffect ==
    ASSUME ProcsTypeOK, NEW p \in Pid, NewProcReturn(p)
    PROVE  /\ \A x \in Pid : x # p =>
                 /\ req'[x] = req[x] /\ ptr'[x] = ptr[x] /\ child'[x] = child[x]
                 /\ pc'[x] = IF x = req[p].pid THEN "user" ELSE pc[x]
           /\ pc'[p] = "user" /\ req'[p] = NoReq /\ ptr'[p] = Null /\ child'[p] = Null
BY DEF NewProcReturn, ProcsTypeOK

\* What find_bts_state returns.
LEMMA FoundIsListed ==
    ASSUME NEW t, NEW o, Found(t, o), Null \notin listed
    PROVE  /\ o # Null => o \in listed /\ statePid[o] = t /\ Traced(t)
           /\ o = Null => ~Traced(t)
BY DEF Found, Matches, Traced

LEMMA ListedIsObj ==
    ASSUME InvType, PointerDiscipline
    PROVE  /\ Null \notin listed /\ Null \notin live
           /\ \A o \in listed : o \in live /\ o \in Obj /\ statePid[o] \in Pid
BY DEF InvType, TypeOK, HeapTypeOK, PointerDiscipline, ListWellFormed

\* A step of the running process p from the kernel into the kernel or to user
\* mode, which neither links nor frees.
LEMMA LocalStep ==
    ASSUME InvType, PointerDiscipline, NEW p \in Pid, OthersStay(p), UNCHANGED Frame,
           pc[p] \notin {"none", "new"},
           pc'[p] \in PC \ ({"none", "new", "insert"} \cup NewProcPC),
           pc'[p] \in HoldingPC => ptr'[p] \in listed /\ statePid[ptr'[p]] = p,
           FitsRequest(p)'
    PROVE  PointerDiscipline'
<1> USE PartsOfTypes
<1>1. ListWellFormed' /\ HandlerPointers'
  BY DEF PointerDiscipline, Frame, ListWellFormed, HandlerPointers, Found, Matches
<1>2. HeldPointers'
  BY DEF PointerDiscipline, HeldPointers, OthersStay, Frame
<1>3. Private(p)' = {} /\ \A x \in Pid : x # p => Private(x)' = Private(x)
  BY DEF OthersStay, Private, NewProcPC
<1>4. PrivatePointers'
  BY <1>3 DEF PointerDiscipline, PrivatePointers, Frame
<1>5. OnePlace'
  BY DEF PointerDiscipline, OnePlace, Frame, OthersStay, OnCore
<1>6. RequestFits'
  BY DEF PointerDiscipline, RequestFits, FitsRequest, OthersStay, Frame
<1>7. OneCreator'
  BY DEF PointerDiscipline, OneCreator, OthersStay
<1>8. QED
  BY <1>1, <1>2, <1>4, <1>5, <1>6, <1>7 DEF PointerDiscipline

\* The steps of the operations that neither allocate, link nor free.
LEMMA OperationKeeps ==
    ASSUME InvType, PointerDiscipline, NEW c \in CPU, NEW p \in Pid,
           \/ SetBits(c, p) \/ Check(c, p) \/ Get(c, p) \/ Free(c, p)
           \/ Install(c, p) \/ Put(c, p) \/ Copy(c, p)
    PROVE  PointerDiscipline'
<1> USE PartsOfTypes
<1>1. UNCHANGED Frame
  BY DEF SetBits, Check, Get, Free, Install, Put, Copy, Stop, Start, Frame, heap, cores, swtch
<1>2. pc[p] \in HoldingPC \ NewProcPC
  BY DEF SetBits, Check, Get, Free, Install, Put, Copy, HoldingPC, NewProcPC
<1>3. ptr[p] \in listed /\ statePid[ptr[p]] = p /\ FitsRequest(p)
  BY <1>2 DEF PointerDiscipline, HeldPointers, RequestFits
<1>4. IsOwn(p)
  BY <1>2, <1>3 DEF FitsRequest, IsOwn, HoldingPC, NewProcPC, IoctlPC
<1>5. CASE Return(p)
  <2>1. FitsRequest(p)'
    BY <1>5, ReturnEffect DEF FitsRequest, NewProcPC, IoctlPC
  <2>2. QED
    BY <1>1, <1>2, <1>5, <2>1, ReturnEffect, LocalStep DEF PC, HoldingPC, NewProcPC
<1>6. CASE ~Return(p)
  <2>1. PICK label \in {"check", "get", "free", "install", "put", "remove"} :
          /\ Step(p, label)
          /\ label = "check" => pc[p] = "set_bits"
          /\ label = "get" => pc[p] = "check" /\ req[p].cmd # "enable"
          /\ label = "free" => pc[p] = "get" /\ req[p].cmd # "disable"
          /\ label = "install" => pc[p] = "free"
          /\ label = "put" => \/ pc[p] = "check" /\ req[p].cmd = "enable"
                              \/ pc[p] = "get" /\ req[p].cmd # "disable"
                              \/ pc[p] = "install"
          /\ label = "remove" => pc[p] = "get" /\ req[p].cmd = "disable"
    BY <1>4, <1>6 DEF SetBits, Check, Get, Free, Install, Put, Copy
  <2>2. FitsRequest(p)'
    BY <1>2, <1>3, <2>1, StepEffect DEF FitsRequest, NewProcPC, IoctlPC, HoldingPC
  <2>3. QED
    BY <1>1, <1>2, <1>3, <2>1, <2>2, StepEffect, LocalStep
       DEF PC, IoctlPC, HoldingPC, NewProcPC
<1>7. QED
  BY <1>5, <1>6

\* enable_bts: the new state is private until it is linked, and is the
\* caller's own.
LEMMA EnableKeeps ==
    ASSUME InvType, PointerDiscipline, NEW c \in CPU, NEW p \in Pid,
           Alloc(c, p) \/ Insert(c, p)
    PROVE  PointerDiscipline'
<1> USE PartsOfTypes
<1>1. UNCHANGED <<cores, swtch>> /\ FitsRequest(p)
  BY DEF Alloc, Insert, PointerDiscipline, RequestFits
<1>2. CASE Alloc(c, p)
  <2>0. pc[p] = "alloc"
    BY <1>2 DEF Alloc
  <2>1. CASE Return(p) /\ UNCHANGED heap
    <3>1. FitsRequest(p)'
      BY <2>1, ReturnEffect DEF FitsRequest, NewProcPC, IoctlPC
    <3>2. QED
      BY <1>1, <2>0, <2>1, <3>1, ReturnEffect, LocalStep
         DEF PC, HoldingPC, NewProcPC, Frame, heap, cores, swtch
  <2>2. ASSUME NEW o \in Obj \ live,
               live' = live \cup {o},
               statePid' = [statePid EXCEPT ![o] =
                              IF req[p].pid # NoPid THEN req[p].pid ELSE p],
               ptr' = [ptr EXCEPT ![p] = o],
               Goto(p, "insert"),
               UNCHANGED <<listed, req, child, real_parent>>
        PROVE  PointerDiscipline'
    <3>1. /\ OthersStay(p)
          /\ pc'[p] = "insert" /\ ptr'[p] = o /\ req'[p] = req[p]
      BY <2>2 DEF OthersStay, Goto, ProcsTypeOK
    <3>2. o \notin listed /\ \A x \in live : statePid'[x] = statePid[x]
      BY <2>2 DEF PointerDiscipline, ListWellFormed, HeapTypeOK
    <3>3. statePid'[o] = p
      BY <1>1, <2>0, <2>2 DEF FitsRequest, HeapTypeOK
    <3>4. ListWellFormed'
      BY <2>2, <3>2, <3>3 DEF PointerDiscipline, ListWellFormed
    <3>5. HeldPointers'
      BY <2>2, <3>1, <3>2
         DEF PointerDiscipline, HeldPointers, ListWellFormed, OthersStay, HoldingPC, NewProcPC
    <3>6. PrivatePointers'
      <4>1. Private(p)' = {o} /\ \A x \in Pid : x # p => Private(x)' = Private(x)
        BY <3>1 DEF Private, OthersStay
      <4>2. QED
        BY <2>2, <3>2, <4>1 DEF PointerDiscipline, PrivatePointers
    <3>7. \A t : Matches(t)' = Matches(t)
      BY <2>2, <3>2 DEF Matches, PointerDiscipline, ListWellFormed
    <3>8. HandlerPointers'
      BY <1>1, <3>7 DEF PointerDiscipline, HandlerPointers, Found, cores, swtch
    <3>9. OnePlace'
      BY <1>1, <3>1 DEF PointerDiscipline, OnePlace, OnCore, OthersStay, cores, swtch
    <3>10. RequestFits'
      <4>1. FitsRequest(p)'
        BY <1>1, <2>0, <3>1, <3>3 DEF FitsRequest, IoctlPC, NewProcPC
      <4>2. \A x \in Pid :
               /\ pc[x] = "insert" => statePid'[ptr[x]] = statePid[ptr[x]]
               /\ pc[x] = "np_insert" => statePid'[child[x]] = statePid[child[x]]
        BY <3>2 DEF PointerDiscipline, PrivatePointers, Private
      <4>3. QED
        BY <3>1, <4>1, <4>2 DEF PointerDiscipline, RequestFits, FitsRequest, OthersStay
    <3>11. OneCreator'
      BY <2>0, <3>1 DEF PointerDiscipline, OneCreator, OthersStay, NewProcPC
    <3>12. QED
      BY <3>4, <3>5, <3>6, <3>8, <3>9, <3>10, <3>11 DEF PointerDiscipline
  <2>3. QED
    BY <1>2, <2>1, <2>2 DEF Alloc
<1>3. CASE Insert(c, p)
  <2>1. /\ ptr[p] \in live \ listed /\ Executes(c, p)
        /\ listed' = listed \cup {ptr[p]}
        /\ pc[p] = "insert"
        /\ UNCHANGED <<live, statePid>>
    BY <1>3 DEF Insert, PointerDiscipline, PrivatePointers, Private
  <2>2. /\ OthersStay(p) /\ pc'[p] = "check" /\ ptr'[p] = ptr[p] /\ req'[p] = req[p]
        /\ statePid[ptr[p]] = p
    BY <1>1, <1>3, <2>1, StepEffect DEF Insert, FitsRequest
  <2>3. ListWellFormed'
    BY <2>1 DEF PointerDiscipline, ListWellFormed
  <2>4. \A t : t # p => Matches(t)' = Matches(t)
    BY <2>1, <2>2 DEF Matches
  <2>5. \A t, o : t # p /\ Found(t, o) => Found(t, o)'
    BY <2>4 DEF Found
  <2>6. \A c2 \in CPU : at[c2] # "no" => run[c2] # p /\ nxt[c2] # p
    BY <2>1 DEF PointerDiscipline, OnePlace, Executes
  <2>7. HandlerPointers'
    BY <1>1, <2>5, <2>6 DEF PointerDiscipline, HandlerPointers, cores, swtch
  <2>8. HeldPointers'
    BY <2>1, <2>2 DEF PointerDiscipline, HeldPointers, OthersStay
  <2>9. PrivatePointers'
    <3>1. \A x \in Pid : x # p => ptr[p] \notin Private(x)
      BY <2>1 DEF PointerDiscipline, PrivatePointers, Private
    <3>2. Private(p)' = {} /\ \A x \in Pid : x # p => Private(x)' = Private(x)
      BY <2>2 DEF Private, OthersStay
    <3>3. QED
      BY <2>1, <3>1, <3>2 DEF PointerDiscipline, PrivatePointers
  <2>10. OnePlace'
    BY <1>1, <2>2 DEF PointerDiscipline, OnePlace, OnCore, OthersStay, cores, swtch
  <2>11. RequestFits'
    BY <1>1, <2>1, <2>2 DEF PointerDiscipline, RequestFits, FitsRequest, OthersStay,
       IoctlPC, NewProcPC
  <2>12. OneCreator'
    BY <2>1, <2>2 DEF PointerDiscipline, OneCreator, OthersStay, NewProcPC
  <2>13. QED
    BY <2>3, <2>7, <2>8, <2>9, <2>10, <2>11, <2>12 DEF PointerDiscipline
<1>4. QED
  BY <1>2, <1>3

\* disable_bts: the state that is freed is the caller's own, so no other process
\* holds it; and no core switches from or to the caller, which runs here.
LEMMA RemoveKeeps ==
    ASSUME InvType, PointerDiscipline, NEW c \in CPU, NEW p \in Pid, Remove(c, p)
    PROVE  PointerDiscipline'
<1> USE PartsOfTypes
<1> DEFINE o == ptr[p]
<1>1. /\ o \in listed /\ statePid[o] = p
      /\ run[c] = p /\ at[c] = "no" /\ pc[p] = "remove"
  BY DEF Remove, Unlink, Executes, PointerDiscipline, HeldPointers, HoldingPC, NewProcPC
<1>2. /\ listed' = listed \ {o} /\ live' = live \ {o}
      /\ statePid' = [statePid EXCEPT ![o] = NoPid]
      /\ UNCHANGED <<cores, swtch>>
      /\ OthersStay(p) /\ pc'[p] = "user" /\ req'[p] = NoReq
  BY ReturnEffect DEF Remove, Unlink
<1>3. \A x \in Obj : x # o => statePid'[x] = statePid[x]
  BY <1>2 DEF HeapTypeOK
<1>4. ListWellFormed'
  BY <1>2, <1>3 DEF PointerDiscipline, ListWellFormed, HeapTypeOK
<1>5. HeldPointers'
  BY <1>1, <1>2, <1>3
     DEF PointerDiscipline, HeldPointers, OthersStay, HoldingPC, NewProcPC, HeapTypeOK
<1>6. PrivatePointers'
  <2>1. Private(p)' = {} /\ \A x \in Pid : x # p => Private(x)' = Private(x)
    BY <1>2 DEF Private, OthersStay
  <2>2. QED
    BY <1>1, <1>2, <2>1 DEF PointerDiscipline, PrivatePointers
<1>7. \A t : t # p => Matches(t)' = Matches(t)
  BY <1>1, <1>2, <1>3 DEF Matches, HeapTypeOK
<1>8. HandlerPointers'
  <2>1. \A c2 \in CPU : at[c2] # "no" => run[c2] # p /\ nxt[c2] # p
    BY <1>1 DEF PointerDiscipline, OnePlace
  <2>2. QED
    BY <1>2, <1>7, <2>1 DEF PointerDiscipline, HandlerPointers, Found, cores, swtch
<1>9. OnePlace'
  BY <1>2 DEF PointerDiscipline, OnePlace, OnCore, OthersStay, cores, swtch
<1>10. RequestFits'
  <2>1. FitsRequest(p)'
    BY <1>2 DEF FitsRequest, IoctlPC, NewProcPC
  <2>2. \A x \in Pid :
               /\ pc[x] = "insert" => statePid'[ptr[x]] = statePid[ptr[x]]
               /\ pc[x] = "np_insert" => statePid'[child[x]] = statePid[child[x]]
    BY <1>1, <1>3 DEF PointerDiscipline, PrivatePointers, Private, HeapTypeOK
  <2>3. QED
    BY <1>2, <2>1, <2>2 DEF PointerDiscipline, RequestFits, FitsRequest, OthersStay
<1>11. OneCreator'
  BY <1>1, <1>2 DEF PointerDiscipline, OneCreator, OthersStay, NewProcPC
<1>12. QED
  BY <1>4, <1>5, <1>6, <1>8, <1>9, <1>10, <1>11 DEF PointerDiscipline

\* The entry of the handlers: a self-tracing process finds its own state.
LEMMA IoctlKeeps ==
    ASSUME SelfTracing, InvType, PointerDiscipline, NEW c \in CPU, NEW p \in Pid,
           \E cmd \in Cmds, t \in Targets[p] :
              \E k \in ReqCodes(cmd), s \in SizesOf(cmd) : Ioctl(c, p, cmd, t, k, s)
    PROVE  PointerDiscipline'
<1> USE PartsOfTypes
<1>1. UNCHANGED Frame /\ pc[p] = "user"
  BY IoctlEffect DEF Frame, heap, cores, swtch
<1>2. CASE UNCHANGED procs
  <2>1. OthersStay(p) /\ pc'[p] = "user" /\ FitsRequest(p)'
    BY <1>1, <1>2
       DEF OthersStay, procs, PointerDiscipline, RequestFits, FitsRequest, IoctlPC, NewProcPC
  <2>2. QED
    BY <1>1, <2>1, LocalStep DEF PC, HoldingPC, NewProcPC
<1>3. CASE ~UNCHANGED procs
  <2>1. PICK o \in Obj \cup {Null}, r \in ReqSet :
          /\ Found(r.pid, o) /\ Accepts(r.cmd, o)
          /\ r.cmd \in Cmds /\ r.pid \in Targets[p]
          /\ Goto(p, CASE r.cmd = "enable" -> "alloc" [] r.cmd = "config" -> "set_bits"
                       [] r.cmd = "dump" -> "copy" [] OTHER -> "check")
          /\ req' = [req EXCEPT ![p] = r]
          /\ ptr' = [ptr EXCEPT ![p] = o]
          /\ UNCHANGED child
    BY <1>3, IoctlEffect
  <2>2. /\ OthersStay(p) /\ req'[p] = r /\ ptr'[p] = o
        /\ pc'[p] = CASE r.cmd = "enable" -> "alloc" [] r.cmd = "config" -> "set_bits"
                      [] r.cmd = "dump" -> "copy" [] OTHER -> "check"
    BY <2>1 DEF OthersStay, Goto, ProcsTypeOK
  <2>3. /\ r.cmd \in {"enable", "disable", "dump", "config"} /\ r.pid \in {p, NoPid}
        /\ r.cmd # "enable" => o # Null
    BY <2>1 DEF SelfTracing, Accepts
  <2>4. o # Null => o \in listed /\ statePid[o] = r.pid /\ r.pid = p
    BY <2>1, <2>3, FoundIsListed, ListedIsObj
  <2>5. r.cmd # "enable" => o \in listed /\ statePid[o] = p /\ r.pid = p
    BY <2>3, <2>4
  <2>6. FitsRequest(p)'
    BY <2>2, <2>3, <2>5 DEF FitsRequest, NewProcPC
  <2>7. QED
    BY <1>1, <2>2, <2>3, <2>5, <2>6, LocalStep DEF PC, IoctlPC, HoldingPC, NewProcPC
<1>4. QED
  BY <1>2, <1>3

LEMMA CloneKeeps ==
    ASSUME InvType, PointerDiscipline, NEW c \in CPU, NEW p \in Pid, NEW q \in Pid, NEW kind \in CloneKinds,
           Clone(c, p, q, kind)
    PROVE  PointerDiscipline'
<1> USE PartsOfTypes
<1>1. /\ UNCHANGED Frame /\ pc[p] = "user" /\ pc[q] = "none" /\ p # q /\ UNCHANGED child
      /\ Executes(c, p)
  BY DEF Clone, Frame, heap, cores, swtch
<1>2. PICK o \in Obj \cup {Null} :
        /\ NoThreads => Found(p, o)
        /\ \/ o = Null /\ Goto(q, "user") /\ UNCHANGED <<req, ptr>>
           \/ /\ o # Null
              /\ pc' = [pc EXCEPT ![p] = "np_create", ![q] = "new"]
              /\ req' = [req EXCEPT ![p] =
                            [cmd |-> "newproc", pid |-> q, code |-> 0, size |-> 0]]
              /\ ptr' = [ptr EXCEPT ![p] = o]
  BY DEF Clone, Parent, NoThreads
<1>3. NoThreads /\ o # Null => o \in listed /\ statePid[o] = p
  BY <1>2, FoundIsListed, ListedIsObj
<1>4. /\ \A x \in Pid : x \notin {p, q} =>
            pc'[x] = pc[x] /\ req'[x] = req[x] /\ ptr'[x] = ptr[x]
      /\ req'[q] = req[q] /\ ptr'[q] = ptr[q]
      /\ \/ pc'[p] = "user" /\ pc'[q] = "user" /\ req'[p] = req[p] /\ ptr'[p] = ptr[p]
         \/ /\ pc'[p] = "np_create" /\ pc'[q] = "new" /\ ptr'[p] = o /\ o # Null
            /\ req'[p].cmd = "newproc" /\ req'[p].pid = q
  BY <1>1, <1>2 DEF Goto, ProcsTypeOK
<1>5. ListWellFormed' /\ HandlerPointers'
  BY <1>1 DEF PointerDiscipline, Frame, ListWellFormed, HandlerPointers, Found, Matches
<1>6. HeldPointers'
  BY <1>1, <1>3, <1>4 DEF PointerDiscipline, HeldPointers, Frame, HoldingPC, NewProcPC
<1>7. PrivatePointers'
  <2>1. \A x \in Pid : Private(x)' = Private(x)
    BY <1>1, <1>4 DEF Private
  <2>2. QED
    BY <1>1, <2>1 DEF PointerDiscipline, PrivatePointers, Frame
<1>8. OnePlace'
  <2>1. \A x \in Pid : pc'[x] \in {"none", "new"} => pc[x] \in {"none", "new"}
    BY <1>1, <1>4
  <2>2. QED
    BY <1>1, <2>1 DEF PointerDiscipline, OnePlace, OnCore, Frame
<1>9. RequestFits'
  <2>1. FitsRequest(p)'
    BY <1>1, <1>4 DEF PointerDiscipline, RequestFits, FitsRequest, IoctlPC, NewProcPC
  <2>2. FitsRequest(q)'
    BY <1>1, <1>4 DEF PointerDiscipline, RequestFits, FitsRequest, IoctlPC, NewProcPC
  <2>3. ASSUME NEW x \in Pid, x \notin {p, q}  PROVE FitsRequest(x)'
    BY <1>1, <1>4, <2>3 DEF PointerDiscipline, RequestFits, FitsRequest, Frame
  <2>4. QED
    BY <2>1, <2>2, <2>3 DEF RequestFits
<1>10. OneCreator'
  <2>1. \A x \in Pid : pc[x] \in NewProcPC => req[x].pid # q
    BY <1>1 DEF PointerDiscipline, OneCreator
  <2>2. QED
    BY <1>1, <1>4, <2>1 DEF PointerDiscipline, OneCreator, NewProcPC
<1>11. QED
  BY <1>5, <1>6, <1>7, <1>8, <1>9, <1>10 DEF PointerDiscipline

\* bts_newproc_handler returns, having linked the child's state or not.
LEMMA NewProcReturnKeeps ==
    ASSUME InvType, PointerDiscipline, NEW p \in Pid, NewProcReturn(p), pc[p] \in NewProcPC,
           listed \subseteq listed', listed' \subseteq listed \cup Private(p),
           UNCHANGED <<live, statePid>>
    PROVE  HeldPointers' /\ PrivatePointers' /\ RequestFits' /\ OneCreator'
<1> USE PartsOfTypes
<1>1. /\ \A x \in Pid : x # p =>
            /\ req'[x] = req[x] /\ ptr'[x] = ptr[x] /\ child'[x] = child[x]
            /\ pc'[x] = IF x = req[p].pid THEN "user" ELSE pc[x]
      /\ pc'[p] = "user" /\ req'[p] = NoReq
  BY NewProcReturnEffect
<1>2. req[p].pid \in Pid /\ pc[req[p].pid] = "new"
  BY DEF PointerDiscipline, OneCreator
<1>3. Private(p)' = {} /\ \A x \in Pid : Private(x)' \subseteq Private(x)
  BY <1>1 DEF Private
<1>4. HeldPointers'
  BY <1>1 DEF PointerDiscipline, HeldPointers, HoldingPC, NewProcPC
<1>5. PrivatePointers'
  <2>1. \A x \in Pid : x # p => Private(x) \cap Private(p) = {}
    BY DEF PointerDiscipline, PrivatePointers
  <2>2. QED
    BY <1>3, <2>1 DEF PointerDiscipline, PrivatePointers
<1>6. RequestFits'
  <2>1. FitsRequest(p)'
    BY <1>1 DEF FitsRequest, IoctlPC, NewProcPC
  <2>2. ASSUME NEW x \in Pid, x # p  PROVE FitsRequest(x)'
    BY <1>1, <1>2, <2>2
       DEF PointerDiscipline, RequestFits, FitsRequest, IoctlPC, NewProcPC
  <2>3. QED
    BY <2>1, <2>2 DEF RequestFits
<1>7. OneCreator'
  BY <1>1, <1>2 DEF PointerDiscipline, OneCreator, NewProcPC
<1>8. QED
  BY <1>4, <1>5, <1>6, <1>7

\* bts_newproc_handler: the child's state is private until it is linked, and the
\* child runs nowhere until its creator's handler has returned.
LEMMA NewProcKeeps ==
    ASSUME InvType, PointerDiscipline, NEW c \in CPU, NEW p \in Pid,
           NewProcCreate(c, p) \/ NewProcInsert(c, p)
    PROVE  PointerDiscipline'
<1> USE PartsOfTypes
<1>1. UNCHANGED <<cores, swtch>> /\ pc[p] \in NewProcPC
  BY DEF NewProcCreate, NewProcInsert, NewProcPC
<1>2. req[p].pid \in Pid /\ pc[req[p].pid] = "new" /\ ~OnCore(req[p].pid)
  BY <1>1 DEF PointerDiscipline, OneCreator, OnePlace
<1>3. CASE NewProcReturn(p) /\ UNCHANGED heap
  <2>1. UNCHANGED Frame
    BY <1>1, <1>3 DEF Frame, heap, cores, swtch
  <2>2. OnePlace'
    BY <1>3, <2>1, NewProcReturnEffect DEF PointerDiscipline, OnePlace, OnCore, Frame
  <2>3. HeldPointers' /\ PrivatePointers' /\ RequestFits' /\ OneCreator'
    BY <1>1, <1>3, <2>1, NewProcReturnKeeps DEF Frame
  <2>4. ListWellFormed' /\ HandlerPointers'
    BY <2>1 DEF PointerDiscipline, Frame, ListWellFormed, HandlerPointers, Found, Matches
  <2>5. QED
    BY <2>2, <2>3, <2>4 DEF PointerDiscipline
<1>4. ASSUME NEW o \in Obj \ live,
             pc[p] = "np_create",
             live' = live \cup {o},
             statePid' = [statePid EXCEPT ![o] = req[p].pid],
             child' = [child EXCEPT ![p] = o],
             Goto(p, "np_insert"),
             UNCHANGED <<listed, req, ptr>>
      PROVE  PointerDiscipline'
  <2>1. /\ OthersStay(p)
        /\ pc'[p] = "np_insert" /\ ptr'[p] = ptr[p] /\ req'[p] = req[p] /\ child'[p] = o
    BY <1>4 DEF OthersStay, Goto, ProcsTypeOK
  <2>2. o \notin listed /\ \A x \in live : statePid'[x] = statePid[x]
    BY <1>4 DEF PointerDiscipline, ListWellFormed, HeapTypeOK
  <2>3. statePid'[o] = req[p].pid /\ statePid'[o] \in Pid
    BY <1>2, <1>4 DEF HeapTypeOK
  <2>4. ListWellFormed'
    BY <1>4, <2>2, <2>3 DEF PointerDiscipline, ListWellFormed
  <2>5. HeldPointers'
    BY <1>1, <1>4, <2>1, <2>2
       DEF PointerDiscipline, HeldPointers, ListWellFormed, OthersStay, HoldingPC
  <2>6. PrivatePointers'
    <3>1. Private(p)' = {o} /\ \A x \in Pid : x # p => Private(x)' = Private(x)
      BY <2>1 DEF Private, OthersStay
    <3>2. QED
      BY <1>4, <2>2, <3>1 DEF PointerDiscipline, PrivatePointers
  <2>7. \A t : Matches(t)' = Matches(t)
    BY <1>4, <2>2 DEF Matches, PointerDiscipline, ListWellFormed
  <2>8. HandlerPointers'
    BY <1>1, <2>7 DEF PointerDiscipline, HandlerPointers, Found, cores, swtch
  <2>9. OnePlace'
    BY <1>1, <2>1 DEF PointerDiscipline, OnePlace, OnCore, OthersStay, cores, swtch
  <2>10. RequestFits'
    <3>1. FitsRequest(p)'
      BY <1>1, <2>1, <2>3
         DEF PointerDiscipline, RequestFits, FitsRequest, IoctlPC, NewProcPC
    <3>2. \A x \in Pid :
               /\ pc[x] = "insert" => statePid'[ptr[x]] = statePid[ptr[x]]
               /\ pc[x] = "np_insert" => statePid'[child[x]] = statePid[child[x]]
      BY <2>2 DEF PointerDiscipline, PrivatePointers, Private
    <3>3. QED
      BY <2>1, <3>1, <3>2 DEF PointerDiscipline, RequestFits, FitsRequest, OthersStay
  <2>11. OneCreator'
    BY <1>1, <2>1 DEF PointerDiscipline, OneCreator, OthersStay, NewProcPC
  <2>12. QED
    BY <2>4, <2>5, <2>6, <2>8, <2>9, <2>10, <2>11 DEF PointerDiscipline
<1>5. CASE NewProcInsert(c, p)
  <2>1. /\ child[p] \in live \ listed /\ Private(p) = {child[p]}
        /\ listed' = listed \cup {child[p]}
        /\ NewProcReturn(p)
        /\ UNCHANGED <<live, statePid>>
    BY <1>5 DEF NewProcInsert, PointerDiscipline, PrivatePointers, Private
  <2>2. ListWellFormed'
    BY <2>1 DEF PointerDiscipline, ListWellFormed
  <2>3. HeldPointers' /\ PrivatePointers' /\ RequestFits' /\ OneCreator'
    BY <1>1, <2>1, NewProcReturnKeeps
  <2>4. OnePlace'
    BY <1>1, <2>1, NewProcReturnEffect DEF PointerDiscipline, OnePlace, OnCore, cores, swtch
  <2>5. HandlerPointers'
    <3>1. statePid[child[p]] = req[p].pid
      BY <1>5 DEF NewProcInsert, PointerDiscipline, RequestFits, FitsRequest
    <3>2. \A t : t # req[p].pid => Matches(t)' = Matches(t)
      BY <2>1, <3>1 DEF Matches
    <3>3. \A c2 \in CPU : run[c2] # req[p].pid /\ (at[c2] # "no" => nxt[c2] # req[p].pid)
      BY <1>2 DEF OnCore
    <3>4. QED
      BY <1>1, <3>2, <3>3 DEF PointerDiscipline, HandlerPointers, Found, cores, swtch
  <2>6. QED
    BY <2>2, <2>3, <2>4, <2>5 DEF PointerDiscipline
<1>6. QED
  BY <1>3, <1>4, <1>5 DEF NewProcCreate

\* The context-switch handler finds the states of the two processes, and the
\* scheduler hands no process to two cores.
LEMMA CoreKeeps ==
    ASSUME InvType, PointerDiscipline, NEW c \in CPU,
           \/ \E n \in Tag : SwitchTo(c, n)
           \/ SwitchFind(c) \/ SwitchGet(c) \/ SwitchPut(c)
    PROVE  PointerDiscipline'
<1> USE PartsOfTypes
<1>1. UNCHANGED <<live, listed, statePid, procs>>
  BY DEF SwitchTo, SwitchFind, SwitchGet, SwitchPut, heap
<1>2. ListWellFormed' /\ HeldPointers' /\ PrivatePointers' /\ RequestFits' /\ OneCreator'
  <2>1. ListWellFormed' /\ HeldPointers' /\ PrivatePointers'
    BY <1>1 DEF PointerDiscipline, ListWellFormed, HeldPointers, PrivatePointers, Private, procs
  <2>2. RequestFits' /\ OneCreator'
    BY <1>1 DEF PointerDiscipline, RequestFits, FitsRequest, OneCreator, procs
  <2>3. QED
    BY <2>1, <2>2
<1>3. \A t, o : Found(t, o)' <=> Found(t, o)
  BY <1>1 DEF Found, Matches
<1>4. UNCHANGED pc
  BY <1>1 DEF procs
<1>5. ASSUME NEW n \in Tag, SwitchTo(c, n)  PROVE HandlerPointers' /\ OnePlace'
  <2>1. PICK o \in Obj \cup {Null} :
          /\ Found(run[c], o)
          /\ prevState' = [prevState EXCEPT ![c] = o]
    BY <1>5 DEF SwitchTo
  <2>2. /\ at' = [at EXCEPT ![c] = "next"] /\ nxt' = [nxt EXCEPT ![c] = n]
        /\ at[c] = "no" /\ n \in Runnable /\ n # run[c]
        /\ UNCHANGED <<run, nextState>>
    BY <1>5 DEF SwitchTo, cores
  <2>3. HandlerPointers'
    BY <1>3, <2>1, <2>2 DEF PointerDiscipline, HandlerPointers, SwitchTypeOK
  <2>4. n \in Pid => /\ pc[n] \notin {"none", "new"}
                     /\ \A c2 \in CPU : run[c2] # n /\ (at[c2] # "no" => nxt[c2] # n)
    BY <2>2 DEF Runnable, OnCore
  <2>5. OnePlace'
    BY <1>4, <2>2, <2>4 DEF PointerDiscipline, OnePlace, OnCore, SwitchTypeOK
  <2>6. QED
    BY <2>3, <2>5
<1>6. CASE SwitchFind(c)
  <2>1. PICK o \in Obj \cup {Null} :
          /\ Found(nxt[c], o)
          /\ nextState' = [nextState EXCEPT ![c] = o]
    BY <1>6 DEF SwitchFind
  <2>2. /\ at' = [at EXCEPT ![c] = IF prevState[c] # Null THEN "get" ELSE "put"]
        /\ at[c] = "next"
        /\ UNCHANGED <<run, nxt, prevState>>
    BY <1>6 DEF SwitchFind, cores
  <2>3. HandlerPointers'
    BY <1>3, <2>1, <2>2 DEF PointerDiscipline, HandlerPointers, SwitchTypeOK
  <2>4. OnePlace'
    BY <1>4, <2>2 DEF PointerDiscipline, OnePlace, OnCore, SwitchTypeOK
  <2>5. QED
    BY <1>2, <2>3, <2>4 DEF PointerDiscipline
<1>7. CASE SwitchGet(c)
  <2>1. /\ at' = [at EXCEPT ![c] = "put"] /\ at[c] = "get"
        /\ UNCHANGED <<run, nxt, prevState, nextState>>
    BY <1>7 DEF SwitchGet
  <2>2. HandlerPointers'
    BY <1>3, <2>1 DEF PointerDiscipline, HandlerPointers, SwitchTypeOK
  <2>3. OnePlace'
    BY <1>4, <2>1 DEF PointerDiscipline, OnePlace, OnCore, SwitchTypeOK
  <2>4. QED
    BY <1>2, <2>2, <2>3 DEF PointerDiscipline
<1>8. CASE SwitchPut(c)
  <2>1. /\ run' = [run EXCEPT ![c] = nxt[c]] /\ at' = [at EXCEPT ![c] = "no"]
        /\ at[c] = "put"
        /\ nxt' = [nxt EXCEPT ![c] = NoPid]
        /\ prevState' = [prevState EXCEPT ![c] = Null]
        /\ nextState' = [nextState EXCEPT ![c] = Null]
    BY <1>8 DEF SwitchPut
  <2>2. HandlerPointers'
    BY <1>3, <2>1 DEF PointerDiscipline, HandlerPointers, SwitchTypeOK, CoresTypeOK
  <2>3. OnePlace'
    BY <1>4, <2>1 DEF PointerDiscipline, OnePlace, OnCore, SwitchTypeOK, CoresTypeOK
  <2>4. QED
    BY <1>2, <2>2, <2>3 DEF PointerDiscipline
<1>9. QED
  BY <1>2, <1>5, <1>6, <1>7, <1>8 DEF PointerDiscipline

\* With the discipline kept, nobody is about to use a freed state but for the
\* handler of a new thread.
LEMMA NoStateFault ==
    ASSUME InvType, PointerDiscipline
    PROVE  /\ \A p \in Pid : NoThreads \/ pc[p] # "np_create" => ProcDeref(p) \subseteq live
           /\ \A c \in CPU : SwitchDeref(c) \subseteq live
<1>1. \A p \in Pid : NoThreads \/ pc[p] # "np_create" => ProcDeref(p) \subseteq live
  BY DEF ProcDeref, PointerDiscipline, ListWellFormed, HeldPointers, HoldingPC, NewProcPC
<1>2. \A c \in CPU : SwitchDeref(c) \subseteq live
  BY ListedIsObj, FoundIsListed DEF SwitchDeref, PointerDiscipline, HandlerPointers
<1>3. QED
  BY <1>1, <1>2

LEMMA InitPointers == Init => PointerDiscipline
BY DEF Init, PointerDiscipline, ListWellFormed, HeldPointers, PrivatePointers, Private,
       HandlerPointers, OnePlace, OnCore, RequestFits, FitsRequest, OneCreator, HoldingPC,
       IoctlPC, NewProcPC

LEMMA NextPointers ==
    ASSUME SelfTracing, InvType, PointerDiscipline, [Next]_vars
    PROVE  PointerDiscipline'
<1>1. ASSUME UNCHANGED <<heap, cores, swtch, procs>>
      PROVE  PointerDiscipline'
  <2>1. UNCHANGED <<listed, live, statePid, run, at, nxt, prevState, nextState, pc, req, ptr, child>>
    BY <1>1 DEF heap, cores, swtch, procs
  <2>2. ListWellFormed' /\ HeldPointers' /\ PrivatePointers'
    BY <2>1 DEF PointerDiscipline, ListWellFormed, HeldPointers, PrivatePointers, Private
  <2>3. HandlerPointers'
    BY <2>1 DEF PointerDiscipline, HandlerPointers, Found, Matches
  <2>4. OnePlace'
    BY <2>1 DEF PointerDiscipline, OnePlace, OnCore
  <2>5. RequestFits' /\ OneCreator'
    BY <1>1, <2>1 DEF PointerDiscipline, RequestFits, FitsRequest, OneCreator, heap, procs
  <2>6. QED
    BY <2>2, <2>3, <2>4, <2>5 DEF PointerDiscipline
<1>2. ASSUME NEW c \in CPU, NEW p \in Pid, ProcStep(c, p)
      PROVE  PointerDiscipline'
  BY <1>1, <1>2, IoctlKeeps, EnableKeeps, OperationKeeps, RemoveKeeps, CloneKeeps, NewProcKeeps
     DEF ProcStep, ProcFault
<1>3. ASSUME NEW c \in CPU, CoreStep(c)
      PROVE  PointerDiscipline'
  BY <1>1, <1>3, CoreKeeps DEF CoreStep, Record, SwitchFault
<1>4. QED
  BY <1>1, <1>2, <1>3 DEF Next, vars

----------------------------------------------------------------------------
(* Buffers.                                                                *)

\* The state a process works on is being resized by nobody else.
LEMMA ResizingItsOwn ==
    ASSUME PointerDiscipline, NEW p \in Pid, pc[p] \in HoldingPC
    PROVE  ptr[p] \in Resizing <=> pc[p] = "install"
BY DEF PointerDiscipline, HeldPointers, HoldingPC, Resizing

\* A state that is not on the list is not being resized.
LEMMA ResizingIsListed ==
    ASSUME PointerDiscipline
    PROVE  Resizing \subseteq listed
BY DEF PointerDiscipline, HeldPointers, HoldingPC, Resizing

\* Which states are being resized, after a step of p.
LEMMA ResizingSteps ==
    ASSUME NEW p \in Pid, OthersStay(p)
    PROVE  /\ pc[p] # "install" /\ pc'[p] # "install" => Resizing' = Resizing
           /\ pc[p] # "install" /\ pc'[p] = "install" => Resizing' = Resizing \cup {ptr'[p]}
           /\ (/\ pc[p] = "install" /\ pc'[p] # "install"
               /\ \A x \in Pid : (x # p /\ pc[x] = "install") => ptr[x] # ptr[p])
              => Resizing' = Resizing \ {ptr[p]}
BY DEF OthersStay, Resizing

\* Buffers stay owned when no state gets or loses one,
LEMMA SameBuffers ==
    ASSUME BuffersOwned, Settled' = Settled, UNCHANGED liveBuf,
           \A o \in Settled : base'[o] = base[o] /\ index'[o] = index[o]
    PROVE  BuffersOwned'
BY DEF BuffersOwned

\* when one state is settled, with a new buffer, or without one,
LEMMA AddBuffer ==
    ASSUME BuffersOwned, NEW o, o \notin Settled, Settled' = Settled \cup {o},
           \A x \in Settled : base'[x] = base[x] /\ index'[x] = index[x],
           NEW b, base'[o] = b, index'[o] = b,
           \/ NewBuffer(b)
           \/ ~NoCreation /\ b = Wild /\ UNCHANGED liveBuf
    PROVE  BuffersOwned'
<1>1. \A x \in Settled' :
        /\ base'[x] \in liveBuf' \cup {Null, Wild} /\ index'[x] = base'[x]
        /\ ~BufferFails => base'[x] # Null
        /\ NoCreation => base'[x] # Wild
  BY DEF BuffersOwned, NewBuffer
<1>2. \A x \in Settled : base[x] \in Buf => base[x] # b
  BY DEF BuffersOwned, NewBuffer
<1>3. \A o1, o2 \in Settled' : (base'[o1] \in Buf /\ base'[o1] = base'[o2]) => o1 = o2
  BY <1>2 DEF BuffersOwned
<1>4. \A x \in liveBuf' : \E y \in Settled' : base'[y] = x
  BY DEF BuffersOwned, NewBuffer
<1>5. QED
  BY <1>1, <1>3, <1>4 DEF BuffersOwned

\* and when one gives its buffer back.
LEMMA DropBuffer ==
    ASSUME HeapTypeOK, BuffersOwned, NEW o \in Settled, Settled' = Settled \ {o},
           \A x \in Settled \ {o} : base'[x] = base[x] /\ index'[x] = index[x],
           liveBuf' = liveBuf \ {base[o]}
    PROVE  BuffersOwned'
<1>1. liveBuf \subseteq Buf /\ \A x \in Settled' : base[x] = base[o] => base[x] \notin Buf
  BY DEF HeapTypeOK, BuffersOwned
<1>2. \A x \in Settled' : base'[x] \in liveBuf' \cup {Null, Wild}
  BY <1>1 DEF BuffersOwned
<1>3. \A b \in liveBuf' : \E x \in Settled' : base'[x] = b
  BY DEF BuffersOwned
<1>4. QED
  BY <1>2, <1>3 DEF BuffersOwned

\* A step of a running process that has to do with no buffer.
LEMMA LocalBuffers ==
    ASSUME BuffersOwned, NEW p \in Pid, OthersStay(p), UNCHANGED <<live, liveBuf, base, index>>,
           pc[p] # "install", pc'[p] # "install"
    PROVE  BuffersOwned'
BY ResizingSteps, SameBuffers DEF Settled

LEMMA EnableBuffers ==
    ASSUME InvType, PointerDiscipline, BuffersOwned, NEW c \in CPU, NEW p \in Pid,
           Alloc(c, p) \/ Insert(c, p)
    PROVE  BuffersOwned'
<1> USE PartsOfTypes
<1>1. CASE Alloc(c, p)
  <2>1. CASE Return(p) /\ UNCHANGED heap
    BY <1>1, <2>1, ReturnEffect, LocalBuffers DEF Alloc, heap
  <2>2. ASSUME NEW o \in Obj \ live, NEW b \in Buf \cup {Null},
               live' = live \cup {o},
               NewBuffer(b),
               base' = [base EXCEPT ![o] = b],
               index' = [index EXCEPT ![o] = b],
               ptr' = [ptr EXCEPT ![p] = o],
               Goto(p, "insert"),
               UNCHANGED <<listed, req, child, real_parent>>
        PROVE  BuffersOwned'
    <3>1. OthersStay(p) /\ pc[p] = "alloc" /\ pc'[p] = "insert"
      BY <1>1, <2>2 DEF Alloc, OthersStay, Goto, ProcsTypeOK
    <3>2. Resizing' = Resizing
      BY <3>1, ResizingSteps
    <3>3. Settled' = Settled \cup {o} /\ o \notin Settled
      BY <2>2, <3>2, ResizingIsListed DEF Settled, PointerDiscipline, ListWellFormed
    <3>4. base'[o] = b /\ index'[o] = b
      BY <2>2 DEF HeapTypeOK
    <3>5. \A x \in Settled : base'[x] = base[x] /\ index'[x] = index[x]
      BY <2>2, <3>3 DEF HeapTypeOK
    <3>6. QED
      BY <2>2, <3>3, <3>4, <3>5, AddBuffer
  <2>3. QED
    BY <1>1, <2>1, <2>2 DEF Alloc
<1>2. CASE Insert(c, p)
  BY <1>2, StepEffect, LocalBuffers DEF Insert
<1>3. QED
  BY <1>1, <1>2

LEMMA OperationBuffers ==
    ASSUME InvType, PointerDiscipline, BuffersOwned, NEW c \in CPU, NEW p \in Pid,
           SetBits(c, p) \/ Check(c, p) \/ Get(c, p) \/ Put(c, p) \/ Copy(c, p)
    PROVE  BuffersOwned'
<1> USE PartsOfTypes
<1>1. UNCHANGED <<live, liveBuf, base, index>> /\ pc[p] # "install"
  BY DEF SetBits, Check, Get, Put, Copy, heap
<1>2. \/ Return(p)
      \/ \E label \in {"check", "get", "free", "put", "remove"} : Step(p, label)
  BY DEF SetBits, Check, Get, Put, Copy
<1>3. OthersStay(p) /\ pc'[p] # "install"
  BY <1>2, ReturnEffect, StepEffect
<1>4. QED
  BY <1>1, <1>3, LocalBuffers

\* config_bts: from xfree to xmalloc the state has no buffer, and nobody looks.
LEMMA ResizeBuffers ==
    ASSUME InvType, PointerDiscipline, BuffersOwned, NEW c \in CPU, NEW p \in Pid,
           Free(c, p) \/ Install(c, p)
    PROVE  BuffersOwned'
<1> USE PartsOfTypes
<1> DEFINE o == ptr[p]
<1>1. pc[p] \in HoldingPC /\ o \in live /\ o \in Obj
  BY DEF Free, Install, HoldingPC, HeapTypeOK
<1>2. o \in listed /\ statePid[o] = p
  BY <1>1 DEF PointerDiscipline, HeldPointers
<1>3. CASE Free(c, p)
  <2>1. OthersStay(p) /\ pc[p] = "free" /\ pc'[p] = "install" /\ ptr'[p] = o
    BY <1>3, StepEffect DEF Free
  <2>2. o \in Settled /\ Settled' = Settled \ {o}
    BY <1>1, <1>3, <2>1, ResizingItsOwn, ResizingSteps DEF Settled, Free
  <2>3. QED
    BY <1>3, <2>2, DropBuffer DEF Free
<1>4. CASE Install(c, p)
  <2>1. IsOwn(p)
    BY <1>4 DEF Install, PointerDiscipline, RequestFits, FitsRequest, IsOwn, IoctlPC
  <2>2. OthersStay(p) /\ pc[p] = "install" /\ pc'[p] = "put"
    BY <1>4, <2>1, StepEffect DEF Install
  <2>3. \A x \in Pid : (x # p /\ pc[x] = "install") => ptr[x] # o
    BY <1>2 DEF PointerDiscipline, HeldPointers, HoldingPC
  <2>4. o \notin Settled /\ Settled' = Settled \cup {o}
    <3>1. Resizing' = Resizing \ {o} /\ o \in Resizing
      BY <1>1, <2>2, <2>3, ResizingSteps, ResizingItsOwn
    <3>2. QED
      BY <1>1, <1>4, <3>1 DEF Settled, Install
  <2>5. PICK b \in Buf \cup {Null} :
          /\ NewBuffer(b)
          /\ base' = [base EXCEPT ![o] = b]
          /\ index' = [index EXCEPT ![o] = b]
    BY <1>4, <2>1 DEF Install
  <2>6. base'[o] = b /\ index'[o] = b
    BY <1>1, <2>5 DEF HeapTypeOK
  <2>7. \A x \in Settled : base'[x] = base[x] /\ index'[x] = index[x]
    BY <2>4, <2>5 DEF HeapTypeOK
  <2>8. QED
    BY <2>4, <2>5, <2>6, <2>7, AddBuffer
<1>5. QED
  BY <1>3, <1>4

LEMMA RemoveBuffers ==
    ASSUME InvType, PointerDiscipline, BuffersOwned, NEW c \in CPU, NEW p \in Pid, Remove(c, p)
    PROVE  BuffersOwned'
<1> USE PartsOfTypes
<1> DEFINE o == ptr[p]
<1>1. /\ pc[p] = "remove" /\ o \in live
      /\ OthersStay(p) /\ pc'[p] = "user"
      /\ live' = live \ {o} /\ liveBuf' = liveBuf \ {base[o]}
      /\ base' = [base EXCEPT ![o] = Wild] /\ index' = [index EXCEPT ![o] = Wild]
  BY ReturnEffect DEF Remove, Unlink, BufferOf
<1>2. o \in Settled /\ Settled' = Settled \ {o}
  BY <1>1, ResizingItsOwn, ResizingSteps DEF Settled, HoldingPC
<1>3. \A x \in Settled \ {o} : base'[x] = base[x] /\ index'[x] = index[x]
  BY <1>1 DEF Settled, HeapTypeOK
<1>4. QED
  BY <1>1, <1>2, <1>3, DropBuffer

LEMMA NewProcBuffers ==
    ASSUME InvType, PointerDiscipline, BuffersOwned, CreatorsAllowed, NEW c \in CPU,
           NEW p \in Pid, NewProcCreate(c, p) \/ NewProcInsert(c, p)
    PROVE  BuffersOwned'
<1> USE PartsOfTypes
<1>1. pc[p] \in NewProcPC /\ req[p].pid \in Pid /\ pc[req[p].pid] = "new" /\ ~NoCreation
  BY DEF NewProcCreate, NewProcInsert, NewProcPC, PointerDiscipline, OneCreator, CreatorsAllowed
<1>2. ASSUME NewProcReturn(p), UNCHANGED <<live, liveBuf, base, index>>  PROVE BuffersOwned'
  <2>1. Resizing' = Resizing
    <3>1. \A x \in Pid : pc'[x] = "install" <=> pc[x] = "install"
      BY <1>1, <1>2, NewProcReturnEffect DEF NewProcPC
    <3>2. \A x \in Pid : pc[x] = "install" => ptr'[x] = ptr[x]
      BY <1>1, <1>2, NewProcReturnEffect DEF NewProcPC
    <3>3. QED
      BY <3>1, <3>2 DEF Resizing
  <2>2. QED
    BY <1>2, <2>1, SameBuffers DEF Settled
<1>3. ASSUME NEW o \in Obj \ live,
             pc[p] = "np_create",
             live' = live \cup {o},
             base' = [base EXCEPT ![o] = Wild],
             index' = [index EXCEPT ![o] = Wild],
             child' = [child EXCEPT ![p] = o],
             Goto(p, "np_insert"),
             UNCHANGED <<liveBuf, req, ptr>>
      PROVE  BuffersOwned'
  <2>1. OthersStay(p) /\ pc'[p] = "np_insert"
    BY <1>3 DEF OthersStay, Goto, ProcsTypeOK
  <2>2. Settled' = Settled \cup {o} /\ o \notin Settled
    BY <1>3, <2>1, ResizingSteps, ResizingIsListed
       DEF Settled, PointerDiscipline, ListWellFormed
  <2>3. base'[o] = Wild /\ index'[o] = Wild
    BY <1>3 DEF HeapTypeOK
  <2>4. \A x \in Settled : base'[x] = base[x] /\ index'[x] = index[x]
    BY <1>3, <2>2 DEF HeapTypeOK
  <2>5. QED
    BY <1>1, <1>3, <2>2, <2>3, <2>4, AddBuffer
<1>4. QED
  BY <1>2, <1>3 DEF NewProcCreate, NewProcInsert, heap

\* The entries of the handlers and the steps of the cores.
LEMMA OtherBuffers ==
    ASSUME InvType, BuffersOwned, NEW c \in CPU, NEW p \in Pid,
           \/ \E cmd \in Cmds, t \in Targets[p] :
                 \E k \in ReqCodes(cmd), s \in SizesOf(cmd) : Ioctl(c, p, cmd, t, k, s)
           \/ \E q \in Pid, kind \in CloneKinds : Clone(c, p, q, kind)
           \/ ProcFault(c, p) \/ CoreStep(c)
    PROVE  BuffersOwned'
<1> USE PartsOfTypes
<1>1. UNCHANGED <<live, liveBuf, base, index>>
  BY IoctlEffect DEF Clone, ProcFault, CoreStep, SwitchTo, SwitchFind, SwitchGet, SwitchPut,
     Record, SwitchFault, heap
<1>2. \A x \in Pid : (pc'[x] = "install") = (pc[x] = "install")
  <2>1. ASSUME \E cmd \in Cmds, t \in Targets[p] :
           \E k \in ReqCodes(cmd), s \in SizesOf(cmd) : Ioctl(c, p, cmd, t, k, s)
        PROVE \A x \in Pid : (pc'[x] = "install") = (pc[x] = "install")
    <3>1. pc[p] = "user" /\ (UNCHANGED pc \/ \E l \in {"alloc", "set_bits", "copy", "check"} : Goto(p, l))
      BY <2>1, IoctlEffect DEF procs
    <3>2. QED
      BY <3>1 DEF Goto, ProcsTypeOK
  <2>2. ASSUME \E q \in Pid, kind \in CloneKinds : Clone(c, p, q, kind)
        PROVE  \A x \in Pid : (pc'[x] = "install") = (pc[x] = "install")
    BY <2>2 DEF Clone, Goto, ProcsTypeOK
  <2>3. ProcFault(c, p) \/ CoreStep(c) => UNCHANGED pc
    BY DEF ProcFault, CoreStep, SwitchTo, SwitchFind, SwitchGet, SwitchPut, Record,
           SwitchFault, procs
  <2>4. QED
    BY <2>1, <2>2, <2>3
<1>3. \A x \in Pid : pc[x] = "install" => ptr'[x] = ptr[x]
  <2>1. ASSUME \E cmd \in Cmds, t \in Targets[p] :
           \E k \in ReqCodes(cmd), s \in SizesOf(cmd) : Ioctl(c, p, cmd, t, k, s)
        PROVE \A x \in Pid : pc[x] = "install" => ptr'[x] = ptr[x]
    <3>1. pc[p] = "user" /\ (UNCHANGED ptr \/ \E o : ptr' = [ptr EXCEPT ![p] = o])
      BY <2>1, IoctlEffect DEF procs
    <3>2. QED
      BY <3>1 DEF ProcsTypeOK
  <2>2. ASSUME \E q \in Pid, kind \in CloneKinds : Clone(c, p, q, kind)
        PROVE  \A x \in Pid : pc[x] = "install" => ptr'[x] = ptr[x]
    BY <2>2 DEF Clone, ProcsTypeOK
  <2>3. ProcFault(c, p) \/ CoreStep(c) => UNCHANGED ptr
    BY DEF ProcFault, CoreStep, SwitchTo, SwitchFind, SwitchGet, SwitchPut, Record,
           SwitchFault, procs
  <2>4. QED
    BY <2>1, <2>2, <2>3
<1>4. Resizing' = Resizing
  BY <1>2, <1>3 DEF Resizing
<1>5. QED
  BY <1>1, <1>4, SameBuffers DEF Settled

LEMMA CreatorsStep ==
    ASSUME InvType, CreatorsAllowed, [Next]_vars
    PROVE  CreatorsAllowed'
<1> SUFFICES ASSUME NoCreation, NEW x \in Pid, pc[x] \notin NewProcPC
             PROVE  pc'[x] \notin NewProcPC
  BY DEF CreatorsAllowed
<1> USE PartsOfTypes
<1>1. ASSUME NEW c \in CPU, NEW p \in Pid, ProcStep(c, p)
      PROVE  pc'[x] \notin NewProcPC
  <2>1. ASSUME \E cmd \in Cmds, t \in Targets[p] :
           \E k \in ReqCodes(cmd), s \in SizesOf(cmd) : Ioctl(c, p, cmd, t, k, s)
        PROVE pc'[x] \notin NewProcPC
    <3>1. UNCHANGED pc \/ \E l \in {"alloc", "set_bits", "copy", "check"} : Goto(p, l)
      BY <2>1, IoctlEffect DEF procs
    <3>2. QED
      BY <3>1 DEF Goto, ProcsTypeOK, NewProcPC
  <2>2. CASE NewProcCreate(c, p) \/ NewProcInsert(c, p)
    BY <2>2 DEF NewProcCreate, NewProcInsert, CreatorsAllowed, NewProcPC
  <2>3. CASE \/ Alloc(c, p) \/ Insert(c, p) \/ SetBits(c, p) \/ Check(c, p) \/ Get(c, p)
             \/ Free(c, p) \/ Install(c, p) \/ Put(c, p) \/ Copy(c, p) \/ Remove(c, p)
    <3>1. \E l \in {"user", "insert", "check", "get", "free", "install", "put", "remove"} :
             Goto(p, l)
      BY <2>3 DEF Alloc, Insert, SetBits, Check, Get, Free, Install, Put, Copy, Remove, Unlink,
         Return, Step
    <3>2. QED
      BY <3>1 DEF Goto, ProcsTypeOK, NewProcPC
  <2>4. ~\E q \in Pid, kind \in CloneKinds : Clone(c, p, q, kind)
    BY DEF NoCreation
  <2>5. QED
    BY <1>1, <2>1, <2>2, <2>3, <2>4 DEF ProcStep, ProcFault, procs
<1>2. ASSUME UNCHANGED procs  PROVE pc'[x] \notin NewProcPC
  BY <1>2 DEF procs
<1>3. QED
  BY <1>1, <1>2 DEF Next, CoreStep, SwitchTo, SwitchFind, SwitchGet, SwitchPut, Record,
     SwitchFault, vars

LEMMA InitInv == Init => Inv
<1> SUFFICES ASSUME Init PROVE Inv
  OBVIOUS
<1>1. InvType /\ PointerDiscipline
  BY InitTypes, InitPointers
<1>2. BuffersOwned
  BY DEF Init, BuffersOwned, Settled
<1>3. CreatorsAllowed
  BY DEF Init, CreatorsAllowed, NewProcPC
<1>4. QED
  BY <1>1, <1>2, <1>3 DEF Inv

LEMMA NextInv == SelfTracing /\ Inv /\ [Next]_vars => Inv'
<1> SUFFICES ASSUME SelfTracing, Inv, [Next]_vars PROVE Inv'
  OBVIOUS
<1> USE DEF Inv
<1>1. InvType' /\ PointerDiscipline' /\ CreatorsAllowed'
  BY NextTypes, NextPointers, CreatorsStep
<1>2. ASSUME NEW c \in CPU, NEW p \in Pid, ProcStep(c, p)
      PROVE  BuffersOwned'
  BY <1>2, EnableBuffers, OperationBuffers, ResizeBuffers, RemoveBuffers, NewProcBuffers,
     OtherBuffers DEF ProcStep
<1>3. ASSUME UNCHANGED <<heap, procs>>
      PROVE  BuffersOwned'
  BY <1>3, SameBuffers DEF heap, procs, Settled, Resizing
<1>4. ASSUME NEW c \in CPU, CoreStep(c)
      PROVE  UNCHANGED <<heap, procs>>
  BY <1>4 DEF CoreStep, SwitchTo, SwitchFind, SwitchGet, SwitchPut, Record, SwitchFault
<1>5. QED
  BY <1>1, <1>2, <1>3, <1>4 DEF Next, vars

LEMMA Invariance == SelfTracing => (Spec => []Inv)
<1> SUFFICES ASSUME SelfTracing PROVE Spec => []Inv
  OBVIOUS
<1>1. Inv /\ [Next]_vars => Inv'
  BY NextInv
<1>2. QED
  BY <1>1, InitInv, PTL DEF Spec

\* PointersStayGood: if every process traces itself, the pointers that
\* find_bts_state hands out after releasing the lock stay good for as long as
\* the operations and the context-switch handlers use them, and the new-process
\* handler if no threads are created, on any number of cores, with preemption
\* anywhere outside the spinlock (bts.c: find_bts_state, remove_bts_state,
\* bts_cswitch_handler).
THEOREM PointersStayGood == SelfTracing => (Spec => []PointerDiscipline)
<1>1. Inv => PointerDiscipline
  BY DEF Inv
<1>2. QED
  BY <1>1, Invariance, PTL

\* BuffersStayOwned: then every allocated buffer belongs to exactly one state,
\* whichever allocations fail, however often states are resized, removed and
\* inherited, and wherever the handlers are preempted
\* (bts.c: config_bts, create_bts_state, remove_bts_state).
THEOREM BuffersStayOwned == SelfTracing => (Spec => []BufferOwned)
<1>1. Inv => BufferOwned
  <2> SUFFICES ASSUME Inv, NEW b \in liveBuf
               PROVE  Cardinality({o \in live \ Resizing : base[o] = b}) = 1
    BY DEF BufferOwned
  <2>1. PICK o \in Settled : base[o] = b
    BY DEF Inv, BuffersOwned
  <2>2. b \in Buf
    BY DEF Inv, InvType, TypeOK, HeapTypeOK
  <2>3. {x \in live \ Resizing : base[x] = b} = {o}
    BY <2>1, <2>2 DEF Inv, BuffersOwned, Settled
  <2>4. QED
    BY <2>3, FS_Singleton
<1>2. QED
  BY <1>1, Invariance, PTL

----------------------------------------------------------------------------
(* One state per process.                                                  *)

\* A step that links no state for anybody and begins no enable keeps the
\* invariants of this section.
LEMMA OneStateKept ==
    ASSUME InvOneState, listed' \subseteq listed,
           \A o \in listed' : statePid'[o] = statePid[o],
           \A x \in Pid : pc'[x] \in {"alloc", "insert"} =>
              pc[x] \in {"alloc", "insert"} /\ req'[x] = req[x],
           \A x \in Pid : pc'[x] \in {"none", "new"} => pc[x] \in {"none", "new"}
    PROVE  InvOneState'
BY DEF InvOneState, OneStatePerPid, EnablingIsUntraced, InheritingIsNew, Traced, Matches

\* The steps of a process in an operation, but for those that link a state.
LEMMA OperationOneState ==
    ASSUME Inv, InvOneState, NEW c \in CPU, NEW p \in Pid,
           \/ Alloc(c, p) \/ SetBits(c, p) \/ Check(c, p) \/ Get(c, p) \/ Free(c, p)
           \/ Install(c, p) \/ Put(c, p) \/ Copy(c, p) \/ Remove(c, p)
    PROVE  InvOneState'
<1> USE PartsOfTypes DEF Inv
<1>1. /\ listed' \subseteq listed
      /\ \A o \in listed' : statePid'[o] = statePid[o]
  <2>1. CASE Alloc(c, p)
    BY <2>1 DEF Alloc, heap, PointerDiscipline, ListWellFormed, HeapTypeOK
  <2>2. CASE Remove(c, p)
    BY <2>2 DEF Remove, Unlink, HeapTypeOK
  <2>3. CASE ~Alloc(c, p) /\ ~Remove(c, p)
    BY <2>3 DEF SetBits, Check, Get, Free, Install, Put, Copy, heap
  <2>4. QED
    BY <2>1, <2>2, <2>3
<1>2. /\ OthersStay(p)
      /\ pc'[p] \notin {"none", "new", "alloc"}
      /\ pc'[p] = "insert" => pc[p] = "alloc" /\ req'[p] = req[p]
  <2>1. CASE Alloc(c, p)
    <3>1. CASE Return(p)
      BY <3>1, ReturnEffect
    <3>2. ASSUME Goto(p, "insert"), \E o : ptr' = [ptr EXCEPT ![p] = o], UNCHANGED <<req, child, real_parent>>
          PROVE  OthersStay(p) /\ pc'[p] = "insert" /\ req'[p] = req[p]
      BY <3>2 DEF Goto, OthersStay, ProcsTypeOK
    <3>3. QED
      BY <2>1, <3>1, <3>2 DEF Alloc
  <2>2. CASE ~Alloc(c, p)
    <3>1. \/ Return(p)
          \/ \E label \in {"check", "get", "free", "install", "put", "remove"} : Step(p, label)
      BY <2>2 DEF SetBits, Check, Get, Free, Install, Put, Copy, Remove, Unlink
    <3>2. QED
      BY <3>1, ReturnEffect, StepEffect
  <2>3. QED
    BY <2>1, <2>2
<1>3. QED
  BY <1>1, <1>2, OneStateKept DEF OthersStay

\* enable_bts: the look-up at its start is still right when it links the state.
LEMMA InsertOneState ==
    ASSUME NoZero, Inv, InvOneState, NEW c \in CPU, NEW p \in Pid, Insert(c, p)
    PROVE  InvOneState'
<1> USE PartsOfTypes DEF Inv
<1>1. /\ listed' = listed \cup {ptr[p]} /\ statePid' = statePid
      /\ OthersStay(p) /\ pc'[p] = "check" /\ pc[p] = "insert"
  BY StepEffect DEF Insert
<1>2. statePid[ptr[p]] = p /\ ~Traced(p)
  BY <1>1 DEF InvOneState, EnablingIsUntraced, PointerDiscipline, RequestFits, FitsRequest
<1>3. \A t : t # p => Matches(t)' = Matches(t)
  BY <1>1, <1>2 DEF Matches
<1>4. OneStatePerPid'
  BY <1>1, <1>2 DEF InvOneState, OneStatePerPid, Traced, Matches
<1>5. EnablingIsUntraced' /\ InheritingIsNew'
  BY <1>1, <1>3 DEF InvOneState, EnablingIsUntraced, InheritingIsNew, OthersStay, Traced
<1>6. QED
  BY <1>4, <1>5 DEF InvOneState

LEMMA UserOneState ==
    ASSUME NoZero, Inv, InvOneState, NEW c \in CPU, NEW p \in Pid,
           \/ \E cmd \in Cmds, t \in Targets[p] :
                 \E k \in ReqCodes(cmd), s \in SizesOf(cmd) : Ioctl(c, p, cmd, t, k, s)
           \/ \E q \in Pid, kind \in CloneKinds : Clone(c, p, q, kind)
    PROVE  InvOneState'
<1> USE PartsOfTypes DEF Inv
<1>1. pc[p] = "user" /\ UNCHANGED heap
  BY IoctlEffect DEF Clone
<1>2. ASSUME \E cmd \in Cmds, t \in Targets[p] :
                \E k \in ReqCodes(cmd), s \in SizesOf(cmd) : Ioctl(c, p, cmd, t, k, s)
      PROVE  InvOneState'
  <2>1. CASE UNCHANGED procs
    BY <1>1, <2>1, OneStateKept DEF heap, procs
  <2>2. CASE ~UNCHANGED procs
    <3>1. PICK o \in Obj \cup {Null}, r \in ReqSet :
            /\ Found(r.pid, o) /\ Accepts(r.cmd, o) /\ r.pid \in Targets[p]
            /\ Goto(p, CASE r.cmd = "enable" -> "alloc" [] r.cmd = "config" -> "set_bits"
                         [] r.cmd = "dump" -> "copy" [] OTHER -> "check")
            /\ req' = [req EXCEPT ![p] = r]
      BY <1>2, <2>2, IoctlEffect
    <3>2. /\ r.pid = p /\ req'[p] = r
          /\ pc'[p] \in {"alloc", "set_bits", "copy", "check"}
          /\ pc'[p] = "alloc" => ~Traced(p)
          /\ \A x \in Pid : x # p => pc'[x] = pc[x] /\ req'[x] = req[x]
      BY <3>1, FoundIsListed, ListedIsObj DEF NoZero, Accepts, Goto, ProcsTypeOK
    <3>3. QED
      BY <1>1, <3>2 DEF InvOneState, OneStatePerPid, EnablingIsUntraced, InheritingIsNew,
         Traced, Matches, heap
  <2>3. QED
    BY <2>1, <2>2
<1>3. ASSUME NEW q \in Pid, NEW kind \in CloneKinds, Clone(c, p, q, kind)
      PROVE  InvOneState'
  <2>1. /\ pc[q] = "none" /\ p # q
        /\ pc'[p] \in {"user", "np_create"} /\ pc'[q] \in {"user", "new"}
        /\ \A x \in Pid : x \notin {p, q} => pc'[x] = pc[x] /\ req'[x] = req[x]
    BY <1>1, <1>3 DEF Clone, Goto, ProcsTypeOK
  <2>2. QED
    BY <1>1, <2>1, OneStateKept DEF heap
<1>4. QED
  BY <1>2, <1>3

\* bts_newproc_handler: the child cannot have enabled itself yet.
LEMMA NewProcOneState ==
    ASSUME Inv, InvOneState, NEW c \in CPU, NEW p \in Pid,
           NewProcCreate(c, p) \/ NewProcInsert(c, p)
    PROVE  InvOneState'
<1> USE PartsOfTypes DEF Inv
<1>1. pc[p] \in NewProcPC /\ req[p].pid \in Pid /\ pc[req[p].pid] = "new"
  BY DEF NewProcCreate, NewProcInsert, NewProcPC, PointerDiscipline, OneCreator
<1>2. CASE NewProcCreate(c, p)
  <2>1. listed' = listed /\ \A o \in listed' : statePid'[o] = statePid[o]
    BY <1>2 DEF NewProcCreate, heap, PointerDiscipline, ListWellFormed, HeapTypeOK
  <2>2. CASE NewProcReturn(p)
    BY <1>1, <2>1, <2>2, NewProcReturnEffect, OneStateKept
  <2>3. CASE Goto(p, "np_insert") /\ UNCHANGED req
    BY <2>1, <2>3, OneStateKept DEF Goto, ProcsTypeOK
  <2>4. QED
    BY <1>2, <2>2, <2>3 DEF NewProcCreate
<1>3. CASE NewProcInsert(c, p)
  <2>1. /\ pc[p] = "np_insert" /\ listed' = listed \cup {child[p]} /\ statePid' = statePid
        /\ NewProcReturn(p)
    BY <1>3 DEF NewProcInsert
  <2>2. statePid[child[p]] = req[p].pid /\ ~Traced(req[p].pid)
    BY <1>1, <2>1 DEF PointerDiscipline, RequestFits, FitsRequest, InvOneState, InheritingIsNew
  <2>3. \A t : t # req[p].pid => Matches(t)' = Matches(t)
    BY <2>1, <2>2 DEF Matches
  <2>4. /\ pc'[req[p].pid] = "user" /\ pc'[p] = "user"
        /\ \A x \in Pid : x \notin {p, req[p].pid} => pc'[x] = pc[x] /\ req'[x] = req[x]
    BY <1>1, <2>1, NewProcReturnEffect
  <2>5. OneStatePerPid'
    BY <2>1, <2>2 DEF InvOneState, OneStatePerPid, Traced, Matches
  <2>6. EnablingIsUntraced' /\ InheritingIsNew'
    BY <1>1, <2>3, <2>4 DEF InvOneState, EnablingIsUntraced, InheritingIsNew, Traced, NewProcPC
  <2>7. QED
    BY <2>5, <2>6 DEF InvOneState
<1>4. QED
  BY <1>2, <1>3

LEMMA ZeroIsSelf == NoZero => SelfTracing
BY DEF NoZero, SelfTracing

LEMMA NextOneState == NoZero /\ Inv /\ InvOneState /\ [Next]_vars => InvOneState'
<1> SUFFICES ASSUME NoZero, Inv, InvOneState, [Next]_vars PROVE InvOneState'
  OBVIOUS
<1>1. ASSUME UNCHANGED <<heap, procs>>  PROVE InvOneState'
  BY <1>1, OneStateKept DEF heap, procs
<1>2. ASSUME NEW c \in CPU, NEW p \in Pid, ProcStep(c, p)  PROVE InvOneState'
  BY <1>1, <1>2, OperationOneState, InsertOneState, UserOneState, NewProcOneState
     DEF ProcStep, ProcFault
<1>3. ASSUME NEW c \in CPU, CoreStep(c)  PROVE InvOneState'
  BY <1>1, <1>3 DEF CoreStep, SwitchTo, SwitchFind, SwitchGet, SwitchPut, Record, SwitchFault
<1>4. QED
  BY <1>1, <1>2, <1>3 DEF Next, vars
=============================================================================
