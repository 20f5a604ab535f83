-------------------------- MODULE BtsTrace_proofs ---------------------------
(* Theorems about what the cores record with BTS, and where, on kernels    *)
(* without preemption and with the default bits; and that the list of BTS  *)
(* states implements the table of TraceTable, on preemptible and on non-   *)
(* preemptible kernels; for any number of cores, processes and allocations. *)
EXTENDS BtsTable, Bts_proofs

USE BtsAssumption

----------------------------------------------------------------------------
(* The bits of the states.                                                 *)

\* Steps that choose no bits.
LEMMA CodesKept ==
    ASSUME DefaultCodes, live' \subseteq live, \A o \in live' : code'[o] = code[o],
           \A x \in Pid : pc'[x] \in {"alloc", "set_bits"} =>
              pc'[x] = pc[x] /\ req'[x] = req[x]
    PROVE  DefaultCodes'
BY DEF DefaultCodes

\* Where the steps of an operation lead.
LEMMA OperationEffect ==
    ASSUME InvType, NEW c \in CPU, NEW p \in Pid,
           \/ Alloc(c, p) \/ Insert(c, p) \/ SetBits(c, p) \/ Check(c, p) \/ Get(c, p)
           \/ Free(c, p) \/ Install(c, p) \/ Put(c, p) \/ Copy(c, p) \/ Remove(c, p)
    PROVE  /\ OthersStay(p) /\ Executes(c, p)
           /\ pc[p] \in IoctlPC
           /\ pc'[p] \in {"user", "insert", "check", "get", "free", "install", "put", "remove"}
           /\ UNCHANGED <<run, swtch, fault>>
           /\ pc'[p] # "user" => req'[p] = req[p]
<1> USE PartsOfTypes
<1>1. /\ Executes(c, p) /\ UNCHANGED <<run, swtch, fault>> /\ pc[p] \in IoctlPC
  BY DEF Alloc, Insert, SetBits, Check, Get, Free, Install, Put, Copy, Remove, Unlink, cores, IoctlPC
<1>2. CASE Return(p)
  BY <1>1, <1>2, ReturnEffect
<1>3. CASE \E label \in {"check", "get", "free", "install", "put", "remove"} : Step(p, label)
  BY <1>1, <1>3, StepEffect
<1>4. CASE Goto(p, "insert") /\ (\E o : ptr' = [ptr EXCEPT ![p] = o]) /\ UNCHANGED <<req, child, real_parent>>
  BY <1>1, <1>4 DEF OthersStay, Goto, ProcsTypeOK
<1>5. QED
  BY <1>2, <1>3, <1>4
     DEF Alloc, Insert, SetBits, Check, Get, Free, Install, Put, Copy, Remove, Unlink

\* Where the entries of the handlers lead.
LEMMA EntryEffect ==
    ASSUME SelfTracing, Inv, NEW c \in CPU, NEW p \in Pid,
           \E cmd \in Cmds, t \in Targets[p] :
              \E k \in ReqCodes(cmd), s \in SizesOf(cmd) : Ioctl(c, p, cmd, t, k, s)
    PROVE  /\ OthersStay(p) /\ Executes(c, p) /\ pc[p] = "user"
           /\ UNCHANGED <<heap, cores, swtch, fault>>
           /\ \/ pc'[p] = "user" /\ req'[p] = req[p]
              \/ /\ pc'[p] = "alloc"
                 /\ req'[p].cmd = "enable" /\ req'[p].code \in EnableCodes
                 /\ NoZero => req'[p].pid = p /\ ~Traced(p)
              \/ /\ pc'[p] \in {"set_bits", "copy", "check"}
                 /\ req'[p].pid = p /\ Traced(p) /\ req'[p].cmd # "enable"
                 /\ ptr'[p] \in Matches(p)
                 /\ pc'[p] = "set_bits" => req'[p].cmd = "config" /\ req'[p].code \in ConfigCodes
                 /\ pc'[p] = "copy" => req'[p].cmd = "dump"
                 /\ pc'[p] = "check" => req'[p].cmd = "disable"
<1> USE PartsOfTypes DEF Inv
<1>1. CASE UNCHANGED procs
  BY <1>1, IoctlEffect DEF OthersStay, procs
<1>2. CASE ~UNCHANGED procs
  <2>1. PICK o \in Obj \cup {Null}, r \in ReqSet :
          /\ Found(r.pid, o) /\ Accepts(r.cmd, o)
          /\ r.cmd \in Cmds /\ r.pid \in Targets[p]
          /\ r.code \in ReqCodes(r.cmd) /\ r.size \in SizesOf(r.cmd)
          /\ Goto(p, CASE r.cmd = "enable" -> "alloc" [] r.cmd = "config" -> "set_bits"
                       [] r.cmd = "dump" -> "copy" [] OTHER -> "check")
          /\ req' = [req EXCEPT ![p] = r]
          /\ ptr' = [ptr EXCEPT ![p] = o]
    BY <1>2, IoctlEffect
  <2>2. OthersStay(p) /\ Executes(c, p) /\ pc[p] = "user" /\ UNCHANGED <<heap, cores, swtch, fault>>
    BY <2>1, IoctlEffect DEF OthersStay, Goto, ProcsTypeOK
  <2>3. /\ req'[p] = r /\ ptr'[p] = o
        /\ pc'[p] = CASE r.cmd = "enable" -> "alloc" [] r.cmd = "config" -> "set_bits"
                      [] r.cmd = "dump" -> "copy" [] OTHER -> "check"
    BY <2>1 DEF Goto, ProcsTypeOK
  <2>4. r.cmd \in {"enable", "disable", "dump", "config"} /\ r.pid \in {p, NoPid}
    BY <2>1 DEF SelfTracing
  <2>5. /\ o # Null => o \in listed /\ statePid[o] = r.pid /\ Traced(r.pid) /\ statePid[o] \in Pid
        /\ o = Null => ~Traced(r.pid)
    BY <2>1, FoundIsListed, ListedIsObj
  <2>6. CASE r.cmd = "enable"
    <3>1. NoZero => r.pid = p
      BY <2>1 DEF NoZero
    <3>2. QED
      BY <2>1, <2>2, <2>3, <2>5, <2>6, <3>1 DEF Accepts, ReqCodes
  <2>7. CASE r.cmd # "enable"
    <3>1. o # Null /\ r.pid = p /\ o \in Matches(p) /\ Traced(p)
      BY <2>1, <2>4, <2>5, <2>7 DEF Accepts, Matches
    <3>2. r.cmd = "config" => r.code \in ConfigCodes
      BY <2>1 DEF ReqCodes
    <3>3. QED
      BY <2>2, <2>3, <2>4, <2>7, <3>1, <3>2
  <2>8. QED
    BY <2>6, <2>7
<1>3. QED
  BY <1>1, <1>2

LEMMA CloneEffect ==
    ASSUME InvType, NEW c \in CPU, NEW p \in Pid, NEW q \in Pid,
           NEW kind \in CloneKinds, Clone(c, p, q, kind)
    PROVE  /\ Executes(c, p) /\ pc[p] = "user" /\ pc[q] = "none" /\ p # q
           /\ UNCHANGED <<heap, cores, swtch, fault, child>>
           /\ \A x \in Pid : x \notin {p, q} =>
                 pc'[x] = pc[x] /\ req'[x] = req[x] /\ ptr'[x] = ptr[x]
           /\ req'[q] = req[q] /\ ptr'[q] = ptr[q]
           /\ \/ pc'[p] = "user" /\ pc'[q] = "user" /\ req'[p] = req[p] /\ ptr'[p] = ptr[p]
              \/ /\ pc'[p] = "np_create" /\ pc'[q] = "new"
                 /\ req'[p].cmd = "newproc" /\ req'[p].pid = q /\ req'[p].code = 0
                 /\ NoThreads => Found(p, ptr'[p])
                 /\ ptr'[p] # Null
<1> USE PartsOfTypes
<1>1. /\ Executes(c, p) /\ pc[p] = "user" /\ pc[q] = "none" /\ p # q
      /\ UNCHANGED <<heap, cores, swtch, fault, child>>
  BY DEF Clone
<1>2. PICK o \in Obj \cup {Null} :
        /\ NoThreads => Found(p, o)
        /\ \/ o = Null /\ Goto(q, "user") /\ UNCHANGED <<req, ptr>>
           \/ /\ o # Null
              /\ pc' = [pc EXCEPT ![p] = "np_create", ![q] = "new"]
              /\ req' = [req EXCEPT ![p] =
                            [cmd |-> "newproc", pid |-> q, code |-> 0, size |-> 0]]
              /\ ptr' = [ptr EXCEPT ![p] = o]
  BY DEF Clone, Parent, NoThreads
<1>3. QED
  BY <1>1, <1>2 DEF Goto, ProcsTypeOK

LEMMA NewProcEffect ==
    ASSUME Inv, NEW c \in CPU, NEW p \in Pid, NewProcCreate(c, p) \/ NewProcInsert(c, p)
    PROVE  /\ Executes(c, p) /\ pc[p] \in NewProcPC /\ UNCHANGED <<cores, swtch, fault>>
           /\ req[p].pid \in Pid /\ pc[req[p].pid] = "new" /\ p # req[p].pid
           /\ \A x \in Pid : x \notin {p, req[p].pid} =>
                 pc'[x] = pc[x] /\ req'[x] = req[x] /\ ptr'[x] = ptr[x]
           /\ req'[req[p].pid] = req[req[p].pid]
           /\ \/ pc'[p] = "user" /\ pc'[req[p].pid] = "user" /\ NewProcReturn(p)
              \/ pc'[p] = "np_insert" /\ pc'[req[p].pid] = "new" /\ req'[p] = req[p]
<1> USE PartsOfTypes DEF Inv
<1>1. /\ Executes(c, p) /\ pc[p] \in NewProcPC /\ UNCHANGED <<cores, swtch, fault>>
      /\ req[p].pid \in Pid /\ pc[req[p].pid] = "new" /\ p # req[p].pid
  BY DEF NewProcCreate, NewProcInsert, NewProcPC, PointerDiscipline, OneCreator
<1>2. CASE NewProcReturn(p)
  BY <1>1, <1>2, NewProcReturnEffect
<1>3. CASE Goto(p, "np_insert") /\ UNCHANGED <<req, ptr>>
  BY <1>1, <1>3 DEF Goto, ProcsTypeOK
<1>4. QED
  BY <1>2, <1>3 DEF NewProcCreate, NewProcInsert

\* Every state has the default bits, whoever chose them.
LEMMA NextCodes ==
    ASSUME SelfTracing, DefaultBits, Inv, DefaultCodes, [Next]_vars
    PROVE  DefaultCodes'
<1> USE PartsOfTypes DEF Inv
<1>1. ASSUME NEW c \in CPU, NEW p \in Pid,
             \E cmd \in Cmds, t \in Targets[p] :
                \E k \in ReqCodes(cmd), s \in SizesOf(cmd) : Ioctl(c, p, cmd, t, k, s)
      PROVE  DefaultCodes'
  <2>1. /\ OthersStay(p) /\ live' = live /\ code' = code
        /\ pc'[p] = "alloc" => req'[p].code \in EnableCodes
        /\ pc'[p] = "set_bits" => req'[p].code \in ConfigCodes
    BY <1>1, EntryEffect DEF heap
  <2>2. QED
    BY <2>1 DEF DefaultCodes, DefaultBits, OthersStay
<1>2. ASSUME NEW c \in CPU, NEW p \in Pid, Alloc(c, p)
      PROVE  DefaultCodes'
  <2>1. OthersStay(p) /\ pc'[p] \notin {"alloc", "set_bits"} /\ pc[p] = "alloc"
    BY <1>2, OperationEffect DEF Alloc
  <2>2. CASE UNCHANGED heap
    BY <2>1, <2>2, CodesKept DEF OthersStay, heap
  <2>3. ASSUME NEW o \in Obj \ live, live' = live \cup {o},
               code' = [code EXCEPT ![o] = EnableCode(req[p].code)]
        PROVE  DefaultCodes'
    <3>1. EnableCode(req[p].code) = DEFAULT_BTS_CONFIG
      BY <2>1 DEF EnableCode, DefaultCodes
    <3>2. \A x \in live' : code'[x] = DEFAULT_BTS_CONFIG
      BY <2>3, <3>1 DEF DefaultCodes, HeapTypeOK
    <3>3. QED
      BY <2>1, <3>2 DEF DefaultCodes, OthersStay
  <2>4. QED
    BY <1>2, <2>2, <2>3 DEF Alloc
<1>3. ASSUME NEW c \in CPU, NEW p \in Pid, SetBits(c, p)
      PROVE  DefaultCodes'
  <2>1. OthersStay(p) /\ pc'[p] \notin {"alloc", "set_bits"} /\ pc[p] = "set_bits"
    BY <1>3, OperationEffect DEF SetBits
  <2>2. live' = live /\ code' = [code EXCEPT ![ptr[p]] = req[p].code]
    BY <1>3 DEF SetBits, ConfigCode
  <2>3. \A x \in live' : code'[x] = DEFAULT_BTS_CONFIG
    BY <2>1, <2>2 DEF DefaultCodes, HeapTypeOK
  <2>4. QED
    BY <2>1, <2>3 DEF DefaultCodes, OthersStay
<1>4. ASSUME NEW c \in CPU, NEW p \in Pid,
             \/ Insert(c, p) \/ Check(c, p) \/ Get(c, p) \/ Free(c, p)
             \/ Install(c, p) \/ Put(c, p) \/ Copy(c, p) \/ Remove(c, p)
      PROVE  DefaultCodes'
  <2>1. OthersStay(p) /\ pc'[p] \notin {"alloc", "set_bits"}
    BY <1>4, OperationEffect
  <2>2. live' \subseteq live /\ \A x \in live' : code'[x] = code[x]
    BY <1>4 DEF Insert, Check, Get, Free, Install, Put, Copy, Remove, Unlink, heap, HeapTypeOK
  <2>3. QED
    BY <2>1, <2>2, CodesKept DEF OthersStay
<1>5. ASSUME NEW c \in CPU, NEW p \in Pid, NEW q \in Pid, NEW kind \in CloneKinds, Clone(c, p, q, kind)
      PROVE  DefaultCodes'
  <2>1. UNCHANGED heap /\ \A x \in Pid : pc'[x] \in {"alloc", "set_bits"} => pc'[x] = pc[x] /\ req'[x] = req[x]
    BY <1>5, CloneEffect
  <2>2. QED
    BY <2>1, CodesKept DEF heap
<1>6. ASSUME NEW c \in CPU, NEW p \in Pid, NewProcCreate(c, p) \/ NewProcInsert(c, p)
      PROVE  DefaultCodes'
  <2>1. \A x \in Pid : pc'[x] \in {"alloc", "set_bits"} => pc'[x] = pc[x] /\ req'[x] = req[x]
    BY <1>6, NewProcEffect
  <2>2. \/ live' = live /\ code' = code
        \/ \E o \in Obj \ live : /\ ptr[p] \in live /\ live' = live \cup {o}
                                 /\ code' = [code EXCEPT ![o] = code[ptr[p]]]
    BY <1>6 DEF NewProcCreate, NewProcInsert, heap
  <2>3. \A x \in live' : code'[x] = DEFAULT_BTS_CONFIG
    BY <2>2 DEF DefaultCodes, HeapTypeOK
  <2>4. QED
    BY <2>1, <2>3 DEF DefaultCodes
<1>7. ASSUME UNCHANGED <<heap, procs>>  PROVE DefaultCodes'
  BY <1>7, CodesKept DEF heap, procs
<1>8. ASSUME NEW c \in CPU, NEW p \in Pid, ProcStep(c, p)
      PROVE  DefaultCodes'
  BY <1>1, <1>2, <1>3, <1>4, <1>5, <1>6, <1>7, <1>8 DEF ProcStep, ProcFault
<1>9. ASSUME NEW c \in CPU, CoreStep(c)
      PROVE  DefaultCodes'
  BY <1>7, <1>9 DEF CoreStep, SwitchTo, SwitchFind, SwitchGet, SwitchPut, Record, SwitchFault
<1>10. QED
  BY <1>7, <1>8, <1>9 DEF Next, vars

----------------------------------------------------------------------------
(* Who keeps its core.                                                     *)

\* A step of the process p that runs on core c.
LEMMA ProcKeepsCore ==
    ASSUME KeepsCore, NEW c \in CPU, NEW p \in Pid, Executes(c, p), UNCHANGED <<run, swtch>>,
           \A x \in Pid : x # p => pc'[x] = pc[x] \/ pc'[x] \in {"none", "new", "user"}
    PROVE  KeepsCore'
BY DEF KeepsCore, Executes, Yields, swtch

LEMMA NextKeepsCore ==
    ASSUME SelfTracing, ~Preemptible, Inv, KeepsCore, [Next]_vars
    PROVE  KeepsCore'
<1> USE PartsOfTypes DEF Inv
<1>1. ASSUME UNCHANGED <<run, swtch, pc>>
      PROVE  KeepsCore'
  BY <1>1 DEF KeepsCore, swtch
<1>2. ASSUME NEW c \in CPU, NEW p \in Pid, ProcStep(c, p)
      PROVE  KeepsCore'
  <2>1. ASSUME \E cmd \in Cmds, t \in Targets[p] :
                  \E k \in ReqCodes(cmd), s \in SizesOf(cmd) : Ioctl(c, p, cmd, t, k, s)
        PROVE  KeepsCore'
    <3>1. UNCHANGED <<run, swtch>> /\ Executes(c, p) /\ OthersStay(p)
      BY <2>1, EntryEffect DEF cores
    <3>2. QED
      BY <3>1, ProcKeepsCore DEF OthersStay
  <2>2. ASSUME \/ Alloc(c, p) \/ Insert(c, p) \/ SetBits(c, p) \/ Check(c, p) \/ Get(c, p)
               \/ Free(c, p) \/ Install(c, p) \/ Put(c, p) \/ Copy(c, p) \/ Remove(c, p)
        PROVE  KeepsCore'
    BY <2>2, OperationEffect, ProcKeepsCore DEF OthersStay
  <2>3. ASSUME NEW q \in Pid, NEW kind \in CloneKinds, Clone(c, p, q, kind)
        PROVE  KeepsCore'
    <3>1. \A x \in Pid : x # p => pc'[x] = pc[x] \/ pc'[x] \in {"none", "new", "user"}
      BY <2>3, CloneEffect
    <3>2. QED
      BY <2>3, <3>1, CloneEffect, ProcKeepsCore DEF cores
  <2>4. ASSUME NewProcCreate(c, p) \/ NewProcInsert(c, p)
        PROVE  KeepsCore'
    BY <2>4, NewProcEffect, ProcKeepsCore DEF cores
  <2>5. QED
    BY <1>1, <1>2, <2>1, <2>2, <2>3, <2>4 DEF ProcStep, ProcFault, cores, procs
<1>3. ASSUME NEW c \in CPU, NEW n \in Tag, SwitchTo(c, n)
      PROVE  KeepsCore'
  <2>1. /\ at[c] = "no" /\ (run[c] # NoPid => pc[run[c]] \in Yields)
        /\ at' = [at EXCEPT ![c] = "next"] /\ UNCHANGED <<run, pc>>
    BY <1>3 DEF SwitchTo, cores, procs
  <2>2. QED
    BY <2>1 DEF KeepsCore, SwitchTypeOK
<1>4. ASSUME NEW c \in CPU, SwitchFind(c) \/ SwitchGet(c)
      PROVE  KeepsCore'
  <2>1. at[c] # "no" /\ UNCHANGED <<run, pc>> /\ \E l : at' = [at EXCEPT ![c] = l]
    BY <1>4 DEF SwitchFind, SwitchGet, cores, procs
  <2>2. QED
    BY <2>1 DEF KeepsCore, SwitchTypeOK
<1>5. ASSUME NEW c \in CPU, SwitchPut(c)
      PROVE  KeepsCore'
  <2>1. /\ at[c] = "put" /\ UNCHANGED pc
        /\ at' = [at EXCEPT ![c] = "no"] /\ run' = [run EXCEPT ![c] = nxt[c]]
    BY <1>5 DEF SwitchPut, procs
  <2>2. QED
    BY <2>1 DEF KeepsCore, SwitchTypeOK, CoresTypeOK
<1>6. QED
  BY <1>1, <1>2, <1>3, <1>4, <1>5
     DEF Next, CoreStep, Record, SwitchFault, vars, cores, procs

----------------------------------------------------------------------------
(* What the cores record, and where.                                       *)

LEMMA DefaultSetIs == DefaultSet = {"TR_BTS", "OFF_OS"}
BY DEF DefaultSet, BitsOf, DEFAULT_BTS_CONFIG

\* The idle task has no state.
LEMMA IdleIsUntraced ==
    ASSUME PointerDiscipline
    PROVE  ~Traced(NoPid)
BY DEF PointerDiscipline, ListWellFormed, Traced, Matches

\* get_bts, whatever state with the default bits it is called for, leaves the
\* core dark; put_bts makes it record for the state.
LEMMA StopIsDark ==
    ASSUME CoresTypeOK, NEW c \in CPU, NEW o, Stop(c, o), code[o] = DEFAULT_BTS_CONFIG,
           hwBits[c] \in {{}, DefaultSet}
    PROVE  Dark(c)'
BY DefaultSetIs DEF CoresTypeOK, Stop, Dark, DefaultSet

LEMMA StartIsOn ==
    ASSUME CoresTypeOK, NEW c \in CPU, NEW o, Start(c, o), code[o] = DEFAULT_BTS_CONFIG,
           hwBits[c] \in {{}, DefaultSet}
    PROVE  hwBits'[c] = DefaultSet /\ dsArea'[c] = o
BY DefaultSetIs DEF CoresTypeOK, Start, DefaultSet

LEMMA DarkOrOn ==
    ASSUME NEW c \in CPU, NEW x, CoreFor(c, x)
    PROVE  hwBits[c] \in {{}, DefaultSet}
BY DEF CoreFor, Dark, OnFor

\* A core that p's step does not concern.
LEMMA CoreForKept ==
    ASSUME NEW c \in CPU, NEW x, CoreFor(c, x),
           hwBits'[c] = hwBits[c], dsArea'[c] = dsArea[c], at'[c] = at[c],
           Matches(x)' = Matches(x),
           Traced(x) => pc'[x] = pc[x] /\ req'[x] = req[x]
    PROVE  CoreFor(c, x)'
BY DEF CoreFor, Dark, OnFor, Stopped, MayBeStopped, Traced

\* The other cores run other processes.
LEMMA OtherCores ==
    ASSUME Inv, CoresFollow, NEW c \in CPU, NEW p \in Pid, Executes(c, p),
           UNCHANGED <<run, swtch>>,
           \A c2 \in CPU : c2 # c => hwBits'[c2] = hwBits[c2] /\ dsArea'[c2] = dsArea[c2],
           \A x \in Pid : (x # p /\ OnCore(x)) => pc'[x] = pc[x] /\ req'[x] = req[x],
           \A x \in Pid : (x # p /\ OnCore(x)) => Matches(x)' = Matches(x),
           Matches(NoPid)' = Matches(NoPid),
           CoreFor(c, p)'
    PROVE  CoresFollow'
<1> SUFFICES ASSUME NEW c2 \in CPU, c2 # c  PROVE CoreFor(c2, run[c2])'
  BY DEF CoresFollow, Executes
<1>1. CoreFor(c2, run[c2]) /\ run[c2] \in Pid \cup {NoPid}
  BY DEF CoresFollow, Inv, InvType, TypeOK, CoresTypeOK, Tag
<1>2. run[c2] # p
  BY DEF Executes, Inv, PointerDiscipline, OnePlace
<1>3. CASE run[c2] \in Pid
  <2>1. OnCore(run[c2])
    BY DEF OnCore
  <2>2. QED
    BY <1>1, <1>2, <1>3, <2>1, CoreForKept DEF swtch
<1>4. CASE run[c2] = NoPid
  <2>1. ~Traced(NoPid)
    BY IdleIsUntraced DEF Inv
  <2>2. QED
    BY <1>1, <1>4, <2>1, CoreForKept DEF swtch
<1>5. QED
  BY <1>1, <1>3, <1>4

\* A step of p that leaves its core alone.
LEMMA OwnCore ==
    ASSUME NEW c \in CPU, NEW p \in Pid, CoreFor(c, p), Executes(c, p),
           UNCHANGED <<cores, swtch>>, Matches(p)' = Matches(p),
           Traced(p) => Stopped(p)' = Stopped(p),
           Traced(p) /\ MayBeStopped(p) => MayBeStopped(p)'
    PROVE  CoreFor(c, p)'
BY DEF CoreFor, Dark, OnFor, Traced, cores, swtch

LEMMA MatchesFrame ==
    ASSUME NEW t, UNCHANGED <<listed, statePid>>
    PROVE  Matches(t)' = Matches(t)
BY DEF Matches

LEMMA EntryCores ==
    ASSUME SelfTracing, Inv, InvCores, NEW c \in CPU, NEW p \in Pid,
           \/ \E cmd \in Cmds, t \in Targets[p] :
                 \E k \in ReqCodes(cmd), s \in SizesOf(cmd) : Ioctl(c, p, cmd, t, k, s)
           \/ \E q \in Pid, kind \in CloneKinds : Clone(c, p, q, kind)
    PROVE  CoresFollow'
<1> USE PartsOfTypes DEF Inv, InvCores
<1>1. ASSUME NEW q \in Pid, NEW kind \in CloneKinds, Clone(c, p, q, kind)
      PROVE  CoresFollow'
  <2>1. /\ Executes(c, p) /\ UNCHANGED <<heap, cores, swtch>> /\ pc[p] = "user" /\ pc[q] = "none"
        /\ \A x \in Pid : x \notin {p, q} => pc'[x] = pc[x] /\ req'[x] = req[x]
        /\ pc'[p] \in {"user", "np_create"}
    BY <1>1, CloneEffect
  <2>2. ~OnCore(q)
    BY <2>1 DEF PointerDiscipline, OnePlace
  <2>3. CoreFor(c, p) /\ \A t : Matches(t)' = Matches(t)
    BY <2>1, MatchesFrame DEF heap, Executes, CoresFollow
  <2>4. CoreFor(c, p)'
    BY <2>1, <2>3, OwnCore DEF Stopped, MayBeStopped
  <2>5. QED
    BY <2>1, <2>2, <2>3, <2>4, OtherCores DEF cores
<1>2. ASSUME \E cmd \in Cmds, t \in Targets[p] :
                \E k \in ReqCodes(cmd), s \in SizesOf(cmd) : Ioctl(c, p, cmd, t, k, s)
      PROVE  CoresFollow'
  <2>1. /\ Executes(c, p) /\ UNCHANGED <<heap, cores, swtch>> /\ pc[p] = "user"
        /\ OthersStay(p)
        /\ pc'[p] \in {"user", "alloc", "set_bits", "copy", "check"}
        /\ pc'[p] = "check" => req'[p].cmd # "enable"
    BY <1>2, EntryEffect
  <2>2. CoreFor(c, p) /\ \A t : Matches(t)' = Matches(t)
    BY <2>1, MatchesFrame DEF heap, Executes, CoresFollow
  <2>3. CoreFor(c, p)'
    BY <2>1, <2>2, OwnCore DEF Stopped, MayBeStopped
  <2>4. QED
    BY <2>1, <2>2, <2>3, OtherCores DEF cores, OthersStay
<1>3. QED
  BY <1>1, <1>2

\* bts_newproc_handler: the child runs nowhere.
LEMMA NewProcCores ==
    ASSUME Inv, InvCores, NEW c \in CPU, NEW p \in Pid,
           NewProcCreate(c, p) \/ NewProcInsert(c, p)
    PROVE  CoresFollow'
<1> USE PartsOfTypes DEF Inv, InvCores
<1> DEFINE q == req[p].pid
<1>1. /\ Executes(c, p) /\ UNCHANGED <<cores, swtch>> /\ pc[p] \in NewProcPC
      /\ q \in Pid /\ pc[q] = "new" /\ p # q
      /\ \A x \in Pid : x \notin {p, q} => pc'[x] = pc[x] /\ req'[x] = req[x]
      /\ pc'[p] \in {"user", "np_insert"}
  BY NewProcEffect
<1>2. ~OnCore(q)
  BY <1>1 DEF PointerDiscipline, OnePlace
<1>3. \A t : t # q => Matches(t)' = Matches(t)
  <2>1. CASE NewProcCreate(c, p)
    <3>1. listed' = listed /\ \A o \in listed : statePid'[o] = statePid[o]
      BY <2>1 DEF NewProcCreate, heap, PointerDiscipline, ListWellFormed, HeapTypeOK
    <3>2. QED
      BY <3>1 DEF Matches
  <2>2. CASE NewProcInsert(c, p)
    <3>1. /\ listed' = listed \cup {child[p]} /\ statePid' = statePid
          /\ statePid[child[p]] = q
      BY <2>2 DEF NewProcInsert, PointerDiscipline, RequestFits, FitsRequest
    <3>2. QED
      BY <3>1 DEF Matches
  <2>3. QED
    BY <2>1, <2>2
<1>4. CoreFor(c, p)
  BY <1>1 DEF Executes, CoresFollow
<1>5. CoreFor(c, p)'
  BY <1>1, <1>3, <1>4, OwnCore DEF Stopped, MayBeStopped, NewProcPC
<1>6. QED
  BY <1>1, <1>2, <1>3, <1>5, OtherCores DEF cores

\* The steps of the operations that leave the registers and the list alone.
LEMMA QuietCores ==
    ASSUME Inv, InvCores, NEW c \in CPU, NEW p \in Pid,
           \/ Alloc(c, p) \/ SetBits(c, p) \/ Check(c, p) \/ Free(c, p) \/ Install(c, p)
           \/ Copy(c, p)
    PROVE  CoresFollow'
<1> USE PartsOfTypes DEF Inv, InvCores
<1>1. /\ Executes(c, p) /\ OthersStay(p) /\ UNCHANGED <<cores, swtch>>
  BY OperationEffect DEF Alloc, SetBits, Check, Free, Install, Copy
<1>2. listed' = listed /\ \A o \in listed : statePid'[o] = statePid[o]
  BY DEF Alloc, SetBits, Check, Free, Install, Copy, heap, PointerDiscipline,
     ListWellFormed, HeapTypeOK
<1>3. \A t : Matches(t)' = Matches(t)
  BY <1>2 DEF Matches
<1>4. CoreFor(c, p) /\ FitsRequest(p)
  BY <1>1 DEF Executes, CoresFollow, PointerDiscipline, RequestFits
<1>5. CoreFor(c, p)'
  <2>1. CASE Alloc(c, p)
    <3>1. pc[p] = "alloc" /\ pc'[p] \in {"insert", "user"}
      BY <2>1 DEF Alloc, Return, Goto, ProcsTypeOK
    <3>2. QED
      BY <1>1, <1>3, <1>4, <3>1, OwnCore DEF Stopped, MayBeStopped
  <2>2. CASE SetBits(c, p)
    <3>1. pc[p] = "set_bits" /\ pc'[p] = "check" /\ req'[p] = req[p] /\ req[p].cmd = "config"
      BY <1>4, <2>2, StepEffect DEF SetBits, FitsRequest
    <3>2. QED
      BY <1>1, <1>3, <1>4, <3>1, OwnCore DEF Stopped, MayBeStopped
  <2>3. CASE Check(c, p)
    <3>1. ptr[p] \in listed /\ statePid[ptr[p]] = p /\ pc[p] = "check"
      BY <2>3 DEF Check, PointerDiscipline, HeldPointers, HoldingPC
    <3>2. IsOwn(p)
      BY <1>4, <3>1 DEF IsOwn, FitsRequest, IoctlPC
    <3>3. /\ pc'[p] = IF req[p].cmd = "enable" THEN "put" ELSE "get"
          /\ req'[p] = req[p]
      BY <2>3, <3>2, StepEffect DEF Check
    <3>4. CASE NoZero /\ req[p].cmd = "enable"
      BY <1>1, <1>3, <1>4, <3>1, <3>3, <3>4
         DEF CoreFor, Stopped, MayBeStopped, Dark, Traced, cores, swtch, Executes
    <3>5. CASE ~(NoZero /\ req[p].cmd = "enable")
      BY <1>1, <1>3, <1>4, <3>1, <3>3, <3>5, OwnCore DEF Stopped, MayBeStopped
    <3>6. QED
      BY <3>4, <3>5
  <2>4. CASE Free(c, p)
    <3>1. pc[p] = "free" /\ pc'[p] = "install"
      BY <2>4, StepEffect DEF Free
    <3>2. QED
      BY <1>1, <1>3, <1>4, <3>1
         DEF CoreFor, Stopped, MayBeStopped, Dark, Traced, cores, swtch, Executes
  <2>5. CASE Install(c, p)
    <3>1. IsOwn(p)
      BY <1>4, <2>5 DEF Install, FitsRequest, IsOwn, IoctlPC
    <3>2. pc[p] = "install" /\ pc'[p] = "put"
      BY <2>5, <3>1, StepEffect DEF Install
    <3>3. QED
      BY <1>1, <1>3, <1>4, <3>2, OwnCore DEF Stopped, MayBeStopped
  <2>6. CASE Copy(c, p)
    <3>1. pc[p] = "copy" /\ pc'[p] = "user"
      BY <2>6, ReturnEffect DEF Copy
    <3>2. QED
      BY <1>1, <1>3, <1>4, <3>1, OwnCore DEF Stopped, MayBeStopped
  <2>7. QED
    BY <2>1, <2>2, <2>3, <2>4, <2>5, <2>6
<1>6. QED
  BY <1>1, <1>3, <1>5, OtherCores DEF cores, OthersStay

\* get_bts and put_bts.
LEMMA RegisterCores ==
    ASSUME Inv, InvCores, NEW c \in CPU, NEW p \in Pid, Get(c, p) \/ Put(c, p)
    PROVE  CoresFollow'
<1> USE PartsOfTypes DEF Inv, InvCores
<1>1. Executes(c, p) /\ OthersStay(p) /\ UNCHANGED <<heap, run, swtch>>
  BY OperationEffect DEF Get, Put
<1>2. \A t : Matches(t)' = Matches(t)
  BY <1>1, MatchesFrame DEF heap
<1>3. CoreFor(c, p) /\ hwBits[c] \in {{}, DefaultSet}
  BY <1>1, DarkOrOn DEF Executes, CoresFollow
<1>4. ptr[p] \in Matches(p) /\ code[ptr[p]] = DEFAULT_BTS_CONFIG
  BY DEF Get, Put, PointerDiscipline, HeldPointers, ListWellFormed, HoldingPC, Matches,
     DefaultCodes
<1>5. \A c2 \in CPU : c2 # c => hwBits'[c2] = hwBits[c2] /\ dsArea'[c2] = dsArea[c2]
  BY DEF Get, Put, Stop, Start, CoresTypeOK
<1>6. CoreFor(c, p)'
  <2>1. CASE Get(c, p)
    <3>1. Dark(c)'
      BY <1>3, <1>4, <2>1, StopIsDark DEF Get
    <3>2. pc'[p] \in {"remove", "free", "put"}
      BY <2>1, StepEffect DEF Get
    <3>3. QED
      BY <3>1, <3>2 DEF CoreFor, Stopped, MayBeStopped
  <2>2. CASE Put(c, p)
    <3>1. hwBits'[c] = DefaultSet /\ dsArea'[c] = ptr[p]
      BY <1>3, <1>4, <2>2, StartIsOn DEF Put
    <3>2. pc'[p] = "user"
      BY <2>2, ReturnEffect DEF Put
    <3>3. QED
      BY <1>1, <1>2, <1>4, <3>1, <3>2 DEF CoreFor, Stopped, OnFor, Traced, Executes, swtch
  <2>3. QED
    BY <2>1, <2>2
<1>7. QED
  BY <1>1, <1>2, <1>5, <1>6, OtherCores DEF OthersStay

\* enable_bts: the state becomes visible before the core records for it.
LEMMA InsertCores ==
    ASSUME Inv, InvCores, NoZero => InvOneState, NEW c \in CPU, NEW p \in Pid, Insert(c, p)
    PROVE  CoresFollow'
<1> USE PartsOfTypes DEF Inv, InvCores
<1>1. /\ Executes(c, p) /\ OthersStay(p) /\ UNCHANGED <<cores, swtch>>
      /\ pc[p] = "insert" /\ pc'[p] = "check" /\ req'[p] = req[p] /\ req[p].cmd = "enable"
      /\ listed' = listed \cup {ptr[p]} /\ statePid' = statePid /\ statePid[ptr[p]] = p
  BY OperationEffect, StepEffect DEF Insert, PointerDiscipline, RequestFits, FitsRequest
<1>2. \A t : t # p => Matches(t)' = Matches(t)
  BY <1>1 DEF Matches
<1>3. Matches(p) \subseteq Matches(p)' /\ Traced(p)'
  BY <1>1 DEF Matches, Traced
<1>4. CoreFor(c, p)
  BY <1>1 DEF Executes, CoresFollow
<1>5. CoreFor(c, p)'
  <2>1. CASE NoZero
    <3>1. ~Traced(p)
      BY <1>1, <2>1 DEF InvOneState, EnablingIsUntraced
    <3>2. QED
      BY <1>1, <1>4, <2>1, <3>1 DEF CoreFor, Stopped, Dark, cores
  <2>2. CASE ~NoZero
    <3>1. Dark(c) \/ \E o \in Matches(p) : OnFor(c, o)
      BY <1>4 DEF CoreFor
    <3>2. QED
      BY <1>1, <1>3, <2>2, <3>1
         DEF CoreFor, Stopped, MayBeStopped, Dark, OnFor, cores, swtch, Executes
  <2>3. QED
    BY <2>1, <2>2
<1>6. QED
  BY <1>1, <1>2, <1>5, OtherCores DEF cores, OthersStay

\* disable_bts: the state is freed on the core that has just stopped recording
\* for it.
LEMMA RemoveCores ==
    ASSUME Inv, InvCores, NoZero => InvOneState, NEW c \in CPU, NEW p \in Pid, Remove(c, p)
    PROVE  CoresFollow'
<1> USE PartsOfTypes DEF Inv, InvCores
<1> DEFINE o == ptr[p]
<1>1. /\ Executes(c, p) /\ OthersStay(p) /\ UNCHANGED <<cores, swtch>>
      /\ pc[p] = "remove" /\ pc'[p] = "user"
      /\ listed' = listed \ {o} /\ statePid' = [statePid EXCEPT ![o] = NoPid]
  BY OperationEffect, ReturnEffect DEF Remove, Unlink
<1>2. o \in listed /\ statePid[o] = p
  BY <1>1 DEF PointerDiscipline, HeldPointers, HoldingPC
<1>3. \A t : t # p => Matches(t)' = Matches(t)
  BY <1>1, <1>2 DEF Matches, HeapTypeOK
<1>4. Dark(c)
  BY <1>1 DEF Executes, CoresFollow, CoreFor, Stopped
<1>5. NoZero => ~Traced(p)'
  BY <1>1, <1>2 DEF InvOneState, OneStatePerPid, Traced, Matches, HeapTypeOK
<1>6. CoreFor(c, p)'
  BY <1>1, <1>4, <1>5 DEF CoreFor, Stopped, MayBeStopped, Dark, cores
<1>7. QED
  BY <1>1, <1>3, <1>6, OtherCores DEF cores, OthersStay

\* bts_cswitch_handler stops the core for the process that leaves and starts it
\* for the one that comes, which has no operation in progress that counts on a
\* core that is stopped.
LEMMA SwitchCores ==
    ASSUME Inv, InvCores, NEW c \in CPU,
           \/ \E n \in Tag : SwitchTo(c, n)
           \/ SwitchFind(c) \/ SwitchGet(c) \/ SwitchPut(c)
    PROVE  CoresFollow'
<1> USE PartsOfTypes DEF Inv, InvCores
<1>1. UNCHANGED <<heap, procs>>
  BY DEF SwitchTo, SwitchFind, SwitchGet, SwitchPut
<1>2. /\ \A t : Matches(t)' = Matches(t)
      /\ UNCHANGED <<pc, req>>
  BY <1>1, MatchesFrame DEF heap, procs
<1>3. /\ \A c2 \in CPU : c2 # c => /\ hwBits'[c2] = hwBits[c2] /\ dsArea'[c2] = dsArea[c2]
                                  /\ at'[c2] = at[c2] /\ run'[c2] = run[c2]
  BY DEF SwitchTo, SwitchFind, SwitchGet, SwitchPut, Stop, Start, CoresTypeOK, SwitchTypeOK, cores
<1>4. \A c2 \in CPU : c2 # c => CoreFor(c2, run[c2])'
  BY <1>2, <1>3, CoreForKept DEF CoresFollow
<1>5. CoreFor(c, run[c]) /\ hwBits[c] \in {{}, DefaultSet}
  BY DarkOrOn DEF CoresFollow
<1>6. SUFFICES CoreFor(c, run[c])'
  BY <1>4 DEF CoresFollow
<1>7. ASSUME NEW n \in Tag, SwitchTo(c, n)  PROVE CoreFor(c, run[c])'
  <2>1. at[c] = "no" /\ at'[c] = "next" /\ UNCHANGED cores
    BY <1>7 DEF SwitchTo, SwitchTypeOK
  <2>2. QED
    BY <1>2, <1>5, <2>1 DEF CoreFor, Dark, OnFor, Stopped, MayBeStopped, Traced, cores
<1>8. CASE SwitchFind(c)
  <2>1. /\ at[c] = "next" /\ UNCHANGED cores
        /\ at'[c] = IF prevState[c] # Null THEN "get" ELSE "put"
        /\ Found(run[c], prevState[c])
    BY <1>8 DEF SwitchFind, SwitchTypeOK, PointerDiscipline, HandlerPointers
  <2>2. prevState[c] = Null => ~Traced(run[c])
    BY <2>1, FoundIsListed, ListedIsObj
  <2>3. QED
    BY <1>2, <1>5, <2>1, <2>2
       DEF CoreFor, Dark, OnFor, Stopped, MayBeStopped, Traced, cores
<1>9. CASE SwitchGet(c)
  <2>1. /\ at[c] = "get" /\ at'[c] = "put" /\ run' = run
        /\ prevState[c] \in live /\ Stop(c, prevState[c])
    BY <1>9 DEF SwitchGet, SwitchTypeOK
  <2>2. Dark(c)'
    BY <1>5, <2>1, StopIsDark DEF DefaultCodes
  <2>3. QED
    BY <2>1, <2>2 DEF CoreFor
<1>10. CASE SwitchPut(c)
  <2>1. /\ at[c] = "put" /\ at'[c] = "no" /\ run'[c] = nxt[c] /\ nxt[c] \in Tag
        /\ \/ nextState[c] = Null /\ UNCHANGED <<hwBits, dsArea>>
           \/ nextState[c] \in live /\ Start(c, nextState[c])
        /\ Found(nxt[c], nextState[c])
    BY <1>10 DEF SwitchPut, SwitchTypeOK, CoresTypeOK, PointerDiscipline, HandlerPointers
  <2>2. Dark(c)
    BY <1>5, <2>1 DEF CoreFor
  <2>3. /\ nextState[c] = Null => ~Traced(nxt[c])
        /\ nextState[c] # Null => nextState[c] \in Matches(nxt[c]) /\ nextState[c] \in live
    BY <2>1, FoundIsListed, ListedIsObj DEF Matches
  <2>4. CASE nextState[c] = Null
    <3>1. UNCHANGED <<hwBits, dsArea>>
      BY <2>1, <2>4, ListedIsObj
    <3>2. QED
      BY <1>2, <2>1, <2>2, <2>3, <2>4, <3>1 DEF CoreFor, Dark, Traced
  <2>5. CASE nextState[c] # Null
    <3>1. hwBits'[c] = DefaultSet /\ dsArea'[c] = nextState[c]
      BY <1>5, <2>1, <2>3, <2>5, StartIsOn DEF DefaultCodes
    <3>2. PICK n \in Pid : n = nxt[c]
      BY <2>1, <2>3, <2>5, IdleIsUntraced DEF Traced, Tag
    <3>3. pc[n] \in Yields \cup {"none", "new"}
      BY <2>1, <3>2 DEF KeepsCore, PointerDiscipline, OnePlace
    <3>4. ~Stopped(n)
      BY <3>3 DEF Stopped, Yields
    <3>5. nextState[c] \in Matches(n) /\ Matches(n)' = Matches(n)
      BY <1>2, <2>3, <2>5, <3>2
    <3>6. CoreFor(c, n)'
      BY <1>2, <2>1, <3>1, <3>4, <3>5 DEF CoreFor, OnFor, Stopped, Traced
    <3>7. QED
      BY <2>1, <3>2, <3>6
  <2>6. QED
    BY <2>4, <2>5
<1>11. QED
  BY <1>7, <1>8, <1>9, <1>10

LEMMA NextCores ==
    SelfTracing /\ ~Preemptible /\ DefaultBits /\ Inv /\ (NoZero => InvOneState)
      /\ InvCores /\ [Next]_vars => InvCores'
<1> SUFFICES ASSUME SelfTracing, ~Preemptible, DefaultBits, Inv, NoZero => InvOneState,
                    InvCores, [Next]_vars
             PROVE  InvCores'
  OBVIOUS
<1>1. DefaultCodes' /\ KeepsCore'
  BY NextCodes, NextKeepsCore DEF InvCores
<1>2. ASSUME UNCHANGED <<heap, cores, swtch, procs>>
      PROVE  CoresFollow'
  BY <1>2, CoreForKept, MatchesFrame DEF InvCores, CoresFollow, heap, cores, swtch, procs
<1>3. ASSUME NEW c \in CPU, NEW p \in Pid, ProcStep(c, p)
      PROVE  CoresFollow'
  BY <1>2, <1>3, EntryCores, NewProcCores, QuietCores, RegisterCores, InsertCores, RemoveCores
     DEF ProcStep, ProcFault
<1>4. ASSUME NEW c \in CPU, CoreStep(c)
      PROVE  CoresFollow'
  BY <1>2, <1>4, SwitchCores DEF CoreStep, Record, SwitchFault
<1>5. CoresFollow'
  BY <1>2, <1>3, <1>4 DEF Next, vars
<1>6. QED
  BY <1>1, <1>5 DEF InvCores

LEMMA InitCores == Init => InvCores
BY DEF Init, InvCores, DefaultCodes, KeepsCore, Yields, CoresFollow, CoreFor, Dark,
       Traced, Matches

InvAll == Inv /\ (NoZero => InvOneState) /\ InvCores

LEMMA CoresInvariance == SelfTracing /\ ~Preemptible /\ DefaultBits => (Spec => []InvAll)
<1> SUFFICES ASSUME SelfTracing, ~Preemptible, DefaultBits PROVE Spec => []InvAll
  OBVIOUS
<1>1. Init => InvAll
  <2>1. Init => InvOneState
    BY DEF Init, InvOneState, OneStatePerPid, EnablingIsUntraced, InheritingIsNew, Traced, Matches
  <2>2. QED
    BY <2>1, InitInv, InitCores DEF InvAll
<1>2. InvAll /\ [Next]_vars => InvAll'
  BY NextInv, NextOneState, NextCores DEF InvAll
<1>3. QED
  BY <1>1, <1>2, PTL DEF Spec

----------------------------------------------------------------------------
(* No access through a bad pointer.                                        *)

\* A process that may use its buffer has one, unless the state is inherited.
LEMMA BufferOfListed ==
    ASSUME ~BufferFails, Inv, NEW o \in listed, o \notin Resizing
    PROVE  /\ base[o] \in liveBuf \cup {Wild} /\ index[o] = base[o]
           /\ NoCreation => base[o] # Wild
BY DEF Inv, BuffersOwned, Settled, PointerDiscipline, ListWellFormed

LEMMA FollowedBuffer ==
    ASSUME InvType, NEW x \in liveBuf \cup {Wild}
    PROVE  /\ Followed(x) \in {"none", "uninitialised"}
           /\ x # Wild => Followed(x) = "none"
<1>1. Wild \notin liveBuf /\ Wild # Null
  BY DEF InvType, TypeOK, HeapTypeOK
<1>2. CASE x \in liveBuf
  <2>1. x # Null /\ x # Wild /\ x \notin Buf \ liveBuf
    BY <1>1, <1>2 DEF InvType, TypeOK, HeapTypeOK
  <2>2. QED
    BY <1>2, <2>1 DEF Followed
<1>3. CASE x = Wild
  <2>1. x # Null /\ x \notin liveBuf /\ x \notin Buf
    BY <1>1, <1>3
  <2>2. QED
    BY <1>3, <2>1 DEF Followed
<1>4. QED
  BY <1>2, <1>3

Faultless ==
    \/ fault = "none"
    \/ ~NoCreation /\ fault = "uninitialised"
    \/ ~NoThreads /\ fault = "parent"

LEMMA NextFaultless ==
    ASSUME ~BufferFails, InvAll, Faultless, [Next]_vars
    PROVE  Faultless'
<1> USE PartsOfTypes DEF InvAll, Inv
<1>1. ASSUME NEW c \in CPU, NEW p \in Pid, ProcFault(c, p)
      PROVE  Faultless'
  <2>1. CASE ~(ProcDeref(p) \subseteq live) /\ fault' = IF pc[p] = "np_create" THEN "parent" ELSE "freed"
    BY <2>1, NoStateFault DEF Faultless
  <2>2. CASE /\ ptr[p] \in live
             /\ \/ pc[p] \in {"free", "remove"} /\ base[ptr[p]] # Null
                \/ pc[p] = "copy"
             /\ ~Good(base[ptr[p]])
             /\ fault' = Followed(base[ptr[p]])
    <3>1. ptr[p] \in listed /\ ptr[p] \notin Resizing
      BY <2>2, ResizingItsOwn DEF PointerDiscipline, HeldPointers, HoldingPC
    <3>2. QED
      BY <2>2, <3>1, BufferOfListed, FollowedBuffer DEF Faultless, Good
  <2>3. QED
    BY <1>1, <2>1, <2>2 DEF ProcFault
<1>2. ASSUME NEW c \in CPU, SwitchFault(c)
      PROVE  Faultless'
  BY <1>2, NoStateFault DEF SwitchFault
<1>3. ASSUME NEW c \in CPU, Record(c)
      PROVE  Faultless'
  <2>1. Recording(c) /\ fault' = Stored(c) /\ CoreFor(c, run[c])
    BY <1>3 DEF Record, InvCores, CoresFollow
  <2>2. ~Dark(c)
    BY <2>1 DEF Recording, Dark
  <2>3. PICK o \in Matches(run[c]) : OnFor(c, o)
    BY <2>1, <2>2 DEF CoreFor
  <2>4. InUser(c)
    BY <2>1, <2>3, DefaultSetIs DEF Recording, OnFor
  <2>5. run[c] \in Pid /\ pc[run[c]] = "user"
    BY <2>4 DEF InUser, CoresTypeOK, Tag
  <2>6. o \in listed /\ statePid[o] = run[c] /\ o \in live
    BY <2>3 DEF Matches, PointerDiscipline, ListWellFormed
  <2>7. o \notin Resizing
    BY <2>5, <2>6 DEF Resizing, PointerDiscipline, HeldPointers, HoldingPC
  <2>8. Stored(c) = Followed(index[o])
    BY <2>3, <2>6, ListedIsObj DEF Stored, OnFor
  <2>9. QED
    BY <2>1, <2>6, <2>7, <2>8, BufferOfListed, FollowedBuffer DEF Faultless
<1>4. ASSUME NEW c \in CPU, NEW p \in Pid, ProcStep(c, p)
      PROVE  Faultless'
  <2>1. ProcFault(c, p) \/ UNCHANGED fault
    BY <1>4, IoctlEffect, OperationEffect, NewProcEffect DEF ProcStep, Clone
  <2>2. QED
    BY <1>1, <2>1 DEF Faultless
<1>5. ASSUME NEW c \in CPU, CoreStep(c)
      PROVE  Faultless'
  <2>1. Record(c) \/ SwitchFault(c) \/ UNCHANGED fault
    BY <1>5 DEF CoreStep, SwitchTo, SwitchFind, SwitchGet, SwitchPut
  <2>2. QED
    BY <1>2, <1>3, <2>1 DEF Faultless
<1>6. CASE UNCHANGED vars
  BY <1>6 DEF vars, Faultless
<1>7. QED
  BY <1>4, <1>5, <1>6 DEF Next

LEMMA FaultlessInvariance ==
    SelfTracing /\ ~Preemptible /\ DefaultBits /\ ~BufferFails =>
        (Spec => [](InvAll /\ Faultless))
<1> SUFFICES ASSUME SelfTracing, ~Preemptible, DefaultBits, ~BufferFails
             PROVE  Spec => [](InvAll /\ Faultless)
  OBVIOUS
<1>1. Init => Faultless
  BY DEF Init, Faultless
<1>2. InvAll /\ Faultless /\ [Next]_vars => Faultless'
  BY NextFaultless
<1>3. QED
  BY <1>1, <1>2, CoresInvariance, PTL DEF Spec

\* RecordsStayInBuffers: if every process traces itself, with the default bits,
\* on a kernel without preemption where buffers can be had, then no branch record
\* is stored, and no state or buffer is used by get_bts, put_bts and the
\* operations, through a pointer to freed memory or a null one, although buffers
\* are replaced and states freed on all cores at any time, also by the real
\* parents of threads (bts.c: put_bts, get_bts, config_bts, remove_bts_state).
THEOREM RecordsStayInBuffers ==
    SelfTracing /\ ~Preemptible /\ DefaultBits /\ ~BufferFails =>
        (Spec => []RecordsInBuffers)
<1> SUFFICES ASSUME SelfTracing, ~Preemptible, DefaultBits, ~BufferFails
             PROVE  Spec => []RecordsInBuffers
  OBVIOUS
<1>1. Faultless => RecordsInBuffers
  BY DEF Faultless, RecordsInBuffers
<1>2. QED
  BY <1>1, FaultlessInvariance, PTL

\* A pointer to a buffer that is followed is no pointer to a state.
LEMMA FollowedKinds ==
    ASSUME liveBuf \subseteq Buf, NEW x \in Buf \cup {Null, Wild}
    PROVE  Followed(x) # "parent"
BY DEF Followed

\* ParentsAreThere: if every process traces itself and none creates threads,
\* bts_newproc_handler never copies from a freed state either, on any kernel: the
\* parent is then the process that runs the handler.  For a thread it may run,
\* and disable itself, on another core (bts.c: bts_newproc_handler).
THEOREM ParentsAreThere == SelfTracing /\ NoThreads => (Spec => []ParentIsThere)
<1> SUFFICES ASSUME SelfTracing, NoThreads PROVE Spec => []ParentIsThere
  OBVIOUS
<1>1. Init => ParentIsThere
  BY DEF Init, ParentIsThere
<1>2. ASSUME Inv, ParentIsThere, [Next]_vars  PROVE ParentIsThere'
  <2>1. ASSUME NEW c \in CPU, NEW p \in Pid, ProcFault(c, p)  PROVE fault' # "parent"
    <3>1. ptr[p] \in live => Followed(base[ptr[p]]) # "parent"
      BY <1>2, FollowedKinds DEF Inv, InvType, TypeOK, HeapTypeOK
    <3>2. QED
      BY <1>2, <2>1, <3>1, NoStateFault DEF ProcFault, Inv
  <2>2. ASSUME NEW c \in CPU, NEW p \in Pid, ProcStep(c, p)  PROVE ParentIsThere'
    <3>1. ProcFault(c, p) \/ UNCHANGED fault
      BY <2>2 DEF ProcStep, Ioctl, Alloc, Insert, SetBits, Check, Get, Free, Install, Put,
         Copy, Remove, Clone, NewProcCreate, NewProcInsert
    <3>2. QED
      BY <1>2, <2>1, <3>1 DEF ParentIsThere
  <2>3. ASSUME NEW c \in CPU, CoreStep(c)  PROVE ParentIsThere'
    <3>1. Stored(c) # "parent"
      BY <1>2, FollowedKinds DEF Stored, Inv, InvType, TypeOK, HeapTypeOK, CoresTypeOK
    <3>2. QED
      BY <1>2, <2>3, <3>1 DEF CoreStep, SwitchTo, SwitchFind, SwitchGet, SwitchPut,
         SwitchFault, Record, ParentIsThere
  <2>4. QED
    BY <1>2, <2>2, <2>3 DEF Next, vars, ParentIsThere
<1>3. QED
  BY <1>1, <1>2, Invariance, PTL DEF Spec

\* NothingUninitialised: and without new processes nothing is reached through
\* an unset field of a debug store area either; inheritance is what breaks this
\* (bts.c: create_bts_state, bts_newproc_handler).
THEOREM NothingUninitialised ==
    SelfTracing /\ ~Preemptible /\ DefaultBits /\ ~BufferFails /\ NoCreation =>
        (Spec => []NoUninitialisedUse)
<1> SUFFICES ASSUME SelfTracing, ~Preemptible, DefaultBits, ~BufferFails, NoCreation
             PROVE  Spec => []NoUninitialisedUse
  OBVIOUS
<1>1. Faultless => NoUninitialisedUse
  BY DEF Faultless, NoUninitialisedUse
<1>2. QED
  BY <1>1, FaultlessInvariance, PTL

\* ExactlyTheTraced: if requests name their sender by its pid and ask for the
\* default bits, then on a kernel without preemption a core in user mode has
\* exactly the bits and the debug store area of its current process' state, and
\* none if it has no state (bts.c: bts_cswitch_handler, enable_bts, disable_bts,
\* config_bts).
THEOREM ExactlyTheTraced ==
    NoZero /\ ~Preemptible /\ DefaultBits => (Spec => []BitsExact)
<1> SUFFICES ASSUME NoZero, ~Preemptible, DefaultBits PROVE Spec => []BitsExact
  OBVIOUS
<1>1. SelfTracing
  BY ZeroIsSelf
<1>2. InvAll => BitsExact
  <2> SUFFICES ASSUME InvAll, NEW c \in CPU, InUser(c)
               PROVE  /\ ~Traced(run[c]) => hwBits[c] = {} /\ dsArea[c] = Null
                      /\ \A o \in Matches(run[c]) :
                            hwBits[c] = BitsOf(code[o]) /\ dsArea[c] = o
    BY DEF BitsExact
  <2> USE DEF InvAll, Inv
  <2>1. CoreFor(c, run[c])
    BY DEF InvCores, CoresFollow
  <2>2. /\ pc[run[c]] = "user" /\ at[c] = "no"
        /\ ~Stopped(run[c]) /\ ~MayBeStopped(run[c])
    BY DEF InUser, Stopped, MayBeStopped
  <2>3. CASE ~Traced(run[c])
    BY <2>1, <2>3 DEF CoreFor, Dark, Traced
  <2>4. CASE Traced(run[c])
    <3>1. PICK o \in Matches(run[c]) : OnFor(c, o)
      BY <2>1, <2>2, <2>4 DEF CoreFor
    <3>2. \A x \in Matches(run[c]) : x = o /\ x \in live
      BY DEF InvOneState, OneStatePerPid, Matches, PointerDiscipline, ListWellFormed
    <3>3. code[o] = DEFAULT_BTS_CONFIG
      BY <3>1, <3>2 DEF InvCores, DefaultCodes
    <3>4. QED
      BY <2>4, <3>1, <3>2, <3>3 DEF OnFor, DefaultSet
  <2>5. QED
    BY <2>3, <2>4
<1>3. QED
  BY <1>1, <1>2, CoresInvariance, PTL


----------------------------------------------------------------------------
(* What a step of one process does to the others, and to the codes.        *)

LEMMA OthersKept ==
    ASSUME SelfTracing, Inv, NEW c \in CPU, NEW p \in Pid, ProcStep(c, p), NEW x \in Pid \ {p}
    PROVE  /\ req'[x] = req[x] /\ ptr'[x] = ptr[x] /\ child'[x] = child[x]
           /\ \/ pc'[x] = pc[x]
              \/ pc[x] \in {"none", "new"} /\ pc'[x] \in {"user", "new"}
<1> USE PartsOfTypes DEF Inv
<1>1. ASSUME NEW q \in Pid, NEW kind \in CloneKinds, Clone(c, p, q, kind)
      PROVE  /\ req'[x] = req[x] /\ ptr'[x] = ptr[x] /\ child'[x] = child[x]
             /\ \/ pc'[x] = pc[x]
                \/ pc[x] \in {"none", "new"} /\ pc'[x] \in {"user", "new"}
  BY <1>1, CloneEffect
<1>2. CASE NewProcCreate(c, p) \/ NewProcInsert(c, p)
  <2>1. CASE NewProcReturn(p)
    BY <1>2, <2>1, NewProcReturnEffect, NewProcEffect
  <2>2. CASE \E o : child' = [child EXCEPT ![p] = o] /\ Goto(p, "np_insert") /\ UNCHANGED <<req, ptr>>
    BY <2>2 DEF Goto, ProcsTypeOK
  <2>3. QED
    BY <1>2, <2>1, <2>2 DEF NewProcCreate, NewProcInsert
<1>3. QED
  BY <1>1, <1>2, OperationEffect, EntryEffect DEF ProcStep, ProcFault, procs, OthersStay

\* The writes of the bits of a state.
LEMMA CodeStep ==
    ASSUME Inv, NEW c \in CPU, NEW p \in Pid, ProcStep(c, p),
           NEW o \in Obj, code'[o] # code[o]
    PROVE  \/ Alloc(c, p) /\ o \notin live
           \/ NewProcCreate(c, p) /\ o \notin live
           \/ (SetBits(c, p) \/ Remove(c, p)) /\ o = ptr[p] /\ o \in listed /\ statePid[o] = p
<1> USE PartsOfTypes DEF Inv
<1>1. CASE Alloc(c, p)
  BY <1>1 DEF Alloc, heap, HeapTypeOK
<1>2. CASE NewProcCreate(c, p)
  BY <1>2 DEF NewProcCreate, heap, HeapTypeOK
<1>3. CASE SetBits(c, p) \/ Remove(c, p)
  <2>1. o = ptr[p] /\ pc[p] \in HoldingPC
    BY <1>3 DEF SetBits, Remove, Unlink, HeapTypeOK, HoldingPC
  <2>2. QED
    BY <1>3, <2>1 DEF PointerDiscipline, HeldPointers
<1>4. QED
  BY <1>1, <1>2, <1>3, IoctlEffect DEF ProcStep, Insert, Check, Get, Free, Install, Put, Copy,
     NewProcInsert, Clone, ProcFault, heap

\* A core never writes the list or the bits of a state.
LEMMA CoreKeepsTable ==
    ASSUME NEW c \in CPU, CoreStep(c)
    PROVE  UNCHANGED <<heap, procs>>
BY DEF CoreStep, SwitchTo, SwitchFind, SwitchGet, SwitchPut, Record, SwitchFault

\* The steps that lead to the insertion of a new state.
LEMMA ToInsert ==
    ASSUME SelfTracing, Inv, NEW c \in CPU, NEW p \in Pid, ProcStep(c, p)
    PROVE  /\ pc'[p] = "insert" => Alloc(c, p) \/ ProcFault(c, p)
           /\ pc'[p] = "np_insert" => NewProcCreate(c, p) \/ ProcFault(c, p)
<1> USE PartsOfTypes DEF Inv
<1>1. CASE \/ Insert(c, p) \/ SetBits(c, p) \/ Check(c, p) \/ Get(c, p)
           \/ Free(c, p) \/ Install(c, p) \/ Put(c, p) \/ Copy(c, p) \/ Remove(c, p)
  <2>1. \/ Return(p)
        \/ \E label \in {"check", "get", "free", "install", "put", "remove"} : Step(p, label)
    BY <1>1 DEF Insert, SetBits, Check, Get, Free, Install, Put, Copy, Remove, Unlink
  <2>2. QED
    BY <2>1, ReturnEffect, StepEffect
<1>2. ASSUME NEW q \in Pid, NEW kind \in CloneKinds, Clone(c, p, q, kind)  PROVE pc'[p] \notin {"insert", "np_insert"}
  BY <1>2, CloneEffect
<1>3. CASE NewProcInsert(c, p)
  BY <1>3, NewProcReturnEffect DEF NewProcInsert
<1>4. CASE Alloc(c, p)
  BY <1>4, OperationEffect
<1>5. CASE NewProcCreate(c, p)
  BY <1>5, NewProcEffect
<1>6. QED
  BY <1>1, <1>2, <1>3, <1>4, <1>5, EntryEffect DEF ProcStep

LEMMA ProcCodeChosen ==
    ASSUME NoZero, NoThreads, InvTable, NEW c \in CPU, NEW p \in Pid, ProcStep(c, p)
    PROVE  CodeChosen'
<1> USE PartsOfTypes, ZeroIsSelf DEF InvTable, Inv
<1>1. ASSUME NEW x \in Pid \ {p}, pc'[x] \in {"insert", "np_insert"}
      PROVE  /\ pc'[x] = "insert" => code'[ptr'[x]] = EnableCode(req'[x].code)
             /\ pc'[x] = "np_insert" => code'[child'[x]] = code'[ptr'[x]]
  <2>1. pc'[x] = pc[x] /\ req'[x] = req[x] /\ ptr'[x] = ptr[x] /\ child'[x] = child[x]
    BY <1>1, OthersKept
  <2>2. \A o \in Private(x) : code'[o] = code[o]
    <3>1. Private(x) \subseteq live \ listed
      BY DEF PointerDiscipline, PrivatePointers
    <3>2. QED
      BY <3>1, CodeStep DEF HeapTypeOK
  <2>3. pc[x] = "np_insert" => code'[ptr[x]] = code[ptr[x]]
    <3>1. pc[x] = "np_insert" => ptr[x] \in listed /\ statePid[ptr[x]] = x
      BY DEF PointerDiscipline, HeldPointers, HoldingPC, NewProcPC
    <3>2. QED
      BY <3>1, CodeStep DEF PointerDiscipline, ListWellFormed, HeapTypeOK
  <2>4. QED
    BY <1>1, <2>1, <2>2, <2>3 DEF CodeChosen, Private
<1>2. ASSUME pc'[p] \in {"insert", "np_insert"}
      PROVE  /\ pc'[p] = "insert" => code'[ptr'[p]] = EnableCode(req'[p].code)
             /\ pc'[p] = "np_insert" => code'[child'[p]] = code'[ptr'[p]]
  <2>1. CASE ProcFault(c, p)
    BY <1>2, <2>1 DEF ProcFault, heap, procs, CodeChosen
  <2>2. CASE Alloc(c, p)
    BY <1>2, <2>2 DEF Alloc, Return, Goto, ProcsTypeOK, HeapTypeOK
  <2>3. CASE NewProcCreate(c, p)
    <3>1. CASE NewProcReturn(p)
      BY <1>2, <3>1, NewProcReturnEffect
    <3>2. CASE ~NewProcReturn(p)
      <4>1. PICK o \in Obj \ live :
              /\ ptr[p] \in live
              /\ code' = [code EXCEPT ![o] = code[ptr[p]]]
              /\ child' = [child EXCEPT ![p] = o]
              /\ Goto(p, "np_insert") /\ UNCHANGED ptr
        BY <2>3, <3>2 DEF NewProcCreate
      <4>2. QED
        BY <4>1 DEF Goto, ProcsTypeOK, HeapTypeOK
    <3>3. QED
      BY <3>1, <3>2
  <2>4. QED
    BY <1>2, <2>1, <2>2, <2>3, ToInsert
<1>3. QED
  BY <1>1, <1>2 DEF CodeChosen

LEMMA NextTable ==
    ASSUME NoZero, NoThreads, InvTable, [Next]_vars
    PROVE  InvTable'
<1>1. Inv' /\ InvOneState'
  BY NextInv, NextOneState, ZeroIsSelf DEF InvTable
<1>2. ASSUME UNCHANGED <<heap, procs>>  PROVE CodeChosen'
  BY <1>2 DEF InvTable, CodeChosen, heap, procs
<1>3. QED
  BY <1>1, <1>2, ProcCodeChosen, CoreKeepsTable DEF Next, vars, InvTable

LEMMA InitTable == Init => InvTable
<1>1. Init => InvOneState
  BY DEF Init, InvOneState, OneStatePerPid, EnablingIsUntraced, InheritingIsNew, Traced, Matches
<1>2. Init => CodeChosen
  BY DEF Init, CodeChosen
<1>3. QED
  BY <1>1, <1>2, InitInv DEF InvTable

----------------------------------------------------------------------------
(* The table that the list stands for.                                     *)

TracedTable == [t \in Pid |-> EntryOf(t)]
CallTable   == [p \in Pid |-> CallOf(p)]
DoneTable   == [p \in Pid |-> TookEffect(p)]

LEMMA EntryIs ==
    ASSUME NEW x, NEW o, Matches(x) = {o}
    PROVE  EntryOf(x) = code[o]
BY DEF EntryOf, Traced

LEMMA EntryOff ==
    ASSUME HeapTypeOK, NEW x
    PROVE  EntryOf(x) = Off <=> ~Traced(x)
<1>1. CASE Traced(x)
  <2>1. PICK o : o \in Matches(x) /\ o = CHOOSE y \in Matches(x) : TRUE
    BY <1>1 DEF Traced
  <2>2. EntryOf(x) \in Codes
    BY <1>1, <2>1 DEF EntryOf, HeapTypeOK, Matches
  <2>3. QED
    BY <1>1, <2>2, BtsTableAssumption
<1>2. CASE ~Traced(x)
  BY <1>2 DEF EntryOf
<1>3. QED
  BY <1>1, <1>2

LEMMA EntryKept ==
    ASSUME NEW x, Matches(x)' = Matches(x), \A o \in Matches(x) : code'[o] = code[o]
    PROVE  EntryOf(x)' = EntryOf(x)
BY DEF EntryOf, Traced

\* A process in an operation that began with finding its state has one state.
LEMMA HeldMatches ==
    ASSUME InvTable, NEW p \in Pid, pc[p] \in HoldingPC
    PROVE  Matches(p) = {ptr[p]} /\ Traced(p)
BY DEF InvTable, Inv, InvOneState, OneStatePerPid, PointerDiscipline, HeldPointers, Matches, Traced

\* Whose states the list has after a step.
LEMMA MatchesStep ==
    ASSUME InvTable, NEW c \in CPU, NEW p \in Pid, ProcStep(c, p), NEW x
    PROVE  /\ Insert(c, p) =>
                 Matches(x)' = IF x = p THEN {ptr[p]} ELSE Matches(x)
           /\ Remove(c, p) =>
                 Matches(x)' = IF x = p THEN {} ELSE Matches(x)
           /\ NewProcInsert(c, p) =>
                 Matches(x)' = IF x = req[p].pid THEN {child[p]} ELSE Matches(x)
           /\ ~Insert(c, p) /\ ~Remove(c, p) /\ ~NewProcInsert(c, p) =>
                 Matches(x)' = Matches(x)
<1> USE PartsOfTypes DEF InvTable, Inv
<1>1. CASE Insert(c, p)
  <2>1. /\ pc[p] = "insert" /\ listed' = listed \cup {ptr[p]} /\ statePid' = statePid
        /\ ~Remove(c, p) /\ ~NewProcInsert(c, p)
    BY <1>1 DEF Insert, Remove, Unlink, NewProcInsert
  <2>2. statePid[ptr[p]] = p /\ Matches(p) = {}
    BY <2>1 DEF InvOneState, EnablingIsUntraced, PointerDiscipline, RequestFits, FitsRequest, Traced
  <2>3. QED
    BY <1>1, <2>1, <2>2 DEF Matches
<1>2. CASE Remove(c, p)
  <2>1. /\ pc[p] = "remove" /\ listed' = listed \ {ptr[p]}
        /\ statePid' = [statePid EXCEPT ![ptr[p]] = NoPid]
        /\ ~Insert(c, p) /\ ~NewProcInsert(c, p)
    BY <1>2 DEF Insert, Remove, Unlink, NewProcInsert
  <2>2. Matches(p) = {ptr[p]}
    BY <2>1, HeldMatches DEF HoldingPC
  <2>3. \A o \in listed' : o \in listed /\ statePid'[o] = statePid[o]
    BY <2>1 DEF HeapTypeOK
  <2>4. QED
    BY <1>2, <2>1, <2>2, <2>3 DEF Matches
<1>3. CASE NewProcInsert(c, p)
  <2>1. /\ pc[p] = "np_insert" /\ listed' = listed \cup {child[p]} /\ statePid' = statePid
        /\ ~Insert(c, p) /\ ~Remove(c, p)
    BY <1>3 DEF Insert, Remove, Unlink, NewProcInsert
  <2>2. statePid[child[p]] = req[p].pid /\ Matches(req[p].pid) = {}
    BY <2>1 DEF InvOneState, InheritingIsNew, PointerDiscipline, RequestFits, FitsRequest,
       OneCreator, NewProcPC, Traced
  <2>3. QED
    BY <1>3, <2>1, <2>2 DEF Matches
<1>4. CASE ~Insert(c, p) /\ ~Remove(c, p) /\ ~NewProcInsert(c, p)
  <2>1. listed' = listed
    BY <1>4, IoctlEffect DEF ProcStep, Alloc, SetBits, Check, Get, Free, Install, Put, Copy,
       NewProcCreate, Clone, ProcFault, heap
  <2>2. \A o \in listed : statePid'[o] = statePid[o]
    BY <1>4, IoctlEffect DEF ProcStep, Alloc, SetBits, Check, Get, Free, Install, Put, Copy,
       NewProcCreate, Clone, ProcFault, heap, PointerDiscipline, ListWellFormed, HeapTypeOK
  <2>3. QED
    BY <1>4, <2>1, <2>2 DEF Matches
<1>5. QED
  BY <1>1, <1>2, <1>3, <1>4

\* The steps that change the table, and how.
LEMMA TableStep ==
    ASSUME InvTable, NEW c \in CPU, NEW p \in Pid, ProcStep(c, p)
    PROVE  /\ Insert(c, p) =>
                 TracedTable' = [TracedTable EXCEPT ![p] = code[ptr[p]]]
           /\ SetBits(c, p) =>
                 TracedTable' = [TracedTable EXCEPT ![p] = req[p].code]
           /\ Remove(c, p) =>
                 TracedTable' = [TracedTable EXCEPT ![p] = Off]
           /\ NewProcInsert(c, p) =>
                 TracedTable' = [TracedTable EXCEPT ![req[p].pid] = code[child[p]]]
           /\ ~Insert(c, p) /\ ~SetBits(c, p) /\ ~Remove(c, p) /\ ~NewProcInsert(c, p) =>
                 TracedTable' = TracedTable
<1> USE PartsOfTypes DEF InvTable, Inv
<1>1. ASSUME NEW x \in Pid, Matches(x)' = Matches(x), SetBits(c, p) \/ Remove(c, p) => x # p
      PROVE  EntryOf(x)' = EntryOf(x)
  <2>1. \A o \in Matches(x) : o \in listed /\ statePid[o] = x /\ o \in live /\ o \in Obj
    BY DEF Matches, PointerDiscipline, ListWellFormed, HeapTypeOK
  <2>2. \A o \in Matches(x) : code'[o] = code[o]
    BY <1>1, <2>1, CodeStep
  <2>3. QED
    BY <1>1, <2>2, EntryKept
<1>2. CASE Insert(c, p)
  <2>1. ~SetBits(c, p) /\ ~Remove(c, p) /\ ~NewProcInsert(c, p)
    BY <1>2 DEF Insert, SetBits, Remove, Unlink, NewProcInsert
  <2>2. \A x \in Pid \ {p} : EntryOf(x)' = EntryOf(x)
    BY <1>1, <1>2, <2>1, MatchesStep
  <2>3. Matches(p)' = {ptr[p]} /\ code' = code
    BY <1>2, MatchesStep DEF Insert
  <2>4. EntryOf(p)' = code[ptr[p]]
    BY <2>3 DEF EntryOf, Traced
  <2>5. QED
    BY <1>2, <2>1, <2>2, <2>4 DEF TracedTable
<1>3. CASE SetBits(c, p)
  <2>1. ~Insert(c, p) /\ ~Remove(c, p) /\ ~NewProcInsert(c, p) /\ pc[p] = "set_bits"
    BY <1>3 DEF Insert, SetBits, Remove, Unlink, NewProcInsert
  <2>2. \A x \in Pid \ {p} : EntryOf(x)' = EntryOf(x)
    BY <1>1, <2>1, MatchesStep
  <2>3. Matches(p)' = {ptr[p]}
    BY <2>1, HeldMatches, MatchesStep DEF HoldingPC
  <2>4. code'[ptr[p]] = req[p].code
    BY <1>3 DEF SetBits, ConfigCode, HeapTypeOK
  <2>5. EntryOf(p)' = req[p].code
    BY <2>3, <2>4 DEF EntryOf, Traced
  <2>6. QED
    BY <1>3, <2>1, <2>2, <2>5 DEF TracedTable
<1>4. CASE Remove(c, p)
  <2>1. ~Insert(c, p) /\ ~SetBits(c, p) /\ ~NewProcInsert(c, p)
    BY <1>4 DEF Insert, SetBits, Remove, Unlink, NewProcInsert
  <2>2. \A x \in Pid \ {p} : EntryOf(x)' = EntryOf(x)
    BY <1>1, <1>4, MatchesStep
  <2>3. EntryOf(p)' = Off
    BY <1>4, MatchesStep DEF EntryOf, Traced
  <2>4. QED
    BY <1>4, <2>1, <2>2, <2>3 DEF TracedTable
<1>5. CASE NewProcInsert(c, p)
  <2>1. ~Insert(c, p) /\ ~SetBits(c, p) /\ ~Remove(c, p)
    BY <1>5 DEF Insert, SetBits, Remove, Unlink, NewProcInsert
  <2>2. PICK q \in Pid : q = req[p].pid
    BY <1>5 DEF NewProcInsert, PointerDiscipline, OneCreator, NewProcPC
  <2>3. \A x \in Pid \ {q} : EntryOf(x)' = EntryOf(x)
    BY <1>1, <1>5, <2>1, <2>2, MatchesStep
  <2>4. Matches(q)' = {child[p]} /\ code' = code
    BY <1>5, <2>2, MatchesStep DEF NewProcInsert
  <2>5. EntryOf(q)' = code[child[p]]
    BY <2>4 DEF EntryOf, Traced
  <2>6. TracedTable' = [TracedTable EXCEPT ![q] = code[child[p]]]
    BY <2>3, <2>5 DEF TracedTable
  <2>7. QED
    BY <1>5, <2>1, <2>2, <2>6
<1>6. CASE ~Insert(c, p) /\ ~SetBits(c, p) /\ ~Remove(c, p) /\ ~NewProcInsert(c, p)
  BY <1>1, <1>6, MatchesStep DEF TracedTable
<1>7. QED
  BY <1>2, <1>3, <1>4, <1>5, <1>6

\* Which requests have taken effect changes for the acting process only.
LEMMA DoneStep ==
    ASSUME SelfTracing, Inv, NEW c \in CPU, NEW p \in Pid, ProcStep(c, p), NEW b \in BOOLEAN,
           TookEffect(p)' <=> b
    PROVE  /\ DoneTable' = [DoneTable EXCEPT ![p] = b]
           /\ (TookEffect(p) <=> b) => DoneTable' = DoneTable
<1>1. \A x \in Pid \ {p} : TookEffect(x)' = TookEffect(x)
  <2> SUFFICES ASSUME NEW x \in Pid \ {p} PROVE TookEffect(x)' = TookEffect(x)
    OBVIOUS
  <2>1. /\ req'[x] = req[x]
        /\ \/ pc'[x] = pc[x]
           \/ pc[x] \in {"none", "new"} /\ pc'[x] \in {"user", "new"}
    BY OthersKept
  <2>2. QED
    BY <2>1 DEF TookEffect
<1>2. TookEffect(p) \in BOOLEAN /\ TookEffect(p)' \in BOOLEAN
  BY DEF TookEffect
<1>3. TookEffect(p)' = b /\ ((TookEffect(p) <=> b) => TookEffect(p)' = TookEffect(p))
  BY <1>2, Zenon
<1>4. QED
  BY <1>1, <1>3, Zenon DEF DoneTable

\* The requests, without the sizes, which the table does not know.
LEMMA CallStep ==
    ASSUME ProcsTypeOK, NEW p \in Pid, NEW r, req' = [req EXCEPT ![p] = r]
    PROVE  CallTable' = [CallTable EXCEPT ![p] =
                            [cmd |-> r.cmd, pid |-> r.pid, sel |-> r.code]]
BY DEF ProcsTypeOK, CallTable, CallOf

----------------------------------------------------------------------------
(* Step by step.                                                           *)

\* A step of the table, or none.
TableMoves == Table!Next \/ UNCHANGED Table!tvars

LEMMA Stutter ==
    ASSUME TracedTable' = TracedTable, DoneTable' = DoneTable, UNCHANGED req
    PROVE  TableMoves
BY DEF TableMoves, Table!tvars, TracedTable, DoneTable, CallOf

\* The steps after which the table is the same, and the same requests are at
\* work on it.
LEMMA QuietStep ==
    ASSUME NoZero, InvTable, NEW c \in CPU, NEW p \in Pid, ProcStep(c, p), UNCHANGED req,
           ~Insert(c, p), ~SetBits(c, p), ~Remove(c, p), ~NewProcInsert(c, p),
           TookEffect(p)' <=> TookEffect(p)
    PROVE  TableMoves
<1>1. TracedTable' = TracedTable
  BY TableStep
<1>2. TookEffect(p) \in BOOLEAN
  BY DEF TookEffect
<1>3. DoneTable' = DoneTable
  BY <1>2, DoneStep, ZeroIsSelf DEF InvTable
<1>4. QED
  BY <1>1, <1>3, Stutter

\* The table's Return, for the returns that leave the table alone.
LEMMA ReturnStep ==
    ASSUME NoZero, InvTable, NEW c \in CPU, NEW p \in Pid, ProcStep(c, p),
           req' = [req EXCEPT ![p] = NoReq],
           req[p].cmd # "none", TookEffect(p) \/ req[p].cmd \in {"dump", "enable", "newproc"},
           ~Insert(c, p), ~SetBits(c, p), ~Remove(c, p), ~NewProcInsert(c, p)
    PROVE  TableMoves
<1> USE PartsOfTypes DEF InvTable, Inv
<1>1. TracedTable' = TracedTable
  BY TableStep
<1>2. DoneTable' = [DoneTable EXCEPT ![p] = FALSE]
  <2>1. ~TookEffect(p)'
    BY DEF TookEffect, NoReq, ProcsTypeOK
  <2>2. QED
    BY <2>1, DoneStep, ZeroIsSelf
<1>3. DoneTable[p] \/ req[p].cmd \in {"dump", "enable", "newproc"}
  BY DEF DoneTable
<1>4. CallTable' = [CallTable EXCEPT ![p] = [cmd |-> "none", pid |-> NoPid, sel |-> 0]]
  BY CallStep DEF NoReq
<1>5. CallTable[p].cmd = req[p].cmd
  BY DEF CallTable, CallOf
<1>6. Table!Return(p)
  BY <1>1, <1>2, <1>3, <1>4, <1>5 DEF Table!Return, TracedTable, DoneTable, CallTable
<1>7. QED
  BY <1>6 DEF TableMoves, Table!Next

LEMMA FitsHere ==
    ASSUME InvTable, NEW p \in Pid
    PROVE  FitsRequest(p) /\ pc[p] \in PC /\ req[p] \in ReqSet
BY PartsOfTypes DEF InvTable, Inv, PointerDiscipline, RequestFits, ProcsTypeOK, PC

\* A request at work on the table is not None.
LEMMA Working ==
    ASSUME NEW p \in Pid, req[p].cmd # "none"
    PROVE  /\ Table!Pending(p, req[p].cmd)
           /\ CallTable[p].cmd = req[p].cmd /\ CallTable[p].pid = req[p].pid
           /\ CallTable[p].sel = req[p].code
<1>1. /\ CallTable[p] = CallOf(p) /\ CallOf(p).cmd = req[p].cmd /\ CallOf(p).pid = req[p].pid
      /\ CallOf(p).sel = req[p].code
  BY DEF CallTable, CallOf
<1>2. CallOf(p) # [cmd |-> "none", pid |-> NoPid, sel |-> 0]
  BY <1>1
<1>3. QED
  BY <1>1, <1>2 DEF Table!Pending, CallTable

\* The entry of the handlers: the request is accepted or not.
LEMMA IoctlImplements ==
    ASSUME NoZero, InvTable, NEW c \in CPU, NEW p \in Pid,
           \E cmd \in Cmds, t \in Targets[p] :
              \E k \in ReqCodes(cmd), s \in SizesOf(cmd) : Ioctl(c, p, cmd, t, k, s)
    PROVE  TableMoves
<1> USE PartsOfTypes, FitsHere, ZeroIsSelf DEF InvTable, Inv
<1>1. ProcStep(c, p) /\ pc[p] = "user"
  BY IoctlEffect DEF ProcStep
<1>2. req[p] = NoReq
  BY <1>1 DEF FitsRequest
<1>3. ~Insert(c, p) /\ ~SetBits(c, p) /\ ~Remove(c, p) /\ ~NewProcInsert(c, p)
  BY <1>1 DEF Insert, SetBits, Remove, Unlink, NewProcInsert
<1>4. CASE UNCHANGED procs
  BY <1>1, <1>3, <1>4, QuietStep DEF procs, TookEffect
<1>5. CASE ~UNCHANGED procs
  <2>1. PICK o \in Obj \cup {Null}, r \in ReqSet :
          /\ Found(p, o) /\ Accepts(r.cmd, o) /\ r.cmd \in Cmds /\ r.pid = p
          /\ Goto(p, CASE r.cmd = "enable" -> "alloc" [] r.cmd = "config" -> "set_bits"
                       [] r.cmd = "dump" -> "copy" [] OTHER -> "check")
          /\ req' = [req EXCEPT ![p] = r]
    BY <1>5, IoctlEffect DEF NoZero
  <2>2. o = Null <=> ~Traced(p)
    BY <2>1, FoundIsListed, ListedIsObj
  <2>3. (r.cmd = "enable") <=> (TracedTable[p] = Off)
    BY <2>1, <2>2, EntryOff DEF Accepts, TracedTable
  <2>4. TracedTable' = TracedTable
    BY <1>1, <1>3, TableStep
  <2>5. DoneTable' = DoneTable
    <3>1. ~TookEffect(p)
      BY <1>2 DEF TookEffect, NoReq
    <3>2. /\ pc'[p] \in {"alloc", "set_bits", "copy", "check"} /\ req'[p] = r
          /\ r.cmd = "enable" => pc'[p] = "alloc"
          /\ r.cmd = "config" => pc'[p] = "set_bits"
      BY <2>1 DEF Goto, ProcsTypeOK
    <3>3. ~TookEffect(p)'
      BY <3>2 DEF TookEffect
    <3>4. QED
      BY <1>1, <3>1, <3>3, DoneStep
  <2>6. CallTable[p] = [cmd |-> "none", pid |-> NoPid, sel |-> 0]
    BY <1>2 DEF CallTable, CallOf, NoReq
  <2>7. CallTable' = [CallTable EXCEPT ![p] = [cmd |-> r.cmd, pid |-> p, sel |-> r.code]]
    BY <2>1, CallStep
  <2>8. Table!Call(p, r.cmd, p, r.code)
    BY <2>3, <2>4, <2>5, <2>6, <2>7 DEF Table!Call, TracedTable, DoneTable, CallTable
  <2>9. r.cmd \in {"enable", "disable", "dump", "config"} /\ r.code \in Codes
    BY <2>1, BtsAssumption DEF ReqSet
  <2>10. QED
    BY <2>8, <2>9 DEF TableMoves, Table!Next
<1>6. QED
  BY <1>4, <1>5

\* enable_bts takes effect when it links the state.
LEMMA EnableImplements ==
    ASSUME NoZero, InvTable, NEW c \in CPU, NEW p \in Pid, Alloc(c, p) \/ Insert(c, p)
    PROVE  TableMoves
<1> USE PartsOfTypes, FitsHere, ZeroIsSelf DEF InvTable, Inv
<1>1. ProcStep(c, p)
  BY DEF ProcStep
<1>2. CASE Alloc(c, p)
  <2>1. pc[p] = "alloc" /\ req[p].cmd = "enable"
    BY <1>2 DEF Alloc, FitsRequest
  <2>2. ~Insert(c, p) /\ ~SetBits(c, p) /\ ~Remove(c, p) /\ ~NewProcInsert(c, p)
    BY <2>1 DEF Insert, SetBits, Remove, Unlink, NewProcInsert
  <2>3. CASE Return(p)
    BY <1>1, <2>1, <2>2, <2>3, ReturnStep DEF Return
  <2>4. CASE Goto(p, "insert") /\ UNCHANGED req
    <3>1. TookEffect(p)' <=> TookEffect(p)
      BY <2>1, <2>4 DEF TookEffect, Goto, ProcsTypeOK
    <3>2. QED
      BY <1>1, <2>2, <2>4, <3>1, QuietStep
  <2>5. QED
    BY <1>2, <2>3, <2>4 DEF Alloc
<1>3. CASE Insert(c, p)
  <2>1. pc[p] = "insert" /\ req[p].cmd = "enable" /\ req[p].pid = p /\ ~Traced(p)
    BY <1>3 DEF Insert, FitsRequest, InvOneState, EnablingIsUntraced
  <2>2. pc'[p] = "check" /\ UNCHANGED req
    BY <1>3 DEF Insert, Step, Goto, ProcsTypeOK
  <2>3. TracedTable' = [TracedTable EXCEPT ![p] = code[ptr[p]]]
    BY <1>1, <1>3, TableStep
  <2>4. ~TookEffect(p) /\ TookEffect(p)'
    BY <2>1, <2>2 DEF TookEffect
  <2>5. DoneTable' = [DoneTable EXCEPT ![p] = TRUE] /\ ~DoneTable[p]
    BY <1>1, <2>4, DoneStep DEF DoneTable
  <2>6. TracedTable[p] = Off
    BY <2>1, EntryOff DEF TracedTable
  <2>7. /\ code[ptr[p]] \in Codes \ {0}
        /\ req[p].code # 0 => code[ptr[p]] = req[p].code
    <3>1. code[ptr[p]] = EnableCode(req[p].code)
      BY <2>1 DEF CodeChosen
    <3>2. req[p].code \in Codes
      BY DEF ReqSet
    <3>3. QED
      BY <3>1, <3>2 DEF EnableCode, Codes, DEFAULT_BTS_CONFIG
  <2>8. CallTable' = CallTable
    BY <2>2 DEF CallTable, CallOf
  <2>9. Table!Effect(p, code[ptr[p]])
    BY <2>1, <2>3, <2>5, <2>8, Working DEF Table!Effect, TracedTable, DoneTable, CallTable
  <2>10. Table!Enable(p)
    BY <2>1, <2>6, <2>7, <2>9, Working DEF Table!Enable, TracedTable, CallTable
  <2>11. QED
    BY <2>10 DEF TableMoves, Table!Next
<1>4. QED
  BY <1>2, <1>3

\* disable_bts takes effect when it unlinks the state, and returns with that.
LEMMA DisableImplements ==
    ASSUME NoZero, InvTable, NEW c \in CPU, NEW p \in Pid, Remove(c, p)
    PROVE  TableMoves
<1> USE PartsOfTypes, FitsHere, ZeroIsSelf DEF InvTable, Inv
<1>1. ProcStep(c, p)
  BY DEF ProcStep
<1>2. /\ pc[p] = "remove" /\ req[p].cmd = "disable" /\ req[p].pid = p
      /\ req' = [req EXCEPT ![p] = NoReq]
  BY DEF Remove, Unlink, FitsRequest, IoctlPC, Return
<1>3. TracedTable' = [TracedTable EXCEPT ![p] = Off]
  BY <1>1, TableStep
<1>4. ~TookEffect(p) /\ ~TookEffect(p)'
  BY <1>2 DEF TookEffect, NoReq, ProcsTypeOK
<1>5. DoneTable' = DoneTable /\ ~DoneTable[p]
  BY <1>1, <1>4, DoneStep DEF DoneTable
<1>6. TracedTable[p] # Off
  BY <1>2, HeldMatches, EntryOff DEF TracedTable, HoldingPC
<1>7. CallTable' = [CallTable EXCEPT ![p] = [cmd |-> "none", pid |-> NoPid, sel |-> 0]]
  BY <1>2, CallStep DEF NoReq
<1>8. Table!Effect(p, Off)
  BY <1>2, <1>3, <1>5, <1>7, Working DEF Table!Effect, TracedTable, DoneTable, CallTable
<1>9. Table!Disable(p)
  BY <1>2, <1>6, <1>8, Working DEF Table!Disable, TracedTable, CallTable
<1>10. QED
  BY <1>9 DEF TableMoves, Table!Next

\* config_bts takes effect when it stores the bits, before anything else.
LEMMA ConfigImplements ==
    ASSUME NoZero, InvTable, NEW c \in CPU, NEW p \in Pid, SetBits(c, p)
    PROVE  TableMoves
<1> USE PartsOfTypes, FitsHere, ZeroIsSelf DEF InvTable, Inv
<1>1. ProcStep(c, p)
  BY DEF ProcStep
<1>2. /\ pc[p] = "set_bits" /\ req[p].cmd = "config" /\ req[p].pid = p
      /\ pc'[p] = "check" /\ UNCHANGED req
  BY DEF SetBits, FitsRequest, IoctlPC, Step, Goto, ProcsTypeOK
<1>3. TracedTable' = [TracedTable EXCEPT ![p] = req[p].code]
  BY <1>1, TableStep
<1>4. ~TookEffect(p) /\ TookEffect(p)'
  BY <1>2 DEF TookEffect
<1>5. DoneTable' = [DoneTable EXCEPT ![p] = TRUE] /\ ~DoneTable[p]
  BY <1>1, <1>4, DoneStep DEF DoneTable
<1>6. TracedTable[p] # Off
  BY <1>2, HeldMatches, EntryOff DEF TracedTable, HoldingPC
<1>7. CallTable' = CallTable
  BY <1>2 DEF CallTable, CallOf
<1>8. Table!Effect(p, req[p].code)
  BY <1>2, <1>3, <1>5, <1>7, Working DEF Table!Effect, TracedTable, DoneTable, CallTable
<1>9. Table!Config(p)
  BY <1>2, <1>6, <1>8, Working DEF Table!Config, TracedTable, CallTable
<1>10. QED
  BY <1>9 DEF TableMoves, Table!Next

\* The other steps of the operations have no effect, or return; in particular
\* those of a config that replaces the buffer.
LEMMA OperationImplements ==
    ASSUME NoZero, InvTable, NEW c \in CPU, NEW p \in Pid,
           \/ Check(c, p) \/ Get(c, p) \/ Free(c, p) \/ Install(c, p)
           \/ Put(c, p) \/ Copy(c, p)
    PROVE  TableMoves
<1> USE PartsOfTypes, FitsHere DEF InvTable, Inv
<1>1. ProcStep(c, p)
  BY DEF ProcStep
<1>2. ~Insert(c, p) /\ ~SetBits(c, p) /\ ~Remove(c, p) /\ ~NewProcInsert(c, p)
  BY DEF Check, Get, Free, Install, Put, Copy, Insert, SetBits, Remove, Unlink, NewProcInsert
<1>3. pc[p] \in {"check", "install"} => IsOwn(p)
  BY DEF PointerDiscipline, HeldPointers, HoldingPC, IsOwn, FitsRequest, IoctlPC
<1>4. \/ /\ UNCHANGED req /\ (TookEffect(p)' <=> TookEffect(p))
      \/ /\ req' = [req EXCEPT ![p] = NoReq]
         /\ req[p].cmd # "none" /\ (TookEffect(p) \/ req[p].cmd = "dump")
  <2>1. CASE Check(c, p)
    BY <1>3, <2>1 DEF Check, FitsRequest, Step, Goto, ProcsTypeOK, TookEffect
  <2>2. CASE Get(c, p)
    BY <2>2 DEF Get, FitsRequest, Step, Goto, ProcsTypeOK, TookEffect
  <2>3. CASE Free(c, p)
    BY <2>3 DEF Free, FitsRequest, Step, Goto, ProcsTypeOK, TookEffect
  <2>4. CASE Install(c, p)
    BY <1>3, <2>4 DEF Install, FitsRequest, Step, Goto, ProcsTypeOK, TookEffect
  <2>5. CASE Put(c, p)
    BY <2>5 DEF Put, FitsRequest, Return, TookEffect
  <2>6. CASE Copy(c, p)
    BY <2>6 DEF Copy, FitsRequest, Return
  <2>7. QED
    BY <2>1, <2>2, <2>3, <2>4, <2>5, <2>6
<1>5. QED
  BY <1>1, <1>2, <1>4, QuietStep, ReturnStep

\* bts_newproc_handler takes effect when it links the child's state.
LEMMA NewProcImplements ==
    ASSUME NoZero, NoThreads, InvTable, NEW c \in CPU, NEW p \in Pid,
           NewProcCreate(c, p) \/ NewProcInsert(c, p)
    PROVE  TableMoves
<1> USE PartsOfTypes, FitsHere, ZeroIsSelf DEF InvTable, Inv
<1>1. ProcStep(c, p)
  BY DEF ProcStep
<1>2. pc[p] \in NewProcPC /\ req[p].cmd = "newproc" /\ ~TookEffect(p)
  <2>1. pc[p] \in NewProcPC
    BY DEF NewProcCreate, NewProcInsert, NewProcPC
  <2>2. QED
    BY <2>1 DEF FitsRequest, TookEffect
<1>3. ~Insert(c, p) /\ ~SetBits(c, p) /\ ~Remove(c, p)
  BY DEF NewProcCreate, NewProcInsert, Insert, SetBits, Remove, Unlink
<1>4. CASE NewProcCreate(c, p)
  <2>1. ~NewProcInsert(c, p)
    BY <1>4 DEF NewProcCreate, NewProcInsert
  <2>2. CASE NewProcReturn(p)
    BY <1>1, <1>2, <1>3, <2>1, <2>2, ReturnStep DEF NewProcReturn
  <2>3. CASE UNCHANGED req
    <3>1. ~TookEffect(p)'
      BY <1>2, <2>3 DEF TookEffect
    <3>2. QED
      BY <1>1, <1>2, <1>3, <2>1, <2>3, <3>1, QuietStep
  <2>4. QED
    BY <1>4, <2>2, <2>3 DEF NewProcCreate
<1>5. CASE NewProcInsert(c, p)
  <2>1. PICK q \in Pid : q = req[p].pid /\ pc[q] = "new"
    BY <1>2 DEF PointerDiscipline, OneCreator
  <2>2. pc[p] = "np_insert" /\ req' = [req EXCEPT ![p] = NoReq] /\ ~Traced(q)
    BY <1>5, <2>1 DEF NewProcInsert, NewProcReturn, InvOneState, InheritingIsNew
  <2>3. Matches(p) = {ptr[p]} /\ Traced(p)
    BY <1>2, HeldMatches DEF HoldingPC
  <2>4. TracedTable[p] # Off /\ TracedTable[q] = Off
    BY <2>2, <2>3, EntryOff DEF TracedTable
  <2>5. code[child[p]] = TracedTable[p]
    BY <2>2, <2>3, EntryIs DEF TracedTable, CodeChosen
  <2>6. TracedTable' = [TracedTable EXCEPT ![q] = TracedTable[p]]
    BY <1>1, <1>5, <2>1, <2>5, TableStep
  <2>7. ~TookEffect(p)'
    BY <2>2 DEF TookEffect, NoReq, ProcsTypeOK
  <2>8. DoneTable' = DoneTable /\ ~DoneTable[p]
    BY <1>1, <1>2, <2>7, DoneStep DEF DoneTable
  <2>9. CallTable' = [CallTable EXCEPT ![p] = [cmd |-> "none", pid |-> NoPid, sel |-> 0]]
    BY <2>2, CallStep DEF NoReq
  <2>10. Table!Effect(p, TracedTable[p])
    BY <1>2, <2>1, <2>6, <2>8, <2>9, Working
       DEF Table!Effect, TracedTable, DoneTable, CallTable
  <2>11. Table!Inherit(p)
    BY <1>2, <2>1, <2>4, <2>10, Working DEF Table!Inherit, TracedTable, CallTable
  <2>12. QED
    BY <2>11 DEF TableMoves, Table!Next
<1>6. QED
  BY <1>4, <1>5

LEMMA CloneImplements ==
    ASSUME NoZero, NoThreads, InvTable, NEW c \in CPU, NEW p \in Pid, NEW q \in Pid,
           NEW kind \in CloneKinds, Clone(c, p, q, kind)
    PROVE  TableMoves
<1> USE PartsOfTypes, FitsHere, ZeroIsSelf DEF InvTable, Inv
<1>1. ProcStep(c, p) /\ pc[p] = "user" /\ pc[q] = "none" /\ p # q
  BY CloneEffect DEF ProcStep
<1>2. req[p] = NoReq /\ ~TookEffect(p)
  BY <1>1 DEF FitsRequest, TookEffect, NoReq
<1>3. ~Insert(c, p) /\ ~SetBits(c, p) /\ ~Remove(c, p) /\ ~NewProcInsert(c, p)
  BY <1>1 DEF Insert, SetBits, Remove, Unlink, NewProcInsert
<1>4. PICK o \in Obj \cup {Null} :
        /\ Found(p, o)
        /\ \/ UNCHANGED req
           \/ /\ o # Null
              /\ req' = [req EXCEPT ![p] =
                            [cmd |-> "newproc", pid |-> q, code |-> 0, size |-> 0]]
  BY DEF Clone, Parent, NoThreads
<1>5. CASE UNCHANGED req
  <2>1. ~TookEffect(p)'
    BY <1>2, <1>5 DEF TookEffect, NoReq
  <2>2. QED
    BY <1>1, <1>2, <1>3, <1>5, <2>1, QuietStep
<1>6. CASE /\ o # Null
           /\ req' = [req EXCEPT ![p] =
                         [cmd |-> "newproc", pid |-> q, code |-> 0, size |-> 0]]
  <2>1. Traced(p) /\ ~Traced(q)
    BY <1>1, <1>4, <1>6, FoundIsListed, ListedIsObj DEF InvOneState, InheritingIsNew
  <2>2. TracedTable[p] # Off /\ TracedTable[q] = Off
    BY <2>1, EntryOff DEF TracedTable
  <2>3. ~TookEffect(p)'
    BY <1>6 DEF TookEffect, ProcsTypeOK
  <2>4. DoneTable' = DoneTable /\ TracedTable' = TracedTable
    BY <1>1, <1>2, <1>3, <2>3, DoneStep, TableStep
  <2>5. CallTable[p] = [cmd |-> "none", pid |-> NoPid, sel |-> 0]
    BY <1>2 DEF CallTable, CallOf, NoReq
  <2>6. CallTable' = [CallTable EXCEPT ![p] = [cmd |-> "newproc", pid |-> q, sel |-> 0]]
    BY <1>6, CallStep
  <2>7. Table!Create(p, q)
    BY <2>2, <2>4, <2>5, <2>6 DEF Table!Create, TracedTable, DoneTable, CallTable
  <2>8. QED
    BY <2>7 DEF TableMoves, Table!Next
<1>7. QED
  BY <1>4, <1>5, <1>6

\* What leaves the states and the processes alone leaves the table alone: the
\* context switches and the branches of all cores, and the end of a behaviour.
LEMMA CoreImplements ==
    ASSUME UNCHANGED <<heap, procs>>
    PROVE  TableMoves
<1>1. \A x : EntryOf(x)' = EntryOf(x)
  BY DEF heap, EntryOf, Traced, Matches
<1>2. \A x : TookEffect(x)' = TookEffect(x)
  BY DEF procs, TookEffect
<1>3. QED
  BY <1>1, <1>2, Stutter DEF TracedTable, DoneTable, procs

LEMMA NextImplements ==
    ASSUME NoZero, NoThreads, InvTable, [Next]_vars
    PROVE  TableMoves
<1>1. ASSUME NEW c \in CPU, NEW p \in Pid, ProcStep(c, p)
      PROVE  TableMoves
  BY <1>1, IoctlImplements, EnableImplements, DisableImplements, ConfigImplements,
     OperationImplements, NewProcImplements, CloneImplements, CoreImplements
     DEF ProcStep, ProcFault
<1>2. QED
  BY <1>1, CoreKeepsTable, CoreImplements DEF Next, vars

\* Implementation: if every process traces itself, by its pid, and new processes
\* inherit from their creator (no threads), then whatever
\* the processes do on whatever cores, and wherever they are preempted, the
\* list of states is a table on which each accepted request takes effect once,
\* between its call and its return, and which nothing else changes; the buffers
\* that config_bts replaces and the allocations that fail do not show
\* (bts.c: the four operations, bts_newproc_handler, bts_cswitch_handler).
THEOREM Implementation == NoZero /\ NoThreads => (Spec => ImplementsTable)
<1> SUFFICES ASSUME NoZero, NoThreads PROVE Spec => Table!Spec
  BY DEF ImplementsTable
<1>1. Init => Table!Init
  BY DEF Init, Table!Init, EntryOf, Traced, Matches, TookEffect, CallOf, NoReq
<1>2. InvTable /\ [Next]_vars => [Table!Next]_(Table!tvars)
  BY NextImplements DEF TableMoves
<1>3. InvTable /\ [Next]_vars => InvTable'
  BY NextTable
<1>4. QED
  BY <1>1, <1>2, <1>3, InitTable, PTL DEF Spec, Table!Spec
=============================================================================
