----------------------------- MODULE Lkm_proofs -----------------------------
(* Theorems about the life of the Linux kernel module, for any number of    *)
(* cores, processes and machines.                                          *)
EXTENDS LkmInv, SequenceTheorems, TLAPS

USE LkmAssumption

----------------------------------------------------------------------------
(* The rests of operations and of the handler.                             *)

\* What the rests consist of.
StepNames == {"insert", "load", "read", "set", "clear", "save", "remove", "get", "put", "copy",
              "find", "switch"}
Entry == [engine : Engine, step : StepNames]

LEMMA RestOf ==
    ASSUME NEW s \in Seq(Entry), NEW i \in Nat \ {0}
    PROVE  /\ i > Len(s) => From(s, i) = <<>>
           /\ i <= Len(s) =>
                 /\ From(s, i) # <<>>
                 /\ Head(From(s, i)) = s[i]
                 /\ Tail(From(s, i)) = From(s, i + 1)
                 /\ From(s, i)[Len(From(s, i))] = s[Len(s)]
<1>1. CASE i > Len(s)
  BY <1>1, SubSeqEmpty DEF From
<1>2. CASE i <= Len(s)
  <2>1. i \in 1 .. Len(s) /\ Len(s) \in i .. Len(s)
    BY <1>2
  <2>2. Head(From(s, i)) = s[i] /\ Tail(From(s, i)) = From(s, i + 1)
    BY <2>1, HeadTailOfSubSeq DEF From
  <2>3. /\ Len(From(s, i)) = Len(s) - i + 1
        /\ \A j \in 1 .. Len(s) - i + 1 : From(s, i)[j] = s[i + j - 1]
    <3>1. \A j \in i .. Len(s) : s[j] \in Entry
      BY <2>1
    <3>2. QED
      BY <2>1, <3>1, SubSeqProperties DEF From
  <2>4. From(s, i) # <<>>
    BY <2>1, <2>3
  <2>5. From(s, i)[Len(From(s, i))] = s[Len(s)]
    BY <2>1, <2>3
  <2>6. QED
    BY <1>2, <2>2, <2>4, <2>5
<1>3. QED
  BY <1>1, <1>2

\* The programs, written out.
LEMMA ProgramIs ==
    ASSUME NEW e \in Engine, NEW op \in Operation
    PROVE  /\ Program(e, op) \in Seq(Entry)
           /\ Len(Program(e, op)) = Len(Steps(e, op)) /\ Len(Program(e, op)) \in 1..6
           /\ \A i \in 1 .. Len(Program(e, op)) :
                 Program(e, op)[i] = [engine |-> e, step |-> Steps(e, op)[i]]
<1> DEFINE n == Len(Steps(e, op))
<1>1. /\ DOMAIN Steps(e, op) = 1 .. n /\ n \in 1..6
      /\ \A i \in 1 .. n : Steps(e, op)[i] \in StepNames
  <2>1. \/ Steps(e, op) = <<"insert", "load", "read", "set">>
        \/ Steps(e, op) = <<"read", "clear", "save", "remove">>
        \/ Steps(e, op) = <<"read", "clear", "save", "load", "read", "set">>
        \/ Steps(e, op) = <<"insert", "put">>
        \/ Steps(e, op) = <<"get", "remove">>
        \/ Steps(e, op) = <<"get", "put">>
        \/ Steps(e, op) = <<"copy">>
    BY DEF Engine, Operation, Steps
  <2>2. CASE Steps(e, op) = <<"insert", "load", "read", "set">>
    BY <2>2 DEF StepNames
  <2>3. CASE Steps(e, op) = <<"read", "clear", "save", "remove">>
    BY <2>3 DEF StepNames
  <2>4. CASE Steps(e, op) = <<"read", "clear", "save", "load", "read", "set">>
    BY <2>4 DEF StepNames
  <2>5. CASE Steps(e, op) = <<"insert", "put">>
    BY <2>5 DEF StepNames
  <2>6. CASE Steps(e, op) = <<"get", "remove">>
    BY <2>6 DEF StepNames
  <2>7. CASE Steps(e, op) = <<"get", "put">>
    BY <2>7 DEF StepNames
  <2>8. CASE Steps(e, op) = <<"copy">>
    BY <2>8 DEF StepNames
  <2>9. QED
    BY <2>1, <2>2, <2>3, <2>4, <2>5, <2>6, <2>7, <2>8
<1>2. Program(e, op) = [i \in 1 .. n |-> [engine |-> e, step |-> Steps(e, op)[i]]]
  BY <1>1 DEF Program
<1>3. \A i \in 1 .. n : Program(e, op)[i] \in Entry
  BY <1>1, <1>2 DEF Entry
<1>4. Program(e, op) \in Seq(Entry) /\ Len(Program(e, op)) = n
  BY <1>1, <1>2, <1>3
<1>5. QED
  BY <1>1, <1>2, <1>4

\* What follows each step of an operation.
LastStep(r) == r[Len(r)].step
Follows(r) ==
    LET h == Head(r).step
        n == Head(Tail(r)).step
    IN  IF Tail(r) = <<>> THEN h \in {"set", "put", "remove", "copy"}
        ELSE /\ Head(Tail(r)).engine = Head(r).engine /\ LastStep(Tail(r)) = LastStep(r)
             /\ \/ h = "insert" /\ n \in {"load", "put"}
                \/ h = "load" /\ n = "read"
                \/ h = "read" /\ n \in {"clear", "set"}
                \/ h = "clear" /\ n = "save"
                \/ h = "save" /\ n \in {"load", "remove"}
                \/ h = "get" /\ n \in {"put", "remove"}
StepOfEngine(x) ==
    /\ x.engine \in Engine
    /\ x.step \in {"load", "read", "clear", "save", "set"} => x.engine = "lbr"
    /\ x.step \in {"get", "put", "copy"} => x.engine = "bts"
RemovesAtLast(r) ==
    /\ Head(r).step = "remove" => LastStep(r) = "remove"
    /\ Head(r).step \in {"insert", "set", "put", "copy"} => LastStep(r) # "remove"

LEMMA RestFacts ==
    ASSUME NEW r \in Rests, r # <<>>
    PROVE  /\ Tail(r) \in Rests
           /\ Head(r) = [engine |-> Head(r).engine, step |-> Head(r).step]
           /\ Follows(r) /\ StepOfEngine(Head(r)) /\ RemovesAtLast(r)
<1>1. PICK e \in Engine, op \in Operation, i \in 1..7 : r = From(Program(e, op), i)
  BY DEF Rests
<1> DEFINE s == Program(e, op)
           w == Steps(e, op)
           n == Len(w)
<1>2. /\ s \in Seq(Entry) /\ Len(s) = n /\ n \in 1..6
      /\ \A j \in 1..n : s[j] = [engine |-> e, step |-> w[j]]
  BY ProgramIs
<1> HIDE DEF s, w, n
<1>3. i \in 1..n
  BY <1>1, <1>2, RestOf DEF s
<1>4. /\ Head(r) = s[i] /\ Tail(r) = From(s, i + 1) /\ r[Len(r)] = s[n]
  <2>1. r = From(s, i)
    BY <1>1 DEF s
  <2>2. i \in Nat \ {0} /\ i <= Len(s)
    BY <1>2, <1>3
  <2>3. QED
    BY <1>2, <2>1, <2>2, RestOf
<1>5. i + 1 \in Nat \ {0} /\ i + 1 \in 1..7
  BY <1>2, <1>3
<1>6. Tail(r) \in Rests
  <2>1. Tail(r) = From(Program(e, op), i + 1)
    BY <1>4 DEF s
  <2>2. QED
    BY <1>5, <2>1 DEF Rests
<1>7. /\ i = n => Tail(r) = <<>>
      /\ i < n => /\ Tail(r) # <<>> /\ Head(Tail(r)) = s[i + 1]
                  /\ Tail(r)[Len(Tail(r))] = s[n]
  <2>1. i < n => i + 1 <= n
    BY <1>2, <1>3
  <2>2. i = n => i + 1 > n
    BY <1>2, <1>3
  <2>3. QED
    BY <1>2, <1>4, <1>5, <2>1, <2>2, RestOf
<1>8. /\ Head(r) = [engine |-> e, step |-> w[i]] /\ LastStep(r) = w[n]
      /\ i < n => /\ Head(Tail(r)) = [engine |-> e, step |-> w[i + 1]]
                  /\ LastStep(Tail(r)) = w[n]
  BY <1>2, <1>3, <1>4, <1>7 DEF LastStep
<1>9. \/ e = "lbr" /\ w = <<"insert", "load", "read", "set">> /\ n = 4
      \/ e = "lbr" /\ w = <<"read", "clear", "save", "remove">> /\ n = 4
      \/ e = "lbr" /\ w = <<"read", "clear", "save", "load", "read", "set">> /\ n = 6
      \/ e = "bts" /\ w = <<"insert", "put">> /\ n = 2
      \/ e = "bts" /\ w = <<"get", "remove">> /\ n = 2
      \/ e = "bts" /\ w = <<"get", "put">> /\ n = 2
      \/ e = "bts" /\ w = <<"copy">> /\ n = 1
  BY DEF Engine, Operation, Steps, w, n
<1>10. StepOfEngine(Head(r)) /\ RemovesAtLast(r)
  BY <1>3, <1>8, <1>9 DEF StepOfEngine, RemovesAtLast, Engine
<1>11. Follows(r)
  <2>1. CASE i = n
    BY <1>3, <1>7, <1>8, <1>9, <2>1 DEF Follows
  <2>2. CASE i < n
    BY <1>3, <1>7, <1>8, <1>9, <2>2 DEF Follows
  <2>3. QED
    BY <1>2, <1>3, <2>1, <2>2
<1>12. QED
  BY <1>6, <1>8, <1>10, <1>11

\* An operation at its beginning.
LEMMA ProgramBegins ==
    ASSUME NEW e \in Engine, NEW op \in Operation
    PROVE  /\ Program(e, op) \in Rests /\ Program(e, op) # <<>>
           /\ Head(Program(e, op)).engine = e
           /\ Head(Program(e, op)).step = "insert" <=> op = "enable"
           /\ Head(Program(e, op)).step \in {"insert", "read", "get", "copy"}
           /\ LastStep(Program(e, op)) = "remove" => op = "disable"
<1> DEFINE s == Program(e, op)
           w == Steps(e, op)
           n == Len(w)
<1>1. /\ s \in Seq(Entry) /\ Len(s) = n /\ n \in 1..6
      /\ \A j \in 1..n : s[j] = [engine |-> e, step |-> w[j]]
  BY ProgramIs
<1>2. s = From(s, 1)
  BY <1>1, SubSeqFull DEF From
<1> HIDE DEF s, w, n
<1>3. s \in Rests /\ s # <<>> /\ Head(s) = s[1] /\ s[Len(s)] = s[n]
  BY <1>1, <1>2, RestOf DEF Rests, s
<1>4. Head(s).engine = e /\ Head(s).step = w[1] /\ LastStep(s) = w[n]
  BY <1>1, <1>3 DEF LastStep
<1>5. /\ w[1] = "insert" <=> op = "enable"
      /\ w[1] \in {"insert", "read", "get", "copy"}
      /\ w[n] = "remove" => op = "disable"
  BY DEF Engine, Operation, Steps, w, n
<1>6. QED
  BY <1>3, <1>4, <1>5 DEF s

\* The rest of an operation that has ended.
LEMMA EmptyRest == <<>> \in Rests
<1> DEFINE s == Program("bts", "dump")
<1>1. "bts" \in Engine /\ "dump" \in Operation /\ Len(Steps("bts", "dump")) = 1
  BY DEF Engine, Operation, Steps
<1>2. s \in Seq(Entry) /\ Len(s) = 1
  BY <1>1, ProgramIs
<1>3. s \in Rests /\ s # <<>>
  BY <1>1, ProgramBegins
<1>4. Tail(s) \in Rests
  BY <1>3, RestFacts
<1> HIDE DEF s
<1>5. Tail(s) \in Seq(Entry) /\ Len(Tail(s)) = 0
  BY <1>2, <1>3, HeadTailProperties
<1>6. Tail(s) = <<>>
  BY <1>5, EmptySeq
<1>7. QED
  BY <1>4, <1>6

\* The handler, step by step.
SwitchStepOf(e, step) == [engine |-> e, step |-> step]
LEMMA SwitchingIs ==
    /\ Switching \in Seq(Entry) /\ Len(Switching) = 4
    /\ Switching[1] = SwitchStepOf("lbr", "find") /\ Switching[2] = SwitchStepOf("lbr", "switch")
    /\ Switching[3] = SwitchStepOf("bts", "find") /\ Switching[4] = SwitchStepOf("bts", "switch")
BY DEF Switching, Handler, SwitchStepOf, Entry, Engine, StepNames

HandlerRests == {From(Switching, i) : i \in 1..5}

LEMMA HandlerFacts ==
    /\ <<>> \in HandlerRests
    /\ Switching \in HandlerRests /\ Switching # <<>>
    /\ Head(Switching) = SwitchStepOf("lbr", "find")
    /\ \A r \in HandlerRests : r # <<>> =>
          /\ Tail(r) \in HandlerRests
          /\ \/ /\ Head(r) = SwitchStepOf("lbr", "find")
                /\ Tail(r) # <<>> /\ Head(Tail(r)) = SwitchStepOf("lbr", "switch")
             \/ /\ Head(r) = SwitchStepOf("lbr", "switch")
                /\ Tail(r) # <<>> /\ Head(Tail(r)) = SwitchStepOf("bts", "find")
             \/ /\ Head(r) = SwitchStepOf("bts", "find")
                /\ Tail(r) # <<>> /\ Head(Tail(r)) = SwitchStepOf("bts", "switch")
             \/ Head(r) = SwitchStepOf("bts", "switch") /\ Tail(r) = <<>>
<1> DEFINE s == Switching
<1>1. /\ s \in Seq(Entry) /\ Len(s) = 4
      /\ s[1] = SwitchStepOf("lbr", "find") /\ s[2] = SwitchStepOf("lbr", "switch")
      /\ s[3] = SwitchStepOf("bts", "find") /\ s[4] = SwitchStepOf("bts", "switch")
  BY SwitchingIs
<1> HIDE DEF s
<1>2. From(s, 1) = s
  BY <1>1, SubSeqFull DEF From
<1>3. From(s, 5) = <<>>
  <2>1. 5 \in Nat \ {0} /\ 5 > Len(s)
    BY <1>1
  <2>2. QED
    BY <1>1, <2>1, RestOf
<1>4. ASSUME NEW i \in 1..4
      PROVE  /\ From(s, i) # <<>> /\ Head(From(s, i)) = s[i]
             /\ Tail(From(s, i)) = From(s, i + 1)
  <2>1. i \in Nat \ {0} /\ i <= Len(s)
    BY <1>1
  <2>2. QED
    BY <1>1, <2>1, RestOf
<1>5. /\ Head(From(s, 1)) = s[1] /\ Tail(From(s, 1)) = From(s, 2)
      /\ Head(From(s, 2)) = s[2] /\ Tail(From(s, 2)) = From(s, 3)
      /\ Head(From(s, 3)) = s[3] /\ Tail(From(s, 3)) = From(s, 4)
      /\ Head(From(s, 4)) = s[4] /\ Tail(From(s, 4)) = From(s, 5)
      /\ From(s, 1) # <<>> /\ From(s, 2) # <<>> /\ From(s, 3) # <<>> /\ From(s, 4) # <<>>
  <2>1. 1 + 1 = 2 /\ 2 + 1 = 3 /\ 3 + 1 = 4 /\ 4 + 1 = 5
    OBVIOUS
  <2>2. 1 \in 1..4 /\ 2 \in 1..4 /\ 3 \in 1..4 /\ 4 \in 1..4
    OBVIOUS
  <2>3. QED
    BY <1>4, <2>1, <2>2
<1>6. HandlerRests = {From(s, 1), From(s, 2), From(s, 3), From(s, 4), From(s, 5)}
  BY DEF HandlerRests, s
<1>7. QED
  BY <1>1, <1>2, <1>3, <1>5, <1>6 DEF s

----------------------------------------------------------------------------
(* Type correctness.                                                       *)

LEMMA RequestIs ==
    ASSUME NEW cmd \in Nat, Request(cmd).op # "invalid"
    PROVE  /\ Request(cmd).engine \in Engine /\ Request(cmd).op \in Operation
           /\ Request(cmd).op = "disable" => cmd \in {2, 7}
BY DEF Request, Engine, Operation

\* One step of an operation.
LEMMA DoesEffect ==
    ASSUME TypeOK, NEW c \in CPU, NEW p \in Pid, NEW e, NEW step, Does(c, p, e, step)
    PROVE  /\ Executes(c, p) /\ pc[p] # <<>> /\ pc[p] \in Rests
           /\ NextOf(p).engine = e /\ NextOf(p).step = step
           /\ pc'[p] = Tail(pc[p]) /\ pc' \in [Pid -> Rests]
           /\ \A x \in Pid : x # p => pc'[x] = pc[x]
           /\ Follows(pc[p]) /\ StepOfEngine(NextOf(p)) /\ RemovesAtLast(pc[p])
           /\ UNCHANGED <<processor, preempt, module, swtch, exited>>
<1>1. pc[p] \in Rests /\ pc[p] # <<>> /\ Head(pc[p]) = [engine |-> e, step |-> step]
  BY DEF TypeOK, Does
<1>2. Tail(pc[p]) \in Rests /\ Follows(pc[p]) /\ StepOfEngine(NextOf(p)) /\ RemovesAtLast(pc[p])
  BY <1>1, RestFacts DEF NextOf
<1>3. QED
  BY <1>1, <1>2 DEF Does, TypeOK, NextOf

\* One step of the handler.
LEMMA HandlesEffect ==
    ASSUME TypeOK, NEW c \in CPU, NEW e, NEW step, Handles(c, e, step)
    PROVE  /\ fault = "none" /\ at[c] # <<>> /\ at[c] \in HandlerRests
           /\ Head(at[c]) = SwitchStepOf(e, step)
           /\ at'[c] = Tail(at[c]) /\ at' \in [CPU -> HandlerRests]
           /\ run' \in [CPU -> Task] /\ next_task' \in [CPU -> Task]
           /\ \A x \in CPU : x # c => at'[x] = at[x] /\ run'[x] = run[x]
                                      /\ next_task'[x] = next_task[x]
           /\ at'[c] # <<>> => run'[c] = run[c] /\ next_task'[c] = next_task[c]
           /\ at'[c] = <<>> => run'[c] = next_task[c] /\ next_task'[c] = NoPid
           /\ UNCHANGED <<processor, preempt, module, table, procs>>
<1>1. at \in [CPU -> HandlerRests] /\ at[c] # <<>>
  BY DEF TypeOK, HandlerRests, Handles
<1>2. Tail(at[c]) \in HandlerRests
  BY <1>1, HandlerFacts
<1>3. /\ at' = [at EXCEPT ![c] = Tail(at[c])]
      /\ \/ at'[c] # <<>> /\ UNCHANGED <<run, next_task>>
         \/ /\ at'[c] = <<>> /\ run' = [run EXCEPT ![c] = next_task[c]]
            /\ next_task' = [next_task EXCEPT ![c] = NoPid]
  BY DEF Handles
<1>4. run \in [CPU -> Task] /\ next_task \in [CPU -> Task] /\ NoPid \in Task
  BY DEF TypeOK, Task
<1>5. /\ at'[c] = Tail(at[c]) /\ at' \in [CPU -> HandlerRests]
      /\ \A x \in CPU : x # c => at'[x] = at[x]
  BY <1>1, <1>2, <1>3
<1>6. QED
  BY <1>1, <1>3, <1>4, <1>5 DEF Handles, SwitchStepOf

\* The same, field by field.
LEMMA HandlerFields ==
    ASSUME NEW r \in HandlerRests, r # <<>>
    PROVE  /\ Tail(r) \in HandlerRests
           /\ Head(r).engine \in Engine /\ Head(r).step \in {"find", "switch"}
           /\ Head(r) = SwitchStepOf(Head(r).engine, Head(r).step)
           /\ Head(r).step = "find" =>
                 /\ Tail(r) # <<>> /\ Head(Tail(r)).step = "switch"
                 /\ Head(Tail(r)).engine = Head(r).engine
           /\ Head(r) = SwitchStepOf("lbr", "switch") =>
                 /\ Tail(r) # <<>> /\ Head(Tail(r)).step = "find"
                 /\ Head(Tail(r)).engine = "bts"
           /\ Head(r) = SwitchStepOf("bts", "switch") => Tail(r) = <<>>
<1>1. \A e, s : SwitchStepOf(e, s).engine = e /\ SwitchStepOf(e, s).step = s
  BY DEF SwitchStepOf
<1>2. "lbr" \in Engine /\ "bts" \in Engine
  BY DEF Engine
<1> HIDE DEF SwitchStepOf
<1>3. QED
  BY <1>1, <1>2, HandlerFacts

LEMMA CapacityKnown ==
    ASSUME NEW eax \in Nat
    PROVE  Capacity(eax) \in {0, 4, 8, 16, 32}
BY DEF Capacity

LEMMA InitTypes == Init => InvType
<1> SUFFICES ASSUME Init PROVE InvType
  OBVIOUS
<1>1. <<>> \in Rests
  BY EmptyRest
<1>2. <<>> \in {From(Switching, i) : i \in 1..5}
  BY HandlerFacts DEF HandlerRests
<1>3. QED
  BY <1>1, <1>2 DEF Init, InvType, TypeOK, FlushPhase, Task

LEMMA LoaderTypes ==
    ASSUME InvType, CreateEntry \/ LoaderStep \/ Unload
    PROVE  InvType'
<1> USE DEF InvType, FlushPhase, module, msrs, swtch, procs
<1>1. CASE CreateEntry
  BY <1>1 DEF TypeOK, CreateEntry, Loader, Loading, Unloading, Flushing
<1>2. CASE RegisterTracepoints \/ UnregisterTracepoints
  BY <1>2 DEF TypeOK, RegisterTracepoints, UnregisterTracepoints, Loader, Loading, Unloading,
     Flushing
<1>3. CASE LbrInit \/ BtsInit
  <2>1. processor.eax \in Nat /\ Capacity(processor.eax) \in {0, 4, 8, 16, 32}
    BY CapacityKnown DEF TypeOK
  <2>2. CASE LbrInit
    BY <2>1, <2>2 DEF TypeOK, LbrInit, HeadInitialised, Loader, Loading, Unloading, Flushing, Engine
  <2>3. CASE BtsInit
    BY <2>3 DEF TypeOK, BtsInit, HeadInitialised, Loader, Loading, Unloading, Flushing, Engine
  <2>4. QED
    BY <1>3, <2>2, <2>3
<1>4. CASE FreeStates
  BY <1>4 DEF TypeOK, FreeStates, FreeAll, Loader, Loading, Unloading, Flushing, Engine
<1>5. CASE RemoveEntry \/ Rundown
  BY <1>5 DEF TypeOK, RemoveEntry, Rundown, Loader, Loading, Unloading, Flushing
<1>6. CASE Unload
  BY <1>6 DEF TypeOK, Unload, Loader, Loading, Unloading, Flushing
<1>7. QED
  BY <1>1, <1>2, <1>3, <1>4, <1>5, <1>6 DEF LoaderStep

LEMMA CoreTypes ==
    ASSUME InvType, NEW c \in CPU,
           Flush(c) \/ SwitchStep(c) \/ \E n \in Task : SwitchTo(c, n)
    PROVE  InvType'
<1> USE DEF InvType, FlushPhase, module, msrs, swtch, procs
<1>1. CASE Flush(c)
  BY <1>1 DEF TypeOK, Flush, Stop, LeftUnflushed, Flushing, Loading, Unloading, Task
<1>2. CASE SwitchFind(c)
  <2>1. PICK e \in Engine : Handles(c, e, "find") /\ SwitchFind(c)!(e)
    BY <1>2 DEF SwitchFind
  <2>2. QED
    BY <2>1, HandlesEffect DEF TypeOK, HandlerRests
<1>3. CASE SwitchRegisters(c)
  BY <1>3, HandlesEffect DEF TypeOK, SwitchRegisters, HandlerRests, Task
<1>4. CASE \E n \in Task : SwitchTo(c, n)
  <2>1. PICK n \in Task : SwitchTo(c, n)
    BY <1>4
  <2>2. /\ UNCHANGED <<processor, preempt, module, table, msrs, found, procs, fault>>
        /\ \/ /\ at' = [at EXCEPT ![c] = Switching] /\ UNCHANGED run
              /\ next_task' = [next_task EXCEPT ![c] = n]
           \/ run' = [run EXCEPT ![c] = n] /\ UNCHANGED <<at, next_task>>
    BY <2>1 DEF SwitchTo
  <2>3. at \in [CPU -> HandlerRests] => at' \in [CPU -> HandlerRests]
    BY <2>2, HandlerFacts
  <2>4. QED
    BY <2>2, <2>3 DEF TypeOK, HandlerRests
<1>5. QED
  BY <1>1, <1>2, <1>3, <1>4 DEF SwitchStep

LEMMA ProcTypes ==
    ASSUME InvType, NEW c \in CPU, NEW p \in Pid, ProcStep(c, p)
    PROVE  InvType'
<1> USE DEF InvType, FlushPhase, module, msrs, swtch, procs
<1>1. ASSUME NEW cmd \in Cmds[<<processor, preempt>>], Ioctl(c, p, cmd)  PROVE InvType'
  <2>1. cmd \in Nat
    BY UsersAssumption DEF TypeOK
  <2>2. Program(Request(cmd).engine, Request(cmd).op) \in Rests
    BY <1>1, <2>1, RequestIs, ProgramBegins DEF Ioctl
  <2>3. QED
    BY <1>1, <2>2 DEF TypeOK, Ioctl
<1>2. CASE Insert(c, p)
  <2>1. PICK e \in Engine : Does(c, p, e, "insert") /\ Insert(c, p)!(e)
    BY <1>2 DEF Insert
  <2>2. table' \in [Engine -> SUBSET Pid] /\ fault' \in {"none", "null", "freed"}
    BY <2>1 DEF TypeOK
  <2>3. QED
    BY <2>1, <2>2, DoesEffect DEF TypeOK
<1>3. CASE CreateFails(c, p)
  <2>1. <<>> \in Rests
    BY EmptyRest
  <2>2. QED
    BY <1>3, <2>1 DEF TypeOK, CreateFails
<1>4. CASE ReadDebugctl(c, p)
  BY <1>4, DoesEffect DEF TypeOK, ReadDebugctl
<1>5. CASE WriteDebugctl(c, p)
  <2>1. PICK step \in {"clear", "set"} : Does(c, p, "lbr", step)
    BY <1>5 DEF WriteDebugctl
  <2>2. debugctl' \in [CPU -> SUBSET Engine] /\ dbgctlmsr' \in [Pid -> SUBSET Engine]
    BY <1>5 DEF WriteDebugctl, TypeOK, WithoutLbr, WithLbr, Engine
  <2>3. QED
    BY <1>5, <2>1, <2>2, DoesEffect DEF TypeOK, WriteDebugctl
<1>6. CASE CopyRecords(c, p)
  BY <1>6, DoesEffect DEF TypeOK, CopyRecords, UseState
<1>7. CASE SwitchBts(c, p)
  <2>1. PICK step \in {"get", "put"} : Does(c, p, "bts", step)
    BY <1>7 DEF SwitchBts
  <2>2. debugctl' \in [CPU -> SUBSET Engine] /\ ds_area' \in [CPU -> Task]
    BY <1>7 DEF SwitchBts, TypeOK, Stop, Start, Engine, Task
  <2>3. QED
    BY <1>7, <2>1, <2>2, DoesEffect DEF TypeOK, SwitchBts, UseState
<1>8. CASE Remove(c, p)
  BY <1>8, DoesEffect DEF TypeOK, Remove, UseState
<1>9. CASE Exit(c, p)
  BY <1>9 DEF TypeOK, Exit
<1>10. QED
  BY <1>1, <1>2, <1>3, <1>4, <1>5, <1>6, <1>7, <1>8, <1>9 DEF ProcStep, Proceeds

LEMMA NextTypes == InvType /\ [Next]_vars => InvType'
<1>1. InvType /\ UNCHANGED vars => InvType'
  BY DEF InvType, TypeOK, FlushPhase, vars, module, msrs, swtch, procs
<1>2. QED
  BY <1>1, LoaderTypes, CoreTypes, ProcTypes DEF Next

\* TypeCorrect: every reachable state is well typed, whoever sends requests
\* when; in particular a flush is in progress only in a step of insmod or rmmod
\* that waits for one (libiht_lkm.c: libiht_lkm_init, libiht_lkm_exit).
THEOREM TypeCorrect == Spec => [](TypeOK /\ FlushPhase)
<1>1. Spec => []InvType
  BY InitTypes, NextTypes, PTL DEF Spec
<1>2. QED
  BY <1>1 DEF InvType

----------------------------------------------------------------------------
(* The module, its list heads and its end.                                 *)

\* What does not concern the module itself.
LEMMA SameModule ==
    ASSUME InvModule, InvType', UNCHANGED <<processor, loader, proc_entry, probe, ready>>,
           loader = "out" => pc' = pc /\ at' = at
    PROVE  InvModule'
BY DEF InvModule, Gone, HeadsReady, Uninitialised

LEMMA LoaderModule ==
    ASSUME InvModule, InvType', CreateEntry \/ LoaderStep \/ Unload
    PROVE  InvModule'
<1> USE DEF InvModule
<1>1. /\ UNCHANGED <<processor, swtch, procs>>
      /\ proc_entry' = IF CreateEntry THEN loader' = "register"
                       ELSE IF RemoveEntry THEN FALSE ELSE proc_entry
  BY DEF CreateEntry, LoaderStep, RegisterTracepoints, LbrInit, BtsInit, FreeStates, Loader,
     UnregisterTracepoints, RemoveEntry, Rundown, Unload
<1>2. Gone'
  <2>1. CASE CreateEntry
    BY <2>1 DEF CreateEntry, Loader, Gone, swtch, procs
  <2>2. CASE RegisterTracepoints
    BY <2>2 DEF RegisterTracepoints, Loader, Gone
  <2>3. CASE LbrInit
    BY <2>3 DEF LbrInit, Loader, Gone
  <2>4. CASE BtsInit
    BY <2>4 DEF BtsInit, Loader, Gone
  <2>5. CASE FreeStates
    BY <2>5 DEF FreeStates, Loader, Gone
  <2>6. CASE UnregisterTracepoints
    BY <2>6 DEF UnregisterTracepoints, Loader, Gone
  <2>7. CASE RemoveEntry
    BY <2>7 DEF RemoveEntry, Loader, Gone
  <2>8. CASE Rundown
    <3>1. /\ loader' = "out" /\ loader = "rundown" /\ probe' = probe /\ proc_entry' = proc_entry
          /\ pc' = pc /\ at' = at
      BY <2>8 DEF Rundown, Loader, swtch, procs
    <3>2. (\A p \in Pid : pc[p] = <<>>) /\ \A c \in CPU : at[c] = <<>>
      BY <2>8 DEF Rundown
    <3>3. ~proc_entry'
      BY <3>1 DEF Gone
    <3>4. QED
      BY <3>1, <3>2, <3>3 DEF Gone
  <2>9. CASE Unload
    BY <2>9 DEF Unload, Loader, Gone
  <2>10. QED
    BY <2>1, <2>2, <2>3, <2>4, <2>5, <2>6, <2>7, <2>8, <2>9 DEF LoaderStep
<1>3. CASE LbrInit
  <2>1. \/ ~Has(processor, "lbr") /\ loader' = "bts_init" /\ ready' = ready
        \/ Has(processor, "lbr") /\ loader' = "lbr_flush" /\ ready' = ready \cup {"lbr"}
    BY <1>3 DEF LbrInit, HeadInitialised, Has, Loader
  <2>2. loader = "lbr_init"
    BY <1>3 DEF LbrInit, Loader
  <2>3. ready = {} /\ ready' = {e \in Engine : e = "lbr" /\ Has(processor, e)}
    BY <2>1, <2>2 DEF HeadsReady, Uninitialised, Engine
  <2>4. HeadsReady'
    BY <1>1, <2>1, <2>3 DEF HeadsReady, Uninitialised, Engine
  <2>5. QED
    BY <1>2, <2>4
<1>4. CASE BtsInit
  <2>1. /\ loader = "bts_init" /\ loader' \in {"bts_flush", "in"}
        /\ ready' = IF Has(processor, "bts") THEN ready \cup {"bts"} ELSE ready
    BY <1>4 DEF BtsInit, HeadInitialised, Has, BtsAvailable, Loader
  <2>2. HeadsReady'
    BY <1>1, <2>1 DEF HeadsReady, Uninitialised, Engine
  <2>3. QED
    BY <1>2, <2>2
<1>5. CASE CreateEntry \/ RegisterTracepoints
  <2>1. ready' = ready /\ loader \in {"out", "register"} /\ loader' \in {"out", "register", "lbr_init"}
    BY <1>5 DEF CreateEntry, RegisterTracepoints, Loader
  <2>2. HeadsReady'
    BY <1>1, <2>1 DEF HeadsReady, Uninitialised
  <2>3. QED
    BY <1>2, <2>2
<1>6. CASE Unload \/ FreeStates \/ UnregisterTracepoints \/ RemoveEntry
  <2>1. ready' = ready /\ {loader, loader'} \subseteq {"in"} \cup Unloading
    BY <1>6 DEF Unload, FreeStates, UnregisterTracepoints, RemoveEntry, Loader, Unloading
  <2>2. HeadsReady'
    BY <1>1, <2>1 DEF HeadsReady, Uninitialised, Unloading
  <2>3. QED
    BY <1>2, <2>2
<1>7. CASE Rundown
  BY <1>1, <1>2, <1>7 DEF Rundown, Loader, HeadsReady, Uninitialised
<1>8. QED
  BY <1>3, <1>4, <1>5, <1>6, <1>7 DEF LoaderStep

LEMMA CoreModule ==
    ASSUME InvModule, InvType', NEW c \in CPU,
           Flush(c) \/ SwitchStep(c) \/ \E n \in Task : SwitchTo(c, n)
    PROVE  InvModule'
<1> USE DEF InvModule
<1>1. CASE Flush(c)
  <2>1. /\ UNCHANGED <<processor, probe, proc_entry, ready, swtch, procs>>
        /\ \/ loader' = loader
           \/ loader = "lbr_flush" /\ loader' = "bts_init"
           \/ loader = "bts_flush" /\ loader' = "in"
           \/ loader = "bts_exit" /\ loader' = "bts_free"
           \/ loader = "lbr_exit" /\ loader' = "lbr_free"
    BY <1>1 DEF InvType, Flush, FlushPhase, Flushing
  <2>2. Gone'
    BY <2>1 DEF Gone, swtch, procs
  <2>3. HeadsReady'
    BY <2>1 DEF HeadsReady, Uninitialised
  <2>4. QED
    BY <2>2, <2>3
<1>2. CASE SwitchStep(c) \/ \E n \in Task : SwitchTo(c, n)
  <2>1. loader = "out" => ~probe /\ at[c] = <<>>
    BY DEF Gone
  <2>2. /\ UNCHANGED <<processor, module, pc>>
        /\ (~probe /\ at[c] = <<>>) => at' = at
    BY <1>2 DEF SwitchStep, SwitchFind, SwitchRegisters, Handles, SwitchTo, procs
  <2>3. QED
    BY <2>1, <2>2, SameModule DEF module
<1>3. QED
  BY <1>1, <1>2

LEMMA ProcModule ==
    ASSUME InvModule, InvType', NEW c \in CPU, NEW p \in Pid, ProcStep(c, p)
    PROVE  InvModule'
<1>1. UNCHANGED <<processor, module, at>>
  BY DEF ProcStep, Proceeds, Ioctl, Does, Insert, CreateFails, ReadDebugctl, WriteDebugctl,
     CopyRecords, SwitchBts, Remove, Exit, swtch
<1>2. loader = "out" => ~proc_entry /\ pc[p] = <<>>
  BY DEF InvModule, Gone
<1>3. (~proc_entry /\ pc[p] = <<>>) => pc' = pc
  BY DEF ProcStep, Proceeds, Ioctl, Does, Insert, CreateFails, ReadDebugctl, WriteDebugctl,
     CopyRecords, SwitchBts, Remove, Exit
<1>4. QED
  BY <1>1, <1>2, <1>3, SameModule DEF module

LEMMA InitModule == Init => InvModule
<1> SUFFICES ASSUME Init PROVE InvModule
  OBVIOUS
<1>1. Gone /\ HeadsReady
  BY DEF Init, Gone, HeadsReady, Uninitialised
<1>2. QED
  BY <1>1, InitTypes DEF InvModule

LEMMA NextModule == InvModule /\ [Next]_vars => InvModule'
<1>1. InvModule /\ UNCHANGED vars => InvModule'
  <2> SUFFICES ASSUME InvModule, UNCHANGED vars PROVE InvModule'
    OBVIOUS
  <2>1. InvType'
    BY NextTypes DEF InvModule
  <2>2. QED
    BY <2>1, SameModule DEF vars, module, swtch, procs
<1>2. InvModule /\ Next => InvModule'
  <2> SUFFICES ASSUME InvModule, Next PROVE InvModule'
    OBVIOUS
  <2>1. InvType'
    BY NextTypes DEF InvModule
  <2>2. QED
    BY <2>1, LoaderModule, CoreModule, ProcModule DEF Next
<1>3. QED
  BY <1>1, <1>2

----------------------------------------------------------------------------
(* Pointers to states stay good.                                           *)

LEMMA TracedIsTask ==
    ASSUME TypeOK
    PROVE  /\ \A e \in Engine : \A x : x \in table[e] => x \in Pid /\ Traced(x)
           /\ \A x : Traced(x) <=> x \in table["lbr"] \/ x \in table["bts"]
           /\ "lbr" \in Engine /\ "bts" \in Engine
           /\ at \in [CPU -> HandlerRests]
BY DEF TypeOK, Traced, Engine, HandlerRests

LEMMA FoundStays ==
    ASSUME NEW c \in CPU, FoundRight(c), table' = table, at'[c] = at[c], found'[c] = found[c],
           run'[c] = run[c], next_task'[c] = next_task[c]
    PROVE  FoundRight(c)'
<1>1. \A w : Party(c, w)' = Party(c, w)
  BY DEF Party
<1>2. QED
  BY <1>1 DEF FoundRight

LEMMA EnginesOfOperations ==
    ASSUME TypeOK, NEW x \in Pid, pc[x] # <<>>
    PROVE  Head(pc[x]).engine \in Engine
BY RestFacts DEF TypeOK, StepOfEngine

\* Insmod and rmmod.  The only step during which a request can be under way is
\* bts_init, and it is one for the LBR.
LEMMA LoaderInv ==
    ASSUME Orderly, Inv, CreateEntry \/ LoaderStep \/ Unload
    PROVE  Inv'
<1> USE DEF Inv, InvModule, InvType
<1>1. InvType'
  BY LoaderTypes
<1>2. UNCHANGED <<swtch, procs, fault>> /\ \A x : OnCore(x)' <=> OnCore(x)
  <2>1. UNCHANGED <<swtch, procs, fault>>
    BY DEF CreateEntry, LoaderStep, RegisterTracepoints, LbrInit, BtsInit, FreeStates,
       UnregisterTracepoints, RemoveEntry, Rundown, Unload
  <2>2. QED
    BY <2>1 DEF OnCore, swtch
<1>3. ASSUME NEW p \in Pid, pc[p] # <<>>
      PROVE  /\ Head(pc[p]).engine = "lbr" /\ loader = "bts_init"
             /\ loader' \in {"bts_flush", "in"} /\ ready \subseteq ready'
  <2>1. Head(pc[p]).engine \in Engine /\ loader \in Usable[Head(pc[p]).engine]
    BY <1>3, EnginesOfOperations DEF Phases
  <2>2. loader \in {"lbr_flush", "bts_init", "bts_flush", "in"}
    BY <2>1 DEF Usable, Engine
  <2>3. BtsInit
    BY <1>3, <2>2 DEF CreateEntry, LoaderStep, RegisterTracepoints, LbrInit, FreeStates,
       UnregisterTracepoints, RemoveEntry, Rundown, Unload, Loader, Orderly
  <2>4. QED
    BY <2>1, <2>3 DEF BtsInit, HeadInitialised, Loader, Usable, Engine
<1>4. OnePlace' /\ NoFault'
  BY <1>2 DEF OnePlace, NoFault, swtch
<1>5. \A p \in Pid : pc'[p] # <<>> => table' = table
  BY <1>2, <1>3 DEF CreateEntry, LoaderStep, RegisterTracepoints, LbrInit, BtsInit, FreeStates,
     UnregisterTracepoints, RemoveEntry, Rundown, Unload, Loader, procs
<1>6. StatesHeld'
  BY <1>2, <1>3, <1>5 DEF StatesHeld, NextOf, procs
<1>7. \/ UNCHANGED table
      \/ /\ loader \in Unloading
         /\ \/ /\ loader = "bts_free" /\ loader' = "lbr_exit"
               /\ table' = [table EXCEPT !["bts"] = {}]
            \/ /\ loader = "lbr_free" /\ loader' = "unregister"
               /\ table' = [table EXCEPT !["lbr"] = {}]
  <2>1. loader = "out" => table = [e \in Engine |-> {}]
    BY DEF Phases, Usable, Engine, TypeOK
  <2>2. QED
    BY <2>1 DEF CreateEntry, LoaderStep, RegisterTracepoints, LbrInit, BtsInit, FreeStates, FreeAll,
       UnregisterTracepoints, RemoveEntry, Rundown, Unload, Loader, Unloading
<1>8. \A e \in Engine : table'[e] \subseteq table[e]
  BY <1>7 DEF TypeOK
<1>9. Phases'
  <2>1. /\ table'["bts"] # {} => loader' \in Usable["bts"] \cup {"bts_exit", "bts_free"}
        /\ table'["lbr"] # {} =>
              loader' \in Usable["lbr"] \cup {"bts_exit", "bts_free", "lbr_exit", "lbr_free"}
    <3>1. CASE UNCHANGED table
      BY <3>1 DEF CreateEntry, LoaderStep, RegisterTracepoints, LbrInit, BtsInit, FreeStates,
         UnregisterTracepoints, RemoveEntry, Rundown, Unload, Loader, Phases, FreeAll, TypeOK,
         Engine, Usable
    <3>2. CASE ~UNCHANGED table
      BY <1>7, <3>2 DEF Phases, TypeOK, Engine, Usable
    <3>3. QED
      BY <3>1, <3>2
  <2>2. \A p \in Pid : pc'[p] # <<>> => loader' \in Usable[Head(pc'[p]).engine]
    BY <1>2, <1>3 DEF procs, Usable, Engine
  <2>3. ASSUME loader' \in Unloading, NEW p \in Pid, Traced(p)'
        PROVE  p \in exited' /\ ~OnCore(p)'
    <3>1. Traced(p)
      BY <1>8, <2>3 DEF Traced
    <3>2. loader \in Unloading \/ Unload
      BY <2>3 DEF CreateEntry, LoaderStep, RegisterTracepoints, LbrInit, BtsInit, FreeStates,
         UnregisterTracepoints, RemoveEntry, Rundown, Unload, Loader, Unloading
    <3>3. p \in exited /\ ~OnCore(p)
      BY <3>1, <3>2 DEF Phases, Unload, Orderly
    <3>4. QED
      BY <1>2, <3>3 DEF procs
  <2>4. QED
    BY <2>1, <2>2, <2>3 DEF Phases
<1>10. ASSUME NEW c \in CPU  PROVE FoundRight(c)'
  <2>1. FoundRight(c)
    BY DEF Findings
  <2>2. CASE UNCHANGED table
    BY <1>2, <2>1, <2>2, FoundStays DEF swtch
  <2>3. CASE ~UNCHANGED table /\ at[c] # <<>>
    <3>1. ASSUME NEW w \in {"prev", "next"}, NEW e \in Engine  PROVE Party(c, w) \notin table[e]
      BY <1>7, <2>3, TracedIsTask DEF Phases, Party, OnCore
    <3>2. Head(at[c]).engine \in Engine
      BY <2>3, TracedIsTask, HandlerFields
    <3>3. \A w \in {"prev", "next"} : Party(c, w)' = Party(c, w)
      BY <1>2 DEF Party, swtch
    <3>4. QED
      BY <1>2, <1>8, <2>1, <2>3, <3>1, <3>2, <3>3 DEF FoundRight, swtch
  <2>4. CASE at[c] = <<>>
    BY <1>2, <2>1, <2>4 DEF FoundRight, swtch
  <2>5. QED
    BY <2>2, <2>3, <2>4
<1>11. InvModule'
  BY <1>1, LoaderModule
<1>12. QED
  BY <1>4, <1>6, <1>9, <1>10, <1>11 DEF Findings

\* The interrupt of a flush.
LEMMA FlushInv ==
    ASSUME Inv, NEW c \in CPU, Flush(c)
    PROVE  Inv'
<1> USE DEF Inv, InvModule, InvType
<1>1. InvType'
  BY CoreTypes
<1>2. /\ UNCHANGED <<probe, proc_entry, table, swtch, procs, fault, ready>>
      /\ loader \in Flushing
      /\ \/ loader' = loader
         \/ loader = "lbr_flush" /\ loader' = "bts_init"
         \/ loader = "bts_flush" /\ loader' = "in"
         \/ loader = "bts_exit" /\ loader' = "bts_free"
         \/ loader = "lbr_exit" /\ loader' = "lbr_free"
  BY DEF Flush, FlushPhase, Flushing
<1>3. \A x : (OnCore(x)' <=> OnCore(x)) /\ (Traced(x)' <=> Traced(x))
  BY <1>2 DEF OnCore, Traced, swtch
<1>4. Phases'
  <2>1. \A p \in Pid : pc[p] # <<>> => Head(pc[p]).engine \in Engine
    BY EnginesOfOperations
  <2>2. QED
    BY <1>2, <1>3, <2>1 DEF Phases, Flushing, Unloading, procs, Usable, Engine
<1>5. OnePlace' /\ StatesHeld' /\ NoFault'
  BY <1>2 DEF OnePlace, StatesHeld, NoFault, NextOf, swtch, procs
<1>6. Findings'
  BY <1>2, FoundStays DEF Findings, swtch
<1>7. InvModule'
  BY <1>1, CoreModule
<1>8. QED
  BY <1>4, <1>5, <1>6, <1>7

\* The scheduler.
LEMMA SwitchToInv ==
    ASSUME Inv, NEW c \in CPU, NEW n \in Task, SwitchTo(c, n)
    PROVE  Inv'
<1> USE DEF Inv, InvModule, InvType
<1>1. InvType'
  BY CoreTypes
<1>2. /\ UNCHANGED <<module, table, procs, fault, found, loader, ready>>
      /\ at[c] = <<>> /\ n # run[c]
      /\ n # NoPid => n \notin exited /\ ~OnCore(n)
      /\ \/ /\ at' = [at EXCEPT ![c] = Switching] /\ UNCHANGED run
            /\ next_task' = [next_task EXCEPT ![c] = n]
         \/ run' = [run EXCEPT ![c] = n] /\ UNCHANGED <<at, next_task>>
  BY DEF SwitchTo, module
<1>3. /\ run \in [CPU -> Task] /\ next_task \in [CPU -> Task] /\ at \in [CPU -> HandlerRests]
      /\ Switching # <<>> /\ Head(Switching) = SwitchStepOf("lbr", "find")
  BY TracedIsTask, HandlerFacts DEF TypeOK
<1>4. \A x : x # n => (OnCore(x)' => OnCore(x))
  BY <1>2, <1>3 DEF OnCore
<1>5. Phases'
  <2>1. \A p \in Pid : Traced(p)' = Traced(p) /\ (p \in exited => p # n \/ n = NoPid)
    BY <1>2 DEF Traced
  <2>2. QED
    BY <1>2, <1>4, <2>1 DEF Phases, module, procs
<1>6. OnePlace'
  BY <1>2, <1>3 DEF OnePlace, OnCore, Task
<1>7. StatesHeld' /\ NoFault'
  BY <1>2 DEF StatesHeld, NoFault, NextOf, module, procs
<1>8. Findings'
  <2>1. FoundRight(c)'
    <3>1. found'[c] = {}
      BY <1>2 DEF Findings, FoundRight
    <3>2. CASE at'[c] = Switching
      BY <1>3, <3>1, <3>2 DEF FoundRight, SwitchStepOf
    <3>3. CASE at'[c] = <<>>
      BY <3>1, <3>3 DEF FoundRight
    <3>4. QED
      BY <1>2, <1>3, <3>2, <3>3
  <2>2. ASSUME NEW x \in CPU, x # c  PROVE FoundRight(x)'
    BY <1>2, <1>3, <2>2, FoundStays DEF Findings
  <2>3. QED
    BY <2>1, <2>2 DEF Findings
<1>9. InvModule'
  BY <1>1, CoreModule
<1>10. QED
  BY <1>5, <1>6, <1>7, <1>8, <1>9

\* The handler.
LEMMA HandlerInv ==
    ASSUME Inv, NEW c \in CPU, SwitchStep(c)
    PROVE  Inv'
<1> USE DEF Inv, InvModule, InvType
<1>1. InvType'
  BY CoreTypes
<1>2. PICK e \in Engine, step \in {"find", "switch"} :
        /\ Handles(c, e, step)
        /\ step = "find" =>
              /\ found' = [found EXCEPT ![c] =
                              {w \in {"prev", "next"} : Party(c, w) \in table[e]}]
              /\ UNCHANGED fault
        /\ step = "switch" =>
              /\ found' = [found EXCEPT ![c] = {}]
              /\ fault' = IF \A w \in found[c] : Party(c, w) \in table[e] THEN fault ELSE "freed"
  BY DEF SwitchStep, SwitchFind, SwitchRegisters
<1>3. /\ at[c] # <<>> /\ at[c] \in HandlerRests /\ Head(at[c]) = SwitchStepOf(e, step)
      /\ at'[c] = Tail(at[c])
      /\ \A x \in CPU : x # c => at'[x] = at[x] /\ run'[x] = run[x]
                                 /\ next_task'[x] = next_task[x]
      /\ at'[c] # <<>> => run'[c] = run[c] /\ next_task'[c] = next_task[c]
      /\ at'[c] = <<>> => run'[c] = next_task[c]
      /\ UNCHANGED <<module, table, procs>>
  BY <1>2, HandlesEffect
<1>4. /\ Head(at[c]).engine = e /\ Head(at[c]).step = step
      /\ found \in [CPU -> SUBSET {"prev", "next"}] /\ FoundRight(c)
  BY <1>3 DEF SwitchStepOf, TypeOK, Findings
<1>5. NoFault'
  <2>1. ASSUME step = "switch", NEW w \in found[c]  PROVE Party(c, w) \in table[e]
    BY <1>3, <1>4, <2>1 DEF FoundRight
  <2>2. QED
    BY <1>2, <2>1 DEF NoFault
<1>6. OnePlace'
  <2>1. CASE at'[c] # <<>>
    <3>1. \A x \in CPU : /\ run'[x] = run[x] /\ next_task'[x] = next_task[x]
                         /\ at'[x] # <<>> => at[x] # <<>>
      BY <1>3, <2>1
    <3>2. QED
      BY <3>1 DEF OnePlace
  <2>2. CASE at'[c] = <<>>
    BY <1>3, <2>2 DEF OnePlace
  <2>3. QED
    BY <2>1, <2>2
<1>7. StatesHeld'
  BY <1>3 DEF StatesHeld, NextOf, module, procs
<1>8. Phases'
  <2>1. \A x : (OnCore(x)' => OnCore(x)) /\ Traced(x)' = Traced(x)
    BY <1>3 DEF OnCore, Traced
  <2>2. QED
    BY <1>3, <2>1 DEF Phases, module, procs
<1>9. Findings'
  <2>1. ASSUME NEW x \in CPU, x # c  PROVE FoundRight(x)'
    BY <1>2, <1>3, <2>1, FoundStays DEF Findings, TypeOK
  <2>2. CASE step = "find"
    <3>1. at'[c] # <<>> /\ Head(at'[c]).step = "switch" /\ Head(at'[c]).engine = e
      BY <1>3, <1>4, <2>2, HandlerFields
    <3>2. \A w : Party(c, w)' = Party(c, w)
      BY <1>3, <3>1 DEF Party
    <3>3. \A w \in {"prev", "next"} : w \in found'[c] <=> Party(c, w) \in table[e]
      BY <1>2, <1>4, <2>2
    <3>4. FoundRight(c)'
      BY <1>3, <3>1, <3>2, <3>3 DEF FoundRight
    <3>5. QED
      BY <2>1, <3>4 DEF Findings
  <2>3. CASE step = "switch"
    <3>1. at'[c] # <<>> => Head(at'[c]).step = "find"
      <4>1. at[c] # <<>> /\ at[c] \in HandlerRests /\ Head(at[c]) = SwitchStepOf(e, "switch")
        BY <1>3, <2>3
      <4>2. e \in Engine
        BY <1>3, <1>4, HandlerFields
      <4>3. CASE e = "lbr"
        BY <1>3, <4>1, <4>3, HandlerFields
      <4>4. CASE e = "bts"
        BY <1>3, <4>1, <4>4, HandlerFields
      <4>5. QED
        BY <4>2, <4>3, <4>4 DEF Engine
    <3>2. found'[c] = {}
      BY <1>2, <1>4, <2>3
    <3>3. FoundRight(c)'
      BY <3>1, <3>2 DEF FoundRight
    <3>4. QED
      BY <2>1, <3>3 DEF Findings
  <2>4. QED
    BY <2>2, <2>3
<1>10. InvModule'
  BY <1>1, CoreModule
<1>11. QED
  BY <1>5, <1>6, <1>7, <1>8, <1>9, <1>10

\* What a process' step does to the rest of the module, and what it has to
\* leave the process itself with.
LEMMA ProcessFrame ==
    ASSUME Inv, InvModule', NEW c \in CPU, NEW p \in Pid, Executes(c, p),
           UNCHANGED <<module, swtch>>, exited \subseteq exited', fault' = "none",
           \A x \in Pid : x # p => pc'[x] = pc[x],
           \A e \in Engine : \A x : x # p => (x \in table'[e] <=> x \in table[e]),
           \A e \in Engine : table'[e] = table[e] \/ loader \in Usable[e],
           pc'[p] # <<>> => loader \in Usable[Head(pc'[p]).engine],
           pc'[p] # <<>> =>
               IF Head(pc'[p]).step = "insert"
               THEN Head(pc'[p]).engine \in ready /\ p \notin table'[Head(pc'[p]).engine]
               ELSE p \in table'[Head(pc'[p]).engine],
           \A x \in Pid : (x # p /\ pc[x] # <<>>) => Head(pc[x]).engine \in Engine
    PROVE  Inv'
<1> USE DEF Inv, InvModule, InvType
<1>1. OnePlace' /\ NoFault' /\ \A x : OnCore(x)' <=> OnCore(x)
  BY DEF OnePlace, NoFault, OnCore, swtch
<1>2. StatesHeld'
  BY DEF StatesHeld, NextOf, module
<1>3. Phases'
  <2>1. /\ loader' = loader
        /\ \A x \in Pid : pc'[x] # <<>> => loader' \in Usable[Head(pc'[x]).engine]
    BY DEF Phases, module
  <2>2. /\ table'["bts"] # {} => loader' \in Usable["bts"] \cup {"bts_exit", "bts_free"}
        /\ table'["lbr"] # {} =>
              loader' \in Usable["lbr"] \cup {"bts_exit", "bts_free", "lbr_exit", "lbr_free"}
    BY <2>1 DEF Phases, Engine
  <2>3. ASSUME loader' \in Unloading, NEW x \in Pid, Traced(x)'
        PROVE  x \in exited' /\ ~OnCore(x)'
    <3>1. \A e \in Engine : table'[e] = table[e]
      BY <2>1, <2>3 DEF Usable, Unloading
    <3>2. Traced(x)
      BY <2>3, <3>1 DEF Traced
    <3>3. QED
      BY <1>1, <2>1, <2>3, <3>2 DEF Phases
  <2>4. QED
    BY <2>1, <2>2, <2>3 DEF Phases
<1>4. ASSUME NEW x \in CPU  PROVE FoundRight(x)'
  <2>1. FoundRight(x) /\ at'[x] = at[x] /\ found'[x] = found[x]
        /\ \A w : Party(x, w)' = Party(x, w)
    BY DEF Findings, Party, swtch
  <2>2. CASE at[x] # <<>>
    <3>1. ASSUME NEW w \in {"prev", "next"}  PROVE Party(x, w) # p
      <4>1. x # c /\ run[c] = p
        BY <2>2 DEF Executes
      <4>2. run[x] # p
        BY <4>1 DEF OnePlace
      <4>3. next_task[x] # p
        BY <2>2, <4>1 DEF OnePlace
      <4>4. QED
        BY <4>2, <4>3 DEF Party
    <3>2. Head(at[x]).engine \in Engine
      BY <2>2, TracedIsTask, HandlerFields
    <3>3. QED
      BY <2>1, <2>2, <3>1, <3>2 DEF FoundRight
  <2>3. CASE at[x] = <<>>
    BY <2>1, <2>3 DEF FoundRight
  <2>4. QED
    BY <2>2, <2>3
<1>5. QED
  BY <1>1, <1>2, <1>3, <1>4 DEF Findings

\* A step of an operation whose process has a state, or gets one, and keeps it.
LEMMA DoesInv ==
    ASSUME Inv, InvModule', NEW c \in CPU, NEW p \in Pid, NEW e \in Engine, NEW step,
           Does(c, p, e, step), step # "remove", fault' = "none",
           \A d \in Engine : \A x : x # p => (x \in table'[d] <=> x \in table[d]),
           \A d \in Engine : d # e => table'[d] = table[d],
           p \in table'[e]
    PROVE  Inv'
<1> USE DEF Inv, InvModule, InvType
<1>1. /\ Executes(c, p) /\ pc[p] # <<>> /\ Head(pc[p]).engine = e
      /\ pc'[p] = Tail(pc[p]) /\ \A x \in Pid : x # p => pc'[x] = pc[x]
      /\ Follows(pc[p]) /\ UNCHANGED <<module, swtch, exited>>
  BY DoesEffect DEF NextOf
<1>2. loader \in Usable[e]
  BY <1>1 DEF Phases
<1>3. pc'[p] # <<>> => Head(pc'[p]).step # "insert" /\ Head(pc'[p]).engine = e
  BY <1>1 DEF Follows
<1>4. QED
  BY <1>1, <1>2, <1>3, ProcessFrame, EnginesOfOperations

\* The ioctls.
LEMMA ProcInv ==
    ASSUME Orderly, EngineThere, Inv, NEW c \in CPU, NEW p \in Pid, ProcStep(c, p)
    PROVE  Inv'
<1> USE DEF Inv, InvModule, InvType
<1>1. InvModule'
  BY ProcTypes, ProcModule
<1>2. ASSUME NEW e, NEW step, Does(c, p, e, step)
      PROVE  /\ e \in Engine /\ Head(pc[p]).engine = e /\ Head(pc[p]).step = step
             /\ IF step = "insert" THEN e \in ready /\ p \notin table[e] ELSE p \in table[e]
  BY <1>2, DoesEffect DEF StatesHeld, NextOf, StepOfEngine
<1>3. ASSUME NEW cmd \in Cmds[<<processor, preempt>>], Ioctl(c, p, cmd)  PROVE Inv'
  <2> DEFINE r == Request(cmd)
  <2>1. cmd \in Nat
    BY UsersAssumption DEF TypeOK
  <2>2. r.engine \in Engine /\ r.op \in Operation
    BY <1>3, <2>1, RequestIs DEF Ioctl
  <2>3. /\ Executes(c, p) /\ loader \in Usable[r.engine]
        /\ pc' = [pc EXCEPT ![p] = Program(r.engine, r.op)]
        /\ (r.op = "enable") <=> (p \notin table[r.engine])
        /\ UNCHANGED <<module, swtch, table, exited, fault>>
    BY <1>3, <2>2 DEF Ioctl, Orderly
  <2>4. r.op = "enable" => r.engine \in ready
    <3>1. r.op = "enable" => cmd = (IF r.engine = "lbr" THEN 1 ELSE 6)
      BY <2>1 DEF Request
    <3>2. r.op = "enable" => Has(processor, r.engine)
      BY <1>3, <2>2, <3>1 DEF EngineThere, TypeOK, Engine
    <3>3. loader \notin Uninitialised(r.engine)
      BY <2>2, <2>3 DEF Usable, Uninitialised, Engine
    <3>4. QED
      BY <2>2, <3>2, <3>3 DEF HeadsReady
  <2>5. pc'[p] = Program(r.engine, r.op) /\ \A x \in Pid : x # p => pc'[x] = pc[x]
    BY <2>3 DEF TypeOK
  <2>6. Head(pc'[p]).engine = r.engine /\ (Head(pc'[p]).step = "insert" <=> r.op = "enable")
    BY <2>2, <2>5, ProgramBegins
  <2>7. fault' = "none"
    BY <2>3 DEF NoFault
  <2>8. QED
    BY <1>1, <2>3, <2>4, <2>5, <2>6, <2>7, ProcessFrame, EnginesOfOperations
<1>4. CASE Insert(c, p)
  <2>1. PICK e \in Engine : Does(c, p, e, "insert") /\ Insert(c, p)!(e)
    BY <1>4 DEF Insert
  <2>2. table' = [table EXCEPT ![e] = @ \cup {p}] /\ fault' = "none"
    BY <1>2, <2>1 DEF NoFault
  <2>3. p \in table'[e] /\ \A d \in Engine : \A x : x # p => (x \in table'[d] <=> x \in table[d])
    BY <2>2 DEF TypeOK
  <2>4. \A d \in Engine : d # e => table'[d] = table[d]
    BY <2>2 DEF TypeOK
  <2>5. QED
    BY <1>1, <2>1, <2>2, <2>3, <2>4, DoesInv
<1>5. CASE CreateFails(c, p)
  <2>1. /\ Executes(c, p) /\ pc'[p] = <<>> /\ \A x \in Pid : x # p => pc'[x] = pc[x]
        /\ UNCHANGED <<module, swtch, table, exited, fault>>
    BY <1>5 DEF CreateFails, TypeOK
  <2>2. fault' = "none"
    BY <2>1 DEF NoFault
  <2>3. QED
    BY <1>1, <2>1, <2>2, ProcessFrame, EnginesOfOperations
<1>6. CASE ReadDebugctl(c, p) \/ WriteDebugctl(c, p) \/ CopyRecords(c, p) \/ SwitchBts(c, p)
  <2>1. PICK e \in Engine, step \in {"read", "clear", "set", "save", "load", "copy", "get", "put"} :
           Does(c, p, e, step) /\ (fault' = fault \/ UseState(p, e))
    BY <1>6, <1>2 DEF ReadDebugctl, WriteDebugctl, CopyRecords, SwitchBts
  <2>2. table' = table
    BY <1>6 DEF ReadDebugctl, WriteDebugctl, CopyRecords, SwitchBts
  <2>3. p \in table[e] /\ fault' = "none"
    BY <1>2, <2>1 DEF UseState, NoFault
  <2>4. QED
    BY <1>1, <2>1, <2>2, <2>3, DoesInv
<1>7. CASE Remove(c, p)
  <2>1. PICK e \in Engine : /\ Does(c, p, e, "remove") /\ UseState(p, e)
                           /\ table' = [table EXCEPT ![e] = @ \ {p}]
    BY <1>7 DEF Remove
  <2>2. /\ Executes(c, p) /\ pc[p] # <<>> /\ pc'[p] = <<>>
        /\ \A x \in Pid : x # p => pc'[x] = pc[x]
        /\ UNCHANGED <<module, swtch, exited>>
    <3>1. /\ Executes(c, p) /\ pc[p] # <<>> /\ pc'[p] = Tail(pc[p]) /\ Follows(pc[p])
          /\ \A x \in Pid : x # p => pc'[x] = pc[x]
          /\ UNCHANGED <<module, swtch, exited>>
      BY <2>1, DoesEffect
    <3>2. Head(pc[p]).step = "remove"
      BY <1>2, <2>1
    <3>3. Tail(pc[p]) = <<>>
      BY <3>1, <3>2 DEF Follows
    <3>4. QED
      BY <3>1, <3>3
  <2>3. fault' = "none"
    BY <1>2, <2>1 DEF UseState, NoFault
  <2>4. \A d \in Engine : \A x : x # p => (x \in table'[d] <=> x \in table[d])
    BY <2>1 DEF TypeOK
  <2>5. loader \in Usable[e] /\ \A d \in Engine : d # e => table'[d] = table[d]
    BY <1>2, <2>1, <2>2 DEF Phases, TypeOK
  <2>6. QED
    BY <1>1, <2>2, <2>3, <2>4, <2>5, ProcessFrame, EnginesOfOperations
<1>8. CASE Exit(c, p)
  <2>1. /\ Executes(c, p) /\ pc[p] = <<>> /\ exited \subseteq exited'
        /\ UNCHANGED <<module, swtch, table, pc, fault>>
    BY <1>8 DEF Exit
  <2>2. fault' = "none"
    BY <2>1 DEF NoFault
  <2>3. QED
    BY <1>1, <2>1, <2>2, ProcessFrame, EnginesOfOperations
<1>9. QED
  BY <1>3, <1>4, <1>5, <1>6, <1>7, <1>8 DEF ProcStep, Proceeds

LEMMA InitInv == Init => Inv
<1> SUFFICES ASSUME Init PROVE Inv
  OBVIOUS
<1>1. InvModule
  BY InitModule
<1>2. Phases
  BY DEF Init, Phases, Unloading, Engine
<1>3. OnePlace /\ StatesHeld /\ NoFault
  BY DEF Init, OnePlace, StatesHeld, NoFault
<1>4. Findings
  BY DEF Init, Findings, FoundRight
<1>5. QED
  BY <1>1, <1>2, <1>3, <1>4 DEF Inv

LEMMA NextInv == ASSUME Orderly, EngineThere PROVE Inv /\ [Next]_vars => Inv'
<1>1. Inv /\ UNCHANGED vars => Inv'
  <2> SUFFICES ASSUME Inv, UNCHANGED vars PROVE Inv'
    OBVIOUS
  <2>1. InvModule'
    BY NextModule DEF Inv
  <2>2. QED
    BY <2>1 DEF Inv, Phases, OnePlace, StatesHeld, Findings, FoundRight, NoFault, NextOf,
       Party, OnCore, Traced, vars, module, msrs, swtch, procs
<1>2. QED
  BY <1>1, LoaderInv, FlushInv, SwitchToInv, HandlerInv, ProcInv DEF Next

\* NothingFreedIsUsed: no handler and no ioctl uses a state that was freed, and
\* none is inserted at a list head that was not initialised, although requests
\* come while insmod flushes cores or is at the other engine, and handlers run
\* all the time.  It takes users that enable engines the machine has, each once
\* its init has set up the list, and that begin to unload the module when
\* nothing is traced or requested; the code checks none of this, and without any
\* one of the three there is a fault (libiht_lkm.c: libiht_lkm_init,
\* libiht_lkm_exit; lbr.c: lbr_init, lbr_exit; bts.c: bts_init, bts_exit).
THEOREM NothingFreedIsUsed == ASSUME Orderly, EngineThere PROVE Spec => []NoFault
<1>1. Spec => []Inv
  BY InitInv, NextInv, PTL DEF Spec
<1>2. Inv => NoFault
  BY DEF Inv
<1>3. QED
  BY <1>1, <1>2, PTL

----------------------------------------------------------------------------
(* The bits of the two engines.                                            *)

\* What a step of an operation means for the tracing it changes.
LEMMA DoesChanges ==
    ASSUME TypeOK, NEW c \in CPU, NEW p \in Pid, NEW e, NEW step, Does(c, p, e, step)
    PROVE  /\ e \in Engine
           /\ \A d : Changing(p, d) <=> d = e /\ step # "copy"
           /\ \A d : Stopped(p, d) <=> /\ d = e /\ step \in {"save", "remove"}
                                      /\ LastOf(p).step = "remove"
           /\ step \in {"set", "put", "remove", "copy"} <=> pc'[p] = <<>>
           /\ pc'[p] = <<>> => \A d : ~Changing(p, d)' /\ ~Stopped(p, d)'
           /\ pc'[p] # <<>> =>
                 /\ \A d : Changing(p, d)' <=> d = e
                 /\ \A d : Stopped(p, d)' <=> /\ d = e /\ LastOf(p).step = "remove"
                                             /\ Head(pc'[p]).step \in {"save", "remove"}
                 /\ LastOf(p)'.step = LastOf(p).step
                 /\ \/ step = "insert" /\ Head(pc'[p]).step \in {"load", "put"}
                    \/ step = "load" /\ Head(pc'[p]).step = "read"
                    \/ step = "read" /\ Head(pc'[p]).step \in {"clear", "set"}
                    \/ step = "clear" /\ Head(pc'[p]).step = "save"
                    \/ step = "save" /\ Head(pc'[p]).step \in {"load", "remove"}
                    \/ step = "get" /\ Head(pc'[p]).step \in {"put", "remove"}
           /\ step = "remove" => LastOf(p).step = "remove"
<1>1. /\ pc[p] # <<>> /\ Head(pc[p]).engine = e /\ Head(pc[p]).step = step
      /\ pc'[p] = Tail(pc[p])
      /\ Follows(pc[p]) /\ StepOfEngine(Head(pc[p])) /\ RemovesAtLast(pc[p])
  BY DoesEffect DEF NextOf
<1>2. LastStep(pc[p]) = LastOf(p).step /\ LastStep(pc'[p]) = LastOf(p)'.step
  BY DEF LastStep, LastOf
<1>3. e \in Engine /\ (step = "remove" => LastOf(p).step = "remove")
  BY <1>1, <1>2 DEF StepOfEngine, RemovesAtLast
<1>4. /\ \A d : Changing(p, d) <=> d = e /\ step # "copy"
      /\ \A d : Stopped(p, d) <=> /\ d = e /\ step \in {"save", "remove"}
                                 /\ LastOf(p).step = "remove"
  BY <1>1 DEF Changing, Stopped, NextOf
<1>5. CASE pc'[p] = <<>>
  <2>1. step \in {"set", "put", "remove", "copy"}
    BY <1>1, <1>5 DEF Follows
  <2>2. \A d : ~Changing(p, d)' /\ ~Stopped(p, d)'
    BY <1>5 DEF Changing, Stopped
  <2>3. QED
    BY <1>3, <1>4, <1>5, <2>1, <2>2
<1>6. CASE pc'[p] # <<>>
  <2>1. /\ Head(pc'[p]).engine = e /\ LastOf(p)'.step = LastOf(p).step
        /\ \/ step = "insert" /\ Head(pc'[p]).step \in {"load", "put"}
           \/ step = "load" /\ Head(pc'[p]).step = "read"
           \/ step = "read" /\ Head(pc'[p]).step \in {"clear", "set"}
           \/ step = "clear" /\ Head(pc'[p]).step = "save"
           \/ step = "save" /\ Head(pc'[p]).step \in {"load", "remove"}
           \/ step = "get" /\ Head(pc'[p]).step \in {"put", "remove"}
    BY <1>1, <1>2, <1>6 DEF Follows
  <2>2. /\ \A d : Changing(p, d)' <=> d = e
        /\ \A d : Stopped(p, d)' <=> /\ d = e /\ LastOf(p).step = "remove"
                                    /\ Head(pc'[p]).step \in {"save", "remove"}
    BY <1>6, <2>1 DEF Changing, Stopped, NextOf
  <2>3. QED
    BY <1>3, <1>4, <1>6, <2>1, <2>2
<1>7. QED
  BY <1>5, <1>6

\* Nobody else's core has the bits of a process that executes.
LEMMA OwnerElsewhere ==
    ASSUME TypeOK, OnePlace, NEW c \in CPU, NEW p \in Pid, Executes(c, p)
    PROVE  /\ \A e : Owner(c, e) = p
           /\ \A x \in CPU : \A e : x # c => Owner(x, e) # p
<1>1. \A e : Owner(c, e) = p
  BY DEF Owner, Executes
<1>2. ASSUME NEW x \in CPU, x # c, NEW e  PROVE Owner(x, e) # p
  <2>1. run[c] = p
    BY DEF Executes
  <2>2. CASE Owner(x, e) = run[x]
    BY <1>2, <2>1, <2>2 DEF OnePlace
  <2>3. CASE Owner(x, e) = next_task[x] /\ at[x] # <<>>
    BY <1>2, <2>1, <2>3 DEF OnePlace
  <2>4. QED
    BY <2>2, <2>3 DEF Owner
<1>3. QED
  BY <1>1, <1>2

LEMMA OwnerOnCore ==
    ASSUME TypeOK, NEW c \in CPU, NEW e
    PROVE  Owner(c, e) \in Task /\ (Owner(c, e) \in Pid => OnCore(Owner(c, e)))
BY DEF TypeOK, Owner, OnCore

\* The bits of its core are those of a process whose tracing is not changing.
LEMMA BitIsExact ==
    ASSUME TypeOK, OnePlace, BitsFollow, NEW c \in CPU, NEW p \in Pid, Executes(c, p),
           NEW e \in Engine, ~Changing(p, e)
    PROVE  e \in debugctl[c] <=> p \in table[e]
BY OwnerElsewhere DEF BitsFollow, BitFollows

\* What a process' step does to the bits of the other cores.
LEMMA ProcessBits ==
    ASSUME TypeOK, OnePlace, BitsFollow, NEW c \in CPU, NEW p \in Pid, Executes(c, p),
           UNCHANGED swtch,
           \A x \in Pid : x # p => pc'[x] = pc[x],
           \A d \in Engine : \A x : x # p => (x \in table'[d] <=> x \in table[d]),
           \A x \in CPU : x # c => debugctl'[x] = debugctl[x],
           \A d \in Engine : BitFollows(c, p, d)'
    PROVE  BitsFollow'
<1> SUFFICES ASSUME NEW x \in CPU, NEW d \in Engine
             PROVE  BitFollows(x, Owner(x, d), d)'
  BY DEF BitsFollow
<1>1. Owner(x, d)' = Owner(x, d)
  BY DEF Owner, swtch
<1>2. CASE x = c
  BY <1>1, <1>2, OwnerElsewhere
<1>3. CASE x # c
  <2>1. Owner(x, d) # p /\ BitFollows(x, Owner(x, d), d)
    BY <1>3, OwnerElsewhere DEF BitsFollow
  <2>2. \A q : q # p => (Changing(q, d)' <=> Changing(q, d)) /\ (Stopped(q, d)' <=> Stopped(q, d))
    BY DEF Changing, Stopped, NextOf, LastOf
  <2>3. QED
    BY <1>1, <1>3, <2>1, <2>2 DEF BitFollows
<1>4. QED
  BY <1>2, <1>3

\* The bits depend on the following variables only.
LEMMA SameBits ==
    ASSUME InvBits,
           UNCHANGED <<preempt, table, debugctl, ds_area, run, next_task, at, found, pc, dbgctlmsr>>
    PROVE  InvBits'
<1>1. DisablesUnpreempted' /\ KeepsCore' /\ CopyExact' /\ AreaFollows'
  BY DEF InvBits, DisablesUnpreempted, KeepsCore, CopyExact, AreaFollows, NextOf, LastOf
<1>2. ASSUME NEW c \in CPU, NEW e \in Engine
      PROVE  BitFollows(c, Owner(c, e), e)'
  <2>1. Owner(c, e)' = Owner(c, e)
    BY DEF Owner
  <2>2. \A x : Changing(x, e)' = Changing(x, e) /\ Stopped(x, e)' = Stopped(x, e)
    BY DEF Changing, Stopped, NextOf, LastOf
  <2>3. BitFollows(c, Owner(c, e), e)
    BY DEF InvBits, BitsFollow
  <2>4. QED
    BY <2>1, <2>2, <2>3 DEF BitFollows
<1>3. QED
  BY <1>1, <1>2 DEF InvBits, BitsFollow

\* Insmod and rmmod.
LEMMA LoaderBits ==
    ASSUME Orderly, Inv, Untouched, InvBits, CreateEntry \/ LoaderStep \/ Unload
    PROVE  InvBits'
<1> USE DEF Inv, InvModule, InvType
<1>1. UNCHANGED <<preempt, msrs, swtch, procs>>
  BY DEF CreateEntry, LoaderStep, RegisterTracepoints, LbrInit, BtsInit, FreeStates,
     UnregisterTracepoints, RemoveEntry, Rundown, Unload
<1>0. CASE BtsInit
  BY <1>0, <1>1, SameBits DEF BtsInit, msrs, swtch, procs
<1> SUFFICES ASSUME ~BtsInit PROVE InvBits'
  BY <1>0
<1>2. \A p \in Pid : pc[p] = <<>> /\ pc'[p] = <<>>
  <2>1. UNCHANGED pc
    BY <1>1 DEF procs
  <2>2. CASE Unload
    BY <2>1, <2>2 DEF Unload, Orderly
  <2>3. CASE ~Unload
    <3>1. loader \notin {"bts_init", "bts_flush", "in"}
      BY <2>3 DEF CreateEntry, LoaderStep, RegisterTracepoints, LbrInit, FreeStates,
         UnregisterTracepoints, RemoveEntry, Rundown, Loader
    <3>2. \A p \in Pid : pc[p] # <<>> => Head(pc[p]).engine \in Engine
      BY EnginesOfOperations
    <3>3. QED
      BY <2>1, <3>1, <3>2 DEF Untouched, Flushed, Engine
  <2>4. QED
    BY <2>2, <2>3
<1>3. DisablesUnpreempted' /\ KeepsCore' /\ CopyExact'
  BY <1>1, <1>2 DEF DisablesUnpreempted, KeepsCore, CopyExact
<1>4. AreaFollows'
  BY <1>1 DEF InvBits, AreaFollows, msrs, swtch
<1>5. ASSUME NEW c \in CPU, NEW e \in Engine  PROVE BitFollows(c, Owner(c, e), e)'
  <2>1. /\ Owner(c, e)' = Owner(c, e) /\ debugctl'[c] = debugctl[c]
        /\ \A q : ~Changing(q, e) /\ ~Changing(q, e)' /\ ~Stopped(q, e)'
    BY <1>1, <1>2 DEF Owner, Changing, Stopped, swtch, msrs
  <2>2. e \in debugctl[c] <=> Owner(c, e) \in table[e]
    BY <2>1 DEF InvBits, BitsFollow, BitFollows
  <2>3. Owner(c, e) \in table'[e] <=> Owner(c, e) \in table[e]
    <3>1. CASE UNCHANGED table
      BY <3>1
    <3>2. CASE ~UNCHANGED table
      <4>1. loader \in Unloading /\ \A d \in Engine : table'[d] \subseteq table[d]
        <5>1. loader = "out" => table = [d \in Engine |-> {}]
          BY DEF Phases, Usable, Engine, TypeOK
        <5>2. QED
          <6>1. CASE CreateEntry
            BY <3>2, <5>1, <6>1 DEF CreateEntry, Loader
          <6>2. CASE FreeStates
            BY <6>2 DEF FreeStates, FreeAll, Loader, Unloading, TypeOK
          <6>3. CASE ~CreateEntry /\ ~FreeStates
            BY <3>2, <6>3 DEF LoaderStep, RegisterTracepoints, LbrInit, BtsInit,
               UnregisterTracepoints, RemoveEntry, Rundown, Unload
          <6>4. QED
            BY <6>1, <6>2, <6>3
      <4>2. Owner(c, e) \notin table[e]
        BY <4>1, OwnerOnCore, TracedIsTask DEF Phases
      <4>3. QED
        BY <4>1, <4>2
    <3>3. QED
      BY <3>1, <3>2
  <2>4. QED
    BY <2>1, <2>2, <2>3 DEF BitFollows
<1>6. QED
  BY <1>3, <1>4, <1>5 DEF InvBits, BitsFollow

\* A flush takes away no bit that is in use.
LEMMA FlushBits ==
    ASSUME Inv, Untouched, InvBits, NEW c \in CPU, Flush(c)
    PROVE  InvBits'
<1> USE DEF Inv, InvModule, InvType
<1> DEFINE e == IF loader \in {"lbr_flush", "lbr_exit"} THEN "lbr" ELSE "bts"
<1>1. /\ UNCHANGED <<preempt, table, swtch, procs>> /\ loader \in Flushing /\ Stop(c, e)
      /\ e \in Engine
  BY DEF Flush, FlushPhase, Engine
<1>2. /\ debugctl' = [debugctl EXCEPT ![c] = @ \ {e}]
      /\ ds_area' = IF e = "bts" THEN [ds_area EXCEPT ![c] = NoPid] ELSE ds_area
  BY <1>1 DEF Stop
<1>3. Owner(c, e) \notin table[e]
  <2>1. CASE loader \in {"lbr_flush", "bts_flush"}
    BY <1>1, <2>1 DEF Untouched, Unloading, Flushed, Engine
  <2>2. CASE loader \in {"lbr_exit", "bts_exit"}
    BY <2>2, <1>1, OwnerOnCore, TracedIsTask DEF Phases, Unloading
  <2>3. QED
    BY <1>1, <2>1, <2>2 DEF Flushing
<1>4. DisablesUnpreempted' /\ KeepsCore' /\ CopyExact'
  BY <1>1 DEF InvBits, DisablesUnpreempted, KeepsCore, CopyExact, NextOf, LastOf, swtch, procs
<1>5. AreaFollows'
  BY <1>1, <1>2 DEF InvBits, AreaFollows, TypeOK, swtch, Engine
<1>6. ASSUME NEW x \in CPU, NEW d \in Engine  PROVE BitFollows(x, Owner(x, d), d)'
  <2>1. /\ Owner(x, d)' = Owner(x, d)
        /\ \A q : (Changing(q, d)' <=> Changing(q, d)) /\ (Stopped(q, d)' <=> Stopped(q, d))
    BY <1>1 DEF Owner, Changing, Stopped, NextOf, LastOf, swtch, procs
  <2>2. d \in debugctl'[x] => d \in debugctl[x]
    BY <1>2 DEF TypeOK
  <2>3. d \notin debugctl'[x] /\ d \in debugctl[x] => x = c /\ d = e
    BY <1>2 DEF TypeOK
  <2>4. QED
    BY <1>1, <1>3, <2>1, <2>2, <2>3 DEF InvBits, BitsFollow, BitFollows
<1>7. QED
  BY <1>4, <1>5, <1>6 DEF InvBits, BitsFollow

\* The scheduler: the bits stay those of the previous task until the handler
\* has switched them.
LEMMA SwitchToBits ==
    ASSUME Inv, InvBits, NEW c \in CPU, NEW n \in Task, SwitchTo(c, n)
    PROVE  InvBits'
<1> USE DEF Inv, InvModule, InvType
<1>1. /\ UNCHANGED <<preempt, table, msrs, procs>> /\ at[c] = <<>>
      /\ (run[c] # NoPid /\ ~preempt) => Yields(run[c])
      /\ \/ /\ probe /\ at' = [at EXCEPT ![c] = Switching] /\ UNCHANGED run
            /\ next_task' = [next_task EXCEPT ![c] = n]
         \/ ~probe /\ run' = [run EXCEPT ![c] = n] /\ UNCHANGED <<at, next_task>>
  BY DEF SwitchTo
<1>2. /\ Switching # <<>> /\ Head(Switching).engine = "lbr"
      /\ run \in [CPU -> Task] /\ next_task \in [CPU -> Task] /\ at \in [CPU -> HandlerRests]
  BY HandlerFacts, TracedIsTask DEF TypeOK, SwitchStepOf
<1>3. \A x \in CPU : x # c => at'[x] = at[x] /\ run'[x] = run[x] /\ next_task'[x] = next_task[x]
  BY <1>1, <1>2
<1>4. DisablesUnpreempted' /\ CopyExact'
  BY <1>1 DEF InvBits, DisablesUnpreempted, CopyExact, NextOf, LastOf, procs
<1>5. KeepsCore'
  <2> SUFFICES ASSUME ~preempt, NEW p \in Pid, pc[p] # <<>>, Head(pc[p]).step # "insert"
               PROVE  \E x \in CPU : run'[x] = p /\ at'[x] = <<>>
    BY <1>1 DEF KeepsCore, NextOf, procs
  <2>1. PICK x \in CPU : run[x] = p /\ at[x] = <<>>
    BY DEF InvBits, KeepsCore, NextOf
  <2>2. x # c
    BY <1>1, <2>1 DEF Yields
  <2>3. QED
    BY <1>3, <2>1, <2>2
<1>6. CASE probe
  <2>1. UNCHANGED run /\ at'[c] = Switching
    BY <1>1, <1>2, <1>6
  <2>2. \A x \in CPU, e \in Engine : Owner(x, e)' = Owner(x, e)
    <3>1. \A e \in Engine : Owner(c, e)' = Owner(c, e)
      BY <1>1, <1>2, <2>1 DEF Owner
    <3>2. \A x \in CPU, e \in Engine : x # c => Owner(x, e)' = Owner(x, e)
      BY <1>3 DEF Owner
    <3>3. QED
      BY <3>1, <3>2
  <2>3. AreaFollows'
    BY <1>1, <2>1 DEF InvBits, AreaFollows, msrs
  <2>4. BitsFollow'
    BY <1>1, <2>2 DEF InvBits, BitsFollow, BitFollows, Changing, Stopped, NextOf, LastOf,
       msrs, procs
  <2>5. QED
    BY <1>4, <1>5, <2>3, <2>4 DEF InvBits
<1>7. CASE ~probe
  <2>1. \A e \in Engine : table[e] = {}
    BY <1>7 DEF Gone, Phases, Usable, Engine
  <2>2. \A x \in CPU, e \in Engine : e \notin debugctl[x]
    BY <2>1 DEF InvBits, BitsFollow, BitFollows
  <2>3. AreaFollows'
    BY <1>1, <2>2, TracedIsTask DEF InvBits, AreaFollows, msrs
  <2>4. BitsFollow'
    BY <1>1, <2>1, <2>2 DEF BitsFollow, BitFollows, msrs
  <2>5. QED
    BY <1>4, <1>5, <2>3, <2>4 DEF InvBits
<1>8. QED
  BY <1>6, <1>7

\* The next task has not stopped its tracing on its own: it would be running.
LEMMA NextIsNotStopped ==
    ASSUME TypeOK, OnePlace, InvBits, NEW c \in CPU, at[c] # <<>>, NEW e
    PROVE  ~Stopped(next_task[c], e)
<1> DEFINE p == next_task[c]
<1> SUFFICES ASSUME Stopped(p, e) PROVE FALSE
  OBVIOUS
<1>1. p \in Pid /\ pc[p] # <<>> /\ LastOf(p).step = "remove" /\ NextOf(p).step # "insert"
  BY DEF Stopped, Changing
<1>2. ~preempt
  BY <1>1 DEF InvBits, DisablesUnpreempted
<1>3. PICK x \in CPU : run[x] = p /\ at[x] = <<>>
  BY <1>1, <1>2 DEF InvBits, KeepsCore
<1>4. x # c
  BY <1>3
<1>5. QED
  BY <1>1, <1>3, <1>4 DEF OnePlace

\* The handler: after the second step of an engine its bits are the next task's.
LEMMA HandlerBits ==
    ASSUME Inv, InvBits, NEW c \in CPU, SwitchStep(c)
    PROVE  InvBits'
<1> USE DEF Inv, InvModule, InvType
<1>1. PICK e \in Engine, step \in {"find", "switch"} :
        /\ Handles(c, e, step)
        /\ step = "find" => UNCHANGED msrs
        /\ step = "switch" =>
              /\ debugctl' = [debugctl EXCEPT ![c] =
                      IF "next" \in found[c] THEN @ \cup {e}
                      ELSE IF "prev" \in found[c] THEN @ \ {e} ELSE @]
              /\ ds_area' = IF e = "lbr" \/ found[c] = {} THEN ds_area
                            ELSE [ds_area EXCEPT ![c] =
                                      IF "next" \in found[c] THEN next_task[c] ELSE NoPid]
  BY DEF SwitchStep, SwitchFind, SwitchRegisters
<1>2. /\ at[c] # <<>> /\ at[c] \in HandlerRests /\ Head(at[c]) = SwitchStepOf(e, step)
      /\ at'[c] = Tail(at[c])
      /\ \A x \in CPU : x # c => at'[x] = at[x] /\ run'[x] = run[x]
                                 /\ next_task'[x] = next_task[x]
      /\ at'[c] # <<>> => run'[c] = run[c] /\ next_task'[c] = next_task[c]
      /\ at'[c] = <<>> => run'[c] = next_task[c]
      /\ UNCHANGED <<preempt, table, procs>>
  BY <1>1, HandlesEffect
<1>3. /\ Head(at[c]).engine = e /\ Head(at[c]).step = step /\ e \in Engine
      /\ step = "find" => at'[c] # <<>> /\ Head(at'[c]).engine = e
      /\ step = "switch" /\ e = "lbr" => at'[c] # <<>> /\ Head(at'[c]).engine = "bts"
      /\ step = "switch" /\ e = "bts" => at'[c] = <<>>
  BY <1>2, HandlerFields DEF SwitchStepOf
<1>4. DisablesUnpreempted' /\ CopyExact'
  BY <1>2 DEF InvBits, DisablesUnpreempted, CopyExact, NextOf, LastOf, procs
<1>5. KeepsCore'
  <2> SUFFICES ASSUME ~preempt, NEW p \in Pid, pc[p] # <<>>, Head(pc[p]).step # "insert"
               PROVE  \E x \in CPU : run'[x] = p /\ at'[x] = <<>>
    BY <1>2 DEF KeepsCore, NextOf, procs
  <2>1. PICK x \in CPU : run[x] = p /\ at[x] = <<>>
    BY DEF InvBits, KeepsCore, NextOf
  <2>2. QED
    BY <1>2, <2>1
<1>6. /\ \A x \in CPU : x # c => debugctl'[x] = debugctl[x] /\ ds_area'[x] = ds_area[x]
      /\ \A d \in Engine : d # e => (d \in debugctl'[c] <=> d \in debugctl[c])
      /\ step = "find" => debugctl'[c] = debugctl[c]
      /\ step = "find" \/ e = "lbr" => ds_area'[c] = ds_area[c]
  BY <1>1 DEF TypeOK, msrs
<1>7. \A d \in Engine : step = "find" \/ d # e => Owner(c, d)' = Owner(c, d)
  BY <1>2, <1>3 DEF Owner, Engine
<1>8. ASSUME step = "switch"
      PROVE  /\ Owner(c, e)' = next_task[c] /\ Owner(c, e) = run[c]
             /\ e \in debugctl'[c] <=> next_task[c] \in table[e]
  <2>1. Owner(c, e)' = next_task[c] /\ Owner(c, e) = run[c]
    BY <1>2, <1>3, <1>8 DEF Owner, Engine
  <2>2. /\ "next" \in found[c] <=> next_task[c] \in table[e]
        /\ "prev" \in found[c] <=> run[c] \in table[e]
    <3>1. FoundRight(c)
      BY DEF Findings
    <3>2. QED
      BY <1>2, <1>3, <1>8, <3>1 DEF FoundRight, Party
  <2>3. e \in debugctl[c] => run[c] \in table[e]
    BY <1>3, <2>1 DEF InvBits, BitsFollow, BitFollows
  <2>4. /\ "next" \in found[c] => e \in debugctl'[c]
        /\ "next" \notin found[c] /\ "prev" \in found[c] => e \notin debugctl'[c]
        /\ "next" \notin found[c] /\ "prev" \notin found[c] =>
              (e \in debugctl'[c] <=> e \in debugctl[c])
    BY <1>1, <1>8 DEF TypeOK
  <2>5. QED
    BY <2>1, <2>2, <2>3, <2>4
<1>9. ASSUME NEW x \in CPU, NEW d \in Engine  PROVE BitFollows(x, Owner(x, d), d)'
  <2>1. /\ \A q : (Changing(q, d)' <=> Changing(q, d)) /\ (Stopped(q, d)' <=> Stopped(q, d))
        /\ BitFollows(x, Owner(x, d), d)
    BY <1>2 DEF InvBits, BitsFollow, Changing, Stopped, NextOf, LastOf, procs
  <2>2. CASE x # c
    <3>1. Owner(x, d)' = Owner(x, d) /\ debugctl'[x] = debugctl[x]
      BY <1>2, <1>6, <2>2 DEF Owner
    <3>2. QED
      BY <1>2, <2>1, <3>1 DEF BitFollows
  <2>3. CASE x = c /\ (step = "find" \/ d # e)
    <3>1. Owner(x, d)' = Owner(x, d) /\ (d \in debugctl'[x] <=> d \in debugctl[x])
      BY <1>6, <1>7, <2>3
    <3>2. QED
      BY <1>2, <2>1, <3>1 DEF BitFollows
  <2>4. CASE x = c /\ step = "switch" /\ d = e
    <3>1. ~Stopped(next_task[c], e)
      BY <1>2, NextIsNotStopped
    <3>2. QED
      BY <1>2, <1>8, <2>1, <2>4, <3>1 DEF BitFollows
  <2>5. QED
    BY <2>2, <2>3, <2>4
<1>10. ASSUME NEW x \in CPU
       PROVE  ds_area'[x] = IF "bts" \in debugctl'[x] THEN run'[x] ELSE NoPid
  <2>1. ds_area[x] = IF "bts" \in debugctl[x] THEN run[x] ELSE NoPid
    BY DEF InvBits, AreaFollows
  <2>2. CASE x # c
    BY <1>2, <1>6, <2>1, <2>2
  <2>3. CASE x = c /\ (step = "find" \/ e = "lbr")
    <3>1. run'[c] = run[c] /\ ("bts" \in debugctl'[c] <=> "bts" \in debugctl[c])
      BY <1>2, <1>3, <1>6, <2>3 DEF Engine
    <3>2. QED
      BY <1>6, <2>1, <2>3, <3>1
  <2>4. CASE x = c /\ step = "switch" /\ e = "bts"
    <3>1. run'[c] = next_task[c]
      BY <1>2, <1>3, <2>4
    <3>2. CASE found[c] = {}
      <4>1. ds_area'[c] = ds_area[c] /\ debugctl'[c] = debugctl[c]
        BY <1>1, <2>4, <3>2 DEF TypeOK
      <4>2. "next" \in found[c] <=> next_task[c] \in table[e]
        <5>1. FoundRight(c)
          BY DEF Findings
        <5>2. QED
          BY <1>2, <1>3, <2>4, <5>1 DEF FoundRight, Party
      <4>3. "bts" \notin debugctl[c]
        BY <1>8, <2>4, <3>2, <4>1, <4>2
      <4>4. QED
        BY <2>1, <2>4, <4>1, <4>3
    <3>3. CASE "next" \in found[c]
      BY <1>1, <2>4, <3>1, <3>3 DEF TypeOK
    <3>4. CASE found[c] # {} /\ "next" \notin found[c]
      <4>1. "prev" \in found[c]
        BY <3>4 DEF TypeOK
      <4>2. QED
        BY <1>1, <2>4, <3>4, <4>1 DEF TypeOK
    <3>5. QED
      BY <3>2, <3>3, <3>4
  <2>5. QED
    BY <1>3, <2>2, <2>3, <2>4 DEF Engine
<1>11. QED
  BY <1>4, <1>5, <1>9, <1>10 DEF InvBits, BitsFollow, AreaFollows

\* What a process' step leaves alone, and what it has to establish on its core.
LEMMA ProcessInvBits ==
    ASSUME Inv, InvBits, NEW c \in CPU, NEW p \in Pid, Executes(c, p),
           UNCHANGED <<preempt, swtch>>,
           \A x \in Pid : x # p => pc'[x] = pc[x] /\ dbgctlmsr'[x] = dbgctlmsr[x],
           \A d \in Engine : \A x : x # p => (x \in table'[d] <=> x \in table[d]),
           \A x \in CPU : x # c => debugctl'[x] = debugctl[x] /\ ds_area'[x] = ds_area[x],
           preempt /\ pc'[p] # <<>> => LastOf(p)'.step # "remove",
           pc'[p] # <<>> /\ Head(pc'[p]).step \in {"clear", "set"} =>
               ("bts" \in dbgctlmsr'[p] <=> p \in table'["bts"]),
           ds_area'[c] = IF "bts" \in debugctl'[c] THEN p ELSE NoPid,
           \A d \in Engine : BitFollows(c, p, d)'
    PROVE  InvBits'
<1> USE DEF Inv, InvModule, InvType
<1>1. BitsFollow'
  BY ProcessBits DEF InvBits
<1>2. DisablesUnpreempted'
  BY DEF InvBits, DisablesUnpreempted, LastOf
<1>3. KeepsCore'
  <2>1. run[c] = p /\ at[c] = <<>>
    BY DEF Executes
  <2>2. QED
    BY <2>1 DEF InvBits, KeepsCore, NextOf, swtch
<1>4. CopyExact'
  BY TracedIsTask DEF InvBits, CopyExact, NextOf
<1>5. AreaFollows'
  BY DEF InvBits, AreaFollows, Executes, swtch
<1>6. QED
  BY <1>1, <1>2, <1>3, <1>4, <1>5 DEF InvBits

\* Registers and bits over the steps of an operation.
LEMMA DoesInvBits ==
    ASSUME Inv, InvBits, NEW c \in CPU, NEW p \in Pid, NEW e, NEW step,
           Does(c, p, e, step),
           \A x \in Pid : x # p => dbgctlmsr'[x] = dbgctlmsr[x],
           \A d \in Engine : \A x : x # p => (x \in table'[d] <=> x \in table[d]),
           \A x \in CPU : x # c => debugctl'[x] = debugctl[x] /\ ds_area'[x] = ds_area[x],
           step = "read" => dbgctlmsr'[p] = debugctl[c] /\ table' = table,
           ds_area'[c] = IF "bts" \in debugctl'[c] THEN p ELSE NoPid,
           \A d \in Engine : d # e => (/\ d \in debugctl'[c] <=> d \in debugctl[c]
                                       /\ p \in table'[d] <=> p \in table[d]),
           BitFollows(c, p, e)',
           step = "load" => dbgctlmsr' = dbgctlmsr
    PROVE  InvBits'
<1> USE DEF Inv, InvModule, InvType
<1>1. /\ Executes(c, p) /\ \A x \in Pid : x # p => pc'[x] = pc[x]
      /\ UNCHANGED <<preempt, swtch>> /\ StepOfEngine(Head(pc[p]))
      /\ Head(pc[p]).engine = e /\ Head(pc[p]).step = step
  BY DoesEffect DEF NextOf
<1>2. preempt /\ pc'[p] # <<>> => LastOf(p)'.step # "remove"
  <2>1. pc[p] # <<>>
    BY DoesEffect
  <2>2. preempt => LastOf(p).step # "remove"
    BY <2>1 DEF InvBits, DisablesUnpreempted
  <2>3. pc'[p] # <<>> => LastOf(p)'.step = LastOf(p).step
    BY DoesChanges
  <2>4. QED
    BY <2>2, <2>3
<1>3. ASSUME NEW d \in Engine  PROVE BitFollows(c, p, d)'
  <2>1. CASE d = e
    BY <2>1
  <2>2. CASE d # e
    <3>1. ~Changing(p, d) /\ ~Stopped(p, d)'
      BY <2>2, DoesChanges
    <3>2. d \in debugctl[c] <=> p \in table[d]
      BY <1>1, <3>1, BitIsExact DEF InvBits
    <3>3. QED
      BY <2>2, <3>1, <3>2 DEF BitFollows
  <2>3. QED
    BY <2>1, <2>2
<1>4. ASSUME pc'[p] # <<>>, Head(pc'[p]).step \in {"clear", "set"}
      PROVE  "bts" \in dbgctlmsr'[p] <=> p \in table'["bts"]
  <2>1. step = "read"
    BY <1>4, DoesChanges
  <2>2. e = "lbr"
    BY <1>1, <2>1 DEF StepOfEngine
  <2>3. ~Changing(p, "bts")
    BY <2>2, DoesChanges
  <2>4. "bts" \in debugctl[c] <=> p \in table["bts"]
    BY <1>1, <2>3, BitIsExact DEF InvBits, Engine
  <2>5. QED
    BY <2>1, <2>4
<1>5. QED
  BY <1>1, <1>2, <1>3, <1>4, ProcessInvBits

\* The ioctls.
LEMMA ProcBits ==
    ASSUME NoLateDisable, Inv, InvBits, NEW c \in CPU, NEW p \in Pid, ProcStep(c, p)
    PROVE  InvBits'
<1> USE DEF Inv, InvModule, InvType
<1>1. ASSUME NEW e, NEW step, Does(c, p, e, step)
      PROVE  /\ e \in Engine /\ Executes(c, p)
             /\ IF step = "insert" THEN e \in ready /\ p \notin table[e] ELSE p \in table[e]
             /\ BitFollows(c, p, e)
             /\ step \in {"load", "read", "clear", "save", "set"} => e = "lbr"
  BY <1>1, DoesEffect, OwnerElsewhere DEF StatesHeld, NextOf, StepOfEngine, InvBits, BitsFollow
<1>2. Executes(c, p) => ds_area[c] = IF "bts" \in debugctl[c] THEN p ELSE NoPid
  BY DEF InvBits, AreaFollows, Executes
<1>3. ASSUME NEW cmd \in Cmds[<<processor, preempt>>], Ioctl(c, p, cmd)  PROVE InvBits'
  <2> DEFINE r == Request(cmd)
  <2>1. cmd \in Nat
    BY UsersAssumption DEF TypeOK
  <2>2. r.engine \in Engine /\ r.op \in Operation /\ (r.op = "disable" => cmd \in {2, 7})
    BY <1>3, <2>1, RequestIs DEF Ioctl
  <2>3. /\ Executes(c, p) /\ pc[p] = <<>> /\ pc' = [pc EXCEPT ![p] = Program(r.engine, r.op)]
        /\ UNCHANGED <<preempt, swtch, table, msrs, dbgctlmsr>>
    BY <1>3 DEF Ioctl
  <2>4. pc'[p] = Program(r.engine, r.op) /\ \A x \in Pid : x # p => pc'[x] = pc[x]
    BY <2>3 DEF TypeOK
  <2>5. /\ Head(pc'[p]).step \in {"insert", "read", "get", "copy"}
        /\ LastOf(p)'.step = "remove" => r.op = "disable"
    BY <2>2, <2>4, ProgramBegins DEF LastOf, LastStep
  <2>6. preempt => r.op # "disable"
    BY <2>2 DEF NoLateDisable, TypeOK
  <2>7. ASSUME NEW d \in Engine  PROVE BitFollows(c, p, d)'
    <3>1. ~Changing(p, d) /\ ~Stopped(p, d)'
      BY <2>3, <2>5 DEF Changing, Stopped, NextOf
    <3>2. d \in debugctl[c] <=> p \in table[d]
      BY <2>3, <3>1, BitIsExact DEF InvBits
    <3>3. QED
      BY <2>3, <3>1, <3>2 DEF BitFollows, msrs
  <2>8. QED
    BY <1>2, <2>3, <2>4, <2>5, <2>6, <2>7, ProcessInvBits DEF msrs
<1>4. CASE Insert(c, p)
  <2>1. PICK e \in Engine : Does(c, p, e, "insert") /\ Insert(c, p)!(e)
    BY <1>4 DEF Insert
  <2>2. table' = [table EXCEPT ![e] = @ \cup {p}] /\ UNCHANGED <<msrs, dbgctlmsr>>
    BY <1>1, <2>1
  <2>3. p \in table'[e] /\ \A d \in Engine : \A x : x # p => (x \in table'[d] <=> x \in table[d])
    BY <2>2 DEF TypeOK
  <2>4. \A d \in Engine : d # e => table'[d] = table[d]
    BY <2>2 DEF TypeOK
  <2>5. e \notin debugctl[c]
    BY <1>1, <2>1 DEF BitFollows
  <2>6. Changing(p, e)'
    BY <2>1, DoesChanges
  <2>7. BitFollows(c, p, e)'
    BY <2>2, <2>3, <2>5, <2>6 DEF BitFollows, msrs
  <2>8. QED
    BY <1>1, <1>2, <2>1, <2>2, <2>3, <2>4, <2>7, DoesInvBits DEF msrs
<1>5. CASE CreateFails(c, p)
  <2> DEFINE e == Head(pc[p]).engine
  <2>1. /\ Executes(c, p) /\ pc[p] # <<>> /\ Head(pc[p]).step = "insert" /\ pc'[p] = <<>>
        /\ \A x \in Pid : x # p => pc'[x] = pc[x]
        /\ UNCHANGED <<preempt, swtch, table, msrs, dbgctlmsr>>
    BY <1>5 DEF CreateFails, TypeOK
  <2>2. p \notin table[e]
    BY <2>1 DEF StatesHeld, NextOf
  <2>3. ASSUME NEW d \in Engine  PROVE BitFollows(c, p, d)'
    <3>1. ~Stopped(p, d)'
      BY <2>1 DEF Changing, Stopped
    <3>2. CASE d = e
      <4>1. BitFollows(c, p, d)
        BY <2>1, OwnerElsewhere DEF InvBits, BitsFollow
      <4>2. QED
        BY <2>1, <2>2, <3>1, <3>2, <4>1 DEF BitFollows, msrs
    <3>3. CASE d # e
      <4>1. ~Changing(p, d)
        BY <3>3 DEF Changing, NextOf
      <4>2. d \in debugctl[c] <=> p \in table[d]
        BY <2>1, <4>1, BitIsExact DEF InvBits
      <4>3. QED
        BY <2>1, <3>1, <4>2 DEF BitFollows, msrs
    <3>4. QED
      BY <3>2, <3>3
  <2>4. QED
    BY <1>2, <2>1, <2>3, ProcessInvBits DEF msrs
<1>6. CASE ReadDebugctl(c, p)
  <2>1. /\ Does(c, p, "lbr", "read") /\ dbgctlmsr' = [dbgctlmsr EXCEPT ![p] = debugctl[c]]
        /\ UNCHANGED <<table, msrs>>
    BY <1>6 DEF ReadDebugctl
  <2>2. dbgctlmsr'[p] = debugctl[c] /\ \A x \in Pid : x # p => dbgctlmsr'[x] = dbgctlmsr[x]
    BY <2>1 DEF TypeOK
  <2>3. BitFollows(c, p, "lbr")'
    BY <1>1, <2>1, DoesChanges DEF BitFollows, msrs
  <2>4. QED
    BY <1>1, <1>2, <2>1, <2>2, <2>3, DoesInvBits DEF msrs
<1>7. CASE WriteDebugctl(c, p)
  <2>1. PICK step \in {"clear", "set"} :
          /\ Does(c, p, "lbr", step)
          /\ debugctl' = [debugctl EXCEPT ![c] =
                IF step = "set" THEN WithLbr(dbgctlmsr[p]) ELSE WithoutLbr(dbgctlmsr[p])]
    BY <1>7 DEF WriteDebugctl
  <2>2. /\ dbgctlmsr' = [dbgctlmsr EXCEPT ![p] = {}] /\ UNCHANGED <<table, ds_area>>
        /\ pc[p] # <<>> /\ NextOf(p).step = step
    BY <1>7, <2>1, DoesEffect DEF WriteDebugctl
  <2>3. ~Changing(p, "bts")
    BY <2>1, DoesChanges
  <2>4. /\ "bts" \in debugctl[c] <=> p \in table["bts"]
        /\ "bts" \in dbgctlmsr[p] <=> p \in table["bts"]
    BY <1>1, <2>1, <2>2, <2>3, BitIsExact DEF InvBits, Engine, CopyExact
  <2>5. /\ "bts" \in debugctl'[c] <=> "bts" \in debugctl[c]
        /\ "lbr" \in debugctl'[c] <=> step = "set"
        /\ \A x \in CPU : x # c => debugctl'[x] = debugctl[x]
    BY <2>1, <2>4 DEF TypeOK, WithLbr, WithoutLbr
  <2>6. BitFollows(c, p, "lbr")'
    <3>1. p \in table'["lbr"]
      BY <1>1, <2>1, <2>2
    <3>2. CASE step = "set"
      BY <2>1, <2>5, <3>1, <3>2, DoesChanges DEF BitFollows
    <3>3. CASE step = "clear"
      BY <2>1, <2>5, <3>3, DoesChanges DEF BitFollows
    <3>4. QED
      BY <3>2, <3>3
  <2>7. \A x \in Pid : x # p => dbgctlmsr'[x] = dbgctlmsr[x]
    BY <2>2 DEF TypeOK
  <2>8. \A d \in Engine : d # "lbr" => d = "bts"
    BY DEF Engine
  <2>9. ds_area'[c] = IF "bts" \in debugctl'[c] THEN p ELSE NoPid
    BY <1>1, <1>2, <2>1, <2>2, <2>5
  <2>10. QED
    BY <2>1, <2>2, <2>5, <2>6, <2>7, <2>8, <2>9, DoesInvBits
<1>8. CASE CopyRecords(c, p)
  <2>1. PICK e \in Engine, step \in {"save", "load", "copy"} : Does(c, p, e, step)
    BY <1>1, <1>8 DEF CopyRecords
  <2>2. UNCHANGED <<table, msrs, dbgctlmsr>>
    BY <1>8 DEF CopyRecords
  <2>3. BitFollows(c, p, e)'
    <3>1. CASE step \in {"save", "load"}
      <4>1. Changing(p, e)' /\ (Stopped(p, e)' => Stopped(p, e))
        BY <2>1, <3>1, DoesChanges
      <4>2. QED
        BY <1>1, <2>1, <2>2, <4>1 DEF BitFollows, msrs
    <3>2. CASE step = "copy"
      <4>1. ~Changing(p, e) /\ ~Stopped(p, e)'
        BY <2>1, <3>2, DoesChanges
      <4>2. QED
        BY <1>1, <2>1, <2>2, <4>1 DEF BitFollows, msrs
    <3>3. QED
      BY <3>1, <3>2
  <2>4. QED
    BY <1>1, <1>2, <2>1, <2>2, <2>3, DoesInvBits DEF msrs
<1>9. CASE SwitchBts(c, p)
  <2>1. PICK step \in {"get", "put"} :
          /\ Does(c, p, "bts", step)
          /\ debugctl' = [debugctl EXCEPT ![c] = IF step = "put" THEN @ \cup {"bts"}
                                                ELSE @ \ {"bts"}]
          /\ ds_area' = [ds_area EXCEPT ![c] = IF step = "put" THEN p ELSE NoPid]
    BY <1>9 DEF SwitchBts, Stop, Start
  <2>2. UNCHANGED <<table, dbgctlmsr>>
    BY <1>9 DEF SwitchBts
  <2>3. /\ "bts" \in debugctl'[c] <=> step = "put"
        /\ ds_area'[c] = IF step = "put" THEN p ELSE NoPid
        /\ \A d \in Engine : d # "bts" => (d \in debugctl'[c] <=> d \in debugctl[c])
        /\ \A x \in CPU : x # c => debugctl'[x] = debugctl[x] /\ ds_area'[x] = ds_area[x]
    BY <2>1 DEF TypeOK
  <2>4. BitFollows(c, p, "bts")'
    <3>1. p \in table'["bts"]
      BY <1>1, <2>1, <2>2
    <3>2. CASE step = "put"
      BY <2>1, <2>3, <3>1, <3>2, DoesChanges DEF BitFollows
    <3>3. CASE step = "get"
      BY <2>1, <2>3, <3>3, DoesChanges DEF BitFollows
    <3>4. QED
      BY <3>2, <3>3
  <2>5. QED
    BY <2>1, <2>2, <2>3, <2>4, DoesInvBits
<1>10. CASE Remove(c, p)
  <2>1. PICK e \in Engine : /\ Does(c, p, e, "remove")
                           /\ table' = [table EXCEPT ![e] = @ \ {p}]
                           /\ UNCHANGED <<msrs, dbgctlmsr>>
    BY <1>10 DEF Remove
  <2>2. Stopped(p, e)
    BY <2>1, DoesChanges
  <2>3. e \notin debugctl[c]
    BY <1>1, <2>1, <2>2 DEF BitFollows
  <2>4. /\ p \notin table'[e] /\ \A d \in Engine : d # e => table'[d] = table[d]
        /\ \A d \in Engine : \A x : x # p => (x \in table'[d] <=> x \in table[d])
    BY <2>1 DEF TypeOK
  <2>5. BitFollows(c, p, e)'
    BY <2>1, <2>3, <2>4 DEF BitFollows, msrs
  <2>6. QED
    BY <1>1, <1>2, <2>1, <2>4, <2>5, DoesInvBits DEF msrs
<1>11. CASE Exit(c, p)
  BY <1>11, SameBits DEF Exit, msrs, swtch
<1>12. QED
  BY <1>3, <1>4, <1>5, <1>6, <1>7, <1>8, <1>9, <1>10, <1>11 DEF ProcStep, Proceeds

LEMMA InitBits == Init => InvBits
<1> SUFFICES ASSUME Init PROVE InvBits
  OBVIOUS
<1>1. DisablesUnpreempted /\ KeepsCore /\ CopyExact /\ AreaFollows
  BY DEF Init, DisablesUnpreempted, KeepsCore, CopyExact, AreaFollows
<1>2. BitsFollow
  BY DEF Init, BitsFollow, BitFollows
<1>3. QED
  BY <1>1, <1>2 DEF InvBits

LEMMA StutterBits == InvBits /\ UNCHANGED vars => InvBits'
<1> SUFFICES ASSUME InvBits, UNCHANGED vars PROVE InvBits'
  OBVIOUS
<1>1. QED
  BY SameBits DEF vars, msrs, swtch, procs

\* Until an engine's init is over nobody is traced by it, and no request is
\* served for it.
LEMMA NextUntouched ==
    ASSUME Patient
    PROVE  Inv /\ Inv' /\ Untouched /\ [Next]_vars => Untouched'
<1> SUFFICES ASSUME Inv, Inv', Untouched, [Next]_vars PROVE Untouched'
  OBVIOUS
<1> USE DEF Inv, InvModule, InvType
<1>0. \A p \in Pid : pc[p] # <<>> => Head(pc[p]).engine \in Engine
  BY EnginesOfOperations
<1>1. CASE UNCHANGED vars
  BY <1>1 DEF Untouched, vars, module, procs
<1>2. CASE CreateEntry \/ LoaderStep \/ Unload
  <2>1. UNCHANGED pc
    BY <1>2 DEF CreateEntry, LoaderStep, RegisterTracepoints, LbrInit, BtsInit, FreeStates,
       UnregisterTracepoints, RemoveEntry, Rundown, Unload, procs
  <2>2. ASSUME NEW e \in Engine, loader \in Flushed[e]
        PROVE  loader' \in Flushed[e] \/ loader' = "bts_exit"
    BY <1>2, <2>2 DEF CreateEntry, LoaderStep, RegisterTracepoints, LbrInit, BtsInit, FreeStates,
       UnregisterTracepoints, RemoveEntry, Rundown, Unload, Loader, Flushed, Engine
  <2>3. ASSUME NEW p \in Pid, pc'[p] # <<>>
        PROVE  loader' \in Flushed[Head(pc'[p]).engine]
    <3>1. Head(pc[p]).engine \in Engine /\ loader \in Flushed[Head(pc[p]).engine]
      BY <1>0, <2>1, <2>3 DEF Untouched
    <3>2. loader' # "bts_exit"
      BY <2>1, <2>3, <3>1 DEF Phases, Usable, Engine
    <3>3. QED
      BY <2>1, <2>2, <3>1, <3>2
  <2>4. ASSUME NEW e \in Engine, table'[e] # {}
        PROVE  loader' \in Flushed[e] \cup Unloading
    <3>1. table[e] # {}
      BY <1>2, <2>4 DEF CreateEntry, LoaderStep, RegisterTracepoints, LbrInit, BtsInit, FreeStates,
         UnregisterTracepoints, RemoveEntry, Rundown, Unload, FreeAll, TypeOK, Engine
    <3>2. loader' # "out"
      BY <2>4 DEF Phases, Usable, Engine
    <3>3. CASE loader \in Flushed[e]
      BY <2>2, <3>3 DEF Unloading
    <3>4. CASE loader \in Unloading
      BY <1>2, <3>2, <3>4 DEF CreateEntry, LoaderStep, RegisterTracepoints, LbrInit, BtsInit,
         FreeStates, UnregisterTracepoints, RemoveEntry, Rundown, Unload, Loader, Unloading
    <3>5. QED
      BY <3>1, <3>3, <3>4 DEF Untouched
  <2>5. QED
    BY <2>3, <2>4 DEF Untouched
<1>3. ASSUME NEW c \in CPU, Flush(c)  PROVE Untouched'
  <2>1. UNCHANGED <<table, pc>>
    BY <1>3 DEF Flush, procs
  <2>2. \/ loader' = loader
        \/ loader = "lbr_flush" /\ loader' = "bts_init"
        \/ loader = "bts_flush" /\ loader' = "in"
        \/ loader = "bts_exit" /\ loader' = "bts_free"
        \/ loader = "lbr_exit" /\ loader' = "lbr_free"
    BY <1>3 DEF Flush, FlushPhase, Flushing
  <2>3. \A e \in Engine : /\ loader \in Flushed[e] => loader' \in Flushed[e]
                          /\ loader \in Unloading => loader' \in Unloading
    BY <2>2 DEF Flushed, Engine, Unloading
  <2>4. QED
    BY <1>0, <2>1, <2>3 DEF Untouched
<1>4. ASSUME NEW c \in CPU, SwitchStep(c) \/ \E n \in Task : SwitchTo(c, n)  PROVE Untouched'
  <2>1. UNCHANGED <<loader, table, pc>>
    BY <1>4 DEF SwitchStep, SwitchFind, SwitchRegisters, Handles, SwitchTo, module, procs
  <2>2. QED
    BY <2>1 DEF Untouched
<1>5. ASSUME NEW c \in CPU, NEW p \in Pid, ProcStep(c, p)  PROVE Untouched'
  <2>1. loader' = loader
    BY <1>5 DEF ProcStep, Proceeds, Ioctl, Does, Insert, CreateFails, ReadDebugctl,
       WriteDebugctl, CopyRecords, SwitchBts, Remove, Exit, module
  <2>2. ASSUME NEW cmd \in Cmds[<<processor, preempt>>], Ioctl(c, p, cmd)  PROVE Untouched'
    <3> DEFINE r == Request(cmd)
    <3>1. r.engine \in Engine /\ r.op \in Operation
      BY <2>2, UsersAssumption, RequestIs DEF TypeOK, Ioctl
    <3>2. /\ loader \in Flushed[r.engine] /\ UNCHANGED table
          /\ pc' = [pc EXCEPT ![p] = Program(r.engine, r.op)]
      BY <2>2, <3>1 DEF Ioctl, Patient
    <3>3. Head(pc'[p]).engine = r.engine /\ \A x \in Pid : x # p => pc'[x] = pc[x]
      BY <3>1, <3>2, ProgramBegins DEF TypeOK
    <3>4. QED
      BY <2>1, <3>2, <3>3 DEF Untouched
  <2>3. ASSUME NEW e, NEW step, Does(c, p, e, step),
               \A d \in Engine : d # e => table'[d] = table[d]
        PROVE  Untouched'
    <3>1. /\ pc[p] # <<>> /\ Head(pc[p]).engine = e /\ pc'[p] = Tail(pc[p])
          /\ Follows(pc[p]) /\ \A x \in Pid : x # p => pc'[x] = pc[x]
      BY <2>3, DoesEffect DEF NextOf
    <3>2. e \in Engine /\ loader \in Flushed[e]
      BY <1>0, <3>1 DEF Untouched
    <3>3. pc'[p] # <<>> => Head(pc'[p]).engine = e
      BY <3>1 DEF Follows
    <3>4. QED
      BY <2>1, <2>3, <3>1, <3>2, <3>3 DEF Untouched
  <2>4. CASE Insert(c, p) \/ Remove(c, p)
    <3>1. PICK e \in Engine, step \in {"insert", "remove"} :
             /\ Does(c, p, e, step)
             /\ \/ UNCHANGED table
                \/ table' = [table EXCEPT ![e] = @ \cup {p}]
                \/ table' = [table EXCEPT ![e] = @ \ {p}]
      BY <2>4 DEF Insert, Remove
    <3>2. \A d \in Engine : d # e => table'[d] = table[d]
      BY <3>1 DEF TypeOK
    <3>3. QED
      BY <2>3, <3>1, <3>2
  <2>5. CASE ReadDebugctl(c, p) \/ WriteDebugctl(c, p) \/ CopyRecords(c, p) \/ SwitchBts(c, p)
    BY <2>3, <2>5 DEF ReadDebugctl, WriteDebugctl, CopyRecords, SwitchBts
  <2>6. CASE CreateFails(c, p) \/ Exit(c, p)
    <3>1. UNCHANGED table /\ \A x \in Pid : pc'[x] # <<>> => pc'[x] = pc[x]
      BY <2>6 DEF CreateFails, Exit, TypeOK
    <3>2. QED
      BY <2>1, <3>1 DEF Untouched
  <2>7. QED
    BY <1>5, <2>2, <2>4, <2>5, <2>6 DEF ProcStep, Proceeds
<1>6. QED
  BY <1>1, <1>2, <1>3, <1>4, <1>5 DEF Next

LEMMA AlwaysBits ==
    ASSUME Orderly, EngineThere, Patient, NoLateDisable
    PROVE  Spec => [](Inv /\ Untouched /\ InvBits)
<1>1. Init => Inv /\ Untouched /\ InvBits
  <2>1. Init => Untouched
    BY DEF Init, Untouched
  <2>2. QED
    BY <2>1, InitInv, InitBits
<1>2. Inv /\ Untouched /\ InvBits /\ [Next]_vars => (Inv /\ Untouched /\ InvBits)'
  <2>1. Inv /\ Untouched /\ InvBits /\ Next => InvBits'
    BY LoaderBits, FlushBits, SwitchToBits, HandlerBits, ProcBits DEF Next
  <2>2. QED
    BY <2>1, NextInv, NextUntouched, StutterBits
<1>3. QED
  BY <1>1, <1>2, PTL DEF Spec

\* EnginesStayApart: a core that runs user code or idles has the bits of exactly
\* the engines that trace its process; in particular the value of DEBUGCTL that
\* get_lbr and put_lbr write back, read unlocked and maybe on another core,
\* never loses or revives the BTS bits.  The users have to wait with requests
\* until the init of the engine has flushed all cores, which otherwise takes
\* away what is in use, and be done when rmmod begins; they may enable only
\* what the machine has; and where the kernel is preemptible nobody may disable
\* an engine.  None of that is seen to by the code (lbr.c: get_lbr, put_lbr,
\* disable_lbr; bts.c: get_bts, put_bts; libiht_lkm.c: tp_sched_switch_handler).
THEOREM EnginesStayApart ==
    ASSUME Orderly, EngineThere, Patient, NoLateDisable
    PROVE  Spec => []BitsExact
<1>1. Inv /\ InvBits => BitsExact
  <2> SUFFICES ASSUME Inv, InvBits, NEW c \in CPU, at[c] = <<>>,
                      run[c] = NoPid \/ pc[run[c]] = <<>>
               PROVE  debugctl[c] = {e \in Engine : run[c] \in table[e]}
    BY DEF BitsExact
  <2>1. debugctl[c] \subseteq Engine
    BY DEF Inv, InvModule, InvType, TypeOK
  <2>2. ASSUME NEW e \in Engine  PROVE e \in debugctl[c] <=> run[c] \in table[e]
    <3>1. Owner(c, e) = run[c] /\ BitFollows(c, Owner(c, e), e)
      BY DEF Owner, InvBits, BitsFollow
    <3>2. ~Changing(run[c], e)
      BY DEF Changing
    <3>3. QED
      BY <3>1, <3>2 DEF BitFollows
  <2>3. QED
    BY <2>1, <2>2
<1>2. QED
  BY <1>1, AlwaysBits, PTL

\* StoresHaveAnArea: whenever a core may store branches, DS_AREA points to the
\* debug store area of a process that has one, and it points to one only then:
\* no core ever stores into an area that was freed.  The users see to the same as
\* above (bts.c: get_bts, put_bts, flush_bts, remove_bts_state,
\* free_bts_state_list).
THEOREM StoresHaveAnArea ==
    ASSUME Orderly, EngineThere, Patient, NoLateDisable
    PROVE  Spec => []AreaExact
<1>1. Inv /\ InvBits => AreaExact
  <2> SUFFICES ASSUME Inv, InvBits, NEW c \in CPU
               PROVE  /\ "bts" \in debugctl[c] <=> ds_area[c] # NoPid
                      /\ ds_area[c] # NoPid => ds_area[c] \in table["bts"]
    BY DEF AreaExact
  <2>1. Owner(c, "bts") = run[c] /\ BitFollows(c, Owner(c, "bts"), "bts")
    BY DEF Owner, InvBits, BitsFollow, Engine
  <2>2. "bts" \in debugctl[c] => run[c] \in table["bts"] /\ run[c] # NoPid
    BY <2>1, TracedIsTask DEF BitFollows, Inv, InvModule, InvType
  <2>3. QED
    BY <2>2 DEF InvBits, AreaFollows
<1>2. QED
  BY <1>1, AlwaysBits, PTL

----------------------------------------------------------------------------
(* What the flush at unloading took away does not come back.               *)

LEMMA FlushedOnce ==
    ASSUME Orderly, Inv, StaysFlushed, CreateEntry \/ LoaderStep \/ Unload
    PROVE  StaysFlushed'
<1> USE DEF Inv, InvModule, InvType
<1>1. UNCHANGED msrs
  BY DEF CreateEntry, LoaderStep, RegisterTracepoints, LbrInit, BtsInit, FreeStates,
     UnregisterTracepoints, RemoveEntry, Rundown, Unload
<1>2. \A c \in CPU, e \in Engine : PastFlush(c, e)' => PastFlush(c, e)
  BY DEF CreateEntry, LoaderStep, RegisterTracepoints, LbrInit, BtsInit, FreeStates, Loader,
     UnregisterTracepoints, RemoveEntry, Rundown, Unload, PastFlush, FlushPhase, Flushing, Engine
<1>3. QED
  BY <1>1, <1>2 DEF StaysFlushed, msrs

LEMMA FlushFlushes ==
    ASSUME Inv, StaysFlushed, NEW c \in CPU, Flush(c)
    PROVE  StaysFlushed'
<1> USE DEF Inv, InvModule, InvType
<1> DEFINE f == IF loader \in {"lbr_flush", "lbr_exit"} THEN "lbr" ELSE "bts"
<1>1. /\ debugctl' = [debugctl EXCEPT ![c] = @ \ {f}]
      /\ ds_area' = IF f = "bts" THEN [ds_area EXCEPT ![c] = NoPid] ELSE ds_area
      /\ unflushed' = unflushed \ {c} /\ c \in unflushed /\ loader \in Flushing
      /\ loader' = IF unflushed' # {} THEN loader
                   ELSE CASE loader = "lbr_flush" -> "bts_init"
                          [] loader = "bts_flush" -> "in"
                          [] loader = "bts_exit"  -> "bts_free"
                          [] loader = "lbr_exit"  -> "lbr_free"
  BY DEF Flush, Stop, LeftUnflushed, FlushPhase
<1>2. ASSUME NEW x \in CPU, NEW e \in Engine, PastFlush(x, e)'
      PROVE  e \notin debugctl'[x] /\ (e = "bts" => ds_area'[x] = NoPid)
  <2>1. PastFlush(x, e) \/ (x = c /\ e = f)
    <3>1. loader \in {"bts_exit", "lbr_exit"}
      BY <1>1, <1>2 DEF PastFlush, Flushing
    <3>2. CASE unflushed' # {}
      BY <1>1, <1>2, <3>1, <3>2 DEF PastFlush
    <3>3. CASE unflushed' = {}
      <4>1. x = c \/ x \notin unflushed
        BY <1>1, <3>3
      <4>2. QED
        BY <1>1, <1>2, <3>1, <3>3, <4>1 DEF PastFlush, Engine
    <3>4. QED
      BY <3>2, <3>3
  <2>2. CASE PastFlush(x, e)
    <3>1. e \notin debugctl[x] /\ (e = "bts" => ds_area[x] = NoPid)
      BY <2>2 DEF StaysFlushed
    <3>2. QED
      BY <1>1, <3>1 DEF TypeOK
  <2>3. CASE x = c /\ e = f
    BY <1>1, <2>3 DEF TypeOK
  <2>4. QED
    BY <2>1, <2>2, <2>3
<1>3. QED
  BY <1>2 DEF StaysFlushed

\* A handler finds nobody to start.
LEMMA HandlerStaysFlushed ==
    ASSUME Inv, StaysFlushed, NEW c \in CPU, SwitchRegisters(c)
    PROVE  StaysFlushed'
<1> USE DEF Inv, InvModule, InvType
<1>1. PICK e \in Engine : Handles(c, e, "switch") /\ SwitchRegisters(c)!(e)
  BY DEF SwitchRegisters
<1>2. /\ at[c] # <<>> /\ Head(at[c]) = SwitchStepOf(e, "switch") /\ UNCHANGED module
  BY <1>1, HandlesEffect
<1>3. \A x \in CPU, d \in Engine : PastFlush(x, d)' = PastFlush(x, d)
  BY <1>2 DEF PastFlush, module
<1>4. ASSUME NEW x \in CPU, NEW d \in Engine, PastFlush(x, d)
      PROVE  d \notin debugctl'[x] /\ (d = "bts" => ds_area'[x] = NoPid)
  <2>1. d \notin debugctl[x] /\ (d = "bts" => ds_area[x] = NoPid)
    BY <1>4 DEF StaysFlushed
  <2>2. CASE x # c
    BY <1>1, <2>1, <2>2 DEF TypeOK
  <2>3. CASE x = c
    <3>1. loader \in Unloading
      BY <1>2, <1>4, <2>3 DEF PastFlush, Unloading, Gone
    <3>2. \A q \in Pid : Traced(q) => ~OnCore(q)
      BY <3>1 DEF Phases
    <3>3. next_task[c] \notin table[e]
      BY <1>2, <3>2, TracedIsTask DEF OnCore
    <3>4. "next" \notin found[c]
      <4>1. FoundRight(c)
        BY DEF Findings
      <4>2. Head(at[c]).step = "switch" /\ Head(at[c]).engine = e
        BY <1>2 DEF SwitchStepOf
      <4>3. QED
        BY <1>2, <3>3, <4>1, <4>2 DEF FoundRight, Party
    <3>5. QED
      BY <1>1, <2>1, <2>3, <3>4 DEF TypeOK
  <2>4. QED
    BY <2>2, <2>3
<1>5. QED
  BY <1>3, <1>4 DEF StaysFlushed

LEMMA NextStaysFlushed ==
    ASSUME Orderly
    PROVE  Inv /\ StaysFlushed /\ [Next]_vars => StaysFlushed'
<1> SUFFICES ASSUME Inv, StaysFlushed, [Next]_vars PROVE StaysFlushed'
  OBVIOUS
<1>1. ASSUME UNCHANGED <<module, msrs>>  PROVE StaysFlushed'
  BY <1>1 DEF StaysFlushed, PastFlush, module, msrs
<1>2. CASE UNCHANGED vars
  BY <1>1, <1>2 DEF vars
<1>3. ASSUME NEW c \in CPU, SwitchStep(c) \/ \E n \in Task : SwitchTo(c, n)
      PROVE  StaysFlushed'
  BY <1>1, <1>3, HandlerStaysFlushed DEF SwitchStep, SwitchFind, Handles, SwitchTo
<1>4. ASSUME NEW c \in CPU, NEW p \in Pid, ProcStep(c, p)  PROVE StaysFlushed'
  <2>1. CASE pc[p] = <<>>
    <3>1. UNCHANGED <<module, msrs>>
      BY <1>4, <2>1 DEF ProcStep, Proceeds, Ioctl, Exit, Does, Insert, CreateFails,
         ReadDebugctl, WriteDebugctl, CopyRecords, SwitchBts, Remove
    <3>2. QED
      BY <1>1, <3>1
  <2>2. CASE pc[p] # <<>>
    <3>1. Head(pc[p]).engine \in Engine
      BY <2>2, EnginesOfOperations DEF Inv, InvModule, InvType
    <3>2. loader \in {"lbr_flush", "bts_init", "bts_flush", "in"}
      BY <2>2, <3>1 DEF Inv, Phases, Usable, Engine
    <3>3. UNCHANGED loader
      BY <1>4 DEF ProcStep, Proceeds, Ioctl, Does, Insert, CreateFails, ReadDebugctl,
         WriteDebugctl, CopyRecords, SwitchBts, Remove, Exit, module
    <3>4. QED
      BY <3>2, <3>3 DEF StaysFlushed, PastFlush
  <2>3. QED
    BY <2>1, <2>2
<1>5. QED
  BY <1>2, <1>3, <1>4, FlushedOnce, FlushFlushes DEF Next

\* NothingStaysBehind: once the module is out there is no state, no tracing on
\* any core, no probe and no device left, also where requests during loading or
\* disables on a preemptible kernel had left bits behind: the flush takes them
\* away before the states go, and nothing sets them again.  It takes users that
\* begin to unload the module when no request is served and no living process is
\* traced, and send no request from then on.  The code sees to none of that:
\* with a traced process CleanUp fails, as lkm_unload shows, and so it does with
\* an enable that comes before proc_remove (libiht_lkm.c: libiht_lkm_exit;
\* lbr.c: lbr_exit; bts.c: bts_exit).
THEOREM NothingStaysBehind == ASSUME Orderly, EngineThere PROVE Spec => []CleanUp
<1>1. Init => StaysFlushed
  BY DEF Init, StaysFlushed
<1>2. Spec => [](Inv /\ StaysFlushed)
  <2>1. Init => Inv /\ StaysFlushed
    BY <1>1, InitInv
  <2>2. Inv /\ StaysFlushed /\ [Next]_vars => (Inv /\ StaysFlushed)'
    BY NextInv, NextStaysFlushed
  <2>3. QED
    BY <2>1, <2>2, PTL DEF Spec
<1>3. Inv /\ StaysFlushed => CleanUp
  <2> SUFFICES ASSUME Inv, StaysFlushed, loader = "out"
               PROVE  /\ \A e \in Engine : table[e] = {}
                      /\ \A c \in CPU : debugctl[c] = {} /\ ds_area[c] = NoPid
                      /\ ~probe /\ ~proc_entry
    BY DEF CleanUp
  <2>1. \A e \in Engine : table[e] = {}
    BY DEF Inv, Phases, Usable, Engine
  <2>2. \A c \in CPU : debugctl[c] = {} /\ ds_area[c] = NoPid
    BY DEF StaysFlushed, PastFlush, Engine, Inv, InvModule, InvType, TypeOK
  <2>3. QED
    BY <2>1, <2>2 DEF Inv, InvModule, Gone
<1>4. QED
  BY <1>2, <1>3, PTL
=============================================================================
