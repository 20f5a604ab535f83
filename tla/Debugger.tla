------------------------------ MODULE Debugger ------------------------------
(***************************************************************************)
(* A debugger on top of library and driver: the GDB plugin                 *)
(* (lib/lkm/src/libiht-gdb.py) or the WinDbg extension                     *)
(* (lib/kmd/kmd-ext/kmd-ext.cpp).  Per engine it keeps the last request,   *)
(* with the buffer that dumps fill, and a flag.  The extension tests the   *)
(* flag before every command, the plugin never.                            *)
(*                                                                         *)
(* The commands are entered in any order; between them the debugger and    *)
(* the processes it traces run.                                            *)
(***************************************************************************)
EXTENDS BtsRing, UserLib

CONSTANTS
    Self,          \* the debugger's pid
    Shown          \* what the extension's DumpBTS prints: the first 32

ASSUME DebuggerAssumption ==
    Self \in Pid /\ Engine = {"lbr", "bts"} /\ Shown \in 0..BtsLen

VARIABLES
    req,           \* lbr_req.pid and bts_req.pid
    buffer,        \* lbr_req.buffer; since and upto: the branches it shows
    btsBuffer,     \* bts_req.buffer, likewise
    enabled        \* lbr_enable, bts_enable

client == <<req, buffer, btsBuffer, enabled>>
vars == <<run, count, lbr, bts, lib, client>>

----------------------------------------------------------------------------
Index == 0..(MaxLen - 1)
NewBuffer == [tos |-> 0, entries |-> [i \in Index |-> Junk], since |-> 0, upto |-> 0]
NewBtsBuffer == [index |-> 0, entries |-> NewArea.entries, since |-> 0, upto |-> 0]
TracedBy(e) == IF e = "lbr" THEN Traced ELSE BtsTraced

\* The type invariant.
TypeOK ==
    /\ RingTypeOK /\ BtsTypeOK /\ LibTypeOK
    /\ req \in [Engine -> Pid \cup {NoPid}]
    /\ enabled \in [Engine -> BOOLEAN]
    /\ buffer \in [tos : Index, entries : [Index -> Records \cup {Junk}],
                   since : Nat, upto : Nat]
    /\ btsBuffer \in [index : Place, entries : [Place -> Records \cup {Junk}],
                      since : Nat, upto : Nat]

Init ==
    /\ RingInit /\ BtsInit /\ LibInit
    /\ req = [e \in Engine |-> NoPid]
    /\ buffer = NewBuffer /\ btsBuffer = NewBtsBuffer /\ enabled = [e \in Engine |-> FALSE]

----------------------------------------------------------------------------
(* The commands.  Each is one step: the debugger does not lose its core in *)
(* a way that matters, as what it traces is stopped.                       *)

\* The flag's test; faulty variants first.
GoesOnAlways(e, needed) == TRUE
GoesOn(e, needed) == port = "windbg" => enabled[e] = needed

\* The pid 0 is the caller; a plugin without a process asks for that.
Target(pid) == IF pid = NoPid THEN Self ELSE pid

\* The driver's answer to an enable, which may fail for want of memory.
Insert(e, p) ==
    \/ e = "lbr" /\ EnableLbr(p) /\ UNCHANGED bts
    \/ e = "bts" /\ EnableBts(p) /\ UNCHANGED lbr
    \/ UNCHANGED <<lbr, bts>>

\* The request and the flag are set whatever came of it.
Enable(e, pid) ==
    /\ run = Self /\ GoesOn(e, FALSE)
    /\ Open(e)
    /\ IF Reaches(handle[e])' THEN Insert(e, Target(pid)) ELSE UNCHANGED <<lbr, bts>>
    /\ req' = [req EXCEPT ![e] = Target(pid)] /\ enabled' = [enabled EXCEPT ![e] = TRUE]
    /\ IF e = "lbr" THEN buffer' = NewBuffer /\ UNCHANGED btsBuffer
                    ELSE btsBuffer' = NewBtsBuffer /\ UNCHANGED buffer
    /\ UNCHANGED <<run, count>>

Remove(e, p) ==
    \/ e = "lbr" /\ DisableLbr(p) /\ UNCHANGED bts
    \/ e = "bts" /\ DisableBts(p) /\ UNCHANGED lbr
    \/ p \notin TracedBy(e) /\ UNCHANGED <<lbr, bts>>

\* Without a request the plugin's command ends in an exception.
Disable(e) ==
    /\ run = Self /\ req[e] # NoPid /\ GoesOn(e, TRUE)
    /\ IF Reaches(handle[e]) THEN Remove(e, req[e]) ELSE UNCHANGED <<lbr, bts>>
    /\ Close(e)
    /\ enabled' = [enabled EXCEPT ![e] = FALSE]
    /\ UNCHANGED <<run, count, req, buffer, btsBuffer>>

\* A dump; if the driver is not reached or refuses, the buffer stays as it is
\* and is printed again.
Dump(e) ==
    /\ run = Self /\ req[e] # NoPid /\ GoesOn(e, TRUE)
    /\ Reaches(handle[e]) /\ req[e] \in TracedBy(e)
    /\ \/ e = "lbr" /\ DumpLbr(req[e]) /\ buffer' = Copied(req[e], buffer)
          /\ UNCHANGED <<bts, btsBuffer>>
       \/ e = "bts" /\ btsBuffer' = CopiedArea(req[e]) /\ UNCHANGED <<lbr, bts, buffer>>
    /\ UNCHANGED <<run, count, lib, req, enabled>>

\* What the plugin's DumpLBR prints, from the first line: a ring of MaxLen records turned
\* so that it begins behind the newest.  A faulty variant first.
TurnedEarly(b) == [i \in 1..MaxLen |-> b.entries[(b.tos + i - 1) % MaxLen]]
Turned(b) == [i \in 1..MaxLen |-> b.entries[(b.tos + i) % MaxLen]]

\* The extension's prints the entries below lbr_tos, in the ring's order.
Below(b) == {b.entries[i] : i \in 0..(b.tos - 1)}

\* DumpBTS prints in the buffer's order: the plugin all, the extension the first.
All(b) == {b.entries[i] : i \in Place}
First(b) == {b.entries[i] : i \in 0..(Shown - 1)}

----------------------------------------------------------------------------
\* No debugger traces itself but by the pid 0.
Command == \E e \in Engine :
    Disable(e) \/ Dump(e) \/ \E pid \in (Pid \ {Self}) \cup {NoPid} : Enable(e, pid)

Switch(p) ==
    /\ p # run /\ run' = p
    /\ SwitchLbr(p) /\ SwitchBts(p)
    /\ UNCHANGED <<count, lib, client>>

\* A branch that is recorded, or ought to be.
Branch ==
    /\ on \/ area # NoPid \/ \E e \in Engine : run \in TracedBy(e)
    /\ count[run] < MaxBranches[run] /\ count' = [count EXCEPT ![run] = @ + 1]
    /\ RecordLbr(<<run, count'[run]>>) /\ RecordBts(<<run, count'[run]>>)
    /\ UNCHANGED <<run, lib, client>>

Next == Command \/ Branch \/ \E p \in Pid : Switch(p)

Spec == Init /\ [][Next]_vars

----------------------------------------------------------------------------
(* Properties.                                                             *)

\* What is printed are the newest branches of the process the request names,
\* since it was enabled, once zero and never written records are left out.  The
\* plugin prints all that ring or buffer can hold, of the LBR from oldest to
\* newest, for every capacity of the processor; the extension no others
\* (libiht-gdb.py, "Print the LBR content from the oldest to the newest"; lbr.c,
\* dump_lbr; bts.c, dump_bts).
Real(r) == r \notin {Empty, Junk}
RealOf(records) == {r \in records : Real(r)}
Members(sequence) == {sequence[i] : i \in DOMAIN sequence}

\* The lines that show a record show those of the history, in its order.
InOrder(lines, history) ==
    /\ RealOf(Members(lines)) = Members(history)
    /\ \A i, j \in DOMAIN lines :
          (i < j /\ Real(lines[i]) /\ Real(lines[j])) => lines[i][2] < lines[j][2]

PrintedIsHistory ==
    LET ofLbr == History(capacity, req["lbr"], buffer.since, buffer.upto)
        ofBts == History(BtsLen, req["bts"], btsBuffer.since, btsBuffer.upto)
    IN  IF port = "gdb"
        THEN /\ InOrder(Turned(buffer), ofLbr)
             /\ RealOf(All(btsBuffer)) = Members(ofBts)
        ELSE /\ RealOf(Below(buffer)) \subseteq Members(ofLbr)
             /\ RealOf(First(btsBuffer)) \subseteq Members(ofBts)

\* A debugger that believes to trace nothing leaves nothing traced: the extension
\* nothing at all, the plugin, which may enable again before it disables, not
\* the process of its last request, as long as no open fails (api.c and kmd.cpp:
\* disable_lbr, disable_bts; kmd-ext.cpp: the flags).
ReleasesItsOwn ==
    \A e \in Engine :
        /\ port = "windbg" => TracedBy(e) \subseteq (IF enabled[e] THEN {req[e]} ELSE {})
        /\ (port = "gdb" /\ ~failed /\ ~enabled[e]) => req[e] \notin TracedBy(e)

\* On Windows, where closed numbers are reused, the open handles are those of
\* the enabled engines, one each: no command closes the other engine's handle
\* or calls through it, and none leaks (kmd.cpp: CloseHandle).
HandlesOwned ==
    port = "windbg" =>
        LET live == {e \in Engine : enabled[e] /\ handle[e] # INVALID}
        IN  /\ open = {handle[e] : e \in live}
            /\ Cardinality(open) = Cardinality(live)
=============================================================================
