----------------------------- MODULE DebuggerInv -----------------------------
(***************************************************************************)
(* Why the debuggers print the history of the process they ask about, and  *)
(* leave nothing traced: the inductive invariants behind the proofs.       *)
(***************************************************************************)
EXTENDS Debugger

----------------------------------------------------------------------------
(* Rings.                                                                  *)

\* How many records ago slot i of a ring was written whose newest record is in
\* slot newest.
Age(len, newest, i) == IF i <= newest THEN newest - i ELSE newest - i + len

\* A ring holds the branches of p of those numbered from+1 to upto, as many as
\* fit, and no others.
Holds(entries, len, newest, p, from, upto) ==
    \A i \in 0..(len - 1) :
        IF Age(len, newest, i) < upto - from
        THEN entries[i] = <<p, upto - Age(len, newest, i)>>
        ELSE ~Real(entries[i])

\* The records of p are in the registers while it runs, and else in its state.
Current(p) == IF p = run THEN [tos |-> tos, entries |-> slots] ELSE saved[p]

RingHolds(p) == Holds(Current(p).entries, capacity, Current(p).tos, p, since[p], count[p])
RingsFollow ==
    /\ on <=> run \in Traced
    /\ \A p \in Traced : RingHolds(p)

\* bts_index is where the next record goes.
Newest(index) == IF index = 0 THEN BtsLen - 1 ELSE index - 1

AreaHolds(p) == Holds(stored[p].entries, BtsLen, Newest(stored[p].index), p, btsSince[p], count[p])
AreasFollow ==
    /\ area = IF run \in BtsTraced THEN run ELSE NoPid
    /\ \A p \in BtsTraced : AreaHolds(p)

\* The buffers hold what the ring held at the last dump, and without a request
\* nothing.
BufferHolds ==
    /\ buffer.tos \in Slot /\ buffer.since <= buffer.upto
    /\ req["lbr"] \in Pid \/ buffer.since = buffer.upto
    /\ Holds(buffer.entries, capacity, buffer.tos, req["lbr"], buffer.since, buffer.upto)
    /\ \A i \in Index \ Slot : buffer.entries[i] = Junk
BtsBufferHolds ==
    /\ btsBuffer.since <= btsBuffer.upto
    /\ req["bts"] \in Pid \/ btsBuffer.since = btsBuffer.upto
    /\ Holds(btsBuffer.entries, BtsLen, Newest(btsBuffer.index), req["bts"],
             btsBuffer.since, btsBuffer.upto)

InvRecords == RingsFollow /\ AreasFollow /\ BufferHolds /\ BtsBufferHolds

----------------------------------------------------------------------------
(* Handles.                                                                *)

\* On Windows an enabled engine has a handle of its own, unless its open failed,
\* and nobody else has one.
HandlesApart ==
    port = "windbg" =>
        /\ \A e \in Engine : enabled[e] => handle[e] \in open \cup {INVALID}
        /\ \A e1, e2 \in Engine :
              (e1 # e2 /\ enabled[e1] /\ enabled[e2] /\ handle[e1] = handle[e2]) =>
                 handle[e1] = INVALID
        /\ \A h \in open : \E e \in Engine : enabled[e] /\ handle[e] = h

\* What is traced can be released: its engine has a handle.
Released ==
    \A e \in Engine :
        /\ port = "windbg" =>
              TracedBy(e) \subseteq (IF enabled[e] /\ Reaches(handle[e]) THEN {req[e]} ELSE {})
        /\ (port = "gdb" /\ ~failed) =>
              IF enabled[e] THEN Reaches(handle[e]) ELSE req[e] \notin TracedBy(e)

Inv == TypeOK /\ InvRecords /\ HandlesApart /\ Released
=============================================================================
