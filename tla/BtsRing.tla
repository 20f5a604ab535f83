------------------------------ MODULE BtsRing ------------------------------
(***************************************************************************)
(* The records of the BTS engine (kernel/commons/bts.c), beside those of   *)
(* the LBR engine: the processor stores them into the buffer of the debug  *)
(* store area that DS_AREA points to, and begins anew when it is full.     *)
(* The debuggers ask for the default size, BtsLen records, which is also   *)
(* that of the library's buffer.                                           *)
(***************************************************************************)
EXTENDS LbrRing

CONSTANTS
    BtsLen,        \* DEFAULT_BTS_BUFFER_SIZE and MAX_BTS_LIST_LEN, in records
    NoPid,         \* a null pointer; also: no request yet
    Junk           \* what an allocation finds in memory

ASSUME BtsAssumption ==
    BtsLen \in Nat \ {0} /\ NoPid \notin Pid /\ Junk \notin Pid \X Nat

VARIABLES
    area,          \* the pid whose debug store area is in DS_AREA, if any
    stored,        \* pid -> buffer and bts_index, for those on the list
    btsSince       \* history: count when the process was enabled

bts == <<area, stored, btsSince>>

----------------------------------------------------------------------------
BtsTraced == DOMAIN stored
Place == 0..(BtsLen - 1)
NewArea == [index |-> 0, entries |-> [i \in Place |-> Junk]]

BtsTypeOK ==
    /\ area \in Pid \cup {NoPid}
    /\ BtsTraced \subseteq Pid
    /\ \A p \in BtsTraced :
          stored[p] \in [index : Place, entries : [Place -> Records \cup {Junk}]]
    /\ btsSince \in [Pid -> Nat] /\ \A p \in Pid : btsSince[p] <= count[p]

BtsInit == area = NoPid /\ stored = << >> /\ btsSince = [p \in Pid |-> 0]

----------------------------------------------------------------------------
\* The processor stores record r.
RecordBts(r) ==
    /\ stored' = IF area = NoPid THEN stored
                 ELSE [stored EXCEPT ![area].entries[stored[area].index] = r,
                                     ![area].index = (@ + 1) % BtsLen]
    /\ UNCHANGED <<area, btsSince>>

\* bts_cswitch_handler: the records stay in the buffer.
SwitchBts(p) ==
    /\ area' = IF p \in BtsTraced THEN p ELSE IF run \in BtsTraced THEN NoPid ELSE area
    /\ UNCHANGED <<stored, btsSince>>

EnableBts(p) ==
    /\ p \notin BtsTraced
    /\ stored' = [q \in BtsTraced \cup {p} |-> IF q = p THEN NewArea ELSE stored[q]]
    /\ btsSince' = [btsSince EXCEPT ![p] = count[p]]
    /\ area' = IF p = run THEN p ELSE area

DisableBts(p) ==
    /\ p \in BtsTraced
    /\ stored' = [q \in BtsTraced \ {p} |-> stored[q]]
    /\ area' = IF p = run THEN NoPid ELSE area
    /\ UNCHANGED btsSince

\* dump_bts copies the buffer as it lies in memory, bts_index beside it.
CopiedArea(p) ==
    [index |-> stored[p].index, entries |-> stored[p].entries,
     since |-> btsSince[p], upto |-> count[p]]
=============================================================================
