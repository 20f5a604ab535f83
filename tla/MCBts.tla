------------------------------- MODULE MCBts -------------------------------
(* Small instances of the BTS component: who names whom in requests. *)
EXTENDS BtsTable, BtsInv, TLC

CONSTANTS p, q, r     \* process ids

\* Every process traces itself.
SelfOnly == [x \in Pid |-> {x}]

\* Processes p and q trace themselves, r makes no requests.
AllButLastSelf == [x \in Pid |-> IF x = r THEN {} ELSE {x}]

\* Process p traces itself and all others, which make no requests.
OneTracer == [x \in Pid |-> IF x = p THEN Pid ELSE {}]

Symmetric == Permutations(CPU) \cup Permutations(Obj) \cup Permutations(Buf)
=============================================================================
