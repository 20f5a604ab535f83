------------------------------- MODULE MCLbr -------------------------------
(* Small instances of the LBR component: who names whom in requests. *)
EXTENDS LbrTable, LbrInv, TLC

CONSTANTS p, q, r     \* process ids

\* Every process traces itself.
SelfOnly == [x \in Pid |-> {x}]

\* Processes p and q trace themselves, r makes no requests.
AllButLastSelf == [x \in Pid |-> IF x = r THEN {} ELSE {x}]

\* Process p traces itself and process q.
OneTracerOfBoth == [x \in Pid |-> IF x = p THEN {p, q} ELSE {}]

SymmetricAll == Permutations(CPU) \cup Permutations(Pid) \cup Permutations(Obj)

\* For instances in which p and q play different parts.
Symmetric == Permutations(CPU) \cup Permutations(Obj)
=============================================================================
