----------------------------- MODULE MCDebugger -----------------------------
(* The instance of the debuggers: two engines, the debugger and one process. *)
EXTENDS Debugger
CONSTANTS self, p1
Processes == {self, p1}
Branches == [p \in Processes |-> IF p = self THEN 1 ELSE 3]
Engines == {"lbr", "bts"}
=============================================================================
