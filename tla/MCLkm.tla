------------------------------- MODULE MCLkm -------------------------------
(* Small instances of the module's life: machines and requests. *)
EXTENDS LkmInv, TLC

\* A Skylake machine (model 5eh); a model that cpu_lbr_maps does not list; one
\* whose debug store is not available.
Skylake == [eax |-> \h506e3, ds |-> TRUE, unavail |-> FALSE]
Unknown == [eax |-> \hb06a2, ds |-> TRUE, unavail |-> FALSE]
NoDebugStore == [eax |-> \h506e3, ds |-> TRUE, unavail |-> TRUE]
Machines == {Skylake, Unknown, NoDebugStore}
OneMachine == {Skylake}

\* Every ioctl number and one beyond, but nobody enables an engine the machine
\* lacks, and nobody disables one on a preemptible kernel: a disable that is
\* switched out before it has removed its state leaves its bits set.
Missing(m) == (IF Has(m, "lbr") THEN {} ELSE {1}) \cup (IF Has(m, "bts") THEN {} ELSE {6})
Late(preemptible) == IF preemptible THEN {2, 7} ELSE {}
AllButLate == [x \in Machines \X BOOLEAN |-> (0..11) \ (Missing(x[1]) \cup Late(x[2]))]

\* Enables of the LBR engine.
EnableOnly == [x \in OneMachine \X BOOLEAN |-> {1}]

\* Requests for an engine from the moment on that its init is over, while insmod
\* may still be at the other one; and once the module is loaded.
WhenFlushed == Flushed
WhenLoaded == [e \in Engine |-> {"in"}]

Symmetry == Permutations(CPU) \cup Permutations(Pid)
=============================================================================
