------------------------ MODULE MCRepairTransaction ------------------------
(* Instances of RepairTransaction for TLC: paths and backup names are model values of the cfg. *)
EXTENDS RepairTransaction, TLC

\* Processes, paths and timestamped names are interchangeable.
Interchangeable == Permutations(Proc) \cup Permutations(Path) \cup Permutations(Backup)

\* Initial keys are dirty in both values: a repair that resets one of them must be seen to.
MCInit ==
    /\ Init
    /\ \A n \in Name : Exists(n) => registry[n].state = 1 /\ registry[n].refCount = 1

MCSpec == MCInit /\ [][Next]_vars
=============================================================================
