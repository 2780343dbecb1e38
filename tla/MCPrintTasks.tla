----------------------------- MODULE MCPrintTasks -----------------------------
(* Instances of PrintTasks for TLC.                                        *)
EXTENDS PrintTasks, TLC

CONSTANTS o1, o2, o3, k1, r1, r2, poll, list

Symmetry == Permutations(Orders) \cup Permutations(Reqs)

\* Every order for the same machine, platform, template and account.
SameKey == [o \in Orders |-> k1]
=============================================================================
