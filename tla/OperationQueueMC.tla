-------------------------- MODULE OperationQueueMC --------------------------
(***************************************************************************)
(* Instances of OperationQueue for TLC.                                     *)
(***************************************************************************)
EXTENDS OperationQueue, TLC

\* Every worker and every command belongs to the one class.
OneClass == [w \in Worker |-> IOClass]
AllIO == [o \in Op |-> IOClass]

\* Two workers of two classes, and one command for each.
Workers2 == {"w_io", "w_network"}
Ops2 == {"o_io", "o_network"}
Classes2 == {"io", "network"}
TwoClasses == [w \in Workers2 |-> IF w = "w_io" THEN "io" ELSE "network"]
OpPerClass == [o \in Ops2 |-> IF o = "o_io" THEN "io" ELSE "network"]

\* All commands work on one base; none does.
TheBase == CHOOSE b \in Base : TRUE
SharedBase == [o \in Op |-> TheBase]
Baseless == [o \in Op |-> NoBase]

\* Every command takes one unit of every resource; two units of each exist.
UnitBudget == [o \in Op |-> [r \in Resource |-> 1]]
TwoUnits == [r \in Resource |-> 2]
OneUnit == [r \in Resource |-> 1]

Symmetry == Permutations(Op) \cup Permutations(Worker) \cup Permutations(Client)

=============================================================================
