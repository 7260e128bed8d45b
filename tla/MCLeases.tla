------------------------------ MODULE MCLeases ------------------------------
(***************************************************************************)
(* Leases for two workers of one directory.                                *)
(***************************************************************************)
EXTENDS Leases

CONSTANTS left, right, t1

SharedKey == [t \in Task |-> "workspace"]      \* both change the shared workspace
NonePinned == [t \in Task |-> NoThread]

\* A Task that names an archived thread leases it all the same: refutes ArchivedIsFree.
RightPinned == [t \in Task |-> IF t = right THEN t1 ELSE NoThread]
=============================================================================
