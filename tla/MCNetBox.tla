------------------------------ MODULE MCNetBox ------------------------------
(***************************************************************************)
(* Instances of NetBox.                                                    *)
(***************************************************************************)
EXTENDS NetBox

CONSTANTS i1, i2, n1

InOrder == [i \in Internal |-> IF i = i1 THEN 1 ELSE 2]

\* Both VMs have one name.
OneName == [v \in VMs |-> n1]
=============================================================================
