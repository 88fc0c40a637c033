------------------------------ MODULE Records ------------------------------
(***************************************************************************)
(* What the modules about the save files share: the numbers of the         *)
(* recorded deltas and the I/O errors that happen to the files.            *)
(***************************************************************************)
EXTENDS Integers

CONSTANTS
  MaxRecords,   \* bound on the deltas ever encoded
  MaxFaults     \* bound on the I/O errors

ASSUME RecordsAssumption ==
  /\ MaxRecords \in Nat
  /\ MaxFaults \in Nat

Ids == 1 .. MaxRecords

VARIABLE faults   \* I/O errors so far

(* An operation on a file returns an error. *)
Fault == faults < MaxFaults /\ faults' = faults + 1

NoFault == UNCHANGED faults
============================================================================
