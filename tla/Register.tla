------------------------------ MODULE Register ------------------------------
(***************************************************************************)
(* What a state file of LabOS promises its readers: it holds one value; a  *)
(* save replaces it at once or, when the process dies, not at all; and it  *)
(* goes back, or is lost, only after the file was damaged from outside.    *)
(***************************************************************************)
EXTENDS Integers, Values

CONSTANTS MaxSave,   \* bound: saves ever begun
          Lost       \* nothing readable is left

VARIABLES value,     \* what a reader reads now
          pending,   \* the value of the save under way, or None
          damaged    \* the file was damaged at some time

Value == 0..MaxSave

Init == value = 0 /\ pending = None /\ damaged = FALSE

Begin == pending = None /\ pending' \in Value /\ UNCHANGED <<value, damaged>>

Commit == pending # None /\ value' = pending /\ pending' = None /\ UNCHANGED damaged

Fail == pending # None /\ pending' = None /\ UNCHANGED <<value, damaged>>

\* Damage is done, or shows later.
Damage == damaged' = TRUE /\ value' \in Value \cup {Lost} /\ UNCHANGED pending

Next == Begin \/ Commit \/ Fail \/ Damage

Spec == Init /\ [][Next]_<<value, pending, damaged>>
====
