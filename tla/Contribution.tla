----------------------------- MODULE Contribution -----------------------------
(***************************************************************************)
(* What becomes of what the agent writes, as the iteration loop promises   *)
(* it: it is validated before it is delivered, it is taken back only by    *)
(* the operator and then for good, and what is delivered stays delivered.  *)
(***************************************************************************)
CONSTANT Contributions

VARIABLE stage   \* by contribution

Stage == {"unwritten", "written", "validated", "delivered", "restored"}

Init == stage = [x \in Contributions |-> "unwritten"]

Move(some, from, to) ==
  /\ \A x \in some : stage[x] \in from
  /\ stage' = [x \in Contributions |-> IF x \in some THEN to ELSE stage[x]]

Write == \E x \in Contributions : Move({x}, {"unwritten"}, "written")

Validate == \E some \in SUBSET Contributions : Move(some, {"written"}, "validated")

Deliver == \E some \in SUBSET Contributions : Move(some, {"validated"}, "delivered")

Restore == \E some \in SUBSET Contributions : Move(some, {"written", "validated"}, "restored")

Next == Write \/ Validate \/ Deliver \/ Restore

Spec == Init /\ [][Next]_stage
====
