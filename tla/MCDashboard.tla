---------------------------- MODULE MCDashboard ----------------------------
(***************************************************************************)
(* An instance of Dashboard whose threads may be exchanged for each other. *)
(***************************************************************************)
EXTENDS Dashboard, TLC

Threads == Permutations(Thread)
====
