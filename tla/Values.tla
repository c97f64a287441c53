------------------------------- MODULE Values -------------------------------
(***************************************************************************)
(* Values that several modules share.                                      *)
(***************************************************************************)
CONSTANT None   \* Python's None
====
