----------------------------- MODULE MCEmailPages -----------------------------
(***************************************************************************)
(* Five e-mails, two of which were received at the same time, on pages of  *)
(* two: a walk has up to three pages and an arrival may move a row across  *)
(* each boundary.                                                          *)
(***************************************************************************)
EXTENDS EmailPages

MCEmails == 1..5
MCReceivedAt == [e \in MCEmails |-> IF e = 3 THEN 2 ELSE e]
MCId == [e \in MCEmails |-> 6 - e]
===============================================================================
