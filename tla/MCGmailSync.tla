------------------------------ MODULE MCGmailSync ------------------------------
(***************************************************************************)
(* Instances of GmailSync.  Two accounts; the first has two messages, the  *)
(* second has one.                                                         *)
(***************************************************************************)
EXTENDS GmailSync, TLC

CONSTANTS a1, a2, m1, m2, n1

MCMailbox == (a1 :> {m1, m2}) @@ (a2 :> {n1})
MCRecency == (n1 :> 3) @@ (m2 :> 2) @@ (m1 :> 1)

Symmetry == Permutations(Syncs) \cup Permutations(Callbacks)
===============================================================================
