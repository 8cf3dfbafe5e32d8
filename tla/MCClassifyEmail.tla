---------------------------- MODULE MCClassifyEmail ----------------------------
(***************************************************************************)
(* Instances of ClassifyEmail.  One e-mail the rules are sure of, one they *)
(* are not, one that does not exist.                                       *)
(***************************************************************************)
EXTENDS ClassifyEmail, TLC

CONSTANTS sure, vague, ghost

\* Nobody asks for a recomputation: every request is a plain classify of the one
\* e-mail that needs the provider.
PlainSpec ==
    /\ Init
    /\ mail = [r \in Requests |-> vague] /\ op = [r \in Requests |-> "classify"]
    /\ [][Next]_vars

\* The instances tell requests apart only by what they do.
Symmetry == Permutations(Requests)
===============================================================================
