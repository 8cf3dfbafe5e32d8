----------------------------- MODULE MCGoogleOAuth -----------------------------
(***************************************************************************)
(* Instances of GoogleOAuth.  No action tells two states, two callbacks or *)
(* two accounts apart, so all three sets are symmetric.                    *)
(***************************************************************************)
EXTENDS GoogleOAuth, TLC

Symmetry == Permutations(States) \cup Permutations(Callbacks) \cup Permutations(Accounts)
===============================================================================
