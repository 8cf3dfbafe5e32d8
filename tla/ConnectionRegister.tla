--------------------------- MODULE ConnectionRegister ---------------------------
(***************************************************************************)
(* What the OAuth callback promises to whoever uses google_accounts: each  *)
(* state connects one account at most once, spending the state and writing *)
(* the account are one atomic step, and an account that can be refreshed   *)
(* stays so.  GoogleOAuth implements this specification with a transaction *)
(* per request; GmailSync, which only uses the accounts, implements it too *)
(* when its own steps are hidden.                                          *)
(***************************************************************************)
CONSTANTS
    States,    \* one-time states
    Callbacks, \* calls of the callback
    Accounts   \* Gmail addresses

VARIABLES
    state,     \* state[s]: "absent", "unused" or "used"
    row,       \* row[a]: "absent", "bare" (no refresh token) or "refreshable"
    ended      \* callbacks that are over

vars == <<state, row, ended>>

Init ==
    /\ state = [s \in States |-> "absent"]
    /\ row = [a \in Accounts |-> "absent"]
    /\ ended = {}

Create(s) ==
    /\ state[s] = "absent"
    /\ state' = [state EXCEPT ![s] = "unused"]
    /\ UNCHANGED <<row, ended>>

\* The row of an account after a grant with or without a refresh token.
After(old, granted) == IF granted \/ old = "refreshable" THEN "refreshable" ELSE "bare"

\* Callback c spends s and connects a.
Connect(c, s, a) ==
    /\ c \notin ended
    /\ state[s] = "unused"
    /\ state' = [state EXCEPT ![s] = "used"]
    /\ \E granted \in BOOLEAN : row' = [row EXCEPT ![a] = After(@, granted)]
    /\ ended' = ended \cup {c}

\* Callbacks end without a trace: refused, failed, crashed.
EndSilently(C) ==
    /\ C \cap ended = {}
    /\ ended' = ended \cup C
    /\ UNCHANGED <<state, row>>

Next ==
    \/ \E s \in States : Create(s)
    \/ \E c \in Callbacks, s \in States, a \in Accounts : Connect(c, s, a)
    \/ \E C \in SUBSET Callbacks : EndSilently(C)

Spec == Init /\ [][Next]_vars
===============================================================================
