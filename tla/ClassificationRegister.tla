------------------------ MODULE ClassificationRegister ------------------------
(***************************************************************************)
(* What the classification component promises to the rest of InboxGuard:   *)
(* a table with one current classification per stored e-mail.  A request   *)
(* either replaces the current classification of its e-mail in one atomic  *)
(* step, at most once and with a source the settings allow for that        *)
(* e-mail, or it ends without a trace.  ClassifyEmail implements this      *)
(* specification with several statements, a provider call and a            *)
(* transaction per request.                                                *)
(***************************************************************************)
CONSTANTS
    Requests,     \* HTTP requests on the classification endpoints
    Emails,       \* e-mail ids a request may name
    Stored,       \* the ones that exist in email_messages
    Confident,    \* the ones whose deterministic confidence reaches the threshold
    AiConfigured, \* TRUE when a provider and its key are configured
    NoRow         \* no row in email_classifications

VARIABLES
    current,      \* current[e]: the classification of e, or NoRow
    ended         \* requests that are over

vars == <<current, ended>>

\* Rules that are sure of the e-mail, or no configured provider, leave only
\* the deterministic result; otherwise the provider is asked and its answer or
\* the fallback is stored.
AllowedSources(e) ==
    IF e \in Confident \/ ~AiConfigured THEN {"deterministic"} ELSE {"ai", "fallback"}

Init ==
    /\ current = [e \in Emails |-> NoRow]
    /\ ended = {}

\* One request replaces the classification of one stored e-mail.
Replace(r, e, s) ==
    /\ r \notin ended
    /\ current' = [current EXCEPT ![e] = [source |-> s, by |-> r]]
    /\ ended' = ended \cup {r}

\* Requests end without changing anything: a read, an error, a crash.
EndSilently(R) ==
    /\ R \cap ended = {}
    /\ ended' = ended \cup R
    /\ UNCHANGED current

Next ==
    \/ \E r \in Requests, e \in Stored : \E s \in AllowedSources(e) : Replace(r, e, s)
    \/ \E R \in SUBSET Requests : EndSilently(R)

Spec == Init /\ [][Next]_vars
===============================================================================
