----------------------------- MODULE ClassifyEmail -----------------------------
(***************************************************************************)
(* POST /api/v1/emails/{id}/classify and GET .../classification, served    *)
(* concurrently: the ClassifyEmail and GetEmailClassification use cases,   *)
(* the classification repository, the provider's retry loop and the        *)
(* session that wraps a request in one PostgreSQL transaction (READ        *)
(* COMMITTED).                                                             *)
(*                                                                         *)
(* A step is what runs between two points where another request can run:   *)
(* each awaited SQL statement, each provider call, the response and the    *)
(* commit.  The session is a dependency with yield, so its commit runs     *)
(* after the response has been sent.                                       *)
(***************************************************************************)
EXTENDS Naturals, Sequences

CONSTANTS
    Requests,     \* HTTP requests; each is served once
    Emails,       \* e-mail ids a request may name
    Stored,       \* the ids present in email_messages
    Confident,    \* the ids whose deterministic confidence reaches the threshold
    AiConfigured, \* an AI provider and its key are configured
    MaxAttempts,  \* settings.ai_retry_attempts
    NoRow,        \* "no row in email_classifications"
    NoRequest     \* "no transaction holds the row"

Sources == {"deterministic", "ai", "fallback"}

Operations == {"classify", "force", "get"}

\* How one provider call ends: a structured answer, a recoverable failure
\* (connection, timeout, rate limit, 5xx) or a failure that is not retried
\* (other statuses, output that does not match the schema).
Outcomes == {"valid", "transient", "permanent"}

\* A row of email_classifications: how it was obtained and the request whose
\* candidate it holds.
Row == [source : Sources, by : Requests]

ASSUME SettingsAssumption ==
    /\ Stored \subseteq Emails
    /\ Confident \subseteq Emails
    /\ AiConfigured \in BOOLEAN
    /\ MaxAttempts \in Nat \ {0}

ASSUME SentinelAssumption == NoRow \notin Row /\ NoRequest \notin Requests

VARIABLES
    table,      \* table[e]: the committed classification of e
    lock,       \* lock[e]: the transaction with an uncommitted write to e's row
    pc,         \* pc[r]: what request r does next
    mail,       \* mail[r]: the e-mail r names
    op,         \* op[r]: the endpoint, and force=true or not
    calls,      \* calls[r]: outcomes of r's provider calls, in order
    source,     \* source[r]: the local variable of execute
    result,     \* result[r]: the entity execute returns
    sent,       \* requests whose 200 response has been sent
    onArrival   \* history: what was true of the e-mail when r arrived

vars == <<table, lock, pc, mail, op, calls, source, result, sent, onArrival>>

Finished == {"done", "failed"}
Active(r) == pc[r] \notin {"idle"} \cup Finished

TypeOK ==
    /\ table \in [Emails -> Row \cup {NoRow}]
    /\ lock \in [Emails -> Requests \cup {NoRequest}]
    /\ pc \in [Requests -> {"idle", "lookup", "load", "ask", "upsert", "reply", "commit"}
                              \cup Finished]
    /\ mail \in [Requests -> Emails]
    /\ op \in [Requests -> Operations]
    /\ calls \in [Requests -> Seq(Outcomes)]
    /\ source \in [Requests -> Sources]
    /\ result \in [Requests -> Row \cup {NoRow}]
    /\ sent \subseteq Requests
    /\ onArrival \in [Requests -> [classified : BOOLEAN, answered : BOOLEAN]]

Init ==
    /\ table = [e \in Emails |-> NoRow]
    /\ lock = [e \in Emails |-> NoRequest]
    /\ pc = [r \in Requests |-> "idle"]
    /\ mail \in [Requests -> Emails]
    /\ op \in [Requests -> Operations]
    /\ calls = [r \in Requests |-> << >>]
    /\ source = [r \in Requests |-> "deterministic"]
    /\ result = [r \in Requests |-> NoRow]
    /\ sent = {}
    /\ onArrival = [r \in Requests |-> [classified |-> FALSE, answered |-> FALSE]]

-------------------------------------------------------------------------------

Goto(r, label) == pc' = [pc EXCEPT ![r] = label]

\* Rollback and close: PostgreSQL drops the uncommitted writes of the requests in R.
Release(R) == lock' = [e \in Emails |-> IF lock[e] \in R THEN NoRequest ELSE lock[e]]

\* Mutant of Arrive: the lookup of an existing classification is forgotten.
ArriveWithoutLookup(r) ==
    /\ pc[r] = "idle"
    /\ Goto(r, IF op[r] = "get" THEN "lookup" ELSE "load")
    /\ onArrival' = [onArrival EXCEPT ![r] =
           [classified |-> table[mail[r]] # NoRow,
            answered |-> \E q \in sent : mail[q] = mail[r]]]
    /\ UNCHANGED <<table, lock, mail, op, calls, source, result, sent>>

\* The route opens a session and builds the use case; force=true skips the lookup.
Arrive(r) ==
    /\ pc[r] = "idle"
    /\ Goto(r, IF op[r] = "force" THEN "load" ELSE "lookup")
    /\ onArrival' = [onArrival EXCEPT ![r] =
           [classified |-> table[mail[r]] # NoRow,
            answered |-> \E q \in sent : mail[q] = mail[r]]]
    /\ UNCHANGED <<table, lock, mail, op, calls, source, result, sent>>

\* get_by_email_id finds a committed row: it is the answer of both endpoints.
ReuseExisting(r) ==
    /\ pc[r] = "lookup"
    /\ table[mail[r]] # NoRow
    /\ result' = [result EXCEPT ![r] = table[mail[r]]]
    /\ Goto(r, "reply")
    /\ UNCHANGED <<table, lock, mail, op, calls, source, sent, onArrival>>

\* get_by_email_id finds nothing: classify goes on, GET answers 404.
NoExisting(r) ==
    /\ pc[r] = "lookup"
    /\ table[mail[r]] = NoRow
    /\ Goto(r, IF op[r] = "get" THEN "failed" ELSE "load")
    /\ UNCHANGED <<table, lock, mail, op, calls, source, result, sent, onArrival>>

NeedsAi(e) == e \notin Confident /\ AiConfigured

\* email_repository.get_by_id, then the rules: they always give a candidate,
\* kept when it is confident enough or when there is no provider.
ApplyRules(r) ==
    /\ pc[r] = "load"
    /\ mail[r] \in Stored
    /\ source' = [source EXCEPT ![r] = "deterministic"]
    /\ Goto(r, IF NeedsAi(mail[r]) THEN "ask" ELSE "upsert")
    /\ UNCHANGED <<table, lock, mail, op, calls, result, sent, onArrival>>

EmailNotFound(r) ==
    /\ pc[r] = "load"
    /\ mail[r] \notin Stored
    /\ Goto(r, "failed")
    /\ UNCHANGED <<table, lock, mail, op, calls, source, result, sent, onArrival>>

\* Mutant of RetryAgain: one attempt too many.
RetryOnceMore(r, outcome) == outcome = "transient" /\ Len(calls[r]) < MaxAttempts

\* The retry loop goes round again after a transient failure while attempts remain.
RetryAgain(r, outcome) == outcome = "transient" /\ Len(calls[r]) + 1 < MaxAttempts

\* One call of the provider inside tenacity's loop.  An answer becomes the
\* candidate; an exception that leaves the loop is caught by execute, which
\* keeps the deterministic candidate under the source "fallback".
AskProvider(r) ==
    /\ pc[r] = "ask"
    /\ \E outcome \in Outcomes :
         /\ calls' = [calls EXCEPT ![r] = Append(@, outcome)]
         /\ IF RetryAgain(r, outcome)
            THEN UNCHANGED <<pc, source>>
            ELSE /\ source' = [source EXCEPT ![r] =
                                 IF outcome = "valid" THEN "ai" ELSE "fallback"]
                 /\ Goto(r, "upsert")
    /\ UNCHANGED <<table, lock, mail, op, result, sent, onArrival>>

\* Mutant of RowOf: the endpoint's name in the column of the source.
RowOfEndpoint(r) == [source |-> op[r], by |-> r]

RowOf(r) == [source |-> source[r], by |-> r]

\* Mutant of Upsert: the statement commits on its own, before the request ends.
UpsertAutocommits(r) ==
    /\ pc[r] = "upsert"
    /\ lock[mail[r]] = NoRequest
    /\ table' = [table EXCEPT ![mail[r]] = RowOf(r)]
    /\ result' = [result EXCEPT ![r] = RowOf(r)]
    /\ Goto(r, "reply")
    /\ UNCHANGED <<lock, mail, op, calls, source, sent, onArrival>>

\* INSERT ... ON CONFLICT DO UPDATE ... RETURNING: waits while another
\* transaction has an uncommitted write to the same row, then writes.
Upsert(r) ==
    /\ pc[r] = "upsert"
    /\ lock[mail[r]] = NoRequest
    /\ lock' = [lock EXCEPT ![mail[r]] = r]
    /\ result' = [result EXCEPT ![r] = RowOf(r)]
    /\ Goto(r, "reply")
    /\ UNCHANGED <<table, mail, op, calls, source, sent, onArrival>>

\* The 200 response leaves; the dependency that owns the session has not resumed yet.
Reply(r) ==
    /\ pc[r] = "reply"
    /\ sent' = sent \cup {r}
    /\ Goto(r, "commit")
    /\ UNCHANGED <<table, lock, mail, op, calls, source, result, onArrival>>

\* Mutant of Commit: the transaction is never closed, its row stays locked.
CommitKeepsLock(r) ==
    /\ pc[r] = "commit"
    /\ table' = [e \in Emails |-> IF lock[e] = r THEN RowOf(r) ELSE table[e]]
    /\ Goto(r, "done")
    /\ UNCHANGED <<lock, mail, op, calls, source, result, sent, onArrival>>

\* session.commit(): the write, if there is one, becomes visible and its lock is freed.
Commit(r) ==
    /\ pc[r] = "commit"
    /\ table' = [e \in Emails |-> IF lock[e] = r THEN RowOf(r) ELSE table[e]]
    /\ Release({r})
    /\ Goto(r, "done")
    /\ UNCHANGED <<mail, op, calls, source, result, sent, onArrival>>

\* A statement or the commit raises: session() rolls back and re-raises.
DatabaseError(r) ==
    /\ pc[r] \in {"lookup", "load", "upsert", "commit"}
    /\ Release({r})
    /\ Goto(r, "failed")
    /\ UNCHANGED <<table, mail, op, calls, source, result, sent, onArrival>>

\* The process dies and is restarted: every open transaction is rolled back.
Crash ==
    /\ \E r \in Requests : Active(r)
    /\ Release({r \in Requests : Active(r)})
    /\ pc' = [r \in Requests |-> IF Active(r) THEN "failed" ELSE pc[r]]
    /\ UNCHANGED <<table, mail, op, calls, source, result, sent, onArrival>>

\* Nothing is left to serve.
Quiescent ==
    /\ \A r \in Requests : pc[r] \in Finished
    /\ UNCHANGED vars

\* The steps the server takes on its own for a request it has accepted.
Serve(r) ==
    \/ ReuseExisting(r) \/ NoExisting(r)
    \/ ApplyRules(r)    \/ EmailNotFound(r)
    \/ AskProvider(r)   \/ Upsert(r)
    \/ Reply(r)         \/ Commit(r)

Next ==
    \/ \E r \in Requests : Arrive(r) \/ Serve(r) \/ DatabaseError(r)
    \/ Crash
    \/ Quiescent

Spec == Init /\ [][Next]_vars

\* The event loop resumes every task whose await is over, a provider call ends
\* within its timeout, and PostgreSQL wakes the waiters of a freed row.
FairSpec == Spec /\ \A r \in Requests : WF_vars(Serve(r))

-------------------------------------------------------------------------------
(* What must hold. *)

AllowedSources(e) == IF NeedsAi(e) THEN {"ai", "fallback"} ELSE {"deterministic"}

\* The request that wrote a visible row has committed, and it is a classify
\* request on that stored e-mail.
CommittedBy(e, w) ==
    /\ pc[w] = "done"
    /\ mail[w] = e
    /\ e \in Stored
    /\ op[w] # "get"

\* Readers see only committed data: every visible row, and every row a request
\* answers with unless it wrote the row itself, comes from a transaction that
\* committed.  Rolled back candidates are never seen by anyone.
OnlyCommittedIsSeen ==
    /\ \A e \in Emails : table[e] # NoRow =>
           CommittedBy(e, table[e].by) /\ table[e].source = source[table[e].by]
    /\ \A r \in Requests : result[r] # NoRow /\ result[r].by # r =>
           CommittedBy(mail[r], result[r].by)

\* The outcomes a retry loop that has gone round n times may have seen.
RetriedOnlyTransients(seen) ==
    /\ Len(seen) <= MaxAttempts
    /\ \A i \in DOMAIN seen : i < Len(seen) => seen[i] = "transient"

\* How the candidate in source[w] was obtained, told from the provider calls w made.
Explains(w) ==
    LET seen == calls[w] IN
    /\ RetriedOnlyTransients(seen)
    /\ source[w] = "deterministic" <=> seen = << >>
    /\ source[w] = "ai" <=> seen # << >> /\ seen[Len(seen)] = "valid"
    /\ seen # << >> /\ seen[Len(seen)] = "transient" => Len(seen) = MaxAttempts

\* The source of a visible row tells how it was obtained (README, "Classificar
\* um e-mail"): "deterministic" never called the provider, "ai" ended in a valid
\* answer, "fallback" called it in vain; only transient failures were retried
\* and they were retried until the attempts ran out.
SourceIsHonest ==
    \A e \in Emails : table[e] # NoRow =>
        /\ table[e].source \in AllowedSources(e)
        /\ Explains(table[e].by)

\* A classify request without force on an e-mail that was classified when the
\* request arrived calls no provider and writes nothing, whatever the other
\* requests do meanwhile.
ReuseIsFree ==
    \A r \in Requests : op[r] = "classify" /\ onArrival[r].classified =>
        /\ calls[r] = << >>
        /\ \A e \in Emails : lock[e] # r /\ (table[e] # NoRow => table[e].by # r)

\* The table behaves as the abstract register: a request replaces the
\* classification of its e-mail atomically and at most once, with an allowed
\* source, or leaves no trace.
Register == INSTANCE ClassificationRegister WITH
    current <- table,
    ended <- {r \in Requests : pc[r] \in Finished}

ImplementsRegister == Register!Spec

\* Every request the server accepts ends: nobody waits for ever for a row lock
\* or inside the retry loop.
EveryRequestEnds == \A r \in Requests : Active(r) ~> pc[r] \in Finished

-------------------------------------------------------------------------------
(* What the documentation says and the code does not do. *)

\* ADR 0003, decision 6: an existing classification is reused, unless its
\* reclassification was asked for.  So only a force request may replace one.
OnlyForceReplaces ==
    [][\A e \in Emails : table[e] # NoRow /\ table'[e] # table[e] =>
           op[table'[e].by] = "force"]_vars

\* README, "Teste a prevencao de custo duplicado": once an e-mail has been
\* classified, a repeated POST without force returns the existing classification
\* and makes no new external call.  The client knows that the e-mail has been
\* classified when it holds a 200 answer.
RepeatAfterAnswerIsFree ==
    \A r \in Requests :
        op[r] = "classify" /\ onArrival[r].answered => calls[r] = << >>
===============================================================================
