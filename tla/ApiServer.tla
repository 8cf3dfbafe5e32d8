------------------------------ MODULE ApiServer ------------------------------
(***************************************************************************)
(* What every request goes through, whatever it asks for: the life of the  *)
(* application, the connection pool, the session that commits after the    *)
(* response and rolls back before an error is answered, the handlers that  *)
(* turn exceptions into statuses, and GET /ready.  PostgreSQL may go away  *)
(* and come back at any time, a commit may be refused, and the process may *)
(* die with the requests it serves and be started again.                   *)
(*                                                                         *)
(* The pool is SQLAlchemy's QueuePool (external), with the arguments the   *)
(* code gives it.  A session takes a connection at its first statement and *)
(* keeps it, through calls of Google or of the AI, to its end.             *)
(***************************************************************************)
EXTENDS Naturals, Sequences, FiniteSets

CONSTANTS
    Requests,     \* HTTP requests; each is served once
    PoolSize,     \* settings.database_pool_size
    MaxOverflow,  \* settings.database_max_overflow
    StartupCheck, \* settings.database_startup_check
    Raised,       \* the exceptions a use case may raise
    MaxOutages    \* bound: how often PostgreSQL goes away

ASSUME PoolAssumption ==
    /\ IsFiniteSet(Requests)
    /\ PoolSize \in Nat \ {0}
    /\ MaxOverflow \in Nat
    /\ StartupCheck \in BOOLEAN
    /\ MaxOutages \in Nat

\* /ready, or an endpoint with a session.
Kinds == {"ready", "session"}

Unanswered == 0
Statuses == {200, 400, 404, 409, 422, 500, 502, 503}

VARIABLES
    app,     \* the lifespan of the application
    up,      \* PostgreSQL accepts connections
    outages, \* how often it has gone away
    idle,    \* the connections in the pool, first in first out
    pc,      \* pc[r]: what request r does next
    kind,    \* kind[r]: its endpoint
    conn,    \* conn[r]: the connection it holds
    status,  \* status[r]: the status of its response, once that is sent
    kept,    \* requests whose transaction PostgreSQL has committed
    cause,   \* cause[r]: what made a statement or the commit of it fail, if anything did
    sawUp,   \* history: requests during which PostgreSQL was up at some time
    sawDown  \* history: requests during which it was down at some time

poolVars == <<idle, conn>>
databaseVars == <<up, outages>>
historyVars == <<sawUp, sawDown>>
vars == <<app, databaseVars, poolVars, pc, kind, status, kept, cause, historyVars>>

Waiting == {"wait"}

\* "cut": the process died before the request had ended.
Ended == {"ended", "cut"}
Active(r) == pc[r] \notin {"idle"} \cup Ended

\* The connections the pool accounts for.
Made == Len(idle) + Cardinality({r \in Requests : conn[r] # "none"})
Capacity == PoolSize + MaxOverflow

\* A request has a response from its commit on, and before its commit none; the
\* pool stays within its limits.
TypeOK ==
    /\ app \in {"starting", "serving", "stopping", "stopped"}
    /\ up \in BOOLEAN /\ outages \in 0..MaxOutages
    /\ idle \in Seq({"live", "dead"}) /\ Len(idle) <= PoolSize
    /\ pc \in [Requests -> {"idle", "wait", "select", "work", "commit"} \cup Ended]
    /\ kind \in [Requests -> Kinds]
    /\ conn \in [Requests -> {"none", "live", "dead"}]
    /\ Made <= Capacity
    /\ status \in [Requests -> Statuses \cup {Unanswered}]
    /\ \A r \in Requests : pc[r] \in {"commit", "ended"} => status[r] # Unanswered
    /\ \A r \in Requests : status[r] # Unanswered => pc[r] \in {"commit"} \cup Ended
    /\ cause \in [Requests -> {"none", "lost", "timeout", "refused", "crash"}]
    /\ kept \subseteq Requests
    /\ sawUp \subseteq Requests /\ sawDown \subseteq Requests

Init ==
    /\ app = "starting"
    /\ up \in BOOLEAN
    /\ outages = 0
    /\ idle = <<>>
    /\ pc = [r \in Requests |-> "idle"]
    /\ kind \in [Requests -> Kinds]
    /\ conn = [r \in Requests |-> "none"]
    /\ status = [r \in Requests |-> Unanswered]
    /\ kept = {}
    /\ cause = [r \in Requests |-> "none"]
    /\ sawUp = {}
    /\ sawDown = {}

-------------------------------------------------------------------------------
(* The application and PostgreSQL. *)

\* Mutant of Started: a database that is down keeps the application from starting.
StartedStrictly ==
    /\ app = "starting"
    /\ StartupCheck => up
    /\ app' = "serving"
    /\ idle' = IF StartupCheck THEN <<"live">> ELSE <<>>
    /\ UNCHANGED <<databaseVars, conn, pc, kind, status, kept, cause, historyVars>>

\* The startup check pings PostgreSQL; its failure is logged, and the API starts.
Started ==
    /\ app = "starting"
    /\ app' = "serving"
    /\ idle' = IF StartupCheck /\ up THEN <<"live">> ELSE <<>>
    /\ UNCHANGED <<databaseVars, conn, pc, kind, status, kept, cause, historyVars>>

\* The server accepts no more requests, and waits for those it has accepted.
Stop ==
    /\ app = "serving"
    /\ app' = "stopping"
    /\ UNCHANGED <<databaseVars, poolVars, pc, kind, status, kept, cause, historyVars>>

\* The end of lifespan: dispose().
Dispose ==
    /\ app = "stopping" /\ ~\E r \in Requests : Active(r)
    /\ app' = "stopped"
    /\ idle' = <<>>
    /\ UNCHANGED <<databaseVars, conn, pc, kind, status, kept, cause, historyVars>>

\* Every connection is lost with the server; nobody is told.
DatabaseDown ==
    /\ up /\ outages < MaxOutages
    /\ up' = FALSE
    /\ outages' = outages + 1
    /\ idle' = [i \in DOMAIN idle |-> "dead"]
    /\ conn' = [r \in Requests |-> IF conn[r] = "live" THEN "dead" ELSE conn[r]]
    /\ sawDown' = sawDown \cup {r \in Requests : Active(r)}
    /\ UNCHANGED <<app, pc, kind, status, kept, cause, sawUp>>

DatabaseUp ==
    /\ ~up
    /\ up' = TRUE
    /\ sawUp' = sawUp \cup {r \in Requests : Active(r)}
    /\ UNCHANGED <<app, outages, poolVars, pc, kind, status, kept, cause, sawDown>>

\* The process dies with its requests and its pool, and PostgreSQL rolls their
\* transactions back; it is started again unless it was being stopped
\* (docker-compose.yml: restart: unless-stopped).
Crash ==
    /\ \E r \in Requests : Active(r)
    /\ app' = IF app = "serving" THEN "starting" ELSE "stopped"
    /\ idle' = <<>>
    /\ conn' = [r \in Requests |-> "none"]
    /\ pc' = [r \in Requests |-> IF Active(r) THEN "cut" ELSE pc[r]]
    /\ cause' = [r \in Requests |-> IF Active(r) THEN "crash" ELSE cause[r]]
    /\ UNCHANGED <<databaseVars, kind, status, kept, historyVars>>

-------------------------------------------------------------------------------
(* The pool. *)

\* A connection is returned: into the queue, unless that is full.
GiveBack(r) ==
    /\ conn' = [conn EXCEPT ![r] = "none"]
    /\ idle' = IF conn[r] # "none" /\ Len(idle) < PoolSize THEN Append(idle, conn[r]) ELSE idle

\* Mutant of Release: whoever finds the connection broken does not close it.
ReleaseLive(r) == IF conn[r] = "dead" THEN UNCHANGED poolVars ELSE GiveBack(r)

\* async with: the session, or the connection of ping(), is closed on every way out.
Release(r) == GiveBack(r)

\* The response is sent, and the request is over.
End(r, answer) ==
    /\ status' = [status EXCEPT ![r] = answer]
    /\ pc' = [pc EXCEPT ![r] = "ended"]

\* Mutant of DatabaseFailure: /ready answers as if the ping had not raised.
DatabaseFailureUnseen(r) == IF kind[r] = "ready" THEN 200 ELSE 500

\* What an exception of the driver or of the pool becomes: ready() catches it, of
\* any other endpoint it reaches handle_unexpected_error.
DatabaseFailure(r) == IF kind[r] = "ready" THEN 503 ELSE 500

\* A statement raises: PostgreSQL is lost, or the pool timed out.
Fail(r, why) ==
    /\ End(r, DatabaseFailure(r))
    /\ cause' = [cause EXCEPT ![r] = why]

\* The statement the request needs a connection for.
Begun(r) == IF kind[r] = "ready" THEN "select" ELSE "work"

\* A connection is to be had: an idle one, or a new one below the capacity.
Available == idle # <<>> \/ Made < Capacity

\* Mutant of Checkout: pool_pre_ping=False, an idle connection is taken as it is.
CheckoutUnpinged(r) ==
    /\ pc[r] \in Waiting /\ Available
    /\ IF idle # <<>> \/ up
       THEN /\ conn' = [conn EXCEPT ![r] = IF idle # <<>> THEN Head(idle) ELSE "live"]
            /\ idle' = IF idle # <<>> THEN Tail(idle) ELSE idle
            /\ pc' = [pc EXCEPT ![r] = Begun(r)]
            /\ UNCHANGED <<status, cause>>
       ELSE Fail(r, "lost") /\ UNCHANGED poolVars
    /\ UNCHANGED <<app, databaseVars, kind, kept, historyVars>>

\* pool_pre_ping=True: an idle connection is tried, and made again when it is
\* dead; when that fails too, the request fails and the pool keeps the place.
Checkout(r) ==
    /\ pc[r] \in Waiting /\ Available
    /\ IF up
       THEN /\ conn' = [conn EXCEPT ![r] = "live"]
            /\ idle' = IF idle # <<>> THEN Tail(idle) ELSE idle
            /\ pc' = [pc EXCEPT ![r] = Begun(r)]
            /\ UNCHANGED <<status, cause>>
       ELSE /\ Fail(r, "lost")
            /\ idle' = IF idle # <<>> THEN Append(Tail(idle), "dead") ELSE idle
            /\ UNCHANGED conn
    /\ UNCHANGED <<app, databaseVars, kind, kept, historyVars>>

\* All connections are in use for longer than the pool waits.
PoolTimeout(r) ==
    /\ pc[r] \in Waiting /\ ~Available
    /\ Fail(r, "timeout")
    /\ UNCHANGED <<app, databaseVars, poolVars, kind, kept, historyVars>>

-------------------------------------------------------------------------------
(* Requests. *)

Arrive(r) ==
    /\ app = "serving" /\ pc[r] = "idle"
    /\ pc' = [pc EXCEPT ![r] = "wait"]
    /\ sawUp' = IF up THEN sawUp \cup {r} ELSE sawUp
    /\ sawDown' = IF up THEN sawDown ELSE sawDown \cup {r}
    /\ UNCHANGED <<app, databaseVars, poolVars, kind, status, kept, cause>>

\* ping(): SELECT 1, and the connection goes back.
SelectOne(r) ==
    /\ pc[r] = "select"
    /\ IF conn[r] = "live" THEN End(r, 200) /\ UNCHANGED cause ELSE Fail(r, "lost")
    /\ Release(r)
    /\ UNCHANGED <<app, databaseVars, kind, kept, historyVars>>

\* Mutant of ErrorStatus: no status for the errors without one of their own.
ErrorStatusPartial(e) ==
    CASE e = "ResourceNotFoundError" -> 404
      [] e = "GmailAccountNotConnectedError" -> 409
      [] e = "ConfigurationError" -> 503
      [] e = "ExternalServiceError" -> 502
      [] OTHER -> Unanswered

\* _application_error_status, and the handlers of validation and unexpected errors.
ErrorStatus(e) ==
    CASE e = "ResourceNotFoundError" -> 404
      [] e = "GmailAccountNotConnectedError" -> 409
      [] e = "ConfigurationError" -> 503
      [] e = "ExternalServiceError" -> 502
      [] e = "RequestValidationError" -> 422
      [] e = "Exception" -> 500
      [] OTHER -> 400

\* Invalid or missing parameters, a consent that was denied, a missing setting:
\* refused before the first statement.
Refusals ==
    {"RequestValidationError", "ConfigurationError", "OAuthDeniedError", "OAuthExchangeError"}

Refuse(r) ==
    /\ pc[r] \in Waiting /\ kind[r] = "session"
    /\ \E e \in Refusals : End(r, ErrorStatus(e))
    /\ UNCHANGED <<app, databaseVars, poolVars, kind, kept, cause, historyVars>>

\* Mutant of Raise: the transaction is committed whatever happened.
RaiseCommits(r) ==
    /\ pc[r] = "work"
    /\ \E e \in Raised : End(r, ErrorStatus(e))
    /\ kept' = IF conn[r] = "live" THEN kept \cup {r} ELSE kept
    /\ Release(r)
    /\ UNCHANGED <<app, databaseVars, kind, cause, historyVars>>

\* The use case raises: session() rolls back, then a handler answers.
Raise(r) ==
    /\ pc[r] = "work"
    /\ \E e \in Raised : End(r, ErrorStatus(e))
    /\ Release(r)
    /\ UNCHANGED <<app, databaseVars, kind, kept, cause, historyVars>>

\* A statement finds its connection lost.
StatementFails(r) ==
    /\ pc[r] = "work" /\ conn[r] = "dead"
    /\ Fail(r, "lost")
    /\ Release(r)
    /\ UNCHANGED <<app, databaseVars, kind, kept, historyVars>>

\* The last statement and the last external call are over: the 200 is sent.
Answer(r) ==
    /\ pc[r] = "work"
    /\ status' = [status EXCEPT ![r] = 200]
    /\ pc' = [pc EXCEPT ![r] = "commit"]
    /\ UNCHANGED <<app, databaseVars, poolVars, kind, kept, cause, historyVars>>

\* get_session resumes: session.commit().
Commit(r) ==
    /\ pc[r] = "commit" /\ conn[r] = "live"
    /\ pc' = [pc EXCEPT ![r] = "ended"]
    /\ kept' = kept \cup {r}
    /\ Release(r)
    /\ UNCHANGED <<app, databaseVars, kind, status, cause, historyVars>>

\* The commit raises, on a lost connection or because PostgreSQL refuses it: the
\* transaction is rolled back, and the 200 has been sent.
CommitFails(r) ==
    /\ pc[r] = "commit"
    /\ pc' = [pc EXCEPT ![r] = "ended"]
    /\ cause' = [cause EXCEPT ![r] = IF conn[r] = "live" THEN "refused" ELSE "lost"]
    /\ Release(r)
    /\ UNCHANGED <<app, databaseVars, kind, status, kept, historyVars>>

\* No request will come or go on any more.
Quiescent ==
    /\ app = "stopped"
    /\ UNCHANGED vars

\* The steps the server takes on its own: not the end of an external call, and
\* not the timeout of the pool.
Serve(r) == Checkout(r) \/ SelectOne(r) \/ Commit(r) \/ CommitFails(r)

Next ==
    \/ Started \/ Stop \/ Dispose
    \/ DatabaseDown \/ DatabaseUp
    \/ Crash
    \/ \E r \in Requests :
          \/ Arrive(r) \/ Serve(r) \/ PoolTimeout(r)
          \/ Refuse(r) \/ Raise(r) \/ StatementFails(r) \/ Answer(r)
    \/ Quiescent

Spec == Init /\ [][Next]_vars

\* asyncio and asyncpg: a connection attempt and a statement end, and the pool
\* wakes a waiter when a connection comes back.
FairSpec ==
    /\ Spec
    /\ WF_vars(Started) /\ WF_vars(Dispose)
    /\ \A r \in Requests : WF_vars(Serve(r))

-------------------------------------------------------------------------------
(* What must hold. *)

\* Nobody pays for an outage that was over before he came: a request, or its
\* commit after the answer, loses PostgreSQL only when it was down during the life
\* of the request, even if all the connections in the pool are older.  For /ready
\* this is half of its promise, except that a full pool also makes it say
\* "unavailable".
OutagesAreNotRemembered == \A r \in Requests : cause[r] = "lost" => r \in sawDown

\* The other half: "ready" means that PostgreSQL was there after the probe came.
ReadyMeansUp ==
    \A r \in Requests : kind[r] = "ready" /\ status[r] = 200 => r \in sawUp

\* What PostgreSQL keeps of an ended request, next to what its client was told
\* (session.py, dependencies.py): never anything behind an error or behind no
\* answer; and everything behind a 200, unless the commit that follows the
\* answer failed or the process died before it.
AnswerMatchesDatabase ==
    \A r \in Requests :
        /\ r \in kept => pc[r] \in Ended /\ status[r] = 200
        /\ pc[r] \in Ended /\ kind[r] = "session" /\ status[r] = 200 /\ cause[r] = "none" =>
               r \in kept

\* Whatever way a request ends, its connection is back.
ConnectionsComeBack == \A r \in Requests : Active(r) \/ conn[r] = "none"

\* "sem derrubar a API por indisponibilidade temporaria": the API starts, and starts
\* again after it has died, even if PostgreSQL never comes back.
StartsAnyway == app = "starting" ~> app # "starting"

NobodyHangs == \A q \in Requests : []<>(pc[q] # "work")

\* Every accepted request ends, and a server told to stop does: requests wait for
\* connections, but nobody who holds one waits for another, so it takes no
\* timeout of the pool, only that no external call hangs.
EverythingEnds ==
    NobodyHangs =>
        /\ \A r \in Requests : Active(r) ~> pc[r] \in Ended
        /\ app = "stopping" ~> app = "stopped"
===============================================================================
