------------------------------ MODULE GoogleOAuth ------------------------------
(***************************************************************************)
(* GET /auth/google/start and GET /auth/google/callback: the one-time      *)
(* state kept in oauth_states and the credentials kept in google_accounts. *)
(*                                                                         *)
(* A start creates one state and a callback carries one; any number of     *)
(* callbacks may carry the same state, or one that was never created.  A   *)
(* token is named after the callback whose exchange obtained it.  Each     *)
(* request is one PostgreSQL transaction (READ COMMITTED): its writes are  *)
(* visible, and the rows it locked are free, when it ends.                 *)
(***************************************************************************)
EXTENDS Naturals

CONSTANTS
    States,      \* raw state values, one per call of start
    Callbacks,   \* calls of the callback
    Accounts,    \* Gmail addresses, in lower case
    TTL,         \* settings.google_oauth_state_ttl_seconds, in ticks
    MaxTime,     \* bound: the clock stops here
    NoCallback,  \* "no transaction holds the row"
    NoToken,     \* NULL in encrypted_refresh_token
    NoAccount,   \* "no row in google_accounts"
    NoGrant      \* no answer of the token endpoint yet

Token == Callbacks \cup {NoToken}

\* A row of google_accounts.
AccountRow == [access : Callbacks, refresh : Token]

\* What the token endpoint and the profile answer: the account, and whether a
\* refresh token came with the access token.
Grant == [account : Accounts, fresh : BOOLEAN]

ASSUME ClockAssumption == TTL \in Nat \ {0} /\ MaxTime \in Nat

ASSUME NothingAssumption ==
    /\ NoCallback \notin Callbacks
    /\ NoToken \notin Callbacks
    /\ NoAccount \notin AccountRow
    /\ NoGrant \notin Grant

VARIABLES
    now,         \* the clock of the server
    startPc,     \* startPc[s]: the start request that creates s
    expires,     \* expires[s]: its expires_at
    stateRow,    \* stateRow[s]: the committed row of s
    stateLock,   \* stateLock[s]: the transaction with an uncommitted used_at
    accounts,    \* accounts[a]: the committed row of a
    accountLock, \* accountLock[a]: the transaction with an uncommitted write to it
    pc,          \* pc[c]: what callback c does next
    carried,     \* carried[c]: the state in its query string
    readAt,      \* readAt[c]: the now it compares with expires_at
    grant,       \* grant[c]: what its exchange answered
    refresh,     \* refresh[c]: the refresh token execute passes to upsert
    loaded       \* loaded[c]: the row upsert's SELECT found

stateVars == <<startPc, expires, stateRow, stateLock>>
accountVars == <<accounts, accountLock>>
requestVars == <<pc, carried, readAt, grant, refresh, loaded>>
vars == <<now, stateVars, accountVars, requestVars>>

Finished == {"done", "failed"}
Active(c) == pc[c] \notin {"idle"} \cup Finished

TypeOK ==
    /\ now \in 0..MaxTime
    /\ startPc \in [States -> {"idle", "open"} \cup Finished]
    /\ expires \in [States -> Nat]
    /\ stateRow \in [States -> {"absent", "unused", "used"}]
    /\ stateLock \in [States -> Callbacks \cup {NoCallback}]
    /\ accounts \in [Accounts -> AccountRow \cup {NoAccount}]
    /\ accountLock \in [Accounts -> Callbacks \cup {NoCallback}]
    /\ pc \in [Callbacks -> {"idle", "consume", "exchange", "lookup", "select", "flush",
                              "reply", "commit"} \cup Finished]
    /\ carried \in [Callbacks -> States]
    /\ readAt \in [Callbacks -> 0..MaxTime]
    /\ grant \in [Callbacks -> Grant \cup {NoGrant}]
    /\ refresh \in [Callbacks -> Token]
    /\ loaded \in [Callbacks -> AccountRow \cup {NoAccount}]

Init ==
    /\ now = 0
    /\ startPc = [s \in States |-> "idle"]
    /\ expires = [s \in States |-> 0]
    /\ stateRow = [s \in States |-> "absent"]
    /\ stateLock = [s \in States |-> NoCallback]
    /\ accounts = [a \in Accounts |-> NoAccount]
    /\ accountLock = [a \in Accounts |-> NoCallback]
    /\ pc = [c \in Callbacks |-> "idle"]
    /\ carried \in [Callbacks -> States]
    /\ readAt = [c \in Callbacks |-> 0]
    /\ grant = [c \in Callbacks |-> NoGrant]
    /\ refresh = [c \in Callbacks |-> NoToken]
    /\ loaded = [c \in Callbacks |-> NoAccount]

Tick ==
    /\ now < MaxTime
    /\ now' = now + 1
    /\ UNCHANGED <<stateVars, accountVars, requestVars>>

-------------------------------------------------------------------------------
(* GET /auth/google/start *)

\* A new state, its hash inserted and flushed; the redirect leaves.
Start(s) ==
    /\ startPc[s] = "idle"
    /\ startPc' = [startPc EXCEPT ![s] = "open"]
    /\ expires' = [expires EXCEPT ![s] = now + TTL]
    /\ UNCHANGED <<now, stateRow, stateLock, accountVars, requestVars>>

\* The session commits after the redirect has been sent.
StartCommit(s) ==
    /\ startPc[s] = "open"
    /\ startPc' = [startPc EXCEPT ![s] = "done"]
    /\ stateRow' = [stateRow EXCEPT ![s] = "unused"]
    /\ UNCHANGED <<now, expires, stateLock, accountVars, requestVars>>

\* The insert, or the commit, fails: the state never exists.
StartFails(s) ==
    /\ startPc[s] = "open"
    /\ startPc' = [startPc EXCEPT ![s] = "failed"]
    /\ UNCHANGED <<now, expires, stateRow, stateLock, accountVars, requestVars>>

-------------------------------------------------------------------------------
(* GET /auth/google/callback *)

Goto(c, label) == pc' = [pc EXCEPT ![c] = label]

\* The requests in R roll back: PostgreSQL frees the rows they had locked.
Release(R) ==
    /\ stateLock' = [s \in States |-> IF stateLock[s] \in R THEN NoCallback ELSE stateLock[s]]
    /\ accountLock' =
           [a \in Accounts |-> IF accountLock[a] \in R THEN NoCallback ELSE accountLock[a]]

\* error=..., no code, no state, or a missing setting: answered at once.
Reject(c) ==
    /\ pc[c] = "idle"
    /\ Goto(c, "failed")
    /\ UNCHANGED <<now, stateVars, accountVars, carried, readAt, grant, refresh, loaded>>

\* execute() reads the clock, then awaits the UPDATE.
Receive(c) ==
    /\ pc[c] = "idle"
    /\ readAt' = [readAt EXCEPT ![c] = now]
    /\ Goto(c, "consume")
    /\ UNCHANGED <<now, stateVars, accountVars, carried, grant, refresh, loaded>>

\* Mutant of Consumable: used_at is not looked at.
ConsumableAgain(c) ==
    /\ stateRow[carried[c]] # "absent"
    /\ expires[carried[c]] > readAt[c]

\* The WHERE clause of the UPDATE, on the committed row.
Consumable(c) ==
    /\ stateRow[carried[c]] = "unused"
    /\ expires[carried[c]] > readAt[c]

\* Mutant of Consume: the UPDATE commits on its own.
ConsumeAutocommits(c) ==
    /\ pc[c] = "consume"
    /\ Consumable(c)
    /\ stateRow' = [stateRow EXCEPT ![carried[c]] = "used"]
    /\ Goto(c, "exchange")
    /\ UNCHANGED <<now, startPc, expires, stateLock, accountVars, carried, readAt, grant,
                   refresh, loaded>>

\* UPDATE ... SET used_at WHERE unused and not expired RETURNING id: waits for
\* a transaction that has updated the row, then looks at the row again.
Consume(c) ==
    /\ pc[c] = "consume"
    /\ Consumable(c)
    /\ stateLock[carried[c]] = NoCallback
    /\ stateLock' = [stateLock EXCEPT ![carried[c]] = c]
    /\ Goto(c, "exchange")
    /\ UNCHANGED <<now, startPc, expires, stateRow, accountVars, carried, readAt, grant,
                   refresh, loaded>>

\* No row matches: InvalidOAuthStateError.
InvalidState(c) ==
    /\ pc[c] = "consume"
    /\ ~Consumable(c)
    /\ Goto(c, "failed")
    /\ UNCHANGED <<now, stateVars, accountVars, carried, readAt, grant, refresh, loaded>>

\* The token endpoint and the profile answer, in a thread.
Exchange(c) ==
    /\ pc[c] = "exchange"
    /\ \E g \in Grant : grant' = [grant EXCEPT ![c] = g]
    /\ Goto(c, "lookup")
    /\ UNCHANGED <<now, stateVars, accountVars, carried, readAt, refresh, loaded>>

\* Mutant of ExchangeFails: the session is neither rolled back nor closed.
ExchangeFailsOpen(c) ==
    /\ pc[c] = "exchange"
    /\ Goto(c, "failed")
    /\ UNCHANGED <<now, stateVars, accountVars, carried, readAt, grant, refresh, loaded>>

\* Any error of the exchange becomes OAuthExchangeError; the session rolls
\* back, so the state is unused again.
ExchangeFails(c) ==
    /\ pc[c] = "exchange"
    /\ Release({c})
    /\ Goto(c, "failed")
    /\ UNCHANGED <<now, startPc, expires, stateRow, accounts, carried, readAt, grant,
                   refresh, loaded>>

\* Mutant of Lookup: the refresh token of any connected account is reused.
LookupAnyAccount(c) ==
    /\ pc[c] = "lookup"
    /\ \E a \in Accounts : LET existing == accounts[a] IN
       refresh' = [refresh EXCEPT ![c] =
           IF grant[c].fresh THEN c
           ELSE IF existing # NoAccount THEN existing.refresh
           ELSE NoToken]
    /\ Goto(c, "select")
    /\ UNCHANGED <<now, stateVars, accountVars, carried, readAt, grant, loaded>>

\* Mutant of Lookup: the row found stands in for its refresh token.
LookupKeepsRow(c) ==
    /\ pc[c] = "lookup"
    /\ refresh' = [refresh EXCEPT ![c] = IF grant[c].fresh THEN c ELSE accounts[grant[c].account]]
    /\ Goto(c, "select")
    /\ UNCHANGED <<now, stateVars, accountVars, carried, readAt, grant, loaded>>

\* get_by_email, and the refresh token to keep: the new one, else the one the
\* account has now, else none.
Lookup(c) ==
    /\ pc[c] = "lookup"
    /\ LET existing == accounts[grant[c].account] IN
       refresh' = [refresh EXCEPT ![c] =
           IF grant[c].fresh THEN c
           ELSE IF existing # NoAccount THEN existing.refresh
           ELSE NoToken]
    /\ Goto(c, "select")
    /\ UNCHANGED <<now, stateVars, accountVars, carried, readAt, grant, loaded>>

\* upsert reads the row again.
Select(c) ==
    /\ pc[c] = "select"
    /\ loaded' = [loaded EXCEPT ![c] = accounts[grant[c].account]]
    /\ Goto(c, "flush")
    /\ UNCHANGED <<now, stateVars, accountVars, carried, readAt, grant, refresh>>

\* flush(): an INSERT when upsert found no row, else an UPDATE by primary key.
\* Both wait for a transaction that has written the row.
Flush(c) ==
    LET a == grant[c].account IN
    /\ pc[c] = "flush"
    /\ accountLock[a] = NoCallback
    /\ loaded[c] = NoAccount => accounts[a] = NoAccount
    /\ accountLock' = [accountLock EXCEPT ![a] = c]
    /\ Goto(c, "reply")
    /\ UNCHANGED <<now, stateVars, accounts, carried, readAt, grant, refresh, loaded>>

\* The INSERT meets a row committed since the SELECT: IntegrityError, 500.
Conflict(c) ==
    LET a == grant[c].account IN
    /\ pc[c] = "flush"
    /\ accountLock[a] = NoCallback
    /\ loaded[c] = NoAccount /\ accounts[a] # NoAccount
    /\ Release({c})
    /\ Goto(c, "failed")
    /\ UNCHANGED <<now, startPc, expires, stateRow, accounts, carried, readAt, grant,
                   refresh, loaded>>

\* The row is read back and the 200 response leaves.
Reply(c) ==
    /\ pc[c] = "reply"
    /\ Goto(c, "commit")
    /\ UNCHANGED <<now, stateVars, accountVars, carried, readAt, grant, refresh, loaded>>

\* Mutant of Written: the refresh token is assigned even when there is none.
WrittenBlindly(c) == [access |-> c, refresh |-> refresh[c]]

\* What c wrote to its account.  The ORM puts into the UPDATE the attributes
\* that differ from what it loaded: the access token always, the refresh token
\* when upsert assigned another one than the row held.
Written(c) ==
    [access |-> c,
     refresh |-> IF loaded[c] # NoAccount /\ refresh[c] \in {NoToken, loaded[c].refresh}
                 THEN accounts[grant[c].account].refresh
                 ELSE refresh[c]]

\* The state is used and the account written, in one commit.
Commit(c) ==
    /\ pc[c] = "commit"
    /\ stateRow' = [s \in States |-> IF stateLock[s] = c THEN "used" ELSE stateRow[s]]
    /\ accounts' = [a \in Accounts |-> IF accountLock[a] = c THEN Written(c) ELSE accounts[a]]
    /\ Release({c})
    /\ Goto(c, "done")
    /\ UNCHANGED <<now, startPc, expires, carried, readAt, grant, refresh, loaded>>

\* A statement or the commit raises: rollback.
DatabaseError(c) ==
    /\ pc[c] \in {"consume", "lookup", "select", "flush", "reply", "commit"}
    /\ Release({c})
    /\ Goto(c, "failed")
    /\ UNCHANGED <<now, startPc, expires, stateRow, accounts, carried, readAt, grant,
                   refresh, loaded>>

\* The process dies and is restarted: every open transaction is rolled back.
Crash ==
    /\ (\E c \in Callbacks : Active(c)) \/ (\E s \in States : startPc[s] = "open")
    /\ Release({c \in Callbacks : Active(c)})
    /\ pc' = [c \in Callbacks |-> IF Active(c) THEN "failed" ELSE pc[c]]
    /\ startPc' = [s \in States |-> IF startPc[s] = "open" THEN "failed" ELSE startPc[s]]
    /\ UNCHANGED <<now, expires, stateRow, accounts, carried, readAt, grant, refresh, loaded>>

\* Nothing is left to serve.
Quiescent ==
    /\ \A c \in Callbacks : pc[c] \in Finished
    /\ \A s \in States : startPc[s] \in Finished
    /\ UNCHANGED vars

\* The steps the server takes on its own for a callback it has accepted.
Local(c) ==
    \/ Consume(c) \/ InvalidState(c)
    \/ Lookup(c)  \/ Select(c) \/ Flush(c) \/ Conflict(c)
    \/ Reply(c)   \/ Commit(c)

Next ==
    \/ Tick
    \/ \E s \in States : Start(s) \/ StartCommit(s) \/ StartFails(s)
    \/ \E c \in Callbacks :
          Reject(c) \/ Receive(c) \/ Local(c) \/ Exchange(c) \/ ExchangeFails(c) \/ DatabaseError(c)
    \/ Crash
    \/ Quiescent

Spec == Init /\ [][Next]_vars

\* The event loop and PostgreSQL make progress.  Nothing is assumed of Google:
\* the token request has no timeout.
FairSpec == Spec /\ \A c \in Callbacks : WF_vars(Local(c))

-------------------------------------------------------------------------------
(* What must hold. *)

\* c has consumed its state, for good or until it fails.
Holds(c) ==
    pc[c] \in {"exchange", "lookup", "select", "flush", "reply", "commit", "done"}

\* A state lets one callback through: while c is past the consumption of its
\* state, or connected by it, no other callback is; and the state was created,
\* and had not expired when c read the clock (ADR 0002, decision 2).
AuthorisedOnce ==
    \A c \in Callbacks : Holds(c) =>
        /\ startPc[carried[c]] = "done"
        /\ readAt[c] < expires[carried[c]]
        /\ \A d \in Callbacks : Holds(d) /\ carried[d] = carried[c] => d = c

\* The state is spent and the account written together: no state is burned by a
\* callback that failed or crashed, none stays usable after it has connected.
SpentMeansConnected ==
    \A s \in States :
        stateRow[s] = "used" <=> \E c \in Callbacks : pc[c] = "done" /\ carried[c] = s

\* The tokens a row holds were granted to that account, by callbacks that
\* committed, however the callbacks of several accounts interleave.
Granted(a, c) == pc[c] = "done" /\ grant[c] # NoGrant /\ grant[c].account = a

TokensOfTheirAccount ==
    \A a \in Accounts : accounts[a] # NoAccount =>
        LET row == accounts[a] IN
        /\ Granted(a, row.access)
        /\ row.refresh # NoToken => Granted(a, row.refresh) /\ grant[row.refresh].fresh

\* upsert never erases a stored refresh token ("sem apagar refresh token
\* existente"), even when another callback stores the first one meanwhile.
RefreshTokenSurvives ==
    [][\A a \in Accounts : accounts[a] # NoAccount /\ accounts[a].refresh # NoToken =>
           accounts'[a] # NoAccount /\ accounts'[a].refresh # NoToken]_vars

\* Seen from google_accounts and oauth_states, a callback is one atomic step:
\* it spends its state and connects its account, or it leaves no trace.
RowKind(r) ==
    IF r = NoAccount THEN "absent" ELSE IF r.refresh = NoToken THEN "bare" ELSE "refreshable"

Register == INSTANCE ConnectionRegister WITH
    state <- stateRow,
    row <- [a \in Accounts |-> RowKind(accounts[a])],
    ended <- {c \in Callbacks : pc[c] \in Finished}

ImplementsRegister == Register!Spec

\* If no token request hangs for ever, every accepted callback ends: the waits
\* on the state and on the account row cannot block each other.
EveryCallbackEnds ==
    (\A c \in Callbacks : []<>(pc[c] # "exchange")) =>
        \A c \in Callbacks : Active(c) ~> pc[c] \in Finished

-------------------------------------------------------------------------------
(* What the code says of itself and does not do. *)

\* upsert "cria ou atualiza credenciais sem apagar refresh token existente": a
\* callback that was granted no refresh token leaves the stored one alone.
StoredRefreshTokenIsKept ==
    [][\A a \in Accounts :
           /\ accounts[a] # NoAccount /\ accounts'[a] # accounts[a]
           /\ ~grant[accounts'[a].access].fresh
           => accounts'[a].refresh = accounts[a].refresh]_vars
===============================================================================
