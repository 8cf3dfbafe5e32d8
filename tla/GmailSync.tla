------------------------------- MODULE GmailSync -------------------------------
(***************************************************************************)
(* POST /api/v1/emails/sync: SyncUnreadEmails, GmailClient, and the tables *)
(* google_accounts and email_messages, while other syncs run and while     *)
(* OAuth callbacks connect accounts.                                       *)
(*                                                                         *)
(* A sync is one transaction (READ COMMITTED) that lasts through all its   *)
(* calls of Gmail.  It reads "the latest account" twice: execute reads it  *)
(* to know under which account to store, GmailClient reads it again to     *)
(* know whose mailbox to open.  The listing is a loop over pages, whose    *)
(* content Gmail decides anew at each request.                             *)
(***************************************************************************)
EXTENDS Naturals, FiniteSets, Sequences

CONSTANTS
    Syncs,       \* calls of POST /emails/sync
    Callbacks,   \* OAuth callbacks that get as far as writing an account
    Accounts,    \* Gmail addresses
    Mailbox,     \* Mailbox[a]: the messages of a
    Recency,     \* Recency[m]: greater for newer messages, which Gmail lists first
    Oversized,   \* messages with a header longer than its column
    Limit,       \* the limit of the request
    NoAccount,   \* "no row in google_accounts"
    NoRequest    \* "no transaction holds the row"

Messages == UNION {Mailbox[a] : a \in Accounts}

\* A row of email_messages, by its unique key.
EmailRow == Accounts \X Messages

Requests == Syncs \cup Callbacks

\* nextPageToken of an answer; "none" when there is none, and in the first request.
PageTokens == {"none", "p", "q"}

\* A row of google_accounts: is its access token expired, does it have a
\* refresh token, and the start time of the transaction that wrote it last.
AccountRow == [expired : BOOLEAN, refreshable : BOOLEAN, updated : Nat]

ASSUME MailboxAssumption ==
    /\ Mailbox \in [Accounts -> SUBSET Messages]
    /\ \A a, b \in Accounts : a # b => Mailbox[a] \cap Mailbox[b] = {}
    /\ Recency \in [Messages -> Nat]
    /\ \A m, n \in Messages : Recency[m] = Recency[n] => m = n
    /\ Oversized \subseteq Messages
    /\ Limit \in Nat \ {0}

ASSUME NothingAssumption ==
    /\ NoRequest \notin Requests
    /\ NoAccount \notin AccountRow
    /\ Syncs \cap Callbacks = {}

VARIABLES
    clock,       \* order in which transactions start: func.now() is its start time
    accounts,    \* accounts[a]: the committed row of a
    accountLock, \* accountLock[a]: the transaction with an uncommitted write to a
    emails,      \* committed rows of email_messages
    inserted,    \* inserted[q]: rows q has inserted
    pc,          \* pc[q]: what request q does next
    began,       \* began[q]: when its transaction started
    owner,       \* owner[q]: the account execute stores under; of a callback, the one it connects
    reader,      \* reader[q]: the account whose credentials GmailClient uses
    listed,      \* listed[q]: message_ids, in the order of the pages
    pageToken,   \* pageToken[q]: the page token of the next request
    todo,        \* todo[q]: listed ids not yet handled
    failed,      \* failed[q]: failed_message_ids
    duplicates   \* duplicates[q]: how many ids found their row stored

tables == <<accounts, accountLock, emails>>
listing == <<listed, pageToken>>
progress == <<inserted, listing, todo, failed, duplicates>>
vars == <<clock, tables, pc, began, owner, reader, progress>>

Finished == {"done", "failed"}
Active(q) == pc[q] \notin {"idle"} \cup Finished

TypeOK ==
    /\ clock \in Nat
    /\ accounts \in [Accounts -> AccountRow \cup {NoAccount}]
    /\ accountLock \in [Accounts -> Requests \cup {NoRequest}]
    /\ emails \subseteq EmailRow
    /\ inserted \in [Syncs -> SUBSET EmailRow]
    /\ pc \in [Requests -> {"idle", "open", "refresh", "save", "list", "next", "insert",
                             "connect", "reply", "commit"} \cup Finished]
    /\ began \in [Requests -> Nat]
    /\ owner \in [Requests -> Accounts]
    /\ reader \in [Syncs -> Accounts]
    /\ listed \in [Syncs -> Seq(Messages)]
    /\ pageToken \in [Syncs -> PageTokens]
    /\ todo \in [Syncs -> Seq(Messages)]
    /\ failed \in [Syncs -> Seq(Messages)]
    /\ duplicates \in [Syncs -> Nat]

\* A sync has no owner or reader before it reads them: any value will do.
NotReadYet == CHOOSE a \in Accounts : TRUE

Init ==
    /\ clock = 0
    /\ accounts = [a \in Accounts |-> NoAccount]
    /\ accountLock = [a \in Accounts |-> NoRequest]
    /\ emails = {}
    /\ inserted = [q \in Syncs |-> {}]
    /\ pc = [q \in Requests |-> "idle"]
    /\ began = [q \in Requests |-> 0]
    /\ owner \in [Requests -> Accounts]
    /\ \A q \in Syncs : owner[q] = NotReadYet
    /\ reader = [q \in Syncs |-> owner[q]]
    /\ listed = [q \in Syncs |-> <<>>]
    /\ pageToken = [q \in Syncs |-> "none"]
    /\ todo = [q \in Syncs |-> <<>>]
    /\ failed = [q \in Syncs |-> <<>>]
    /\ duplicates = [q \in Syncs |-> 0]

-------------------------------------------------------------------------------

Goto(q, label) == pc' = [pc EXCEPT ![q] = label]

\* The first statement of a request starts its transaction.
BeginTransaction(q) ==
    /\ clock' = clock + 1
    /\ began' = [began EXCEPT ![q] = clock + 1]

Connected == {a \in Accounts : accounts[a] # NoAccount}

\* ORDER BY updated_at DESC LIMIT 1.
Latest == {a \in Connected : \A b \in Connected : accounts[b].updated <= accounts[a].updated}

Cleared(f, R, nothing) == [q \in Syncs |-> IF q \in R THEN nothing ELSE f[q]]

\* The coroutines of R are gone with their local variables and uncommitted rows.
Forget(R) ==
    /\ inserted' = Cleared(inserted, R, {})
    /\ listed' = Cleared(listed, R, <<>>)
    /\ pageToken' = Cleared(pageToken, R, "none")
    /\ todo' = Cleared(todo, R, <<>>)
    /\ failed' = Cleared(failed, R, <<>>)
    /\ duplicates' = Cleared(duplicates, R, 0)
    /\ pc' = [q \in Requests |-> IF q \in R THEN "failed" ELSE pc[q]]

\* Mutant of Abort: the connection goes back to the pool with its transaction open.
AbortKeepsLocks(R) == Forget(R) /\ UNCHANGED accountLock

\* The requests in R roll back.
Abort(R) ==
    /\ Forget(R)
    /\ accountLock' = [a \in Accounts |-> IF accountLock[a] \in R THEN NoRequest ELSE accountLock[a]]

AbortOne(q) ==
    /\ Abort({q})
    /\ UNCHANGED <<clock, accounts, emails, began, owner, reader>>

\* execute: get_latest, the account the messages will be stored under.
ReadOwner(q) ==
    /\ pc[q] = "idle"
    /\ \E a \in Latest : owner' = [owner EXCEPT ![q] = a]
    /\ BeginTransaction(q)
    /\ Goto(q, "open")
    /\ UNCHANGED <<tables, reader, progress>>

\* No account: GmailAccountNotConnectedError.
NotConnected(q) ==
    /\ pc[q] = "idle"
    /\ Connected = {}
    /\ AbortOne(q)

\* _credentials: get_latest again, and what the token of that account allows.
OpenMailbox(q) ==
    /\ pc[q] = "open"
    /\ \E a \in Latest :
          /\ accounts[a].expired => accounts[a].refreshable
          /\ reader' = [reader EXCEPT ![q] = a]
          /\ Goto(q, IF accounts[a].expired THEN "refresh" ELSE "list")
    /\ UNCHANGED <<clock, tables, began, owner, progress>>

\* Expired and no refresh token: GmailAccountNotConnectedError.
CannotRefresh(q) ==
    /\ pc[q] = "open"
    /\ \E a \in Latest : accounts[a].expired /\ ~accounts[a].refreshable
    /\ AbortOne(q)

\* Google issues a new access token, within the attempts of _retry.
RefreshToken(q) ==
    /\ pc[q] = "refresh"
    /\ Goto(q, "save")
    /\ UNCHANGED <<clock, tables, began, owner, reader, progress>>

\* update_access_token: an UPDATE of the row of reader, which waits for other writers.
SaveToken(q) ==
    /\ pc[q] = "save"
    /\ accountLock[reader[q]] = NoRequest
    /\ accountLock' = [accountLock EXCEPT ![reader[q]] = q]
    /\ Goto(q, "list")
    /\ UNCHANGED <<clock, accounts, emails, began, owner, reader, progress>>

\* What messages.list(maxResults = n) may answer: unread messages, newest first.
Pages(a, n) ==
    {p \in UNION {[1..k -> Mailbox[a]] : k \in 0..n} :
        \A i, j \in DOMAIN p : i < j => Recency[p[i]] > Recency[p[j]]}

\* A token that differs from the one of the request.
Following(token) == IF token = "p" THEN "q" ELSE "p"

\* One round of the loop of list_unread_message_ids.  Messages arrive and are
\* read between two pages: an id may be listed twice, a page may be newer than
\* the one before, or empty although a token comes with it.  Gmail answers at most
\* the maxResults asked for, so message_ids[:limit] cuts nothing off.
ListPage(q) ==
    /\ pc[q] = "list"
    /\ \E page \in Pages(reader[q], Limit - Len(listed[q])) :
       \E token \in {"none", Following(pageToken[q])} :
          /\ listed' = [listed EXCEPT ![q] = @ \o page]
          /\ todo' = [todo EXCEPT ![q] = @ \o page]
          /\ IF token = "none" \/ Len(listed'[q]) = Limit
             THEN Goto(q, "next") /\ pageToken' = [pageToken EXCEPT ![q] = "none"]
             ELSE UNCHANGED pc /\ pageToken' = [pageToken EXCEPT ![q] = token]
    /\ UNCHANGED <<clock, tables, began, owner, reader, inserted, failed, duplicates>>

\* The token endpoint or the listing fails after its retries: ExternalServiceError.
GmailFails(q) ==
    /\ pc[q] \in {"refresh", "list"}
    /\ AbortOne(q)

\* The loop handles the ids in the order of the listing.
Current(q) == Head(todo[q])

Handled(q) == todo' = [todo EXCEPT ![q] = Tail(@)]

\* get_message gives a normalised message.
Fetch(q) ==
    /\ pc[q] = "next" /\ todo[q] # <<>>
    /\ Goto(q, "insert")
    /\ UNCHANGED <<clock, tables, began, owner, reader, progress>>

\* get_message raises, whatever the reason: the loop goes on with the next one.
FetchFails(q) ==
    /\ pc[q] = "next" /\ todo[q] # <<>>
    /\ failed' = [failed EXCEPT ![q] = Append(@, Current(q))]
    /\ Handled(q)
    /\ UNCHANGED <<clock, tables, pc, began, owner, reader, inserted, listing, duplicates>>

\* The row add_if_absent would insert.
RowOf(q) == <<owner[q], Current(q)>>

\* Another open transaction has inserted the same key: PostgreSQL waits for its end.
Contended(q) == \E p \in Syncs \ {q} : Active(p) /\ RowOf(q) \in inserted[p]

\* Mutant of Insert: a SELECT that looks for the row, then a plain INSERT.
InsertUnchecked(q) ==
    /\ pc[q] = "insert"
    /\ Current(q) \notin Oversized
    /\ RowOf(q) \notin emails \cup inserted[q]
    /\ inserted' = [inserted EXCEPT ![q] = @ \cup {RowOf(q)}]
    /\ Handled(q)
    /\ Goto(q, "next")
    /\ UNCHANGED <<clock, tables, began, owner, reader, listing, failed, duplicates>>

\* add_if_absent: INSERT ... ON CONFLICT DO NOTHING inserts the row.
Insert(q) ==
    /\ pc[q] = "insert"
    /\ Current(q) \notin Oversized
    /\ RowOf(q) \notin emails \cup inserted[q] /\ ~Contended(q)
    /\ inserted' = [inserted EXCEPT ![q] = @ \cup {RowOf(q)}]
    /\ Handled(q)
    /\ Goto(q, "next")
    /\ UNCHANGED <<clock, tables, began, owner, reader, listing, failed, duplicates>>

\* Mutant of InsertFindsDuplicate: a row another sync has not committed counts too.
DuplicateOfUncommitted(q) ==
    /\ pc[q] = "insert"
    /\ Current(q) \notin Oversized
    /\ RowOf(q) \in emails \cup inserted[q] \/ Contended(q)
    /\ duplicates' = [duplicates EXCEPT ![q] = @ + 1]
    /\ Handled(q)
    /\ Goto(q, "next")
    /\ UNCHANGED <<clock, tables, began, owner, reader, inserted, listing, failed>>

\* add_if_absent: a committed row, or one of its own, has the key: nothing is
\* inserted.
InsertFindsDuplicate(q) ==
    /\ pc[q] = "insert"
    /\ Current(q) \notin Oversized
    /\ RowOf(q) \in emails \cup inserted[q]
    /\ duplicates' = [duplicates EXCEPT ![q] = @ + 1]
    /\ Handled(q)
    /\ Goto(q, "next")
    /\ UNCHANGED <<clock, tables, began, owner, reader, inserted, listing, failed>>

\* The value does not fit its column: the statement, and with it the sync, fails.
InsertRefused(q) ==
    /\ pc[q] = "insert"
    /\ Current(q) \in Oversized
    /\ AbortOne(q)

\* q waits for p to end.
WaitsFor(q, p) ==
    /\ q # p /\ pc[q] = "insert" /\ Active(p)
    /\ RowOf(q) \notin emails /\ RowOf(q) \in inserted[p]

\* Syncs that wait for each other: PostgreSQL fails one of them after
\* deadlock_timeout.
DeadlockVictim(q) ==
    /\ \E D \in SUBSET Syncs : q \in D /\ \A p \in D : \E r \in D : WaitsFor(p, r)
    /\ AbortOne(q)

\* All handled: the counts are sent.
Reply(q) ==
    /\ pc[q] = "next" /\ todo[q] = <<>>
    /\ Goto(q, "commit")
    /\ UNCHANGED <<clock, tables, began, owner, reader, progress>>

\* Mutant of Refreshed: the request instead of the start of its transaction.
RefreshedByRequest(q, row) == [row EXCEPT !.expired = FALSE, !.updated = q]

\* Mutant of Refreshed: the refresh token is overwritten with the one of the answer.
RefreshedWithoutToken(q, row) ==
    [row EXCEPT !.expired = FALSE, !.refreshable = FALSE, !.updated = began[q]]

Refreshed(q, row) == [row EXCEPT !.expired = FALSE, !.updated = began[q]]

\* The new rows and the new token become visible.
Commit(q) ==
    /\ pc[q] = "commit"
    /\ emails' = emails \cup inserted[q]
    /\ accounts' = [a \in Accounts |->
           IF accountLock[a] = q THEN Refreshed(q, accounts[a]) ELSE accounts[a]]
    /\ accountLock' = [a \in Accounts |-> IF accountLock[a] = q THEN NoRequest ELSE accountLock[a]]
    /\ Goto(q, "done")
    /\ UNCHANGED <<clock, began, owner, reader, progress>>

\* A statement or the commit raises.
DatabaseError(q) ==
    /\ pc[q] \in {"open", "save", "insert", "commit"}
    /\ AbortOne(q)

-------------------------------------------------------------------------------
(* The environment: OAuth callbacks, time, crashes. *)

\* A callback has consumed its state: its transaction is open while it
\* exchanges the code.
ConnectBegin(k) ==
    /\ pc[k] = "idle"
    /\ BeginTransaction(k)
    /\ Goto(k, "connect")
    /\ UNCHANGED <<tables, owner, reader, progress>>

\* upsert flushes the row.
ConnectWrite(k) ==
    /\ pc[k] = "connect"
    /\ accountLock[owner[k]] = NoRequest
    /\ accountLock' = [accountLock EXCEPT ![owner[k]] = k]
    /\ Goto(k, "reply")
    /\ UNCHANGED <<clock, accounts, emails, began, owner, reader, progress>>

\* The callback commits: a fresh token, with a refresh token if the row had one
\* or Google granted one.
ConnectCommit(k) ==
    /\ pc[k] = "reply"
    /\ \E granted \in BOOLEAN :
          LET old == accounts[owner[k]] IN
          accounts' = [accounts EXCEPT ![owner[k]] =
              [expired |-> FALSE,
               refreshable |-> granted \/ (old # NoAccount /\ old.refreshable),
               updated |-> began[k]]]
    /\ accountLock' = [accountLock EXCEPT ![owner[k]] = NoRequest]
    /\ Goto(k, "done")
    /\ UNCHANGED <<clock, emails, began, owner, reader, progress>>

ConnectFails(k) ==
    /\ pc[k] \in {"connect", "reply"}
    /\ AbortOne(k)

\* token_expires_at of a passes.
Expire(a) ==
    /\ a \in Connected /\ ~accounts[a].expired
    /\ accounts' = [accounts EXCEPT ![a].expired = TRUE]
    /\ UNCHANGED <<clock, accountLock, emails, pc, began, owner, reader, progress>>

\* The process dies and is restarted: every open transaction is rolled back.
Crash ==
    /\ \E q \in Requests : Active(q)
    /\ Abort({q \in Requests : Active(q)})
    /\ UNCHANGED <<clock, accounts, emails, began, owner, reader>>

\* Nothing is left to serve.
Quiescent ==
    /\ \A q \in Requests : pc[q] \in Finished
    /\ UNCHANGED vars

\* What a sync does once it is accepted; every call of Google ends, in an
\* answer or in the timeout of its library.
Serve(q) ==
    \/ OpenMailbox(q) \/ CannotRefresh(q) \/ RefreshToken(q) \/ SaveToken(q)
    \/ ListPage(q)    \/ GmailFails(q)
    \/ Fetch(q)       \/ FetchFails(q)
    \/ Insert(q)      \/ InsertFindsDuplicate(q) \/ InsertRefused(q) \/ DeadlockVictim(q)
    \/ Reply(q)       \/ Commit(q)

Next ==
    \/ \E q \in Syncs : ReadOwner(q) \/ NotConnected(q) \/ Serve(q) \/ DatabaseError(q)
    \/ \E k \in Callbacks : ConnectBegin(k) \/ ConnectWrite(k) \/ ConnectCommit(k) \/ ConnectFails(k)
    \/ \E a \in Accounts : Expire(a)
    \/ Crash
    \/ Quiescent

Spec == Init /\ [][Next]_vars

\* Accepted syncs advance; a callback that has written its row commits or
\* fails.  A callback that is still exchanging its code need not advance.
FairSpec ==
    /\ Spec
    /\ \A q \in Syncs : WF_vars(Serve(q))
    /\ \A k \in Callbacks : WF_vars(ConnectCommit(k))

-------------------------------------------------------------------------------
(* What must hold. *)

\* Each row is inserted by one sync, and email_messages holds what the committed
\* ones inserted and nothing else: overlapping syncs store nothing twice
\* (ADR 0002, decision 6), a failed sync leaves nothing behind.
StoredOnce ==
    /\ emails = UNION {inserted[q] : q \in {p \in Syncs : pc[p] = "done"}}
    /\ \A q, p \in Syncs : q # p => inserted[q] \cap inserted[p] = {}

\* When a sync has committed, every id it listed, on whatever page and however
\* often, is stored under its account or reported in failed_message_ids, also
\* those it counted as duplicates because another sync had them; it stored
\* nothing it had not listed; and the counts add up.
ListedIsAccounted ==
    \A q \in Syncs : pc[q] = "done" =>
        /\ \A i \in DOMAIN listed[q] :
              \/ <<owner[q], listed[q][i]>> \in emails
              \/ \E j \in DOMAIN failed[q] : failed[q][j] = listed[q][i]
        /\ \A row \in inserted[q] : \E i \in DOMAIN listed[q] : row = <<owner[q], listed[q][i]>>
        /\ Len(listed[q]) = Cardinality(inserted[q]) + duplicates[q] + Len(failed[q])

\* If Gmail does not answer empty pages with a token for ever, every accepted
\* sync ends: PostgreSQL breaks the cycles that the waits on rows of
\* email_messages can form, and the account row is in none.
EverySyncEnds ==
    (\A q \in Syncs : []<>(pc[q] # "list")) =>
        \A q \in Syncs : Active(q) ~> pc[q] \in Finished

\* What a sync does to google_accounts is hidden from the callbacks: with a
\* state per callback, the accounts change only as ConnectionRegister allows.
\* In particular a saved access token never costs an account its refresh token,
\* and an aborted sync takes no account with it.
RowKind(r) ==
    IF r = NoAccount THEN "absent" ELSE IF r.refreshable THEN "refreshable" ELSE "bare"

StateOf(k) ==
    CASE pc[k] = "idle" -> "absent" [] pc[k] = "done" -> "used" [] OTHER -> "unused"

Register == INSTANCE ConnectionRegister WITH
    States <- Callbacks,
    state <- [k \in Callbacks |-> StateOf(k)],
    row <- [a \in Accounts |-> RowKind(accounts[a])],
    ended <- {k \in Callbacks : pc[k] \in Finished}

ImplementsRegister == Register!Spec

-------------------------------------------------------------------------------
(* What the documentation says and the code does not do. *)

\* ADR 0002: an unread message may be listed again "mas nao sera persistida
\* novamente".  So no message has two rows.
PersistedOnce ==
    \A a, b \in Accounts, m \in Messages :
        <<a, m>> \in emails /\ <<b, m>> \in emails => a = b
===============================================================================
