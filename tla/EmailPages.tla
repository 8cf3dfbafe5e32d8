------------------------------ MODULE EmailPages ------------------------------
(***************************************************************************)
(* GET /api/v1/emails?limit&offset and GET /api/v1/emails/{id} while syncs *)
(* store e-mails: ListEmails runs two statements, the page and the count,  *)
(* GetEmail one, and each sees what is committed when it starts (READ      *)
(* COMMITTED).  The e-mails are ordered by (received_at, id), newest       *)
(* first, and a sync may commit e-mails older than those already stored.   *)
(*                                                                         *)
(* A client walks the pages 0, Limit, 2 * Limit, ... until the total says  *)
(* that there is no more, and asks for single e-mails on the way.          *)
(***************************************************************************)
EXTENDS Naturals, FiniteSets

CONSTANTS
    Emails,     \* the e-mails of the mailbox
    ReceivedAt, \* ReceivedAt[e]: two e-mails may have the same
    Id,         \* Id[e]: the UUID of the row, which no other e-mail has
    Limit       \* the limit of every request of the walk

ASSUME PagingAssumption ==
    /\ IsFiniteSet(Emails)
    /\ ReceivedAt \in [Emails -> Nat]
    /\ Id \in [Emails -> Nat]
    /\ \A d, e \in Emails : Id[d] = Id[e] => d = e
    /\ Limit \in Nat \ {0}

VARIABLES
    stored,  \* committed rows of email_messages
    pending, \* rows a sync has inserted and not committed
    pc,      \* what the current request of the walk does next
    offset,  \* its offset
    items,   \* its page
    total,   \* its total
    atStart, \* the rows stored when the walk began
    seen,    \* the e-mails of the pages answered so far
    answer   \* the last GET /emails/{id}: its e-mail, and whether it was found

walkVars == <<pc, offset, items, total, atStart, seen>>
vars == <<stored, pending, walkVars, answer>>

TypeOK ==
    /\ stored \subseteq Emails
    /\ pending \subseteq Emails \ stored
    /\ pc \in {"idle", "list", "count", "reply", "done"}
    /\ offset \in Nat
    /\ items \subseteq Emails
    /\ total \in Nat
    /\ atStart \subseteq Emails
    /\ seen \subseteq Emails
    /\ answer \in {<<>>} \cup (Emails \X BOOLEAN)

Init ==
    /\ stored = {}
    /\ pending = {}
    /\ answer = <<>>
    /\ pc = "idle"
    /\ offset = 0
    /\ items = {}
    /\ total = 0
    /\ atStart = {}
    /\ seen = {}

\* ORDER BY received_at DESC, id DESC.
Precedes(d, e) ==
    \/ ReceivedAt[d] > ReceivedAt[e]
    \/ ReceivedAt[d] = ReceivedAt[e] /\ Id[d] > Id[e]

\* How many rows come before e.
Position(e) == Cardinality({d \in stored : Precedes(d, e)})

\* Mutant of Page: READ UNCOMMITTED.
PageUncommitted(o) ==
    LET rows == stored \cup pending IN
    {e \in rows : Cardinality({d \in rows : Precedes(d, e)}) \in o..(o + Limit - 1)}

\* Mutant of Page: the row at the offset is left out.
PageAfterOffset(o) == {e \in stored : Position(e) > o /\ Position(e) <= o + Limit}

\* Mutant of Page: one row too many.
PageInclusive(o) == {e \in stored : Position(e) >= o /\ Position(e) <= o + Limit}

\* Mutant of Page: the numbers of the rows instead of the rows.
PagePositions(o) == {Position(e) : e \in stored} \cap (o..(o + Limit - 1))

\* LIMIT and OFFSET.
Page(o) == {e \in stored : Position(e) >= o /\ Position(e) < o + Limit}

\* Mutant of Total: counted once, when the walk began.
TotalAtStart == Cardinality(atStart)

Total == Cardinality(stored)

\* A sync inserts new rows, of any age.
SyncInserts ==
    /\ pending = {}
    /\ pending' \in SUBSET (Emails \ stored) \ {{}}
    /\ UNCHANGED <<stored, walkVars, answer>>

SyncCommits ==
    /\ stored' = stored \cup pending
    /\ pending' = {}
    /\ UNCHANGED <<walkVars, answer>>

SyncRollsBack ==
    /\ pending' = {}
    /\ UNCHANGED <<stored, walkVars, answer>>

\* The client asks for the first page.
Begin ==
    /\ pc = "idle"
    /\ pc' = "list"
    /\ atStart' = stored
    /\ UNCHANGED <<stored, pending, offset, items, total, seen, answer>>

\* email_repository.list.
List ==
    /\ pc = "list"
    /\ items' = Page(offset)
    /\ pc' = "count"
    /\ UNCHANGED <<stored, pending, offset, total, atStart, seen, answer>>

\* email_repository.count.
Count ==
    /\ pc = "count"
    /\ total' = Total
    /\ pc' = "reply"
    /\ UNCHANGED <<stored, pending, offset, items, atStart, seen, answer>>

\* A statement raises, or the process dies: no page; the client asks again.
Fails ==
    /\ pc \in {"list", "count"}
    /\ pc' = "list"
    /\ UNCHANGED <<stored, pending, offset, items, total, atStart, seen, answer>>

NextOffset == offset + Limit

\* The page is answered; the client goes on while the total promises more.
Reply ==
    /\ pc = "reply"
    /\ seen' = seen \cup items
    /\ IF NextOffset < total
       THEN pc' = "list" /\ offset' = NextOffset
       ELSE pc' = "done" /\ UNCHANGED offset
    /\ UNCHANGED <<stored, pending, items, total, atStart, answer>>

\* get_by_id by the primary key, and 404 when there is no such row.
Get(e) ==
    /\ answer' = <<e, e \in stored>>
    /\ UNCHANGED <<stored, pending, walkVars>>

Next ==
    \/ SyncInserts \/ SyncCommits \/ SyncRollsBack
    \/ Begin \/ List \/ Count \/ Fails \/ Reply
    \/ \E e \in Emails : Get(e)

Spec == Init /\ [][Next]_vars

-------------------------------------------------------------------------------
(* What must hold. *)

\* A walk answers every e-mail that was stored when it began, however many
\* e-mails the syncs commit between two pages and between the two statements of
\* a page: rows move to later pages only, and the total is counted last.
WalkMissesNothing == pc = "done" => atStart \subseteq seen

\* The total of a page is never less than what the page itself shows: a page
\* that is not empty lies within the total (routes/emails.py, list_emails).
PageWithinTotal ==
    pc = "reply" /\ items # {} => offset + Cardinality(items) <= total

\* An e-mail is answered on a second page only when an e-mail that precedes it
\* has been stored since the walk began.
RepeatsAreArrivals ==
    pc = "reply" =>
        \A e \in items \cap seen : \E d \in stored \ atStart : Precedes(d, e)

\* What a page has answered can be opened: once an e-mail has been on a page, GET
\* /emails/{id} never says that it does not exist, whatever syncs roll back.
ListedIsFound ==
    [][answer' # answer /\ answer'[1] \in seen => answer'[2]]_vars
===============================================================================
