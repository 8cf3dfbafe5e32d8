---------------------------- MODULE GmailSyncProofs ----------------------------
(***************************************************************************)
(* What GmailSync guarantees for every set of syncs, callbacks, accounts   *)
(* and messages, every limit, and whatever pages Gmail answers.            *)
(*                                                                         *)
(* The invariant follows the loop of execute: what a sync has still to do  *)
(* is the end of what it has listed, and of what comes before every id is  *)
(* a row, a duplicate or a failure.                                        *)
(***************************************************************************)
EXTENDS GmailSync, Integers, FiniteSetTheorems, SequenceTheorems, TLAPS

\* The account a sync refreshes is connected, and so is one it has written.
TokenInv ==
    /\ \A q \in Syncs : pc[q] \in {"refresh", "save"} => accounts[reader[q]] # NoAccount
    /\ \A a \in Accounts, q \in Syncs : accountLock[a] = q => accounts[a] # NoAccount

\* How many of the listed ids the loop has dealt with.
Past(q) == Len(listed[q]) - Len(todo[q])

\* The sync has neither listed nor stored anything.
Blank(q) ==
    /\ inserted[q] = {}
    /\ listed[q] = <<>> /\ todo[q] = <<>> /\ failed[q] = <<>>
    /\ duplicates[q] = 0

\* Where q is in the loop.
LoopInv(q) ==
    /\ pc[q] \in {"idle", "failed"} => Blank(q)
    /\ pc[q] = "insert" => todo[q] # <<>>
    /\ pc[q] \in {"commit", "done"} => todo[q] = <<>>

\* t is the end of l.
EndOf(t, l) ==
    /\ Len(t) <= Len(l)
    /\ \A i \in 1..Len(t) : t[i] = l[(Len(l) - Len(t)) + i]

\* What is left to do is the end of the listing.
TodoInv(q) == EndOf(todo[q], listed[q])

\* What q has dealt with is accounted for, and nothing else is stored.
AccountedInv(q) ==
    /\ \A i \in 1..Past(q) :
          \/ <<owner[q], listed[q][i]>> \in emails \cup inserted[q]
          \/ \E j \in 1..Len(failed[q]) : failed[q][j] = listed[q][i]
    /\ \A row \in inserted[q] : \E i \in 1..Len(listed[q]) : row = <<owner[q], listed[q][i]>>
    /\ IsFiniteSet(inserted[q])
    /\ Past(q) = Cardinality(inserted[q]) + duplicates[q] + Len(failed[q])

SyncInv(q) == LoopInv(q) /\ TodoInv(q) /\ AccountedInv(q)

IInv ==
    /\ TypeOK
    /\ TokenInv
    /\ \A q \in Syncs : SyncInv(q)
    /\ StoredOnce

-------------------------------------------------------------------------------
(* Types. *)

\* Nobody is connected, nothing is stored, and no sync has begun.
THEOREM InitInv == Init => IInv
<1> SUFFICES ASSUME Init PROVE IInv
  OBVIOUS
<1>1. TypeOK
  BY DEF Init, TypeOK, PageTokens, Finished, Requests
<1>2. TokenInv
  BY NothingAssumption DEF Init, TokenInv, Requests
<1>3. ASSUME NEW q \in Syncs PROVE SyncInv(q)
  <2>1. Blank(q) /\ pc[q] = "idle"
    BY DEF Init, Blank, Requests
  <2>2. Len(listed[q]) = 0 /\ Len(todo[q]) = 0 /\ Len(failed[q]) = 0 /\ Past(q) = 0
    BY <2>1 DEF Blank, Past
  <2>3. IsFiniteSet(inserted[q]) /\ Cardinality(inserted[q]) = 0
    BY <2>1, FS_EmptySet DEF Blank
  <2> QED
    BY <2>1, <2>2, <2>3 DEF SyncInv, LoopInv, TodoInv, EndOf, AccountedInv, Blank
<1>4. StoredOnce
  BY DEF Init, StoredOnce, Requests
<1> QED
  BY <1>1, <1>2, <1>3, <1>4 DEF IInv

\* A page is a sequence of messages of the mailbox.
LEMMA PageType ==
    ASSUME NEW a \in Accounts, NEW n \in Int, NEW page \in Pages(a, n)
    PROVE  page \in Seq(Messages)
<1>1. PICK k \in 0..n : page \in [1..k -> Mailbox[a]]
  BY DEF Pages
<1>2. Mailbox[a] \subseteq Messages
  BY MailboxAssumption DEF Messages
<1>3. k \in Nat /\ page \in [1..k -> Messages]
  BY <1>1, <1>2
<1> QED
  BY <1>3, SeqDef

\* Forgetting and rolling back keep the types.
LEMMA AbortType ==
    ASSUME TypeOK, NEW R \in SUBSET Requests, Abort(R),
           UNCHANGED <<clock, accounts, emails, began, owner, reader>>
    PROVE  TypeOK'
BY DEF TypeOK, Abort, Forget, Cleared, PageTokens, Finished

\* Every step of a sync, a callback or the environment keeps the types; the
\* commit of a sync needs that it has only refreshed accounts that exist.
LEMMA TypeStep == IInv /\ [Next]_vars => TypeOK'
<1> SUFFICES ASSUME IInv, [Next]_vars PROVE TypeOK'
  OBVIOUS
<1>0. TypeOK /\ TokenInv
  BY DEF IInv
<1> USE <1>0 DEF tables, progress, listing, Goto, Finished, Requests
<1>a. ASSUME NEW R \in SUBSET Requests, Abort(R),
             UNCHANGED <<clock, accounts, emails, began, owner, reader>>
      PROVE  TypeOK'
  BY <1>a, AbortType
<1>1. ASSUME NEW q \in Syncs, ReadOwner(q) PROVE TypeOK'
  BY <1>1 DEF ReadOwner, BeginTransaction, Latest, Connected, TypeOK
<1>2. ASSUME NEW q \in Syncs, OpenMailbox(q) PROVE TypeOK'
  BY <1>2 DEF OpenMailbox, Latest, Connected, TypeOK
<1>3. ASSUME NEW q \in Syncs, RefreshToken(q) PROVE TypeOK'
  BY <1>3 DEF RefreshToken, TypeOK
<1>4. ASSUME NEW q \in Syncs, SaveToken(q) PROVE TypeOK'
  BY <1>4 DEF SaveToken, TypeOK
<1>5. ASSUME NEW q \in Syncs, ListPage(q) PROVE TypeOK'
  <2>1. PICK page \in Pages(reader[q], Limit - Len(listed[q])),
             token \in {"none", Following(pageToken[q])} :
          /\ listed' = [listed EXCEPT ![q] = @ \o page]
          /\ todo' = [todo EXCEPT ![q] = @ \o page]
          /\ \/ Goto(q, "next") /\ pageToken' = [pageToken EXCEPT ![q] = "none"]
             \/ UNCHANGED pc /\ pageToken' = [pageToken EXCEPT ![q] = token]
    BY <1>5 DEF ListPage
  <2>2. page \in Seq(Messages)
    <3>1. Len(listed[q]) \in Nat /\ reader[q] \in Accounts
      BY LenProperties DEF TypeOK
    <3> QED
      BY <2>1, <3>1, PageType, MailboxAssumption
  <2>3. listed[q] \o page \in Seq(Messages) /\ todo[q] \o page \in Seq(Messages)
    BY <2>2, ConcatProperties DEF TypeOK
  <2>4. token \in PageTokens
    BY <2>1 DEF Following, PageTokens
  <2>5. listed' \in [Syncs -> Seq(Messages)] /\ todo' \in [Syncs -> Seq(Messages)]
    BY <2>1, <2>3 DEF TypeOK
  <2>6. pageToken' \in [Syncs -> PageTokens] /\ pc' \in [Requests -> {"idle", "open",
            "refresh", "save", "list", "next", "insert", "connect", "reply", "commit"}
            \cup Finished]
    BY <2>1, <2>4 DEF TypeOK, PageTokens
  <2> QED
    BY <1>5, <2>5, <2>6 DEF ListPage, TypeOK
<1>6. ASSUME NEW q \in Syncs, Fetch(q) PROVE TypeOK'
  BY <1>6 DEF Fetch, TypeOK
<1>7. ASSUME NEW q \in Syncs, todo[q] # <<>>
      PROVE  Current(q) \in Messages /\ Tail(todo[q]) \in Seq(Messages)
  BY <1>7, HeadTailProperties DEF Current, TypeOK
<1>8. ASSUME NEW q \in Syncs, FetchFails(q) PROVE TypeOK'
  <2>1. Current(q) \in Messages /\ Tail(todo[q]) \in Seq(Messages)
    BY <1>7, <1>8 DEF FetchFails
  <2>2. Append(failed[q], Current(q)) \in Seq(Messages)
    BY <2>1, AppendProperties DEF TypeOK
  <2> QED
    BY <1>8, <2>1, <2>2 DEF FetchFails, Handled, TypeOK
<1>9. ASSUME NEW q \in Syncs, Insert(q) PROVE TypeOK'
  <2>1. Current(q) \in Messages /\ Tail(todo[q]) \in Seq(Messages)
    BY <1>7, <1>9 DEF Insert, IInv, SyncInv, LoopInv
  <2>2. RowOf(q) \in EmailRow
    BY <2>1 DEF RowOf, EmailRow, TypeOK
  <2> QED
    BY <1>9, <2>1, <2>2 DEF Insert, Handled, TypeOK
<1>10. ASSUME NEW q \in Syncs, InsertFindsDuplicate(q) PROVE TypeOK'
  <2>1. Tail(todo[q]) \in Seq(Messages)
    BY <1>7, <1>10 DEF InsertFindsDuplicate, IInv, SyncInv, LoopInv
  <2> QED
    BY <1>10, <2>1 DEF InsertFindsDuplicate, Handled, TypeOK
<1>11. ASSUME NEW q \in Syncs, Reply(q) PROVE TypeOK'
  BY <1>11 DEF Reply, TypeOK
<1>12. ASSUME NEW q \in Syncs, Commit(q) PROVE TypeOK'
  <2>1. ASSUME NEW a \in Accounts, accountLock[a] = q
        PROVE  Refreshed(q, accounts[a]) \in AccountRow
    BY <2>1, ZenonT(60) DEF TokenInv, TypeOK, Refreshed, AccountRow
  <2>2. accounts' \in [Accounts -> AccountRow \cup {NoAccount}]
    BY <1>12, <2>1 DEF Commit, TypeOK
  <2>3. emails' \subseteq EmailRow
    BY <1>12 DEF Commit, TypeOK
  <2> QED
    BY <1>12, <2>2, <2>3 DEF Commit, TypeOK
<1>13. ASSUME NEW q \in Syncs,
              \/ NotConnected(q) \/ CannotRefresh(q) \/ GmailFails(q)
              \/ InsertRefused(q) \/ DeadlockVictim(q) \/ DatabaseError(q)
       PROVE  TypeOK'
  BY <1>a, <1>13 DEF NotConnected, CannotRefresh, GmailFails, InsertRefused,
                     DeadlockVictim, DatabaseError, AbortOne
<1>14. ASSUME NEW k \in Callbacks, ConnectBegin(k) PROVE TypeOK'
  BY <1>14 DEF ConnectBegin, BeginTransaction, TypeOK
<1>15. ASSUME NEW k \in Callbacks, ConnectWrite(k) PROVE TypeOK'
  BY <1>15 DEF ConnectWrite, TypeOK
<1>16. ASSUME NEW k \in Callbacks, ConnectCommit(k) PROVE TypeOK'
  <2>1. PICK granted \in BOOLEAN :
          accounts' = [accounts EXCEPT ![owner[k]] =
              [expired |-> FALSE,
               refreshable |-> granted \/ (accounts[owner[k]] # NoAccount
                                               /\ accounts[owner[k]].refreshable),
               updated |-> began[k]]]
    BY <1>16 DEF ConnectCommit
  <2>2. accounts[owner[k]] # NoAccount => accounts[owner[k]].refreshable \in BOOLEAN
    BY DEF TypeOK, AccountRow
  <2>3. accounts' \in [Accounts -> AccountRow \cup {NoAccount}]
    BY <2>1, <2>2 DEF TypeOK, AccountRow
  <2> QED
    BY <1>16, <2>3 DEF ConnectCommit, TypeOK
<1>17. ASSUME NEW k \in Callbacks, ConnectFails(k) PROVE TypeOK'
  BY <1>a, <1>17 DEF ConnectFails, AbortOne
<1>18. ASSUME NEW a \in Accounts, Expire(a) PROVE TypeOK'
  BY <1>18 DEF Expire, Connected, TypeOK, AccountRow
<1>19. CASE Crash
  BY <1>a, <1>19 DEF Crash
<1>20. CASE UNCHANGED vars
  BY <1>20 DEF vars, TypeOK
<1> QED
  BY <1>1, <1>2, <1>3, <1>4, <1>5, <1>6, <1>8, <1>9, <1>10, <1>11, <1>12, <1>13, <1>14,
     <1>15, <1>16, <1>17, <1>18, <1>19, <1>20 DEF Next, Serve, Quiescent

-------------------------------------------------------------------------------
(* The loop of a sync. *)

\* Taking the first of what is to do: it is the next one.
LEMMA EndOfTail ==
    ASSUME NEW S, NEW l \in Seq(S), NEW t \in Seq(S), EndOf(t, l), t # <<>>
    PROVE  /\ EndOf(Tail(t), l)
           /\ Len(l) - Len(t) \in Nat
           /\ Len(l) - Len(Tail(t)) = (Len(l) - Len(t)) + 1
           /\ (Len(l) - Len(t)) + 1 <= Len(l)
           /\ Head(t) = l[(Len(l) - Len(t)) + 1]
<1>1. /\ Len(t) \in Nat \ {0} /\ Len(l) \in Nat
      /\ Len(Tail(t)) = Len(t) - 1
      /\ \A i \in 1..Len(Tail(t)) : Tail(t)[i] = t[i + 1]
  BY EmptySeq, LenProperties, HeadTailProperties
<1>2. Len(t) <= Len(l)
  BY DEF EndOf
<1>3. PICK n \in Nat : Len(l) = n
  BY <1>1
<1>4. PICK m \in Nat \ {0} : Len(t) = m
  BY <1>1
<1>5. m <= n /\ \A i \in 1..m : t[i] = l[(n - m) + i]
  BY <1>3, <1>4 DEF EndOf
<1>6. Len(Tail(t)) = m - 1 /\ \A i \in 1..(m - 1) : Tail(t)[i] = t[i + 1]
  BY <1>1, <1>4
<1>7. ASSUME NEW i \in 1..(m - 1) PROVE Tail(t)[i] = l[(n - (m - 1)) + i]
  <2>1. i + 1 \in 1..m /\ (n - m) + (i + 1) = (n - (m - 1)) + i
    OBVIOUS
  <2> QED
    BY <1>5, <1>6, <2>1
<1>8. EndOf(Tail(t), l)
  BY <1>3, <1>5, <1>6, <1>7 DEF EndOf
<1>9. Head(t) = l[(n - m) + 1]
  BY <1>5
<1> QED
  BY <1>3, <1>4, <1>5, <1>6, <1>8, <1>9

\* Adding a page to both: what comes before is the same.
LEMMA EndOfConcat ==
    ASSUME NEW S, NEW l \in Seq(S), NEW t \in Seq(S), NEW p \in Seq(S), EndOf(t, l)
    PROVE  /\ EndOf(t \o p, l \o p)
           /\ Len(l \o p) - Len(t \o p) = Len(l) - Len(t)
           /\ Len(l) - Len(t) \in 0..Len(l)
           /\ Len(l) <= Len(l \o p)
           /\ \A i \in 1..Len(l) : (l \o p)[i] = l[i]
<1>1. PICK n \in Nat, m \in Nat, k \in Nat : Len(l) = n /\ Len(t) = m /\ Len(p) = k
  BY LenProperties
<1>2. m <= n /\ \A i \in 1..m : t[i] = l[(n - m) + i]
  BY <1>1 DEF EndOf
<1>3. /\ Len(l \o p) = n + k /\ Len(t \o p) = m + k
      /\ \A i \in 1..(n + k) : (l \o p)[i] = IF i <= n THEN l[i] ELSE p[i - n]
      /\ \A i \in 1..(m + k) : (t \o p)[i] = IF i <= m THEN t[i] ELSE p[i - m]
  BY <1>1, ConcatProperties
<1>4. ASSUME NEW i \in 1..(m + k) PROVE (t \o p)[i] = (l \o p)[((n + k) - (m + k)) + i]
  <2>1. /\ ((n + k) - (m + k)) + i \in 1..(n + k)
        /\ ((n + k) - (m + k)) + i = (n - m) + i
        /\ i <= m <=> (n - m) + i <= n
        /\ ((n - m) + i) - n = i - m
    BY <1>2
  <2> QED
    BY <1>2, <1>3, <2>1
<1>5. EndOf(t \o p, l \o p)
  <2>1. Len(t \o p) <= Len(l \o p)
    BY <1>2, <1>3
  <2>2. ASSUME NEW i \in 1..Len(t \o p)
        PROVE  (t \o p)[i] = (l \o p)[(Len(l \o p) - Len(t \o p)) + i]
    <3>1. i \in 1..(m + k)
      BY <1>3
    <3>2. Len(l \o p) = n + k /\ Len(t \o p) = m + k
      BY <1>3
    <3> QED
      BY <3>1, <3>2, <1>4
  <2> QED
    BY <2>1, <2>2 DEF EndOf
<1>6. \A i \in 1..n : (l \o p)[i] = l[i]
  BY <1>3
<1>7. (n + k) - (m + k) = n - m /\ n - m \in 0..n /\ n <= n + k
  BY <1>2
<1>8. \A i \in 1..Len(l) : (l \o p)[i] = l[i]
  BY <1>1, <1>6
<1>9. Len(l \o p) - Len(t \o p) = Len(l) - Len(t)
  BY <1>1, <1>3, <1>7
<1>10. Len(l) - Len(t) \in 0..Len(l)
  BY <1>1, <1>7
<1>11. Len(l) <= Len(l \o p)
  BY <1>1, <1>3, <1>7
<1> QED
  BY <1>5, <1>8, <1>9, <1>10, <1>11

\* What q has listed, handled and stored is left alone, and its place in the loop
\* fits: the steps of others, and those of q that only move on.
LEMMA LoopFrame ==
    ASSUME NEW q \in Syncs, SyncInv(q), LoopInv(q)', emails \subseteq emails',
           UNCHANGED <<owner[q], inserted[q], listed[q], todo[q], failed[q], duplicates[q]>>
    PROVE  SyncInv(q)'
BY DEF SyncInv, TodoInv, AccountedInv, Past

\* A sync that has nothing has nothing to account for.
LEMMA BlankStep ==
    ASSUME NEW q \in Syncs, Blank(q)', pc'[q] # "insert"
    PROVE  SyncInv(q)'
<1>1. /\ Len(listed[q])' = 0 /\ Len(todo[q])' = 0 /\ Len(failed[q])' = 0
      /\ Past(q)' = 0 /\ duplicates'[q] = 0
  BY DEF Blank, Past
<1>2. IsFiniteSet(inserted'[q]) /\ Cardinality(inserted'[q]) = 0
  BY FS_EmptySet DEF Blank
<1> QED
  BY <1>1, <1>2 DEF SyncInv, LoopInv, TodoInv, EndOf, AccountedInv, Blank

\* One id handled: it is the next one of the listing.
LEMMA HandledOne ==
    ASSUME TypeOK, NEW q \in Syncs, TodoInv(q), todo[q] # <<>>, Handled(q), listed' = listed
    PROVE  /\ TodoInv(q)'
           /\ Past(q) \in Nat /\ Past(q)' = Past(q) + 1
           /\ Past(q)' <= Len(listed[q])
           /\ Current(q) = listed[q][Past(q)']
<1>1. todo[q] \in Seq(Messages) /\ listed[q] \in Seq(Messages) /\ todo'[q] = Tail(todo[q])
  BY DEF TypeOK, Handled
<1>2. /\ EndOf(Tail(todo[q]), listed[q])
      /\ Len(listed[q]) - Len(todo[q]) \in Nat
      /\ Len(listed[q]) - Len(Tail(todo[q])) = (Len(listed[q]) - Len(todo[q])) + 1
      /\ (Len(listed[q]) - Len(todo[q])) + 1 <= Len(listed[q])
      /\ Head(todo[q]) = listed[q][(Len(listed[q]) - Len(todo[q])) + 1]
  BY <1>1, EndOfTail DEF TodoInv
<1> QED
  BY <1>1, <1>2 DEF TodoInv, Past, Current

\* The handled id is accounted for by a row, a duplicate or a failure: so is
\* everything before it.
LEMMA AccountedOne ==
    ASSUME TypeOK, NEW q \in Syncs, TodoInv(q), AccountedInv(q), todo[q] # <<>>, Handled(q),
           UNCHANGED <<owner[q], listed, emails>>,
           inserted[q] \subseteq inserted'[q], IsFiniteSet(inserted'[q]),
           \A row \in inserted'[q] : row \in inserted[q] \/ row = RowOf(q),
           Len(failed[q])' \in Nat, Len(failed[q]) <= Len(failed[q])',
           \A j \in 1..Len(failed[q]) : failed'[q][j] = failed[q][j],
           \/ RowOf(q) \in emails \cup inserted'[q]
           \/ \E j \in 1..Len(failed[q])' : failed'[q][j] = Current(q),
           Cardinality(inserted'[q]) + duplicates'[q] + Len(failed[q])' =
               Cardinality(inserted[q]) + duplicates[q] + Len(failed[q]) + 1
    PROVE  AccountedInv(q)'
<1>1. /\ Past(q) \in Nat /\ Past(q)' = Past(q) + 1 /\ Past(q)' <= Len(listed[q])
      /\ Current(q) = listed[q][Past(q)']
  BY HandledOne
<1>2. Len(listed[q]) \in Nat /\ Len(failed[q]) \in Nat
  BY LenProperties DEF TypeOK
<1>3. ASSUME NEW i \in 1..Past(q)'
      PROVE  \/ <<owner'[q], listed'[q][i]>> \in emails' \cup inserted'[q]
             \/ \E j \in 1..Len(failed[q])' : failed'[q][j] = listed'[q][i]
  <2>1. CASE i = Past(q)'
    BY <1>1, <2>1 DEF RowOf
  <2>2. CASE i # Past(q)'
    <3>1. i \in 1..Past(q)
      BY <1>1, <2>2
    <3> QED
      BY <1>2, <3>1 DEF AccountedInv
  <2> QED
    BY <2>1, <2>2
<1>4. ASSUME NEW row \in inserted'[q]
      PROVE  \E i \in 1..Len(listed[q])' : row = <<owner'[q], listed'[q][i]>>
  <2>1. CASE row \in inserted[q]
    BY <2>1 DEF AccountedInv
  <2>2. CASE row = RowOf(q)
    BY <1>1, <1>2, <2>2 DEF RowOf
  <2> QED
    BY <2>1, <2>2
<1>5. Past(q)' = Cardinality(inserted'[q]) + duplicates'[q] + Len(failed[q])'
  BY <1>1 DEF AccountedInv
<1> QED
  BY <1>3, <1>4, <1>5 DEF AccountedInv

\* A page goes to the end of what is listed and of what is to do.
LEMMA PageStep ==
    ASSUME TypeOK, NEW q \in Syncs, SyncInv(q), ListPage(q)
    PROVE  SyncInv(q)'
<1>1. PICK page \in Pages(reader[q], Limit - Len(listed[q])) :
        listed'[q] = listed[q] \o page /\ todo'[q] = todo[q] \o page
  BY DEF ListPage, TypeOK
<1>2. /\ pc[q] = "list" /\ pc'[q] \in {"list", "next"}
      /\ UNCHANGED <<owner, inserted, failed, duplicates, emails>>
  BY DEF ListPage, Goto, TypeOK, tables, Requests
<1>3. page \in Seq(Messages) /\ listed[q] \in Seq(Messages) /\ todo[q] \in Seq(Messages)
  <2>1. Len(listed[q]) \in Nat /\ reader[q] \in Accounts
    BY LenProperties DEF TypeOK
  <2> QED
    BY <2>1, PageType, MailboxAssumption DEF TypeOK
<1>4. /\ EndOf(todo[q] \o page, listed[q] \o page)
      /\ Len(listed[q] \o page) - Len(todo[q] \o page) = Len(listed[q]) - Len(todo[q])
      /\ Len(listed[q]) - Len(todo[q]) \in 0..Len(listed[q])
      /\ Len(listed[q]) <= Len(listed[q] \o page)
      /\ \A i \in 1..Len(listed[q]) : (listed[q] \o page)[i] = listed[q][i]
  BY <1>3, EndOfConcat DEF SyncInv, TodoInv
<1>5. TodoInv(q)' /\ Past(q)' = Past(q) /\ Past(q) \in 0..Len(listed[q])
  BY <1>1, <1>4 DEF TodoInv, Past
<1>6. AccountedInv(q)'
  <2>1. \A i \in 1..Len(listed[q]) : listed'[q][i] = listed[q][i]
    BY <1>1, <1>4
  <2>2. Len(listed[q]) \in Nat /\ Len(listed'[q]) \in Nat /\ Len(listed[q]) <= Len(listed'[q])
    BY <1>1, <1>3, <1>4, LenProperties, ConcatProperties
  <2>3. /\ \A i \in 1..Past(q) : i \in 1..Len(listed[q])
        /\ \A i \in 1..Len(listed[q]) : i \in 1..Len(listed'[q])
    BY <1>5, <2>2
  <2> QED
    BY <1>2, <1>5, <2>1, <2>3 DEF SyncInv, AccountedInv
<1> QED
  BY <1>2, <1>5, <1>6 DEF SyncInv, LoopInv

\* Every step keeps every sync's account of its listing.
LEMMA SyncStep ==
    ASSUME IInv, TypeOK', [Next]_vars, NEW q \in Syncs
    PROVE  SyncInv(q)'
<1>0. TypeOK /\ SyncInv(q) /\ LoopInv(q) /\ q \in Requests
  BY DEF IInv, SyncInv, Requests
<1>a. ASSUME NEW R \in SUBSET Requests, Abort(R),
             UNCHANGED <<clock, accounts, emails, began, owner, reader>>
      PROVE  SyncInv(q)'
  <2>1. CASE q \in R
    <3>1. Blank(q)' /\ pc'[q] = "failed"
      BY <1>0, <1>a, <2>1 DEF Abort, Forget, Cleared, Blank
    <3> QED
      BY <3>1, BlankStep
  <2>2. CASE q \notin R
    <3>1. /\ UNCHANGED <<owner[q], inserted[q], listed[q], todo[q], failed[q], duplicates[q]>>
          /\ pc'[q] = pc[q] /\ emails' = emails
      BY <1>0, <1>a, <2>2 DEF Abort, Forget, Cleared
    <3>2. LoopInv(q)'
      BY <1>0, <3>1 DEF LoopInv, Blank
    <3> QED
      BY <1>0, <3>1, <3>2, LoopFrame
  <2> QED
    BY <2>1, <2>2
<1>b. ASSUME UNCHANGED <<owner[q], inserted[q], listed[q], todo[q], failed[q], duplicates[q],
                         pc[q]>>,
             emails \subseteq emails'
      PROVE  SyncInv(q)'
  <2>1. LoopInv(q)'
    BY <1>0, <1>b DEF LoopInv, Blank
  <2> QED
    BY <1>0, <1>b, <2>1, LoopFrame
<1>1. ASSUME NEW p \in Syncs, ReadOwner(p) PROVE SyncInv(q)'
  <2>1. CASE q = p
    <3>1. Blank(q) /\ UNCHANGED progress /\ pc'[q] = "open"
      BY <1>0, <1>1, <2>1 DEF ReadOwner, Goto, LoopInv, TypeOK
    <3>2. Blank(q)'
      BY <3>1 DEF Blank, progress, listing
    <3> QED
      BY <3>1, <3>2, BlankStep
  <2>2. CASE q # p
    <3>1. /\ UNCHANGED <<inserted, listed, todo, failed, duplicates, emails>>
          /\ pc'[q] = pc[q] /\ owner'[q] = owner[q]
      BY <1>0, <1>1, <2>2 DEF ReadOwner, Goto, TypeOK, progress, listing, tables, Requests
    <3> QED
      BY <1>b, <3>1
  <2> QED
    BY <2>1, <2>2
<1>2. ASSUME NEW p \in Syncs,
             OpenMailbox(p) \/ RefreshToken(p) \/ SaveToken(p) \/ Fetch(p) \/ Reply(p)
      PROVE  SyncInv(q)'
  <2>1. UNCHANGED <<owner, inserted, listed, todo, failed, duplicates, emails>>
    BY <1>2 DEF OpenMailbox, RefreshToken, SaveToken, Fetch, Reply, progress, listing, tables
  <2>2. \/ pc'[q] = pc[q]
        \/ pc'[q] \in {"refresh", "save", "list"}
        \/ pc'[q] = "insert" /\ todo[q] # <<>>
        \/ pc'[q] = "commit" /\ todo[q] = <<>>
    BY <1>0, <1>2 DEF OpenMailbox, RefreshToken, SaveToken, Fetch, Reply, Goto, TypeOK
  <2>3. LoopInv(q)'
    BY <1>0, <2>1, <2>2 DEF LoopInv, Blank
  <2> QED
    BY <1>0, <2>1, <2>3, LoopFrame
<1>3. ASSUME NEW p \in Syncs, ListPage(p) PROVE SyncInv(q)'
  <2>1. CASE q = p
    BY <1>0, <1>3, <2>1, PageStep
  <2>2. CASE q # p
    <3>1. /\ UNCHANGED <<owner, inserted, failed, duplicates, emails>>
          /\ pc'[q] = pc[q] /\ listed'[q] = listed[q] /\ todo'[q] = todo[q]
      BY <1>0, <1>3, <2>2 DEF ListPage, Goto, TypeOK, tables
    <3> QED
      BY <1>b, <3>1
  <2> QED
    BY <2>1, <2>2
<1>4. ASSUME NEW p \in Syncs, FetchFails(p) PROVE SyncInv(q)'
  <2>1. CASE q = p
    <3>1. /\ todo[q] # <<>> /\ Handled(q) /\ pc[q] = "next"
          /\ failed'[q] = Append(failed[q], Current(q))
          /\ UNCHANGED <<owner, inserted, listed, emails, duplicates, pc>>
      BY <1>0, <1>4, <2>1 DEF FetchFails, listing, tables, TypeOK
    <3>2. failed[q] \in Seq(Messages) /\ Len(failed[q]) \in Nat
      BY LenProperties, <1>0 DEF TypeOK
    <3>3. todo[q] \in Seq(Messages) /\ Current(q) \in Messages
      BY <3>1, <1>0, HeadTailProperties DEF TypeOK, Current
    <3>4. /\ Len(failed'[q]) = Len(failed[q]) + 1
          /\ failed'[q][Len(failed[q]) + 1] = Current(q)
          /\ \A j \in 1..Len(failed[q]) : failed'[q][j] = failed[q][j]
      BY <3>1, <3>2, <3>3, AppendProperties
    <3>5. Cardinality(inserted[q]) \in Nat /\ duplicates[q] \in Nat /\ IsFiniteSet(inserted[q])
      BY <1>0, FS_CardinalityType DEF SyncInv, AccountedInv, TypeOK
    <3>6. AccountedInv(q)'
      <4>1. /\ Len(failed[q])' \in Nat /\ Len(failed[q]) <= Len(failed[q])'
            /\ Cardinality(inserted'[q]) + duplicates'[q] + Len(failed[q])' =
                 Cardinality(inserted[q]) + duplicates[q] + Len(failed[q]) + 1
        <5>1. PICK c \in Nat, d \in Nat, f \in Nat :
                Cardinality(inserted[q]) = c /\ duplicates[q] = d /\ Len(failed[q]) = f
          BY <3>2, <3>5
        <5>2. Cardinality(inserted'[q]) = c /\ duplicates'[q] = d /\ Len(failed'[q]) = f + 1
          BY <3>1, <3>4, <5>1
        <5> QED
          BY <5>1, <5>2
      <4>2. \E j \in 1..Len(failed[q])' : failed'[q][j] = Current(q)
        BY <3>2, <3>4
      <4> QED
        BY <1>0, <3>1, <3>4, <3>5, <4>1, <4>2, AccountedOne DEF SyncInv
    <3>7. TodoInv(q)'
      BY <1>0, <3>1, HandledOne DEF SyncInv
    <3> QED
      BY <3>1, <3>6, <3>7 DEF SyncInv, LoopInv
  <2>2. CASE q # p
    <3>1. /\ UNCHANGED <<owner, inserted, listed, duplicates, emails, pc>>
          /\ failed'[q] = failed[q] /\ todo'[q] = todo[q]
      BY <1>0, <1>4, <2>2 DEF FetchFails, Handled, TypeOK, tables, listing
    <3> QED
      BY <1>b, <3>1
  <2> QED
    BY <2>1, <2>2
<1>5. ASSUME NEW p \in Syncs, Insert(p) PROVE SyncInv(q)'
  <2>1. CASE q = p
    <3>1. /\ todo[q] # <<>> /\ Handled(q) /\ pc'[q] = "next"
          /\ RowOf(q) \notin inserted[q] /\ inserted'[q] = inserted[q] \cup {RowOf(q)}
          /\ UNCHANGED <<owner, failed, listed, emails, duplicates>>
      BY <1>0, <1>5, <2>1 DEF Insert, Goto, listing, tables, TypeOK, LoopInv
    <3>2. Len(failed[q]) \in Nat
      BY LenProperties, <1>0 DEF TypeOK
    <3>3. Cardinality(inserted[q]) \in Nat /\ duplicates[q] \in Nat /\ IsFiniteSet(inserted[q])
      BY <1>0, FS_CardinalityType DEF SyncInv, AccountedInv, TypeOK
    <3>4. /\ IsFiniteSet(inserted'[q])
          /\ Cardinality(inserted'[q]) = Cardinality(inserted[q]) + 1
      <4>1. /\ IsFiniteSet(inserted[q] \cup {RowOf(q)})
            /\ Cardinality(inserted[q] \cup {RowOf(q)}) = Cardinality(inserted[q]) + 1
        BY <3>1, <3>3, FS_AddElement
      <4> QED
        BY <3>1, <4>1
    <3>5. AccountedInv(q)'
      <4>1. /\ Len(failed[q])' \in Nat /\ Len(failed[q]) <= Len(failed[q])'
            /\ Cardinality(inserted'[q]) + duplicates'[q] + Len(failed[q])' =
                 Cardinality(inserted[q]) + duplicates[q] + Len(failed[q]) + 1
        BY <3>1, <3>2, <3>3, <3>4
      <4> QED
        BY <1>0, <3>1, <3>4, <4>1, AccountedOne DEF SyncInv
    <3>6. TodoInv(q)'
      BY <1>0, <3>1, HandledOne DEF SyncInv
    <3> QED
      BY <3>1, <3>5, <3>6 DEF SyncInv, LoopInv
  <2>2. CASE q # p
    <3>1. /\ UNCHANGED <<owner, failed, listed, duplicates, emails>>
          /\ inserted'[q] = inserted[q] /\ todo'[q] = todo[q] /\ pc'[q] = pc[q]
      BY <1>0, <1>5, <2>2 DEF Insert, Handled, Goto, TypeOK, tables, listing
    <3> QED
      BY <1>b, <3>1
  <2> QED
    BY <2>1, <2>2
<1>6. ASSUME NEW p \in Syncs, InsertFindsDuplicate(p) PROVE SyncInv(q)'
  <2>1. CASE q = p
    <3>1. /\ todo[q] # <<>> /\ Handled(q) /\ pc'[q] = "next"
          /\ RowOf(q) \in emails \cup inserted[q] /\ duplicates'[q] = duplicates[q] + 1
          /\ UNCHANGED <<owner, failed, listed, emails, inserted>>
      BY <1>0, <1>6, <2>1 DEF InsertFindsDuplicate, Goto, listing, tables, TypeOK, LoopInv
    <3>2. Len(failed[q]) \in Nat
      BY LenProperties, <1>0 DEF TypeOK
    <3>3. Cardinality(inserted[q]) \in Nat /\ duplicates[q] \in Nat /\ IsFiniteSet(inserted[q])
      BY <1>0, FS_CardinalityType DEF SyncInv, AccountedInv, TypeOK
    <3>5. AccountedInv(q)'
      <4>1. /\ Len(failed[q])' \in Nat /\ Len(failed[q]) <= Len(failed[q])'
            /\ Cardinality(inserted'[q]) + duplicates'[q] + Len(failed[q])' =
                 Cardinality(inserted[q]) + duplicates[q] + Len(failed[q]) + 1
        BY <3>1, <3>2, <3>3
      <4> QED
        BY <1>0, <3>1, <3>3, <4>1, AccountedOne DEF SyncInv
    <3>6. TodoInv(q)'
      BY <1>0, <3>1, HandledOne DEF SyncInv
    <3> QED
      BY <3>1, <3>5, <3>6 DEF SyncInv, LoopInv
  <2>2. CASE q # p
    <3>1. /\ UNCHANGED <<owner, failed, listed, inserted, emails>>
          /\ duplicates'[q] = duplicates[q] /\ todo'[q] = todo[q] /\ pc'[q] = pc[q]
      BY <1>0, <1>6, <2>2 DEF InsertFindsDuplicate, Handled, Goto, TypeOK, tables, listing
    <3> QED
      BY <1>b, <3>1
  <2> QED
    BY <2>1, <2>2
<1>7. ASSUME NEW p \in Syncs, Commit(p) PROVE SyncInv(q)'
  <2>1. /\ UNCHANGED <<owner, inserted, listed, todo, failed, duplicates>>
        /\ emails \subseteq emails'
        /\ pc[p] = "commit" /\ pc'[q] = IF q = p THEN "done" ELSE pc[q]
    BY <1>0, <1>7 DEF Commit, Goto, TypeOK, progress, listing
  <2>2. LoopInv(q)'
    BY <1>0, <2>1 DEF LoopInv, Blank
  <2> QED
    BY <1>0, <2>1, <2>2, LoopFrame
<1>8. ASSUME NEW p \in Syncs,
             \/ NotConnected(p) \/ CannotRefresh(p) \/ GmailFails(p)
             \/ InsertRefused(p) \/ DeadlockVictim(p) \/ DatabaseError(p)
      PROVE  SyncInv(q)'
  <2>1. {p} \in SUBSET Requests
    BY DEF Requests
  <2> QED
    BY <1>a, <1>8, <2>1 DEF NotConnected, CannotRefresh, GmailFails, InsertRefused,
                            DeadlockVictim, DatabaseError, AbortOne
<1>9. ASSUME NEW k \in Callbacks,
             ConnectBegin(k) \/ ConnectWrite(k) \/ ConnectCommit(k) \/ ConnectFails(k)
      PROVE  SyncInv(q)'
  <2>1. q # k /\ {k} \in SUBSET Requests
    BY NothingAssumption DEF Requests
  <2>2. CASE ConnectFails(k)
    BY <1>a, <2>1, <2>2 DEF ConnectFails, AbortOne
  <2>3. CASE ~ConnectFails(k)
    <3>1. /\ UNCHANGED <<owner, inserted, listed, todo, failed, duplicates, emails>>
          /\ pc'[q] = pc[q]
      BY <1>0, <1>9, <2>1, <2>3 DEF ConnectBegin, ConnectWrite, ConnectCommit, Goto, TypeOK,
                                    progress, listing, tables
    <3> QED
      BY <1>b, <3>1
  <2> QED
    BY <2>2, <2>3
<1>10. CASE UNCHANGED vars \/ \E a \in Accounts : Expire(a)
  <2>1. UNCHANGED <<owner, inserted, listed, todo, failed, duplicates, emails, pc>>
    BY <1>10 DEF vars, Expire, progress, listing, tables
  <2> QED
    BY <1>b, <2>1
<1>11. CASE Crash
  BY <1>a, <1>11 DEF Crash
<1> QED
  BY <1>1, <1>2, <1>3, <1>4, <1>5, <1>6, <1>7, <1>8, <1>9, <1>10, <1>11
     DEF Next, Serve, Quiescent

-------------------------------------------------------------------------------
(* The table of e-mails. *)

\* Nothing is committed, and syncs at most lose rows they have not committed.
LEMMA StoredFrame ==
    ASSUME StoredOnce, emails' = emails,
           \A q \in Syncs : /\ inserted'[q] \subseteq inserted[q]
                            /\ pc'[q] = "done" <=> pc[q] = "done"
                            /\ pc[q] = "done" => inserted'[q] = inserted[q]
    PROVE  StoredOnce'
<1>1. emails' = UNION {inserted'[q] : q \in {p \in Syncs : pc'[p] = "done"}}
  BY DEF StoredOnce
<1>2. ASSUME NEW q \in Syncs, NEW p \in Syncs, q # p PROVE inserted'[q] \cap inserted'[p] = {}
  BY <1>2 DEF StoredOnce
<1> QED
  BY <1>1, <1>2 DEF StoredOnce

\* A sync inserts a row that no committed sync and no open one has inserted.
LEMMA InsertIsNew ==
    ASSUME IInv, NEW q \in Syncs, Insert(q), NEW p \in Syncs
    PROVE  RowOf(q) \notin inserted[p]
<1>1. CASE p = q
  BY <1>1 DEF Insert
<1>2. CASE p # q /\ Active(p)
  BY <1>2 DEF Insert, Contended
<1>3. CASE pc[p] = "done"
  BY <1>3 DEF Insert, IInv, StoredOnce
<1>4. CASE pc[p] \in {"idle", "failed"}
  BY <1>4 DEF IInv, SyncInv, LoopInv, Blank
<1> QED
  BY <1>1, <1>2, <1>3, <1>4 DEF Active, Finished

\* Every step keeps the table equal to what the committed syncs inserted, each
\* row by one of them.
LEMMA StoredStep == IInv /\ [Next]_vars => StoredOnce'
<1> SUFFICES ASSUME IInv, [Next]_vars PROVE StoredOnce'
  OBVIOUS
<1>0. TypeOK /\ StoredOnce /\ Syncs \subseteq Requests
  BY DEF IInv, Requests
<1>a. ASSUME NEW R \in SUBSET Requests, Abort(R), emails' = emails,
             \A q \in R : pc[q] # "done"
      PROVE  StoredOnce'
  <2>1. \A q \in Syncs : /\ inserted'[q] = IF q \in R THEN {} ELSE inserted[q]
                         /\ pc'[q] = IF q \in R THEN "failed" ELSE pc[q]
    BY <1>0, <1>a DEF Abort, Forget, Cleared
  <2> QED
    BY <1>0, <1>a, <2>1, StoredFrame
<1>b. ASSUME UNCHANGED <<emails, inserted>>,
             \A q \in Syncs : pc'[q] = "done" <=> pc[q] = "done"
      PROVE  StoredOnce'
  BY <1>0, <1>b, StoredFrame
<1>1. ASSUME NEW p \in Syncs,
             \/ ReadOwner(p) \/ OpenMailbox(p) \/ RefreshToken(p) \/ SaveToken(p)
             \/ ListPage(p)  \/ Fetch(p) \/ FetchFails(p) \/ InsertFindsDuplicate(p) \/ Reply(p)
      PROVE  StoredOnce'
  <2>1. UNCHANGED <<emails, inserted>>
    BY <1>1 DEF ReadOwner, OpenMailbox, RefreshToken, SaveToken, ListPage, Fetch, FetchFails,
                InsertFindsDuplicate, Reply, progress, tables
  <2>2. \A q \in Syncs : pc'[q] = "done" <=> pc[q] = "done"
    BY <1>0, <1>1 DEF ReadOwner, OpenMailbox, RefreshToken, SaveToken, ListPage, Fetch,
                      FetchFails, InsertFindsDuplicate, Reply, Goto, TypeOK
  <2> QED
    BY <1>b, <2>1, <2>2
<1>2. ASSUME NEW p \in Syncs, Insert(p) PROVE StoredOnce'
  <2>1. /\ emails' = emails /\ pc[p] = "insert"
        /\ \A q \in Syncs : /\ pc'[q] = "done" <=> pc[q] = "done"
                            /\ inserted'[q] = IF q = p THEN inserted[q] \cup {RowOf(p)}
                                                       ELSE inserted[q]
    BY <1>0, <1>2 DEF Insert, Goto, TypeOK, tables
  <2>2. emails' = UNION {inserted'[q] : q \in {r \in Syncs : pc'[r] = "done"}}
    <3>1. /\ {r \in Syncs : pc'[r] = "done"} = {r \in Syncs : pc[r] = "done"}
          /\ \A r \in Syncs : pc[r] = "done" => inserted'[r] = inserted[r]
      BY <2>1
    <3>2. emails = UNION {inserted[q] : q \in {r \in Syncs : pc[r] = "done"}}
      BY <1>0 DEF StoredOnce
    <3> QED
      BY <2>1, <3>1, <3>2
  <2>3. ASSUME NEW q \in Syncs, NEW r \in Syncs, q # r PROVE inserted'[q] \cap inserted'[r] = {}
    <3>1. RowOf(p) \notin inserted[q] /\ RowOf(p) \notin inserted[r]
      BY <1>2, InsertIsNew
    <3>2. inserted[q] \cap inserted[r] = {}
      BY <1>0, <2>3 DEF StoredOnce
    <3> QED
      BY <2>1, <2>3, <3>1, <3>2
  <2> QED
    BY <2>2, <2>3 DEF StoredOnce
<1>3. ASSUME NEW p \in Syncs, Commit(p) PROVE StoredOnce'
  <2>1. /\ emails' = emails \cup inserted[p] /\ inserted' = inserted
        /\ \A q \in Syncs : pc'[q] = "done" <=> pc[q] = "done" \/ q = p
    BY <1>0, <1>3 DEF Commit, Goto, TypeOK, progress
  <2>2. emails' = UNION {inserted'[q] : q \in {r \in Syncs : pc'[r] = "done"}}
    BY <1>0, <2>1 DEF StoredOnce
  <2> QED
    BY <1>0, <2>1, <2>2 DEF StoredOnce
<1>4. ASSUME NEW p \in Syncs,
             \/ NotConnected(p) \/ CannotRefresh(p) \/ GmailFails(p)
             \/ InsertRefused(p) \/ DeadlockVictim(p) \/ DatabaseError(p)
      PROVE  StoredOnce'
  <2>1. {p} \in SUBSET Requests /\ Abort({p}) /\ emails' = emails
    BY <1>0, <1>4 DEF NotConnected, CannotRefresh, GmailFails, InsertRefused,
                      DeadlockVictim, DatabaseError, AbortOne
  <2>2. pc[p] # "done"
    <3>1. ASSUME DeadlockVictim(p) PROVE \E r \in Syncs : WaitsFor(p, r)
      <4>1. PICK D \in SUBSET Syncs : p \in D /\ \A s \in D : \E r \in D : WaitsFor(s, r)
        BY <3>1 DEF DeadlockVictim
      <4> QED
        BY <4>1
    <3> QED
      BY <1>4, <3>1 DEF NotConnected, CannotRefresh, GmailFails, InsertRefused,
                        DatabaseError, WaitsFor
  <2> QED
    BY <1>a, <2>1, <2>2
<1>5. ASSUME NEW k \in Callbacks, ConnectBegin(k) \/ ConnectWrite(k) \/ ConnectCommit(k)
      PROVE  StoredOnce'
  <2>1. UNCHANGED <<emails, inserted>>
    BY <1>5 DEF ConnectBegin, ConnectWrite, ConnectCommit, progress, tables
  <2>2. \A q \in Syncs : pc'[q] = pc[q]
    <3>1. \A q \in Syncs : q # k
      BY NothingAssumption
    <3> QED
      BY <1>0, <1>5, <3>1 DEF ConnectBegin, ConnectWrite, ConnectCommit, Goto, TypeOK
  <2> QED
    BY <1>b, <2>1, <2>2
<1>6. ASSUME NEW k \in Callbacks, ConnectFails(k) PROVE StoredOnce'
  <2>1. {k} \in SUBSET Requests /\ Abort({k}) /\ emails' = emails /\ pc[k] # "done"
    BY <1>6 DEF ConnectFails, AbortOne, Requests
  <2> QED
    BY <1>a, <2>1
<1>7. CASE UNCHANGED vars \/ \E a \in Accounts : Expire(a)
  <2>1. UNCHANGED <<emails, inserted, pc>>
    BY <1>7 DEF vars, Expire, progress, tables
  <2> QED
    BY <1>b, <2>1
<1>8. CASE Crash
  BY <1>a, <1>8 DEF Crash, Active, Finished
<1> QED
  BY <1>1, <1>2, <1>3, <1>4, <1>5, <1>6, <1>7, <1>8 DEF Next, Serve, Quiescent

-------------------------------------------------------------------------------
(* The table of accounts. *)

\* No account is ever disconnected.
LEMMA AccountsStay ==
    ASSUME TypeOK, [Next]_vars, NEW a \in Accounts, accounts[a] # NoAccount, TypeOK'
    PROVE  accounts'[a] # NoAccount
<1> USE DEF tables
<1>1. ASSUME NEW q \in Syncs, Commit(q) PROVE accounts'[a] # NoAccount
  <2>1. Refreshed(q, accounts[a]) \in AccountRow
    BY DEF TypeOK, Refreshed, AccountRow, Requests
  <2> QED
    BY <1>1, <2>1, NothingAssumption DEF Commit
<1>2. ASSUME NEW k \in Callbacks, ConnectCommit(k) PROVE accounts'[a] # NoAccount
  <2>1. PICK granted \in BOOLEAN :
          accounts' = [accounts EXCEPT ![owner[k]] =
              [expired |-> FALSE,
               refreshable |-> granted \/ (accounts[owner[k]] # NoAccount
                                               /\ accounts[owner[k]].refreshable),
               updated |-> began[k]]]
    BY <1>2 DEF ConnectCommit
  <2>2. accounts[owner[k]] # NoAccount => accounts[owner[k]].refreshable \in BOOLEAN
    BY DEF TypeOK, AccountRow, Requests
  <2>3. accounts'[a] = accounts[a] \/ accounts'[a] \in AccountRow
    BY <2>1, <2>2 DEF TypeOK, AccountRow, Requests
  <2> QED
    BY <2>3, NothingAssumption
<1>3. ASSUME NEW b \in Accounts, Expire(b) PROVE accounts'[a] # NoAccount
  <2>1. accounts'[a] = accounts[a] \/ accounts'[a] \in AccountRow
    BY <1>3 DEF Expire, Connected, TypeOK, AccountRow
  <2> QED
    BY <2>1, NothingAssumption
<1>4. ASSUME accounts' = accounts PROVE accounts'[a] # NoAccount
  BY <1>4
<1>5. ASSUME NEW q \in Syncs,
             ReadOwner(q) \/ NotConnected(q) \/ Serve(q) \/ DatabaseError(q), ~Commit(q)
      PROVE  accounts' = accounts
  BY <1>5 DEF ReadOwner, NotConnected, Serve, DatabaseError, OpenMailbox, CannotRefresh,
              RefreshToken, SaveToken, ListPage, GmailFails, Fetch, FetchFails, Insert,
              InsertFindsDuplicate, InsertRefused, DeadlockVictim, Reply, AbortOne
<1>6. ASSUME NEW k \in Callbacks, ConnectBegin(k) \/ ConnectWrite(k) \/ ConnectFails(k)
      PROVE  accounts' = accounts
  BY <1>6 DEF ConnectBegin, ConnectWrite, ConnectFails, AbortOne
<1>7. Crash \/ Quiescent \/ UNCHANGED vars => accounts' = accounts
  BY DEF Crash, Quiescent, vars
<1> QED
  BY <1>1, <1>2, <1>3, <1>4, <1>5, <1>6, <1>7 DEF Next

\* A sync that is refreshing an account found it connected.
LEMMA ReaderStep ==
    ASSUME IInv, [Next]_vars, NEW q \in Syncs, pc'[q] \in {"refresh", "save"}
    PROVE  accounts[reader'[q]] # NoAccount /\ reader'[q] \in Accounts
<1>0. TypeOK /\ TokenInv /\ q \in Requests
  BY DEF IInv, Requests
<1>a. ASSUME NEW p \in Syncs, OpenMailbox(p)
      PROVE  accounts[reader'[q]] # NoAccount /\ reader'[q] \in Accounts
  <2>1. CASE p = q
    <3>1. PICK a \in Latest : reader'[q] = a
      BY <1>0, <1>a, <2>1 DEF OpenMailbox, TypeOK
    <3> QED
      BY <3>1 DEF Latest, Connected
  <2>2. CASE p # q
    <3>1. pc'[q] = pc[q] /\ reader'[q] = reader[q]
      BY <1>0, <1>a, <2>2 DEF OpenMailbox, Goto, TypeOK
    <3> QED
      BY <1>0, <3>1 DEF TokenInv, TypeOK
  <2> QED
    BY <2>1, <2>2
<1>b. ASSUME reader'[q] = reader[q], pc[q] \in {"refresh", "save"}
      PROVE  accounts[reader'[q]] # NoAccount /\ reader'[q] \in Accounts
  BY <1>0, <1>b DEF TokenInv, TypeOK
<1>1. ASSUME NEW p \in Syncs,
             \/ ReadOwner(p) \/ RefreshToken(p) \/ SaveToken(p) \/ ListPage(p)
             \/ Fetch(p) \/ FetchFails(p) \/ Insert(p) \/ InsertFindsDuplicate(p)
             \/ Reply(p) \/ Commit(p)
      PROVE  reader'[q] = reader[q] /\ pc[q] \in {"refresh", "save"}
  BY <1>0, <1>1 DEF ReadOwner, RefreshToken, SaveToken, ListPage, Fetch, FetchFails, Insert,
                    InsertFindsDuplicate, Reply, Commit, Goto, TypeOK
<1>2. ASSUME NEW R \in SUBSET Requests, Abort(R), reader' = reader
      PROVE  reader'[q] = reader[q] /\ pc[q] \in {"refresh", "save"}
  BY <1>0, <1>2 DEF Abort, Forget
<1>3. ASSUME NEW p \in Syncs,
             \/ NotConnected(p) \/ CannotRefresh(p) \/ GmailFails(p)
             \/ InsertRefused(p) \/ DeadlockVictim(p) \/ DatabaseError(p)
      PROVE  Abort({p}) /\ {p} \in SUBSET Requests /\ reader' = reader
  BY <1>3 DEF NotConnected, CannotRefresh, GmailFails, InsertRefused, DeadlockVictim,
              DatabaseError, AbortOne, Requests
<1>4. ASSUME NEW k \in Callbacks, ConnectBegin(k) \/ ConnectWrite(k) \/ ConnectCommit(k)
      PROVE  reader'[q] = reader[q] /\ pc[q] \in {"refresh", "save"}
  BY <1>0, <1>4, NothingAssumption DEF ConnectBegin, ConnectWrite, ConnectCommit, Goto, TypeOK
<1>5. ASSUME NEW k \in Callbacks, ConnectFails(k)
      PROVE  Abort({k}) /\ {k} \in SUBSET Requests /\ reader' = reader
  BY <1>5 DEF ConnectFails, AbortOne, Requests
<1>6. ASSUME UNCHANGED vars \/ \E a \in Accounts : Expire(a)
      PROVE  reader'[q] = reader[q] /\ pc[q] \in {"refresh", "save"}
  BY <1>6 DEF vars, Expire
<1>7. ASSUME Crash PROVE reader'[q] = reader[q] /\ pc[q] \in {"refresh", "save"}
  BY <1>2, <1>7 DEF Crash
<1> QED
  BY <1>a, <1>b, <1>1, <1>2, <1>3, <1>4, <1>5, <1>6, <1>7 DEF Next, Serve, Quiescent

\* A sync writes the account it is refreshing and no other.
LEMMA LockStep ==
    ASSUME IInv, [Next]_vars, NEW q \in Syncs, NEW a \in Accounts, accountLock'[a] = q
    PROVE  accounts[a] # NoAccount
<1>0. TypeOK /\ TokenInv /\ Syncs \subseteq Requests /\ q # NoRequest
  BY NothingAssumption DEF IInv, Requests
<1> USE DEF tables
<1>a. ASSUME NEW R \in SUBSET Requests, Abort(R) PROVE accountLock[a] = q
  BY <1>0, <1>a DEF Abort
<1>1. ASSUME NEW p \in Syncs,
             \/ ReadOwner(p) \/ OpenMailbox(p) \/ RefreshToken(p) \/ ListPage(p)
             \/ Fetch(p) \/ FetchFails(p) \/ Insert(p) \/ InsertFindsDuplicate(p)
             \/ Reply(p) \/ Commit(p)
      PROVE  accountLock[a] = q
  BY <1>0, <1>1 DEF ReadOwner, OpenMailbox, RefreshToken, ListPage, Fetch, FetchFails, Insert,
                    InsertFindsDuplicate, Reply, Commit
<1>2. ASSUME NEW p \in Syncs, SaveToken(p) PROVE accounts[a] # NoAccount
  <2>1. accountLock[a] = q \/ a = reader[p]
    BY <1>0, <1>2 DEF SaveToken, TypeOK
  <2> QED
    BY <1>0, <1>2, <2>1 DEF SaveToken, TokenInv
<1>3. ASSUME NEW p \in Syncs,
             \/ NotConnected(p) \/ CannotRefresh(p) \/ GmailFails(p)
             \/ InsertRefused(p) \/ DeadlockVictim(p) \/ DatabaseError(p)
      PROVE  accountLock[a] = q
  <2>1. Abort({p}) /\ {p} \in SUBSET Requests
    BY <1>3 DEF NotConnected, CannotRefresh, GmailFails, InsertRefused, DeadlockVictim,
                DatabaseError, AbortOne, Requests
  <2> QED
    BY <1>a, <2>1
<1>4. ASSUME NEW k \in Callbacks, ConnectBegin(k) \/ ConnectWrite(k) \/ ConnectCommit(k)
      PROVE  accountLock[a] = q
  <2>1. q # k
    BY NothingAssumption
  <2> QED
    BY <1>0, <1>4, <2>1 DEF ConnectBegin, ConnectWrite, ConnectCommit, TypeOK
<1>5. ASSUME NEW k \in Callbacks, ConnectFails(k) PROVE accountLock[a] = q
  <2>1. Abort({k}) /\ {k} \in SUBSET Requests
    BY <1>5 DEF ConnectFails, AbortOne, Requests
  <2> QED
    BY <1>a, <2>1
<1>6. ASSUME UNCHANGED vars \/ \E b \in Accounts : Expire(b) PROVE accountLock[a] = q
  BY <1>6 DEF vars, Expire
<1>7. ASSUME Crash PROVE accountLock[a] = q
  BY <1>a, <1>7 DEF Crash
<1>8. accountLock[a] = q => accounts[a] # NoAccount
  BY <1>0 DEF TokenInv
<1> QED
  BY <1>1, <1>2, <1>3, <1>4, <1>5, <1>6, <1>7, <1>8 DEF Next, Serve, Quiescent

\* What a sync has written stays connected until it commits.
LEMMA TokenStep == IInv /\ [Next]_vars => TokenInv'
<1> SUFFICES ASSUME IInv, [Next]_vars PROVE TokenInv'
  OBVIOUS
<1>1. TypeOK /\ TypeOK'
  BY TypeStep DEF IInv
<1> QED
  BY <1>1, ReaderStep, LockStep, AccountsStay DEF TokenInv
-------------------------------------------------------------------------------
(* The theorems. *)

\* The invariant holds for any accounts, messages and pages, and any overlap, failure
\* or crash of syncs and callbacks.
THEOREM Invariance == Spec => []IInv
<1>1. IInv /\ [Next]_vars => IInv'
  <2> SUFFICES ASSUME IInv, [Next]_vars PROVE IInv'
    OBVIOUS
  <2>1. TypeOK'
    BY TypeStep
  <2>2. \A q \in Syncs : SyncInv(q)'
    BY <2>1, SyncStep
  <2> QED
    BY <2>1, <2>2, StoredStep, TokenStep DEF IInv
<1> QED
  BY <1>1, InitInv, PTL DEF Spec

\* Every variable of a sync, of a callback and of the two tables stays in its type.
THEOREM TypeCorrect == Spec => []TypeOK
<1>1. IInv => TypeOK
  BY DEF IInv
<1> QED
  BY <1>1, Invariance, PTL

\* However syncs and callbacks overlap, fail and crash, email_messages holds
\* what the committed syncs inserted, each row once: add_if_absent and the
\* transaction around the loop need nothing else.
THEOREM StoredOnceAlways == Spec => []StoredOnce
<1>1. IInv => StoredOnce
  BY DEF IInv
<1> QED
  BY <1>1, Invariance, PTL

\* Whatever pages Gmail answered, a committed sync leaves no listed id without a
\* row or a report of failure, stores nothing else, and its counts add up.
THEOREM ListedIsAccountedAlways == Spec => []ListedIsAccounted
<1>1. ASSUME IInv, NEW q \in Syncs, pc[q] = "done"
      PROVE  /\ \A i \in DOMAIN listed[q] :
                    \/ <<owner[q], listed[q][i]>> \in emails
                    \/ \E j \in DOMAIN failed[q] : failed[q][j] = listed[q][i]
             /\ \A row \in inserted[q] :
                    \E i \in DOMAIN listed[q] : row = <<owner[q], listed[q][i]>>
             /\ Len(listed[q]) = Cardinality(inserted[q]) + duplicates[q] + Len(failed[q])
  <2>1. AccountedInv(q) /\ todo[q] = <<>> /\ inserted[q] \subseteq emails
    BY <1>1 DEF IInv, SyncInv, LoopInv, StoredOnce
  <2>2. /\ listed[q] \in Seq(Messages) /\ Len(listed[q]) \in Nat
        /\ DOMAIN listed[q] = 1..Len(listed[q]) /\ DOMAIN failed[q] = 1..Len(failed[q])
    BY <1>1, LenProperties DEF IInv, TypeOK
  <2>3. Past(q) = Len(listed[q])
    BY <2>1, <2>2 DEF Past
  <2> QED
    BY <2>1, <2>2, <2>3 DEF AccountedInv
<1>2. IInv => ListedIsAccounted
  BY <1>1 DEF ListedIsAccounted
<1> QED
  BY <1>2, Invariance, PTL

-------------------------------------------------------------------------------
(* GmailSync implements ConnectionRegister: what syncs do to the accounts, and *)
(* what an abort undoes, does not show.                                        *)

\* Nobody is connected, in both specifications.
LEMMA RegisterInit == Init => Register!Init
<1> SUFFICES ASSUME Init PROVE Register!Init
  OBVIOUS
<1>1. \A k \in Callbacks : pc[k] = "idle" /\ StateOf(k) = "absent"
  BY DEF Init, StateOf, Requests
<1>2. \A a \in Accounts : RowKind(accounts[a]) = "absent"
  BY DEF Init, RowKind
<1> QED
  BY <1>1, <1>2 DEF Register!Init, Finished

\* A step that changes neither what a callback has done nor the kind of a row
\* only ends callbacks, if that.
LEMMA SilentStep ==
    ASSUME \A k \in Callbacks : StateOf(k)' = StateOf(k),
           \A a \in Accounts : RowKind(accounts'[a]) = RowKind(accounts[a]),
           \A k \in Callbacks : pc[k] \in Finished => pc'[k] \in Finished
    PROVE  [Register!Next]_(Register!vars)
<1> DEFINE C == {k \in Callbacks : pc'[k] \in Finished /\ pc[k] \notin Finished}
<1>1. /\ [k \in Callbacks |-> StateOf(k)'] = [k \in Callbacks |-> StateOf(k)]
      /\ [a \in Accounts |-> RowKind(accounts'[a])] = [a \in Accounts |-> RowKind(accounts[a])]
  OBVIOUS
<1>2. Register!EndSilently(C)
  BY <1>1 DEF Register!EndSilently, RowKind
<1> QED
  BY <1>2 DEF Register!Next, Register!EndSilently

\* Steps that keep what a row promises, while open callbacks move on: neither
\* their beginning nor their commit.
LEMMA HiddenStep ==
    ASSUME TypeOK, \A a \in Accounts : RowKind(accounts'[a]) = RowKind(accounts[a]),
           \A k \in Callbacks : \/ pc'[k] = pc[k]
                                \/ /\ pc[k] \notin {"idle"} \cup Finished
                                   /\ pc'[k] \notin {"idle", "done"}
    PROVE  [Register!Next]_(Register!vars)
<1>1. \A k \in Callbacks : StateOf(k)' = StateOf(k)
  BY DEF StateOf, Finished
<1>2. \A k \in Callbacks : pc[k] \in Finished => pc'[k] \in Finished
  OBVIOUS
<1> QED
  BY <1>1, <1>2, SilentStep

\* A callback whose transaction begins has a state to spend.
LEMMA BeginCreates ==
    ASSUME TypeOK, NEW k \in Callbacks, ConnectBegin(k)
    PROVE  Register!Create(k)
<1>1. /\ pc[k] = "idle" /\ pc' = [pc EXCEPT ![k] = "connect"] /\ accounts' = accounts
      /\ k \in Requests /\ Callbacks \subseteq Requests
  BY DEF ConnectBegin, Goto, tables, Requests
<1>2. \A j \in Callbacks : StateOf(j)' = IF j = k THEN "unused" ELSE StateOf(j)
  BY <1>1 DEF StateOf, TypeOK
<1>3. {j \in Callbacks : pc'[j] \in Finished} = {j \in Callbacks : pc[j] \in Finished}
  BY <1>1 DEF TypeOK, Finished
<1> QED
  BY <1>1, <1>2, <1>3 DEF Register!Create, StateOf, RowKind

\* A callback that commits spends its state and connects its account.
LEMMA CommitConnects ==
    ASSUME TypeOK, NEW k \in Callbacks, ConnectCommit(k), NEW a \in Accounts, a = owner[k]
    PROVE  Register!Connect(k, k, a)
<1>1. /\ pc[k] = "reply" /\ pc' = [pc EXCEPT ![k] = "done"]
      /\ k \in Requests /\ Callbacks \subseteq Requests
  BY DEF ConnectCommit, Goto, Requests
<1>2. PICK granted \in BOOLEAN :
        accounts' = [accounts EXCEPT ![a] =
            [expired |-> FALSE,
             refreshable |-> granted \/ (accounts[a] # NoAccount /\ accounts[a].refreshable),
             updated |-> began[k]]]
  BY DEF ConnectCommit
<1>3. \A j \in Callbacks : StateOf(j)' = IF j = k THEN "used" ELSE StateOf(j)
  BY <1>1 DEF StateOf, TypeOK
<1>4. /\ k \notin {j \in Callbacks : pc[j] \in Finished}
      /\ {j \in Callbacks : pc'[j] \in Finished} =
             {j \in Callbacks : pc[j] \in Finished} \cup {k}
  BY <1>1 DEF TypeOK, Finished
<1>5. RowKind(accounts'[a]) = Register!After(RowKind(accounts[a]), granted)
  <2> DEFINE old == accounts[a] # NoAccount /\ accounts[a].refreshable
  <2>1. old \in BOOLEAN /\ accounts'[a].refreshable = (granted \/ old)
    BY <1>2 DEF TypeOK, AccountRow
  <2>2. accounts'[a] \in AccountRow
    BY <1>1, <1>2, <2>1 DEF TypeOK, AccountRow
  <2>3. RowKind(accounts'[a]) = IF granted \/ old THEN "refreshable" ELSE "bare"
    BY <2>1, <2>2, NothingAssumption DEF RowKind
  <2>4. RowKind(accounts[a]) = "refreshable" <=> old
    BY DEF RowKind
  <2> QED
    BY <2>3, <2>4 DEF Register!After
<1>6. [b \in Accounts |-> RowKind(accounts'[b])] =
          [[b \in Accounts |-> RowKind(accounts[b])] EXCEPT
               ![a] = Register!After(@, granted)]
  BY <1>2, <1>5 DEF TypeOK
<1>7. [j \in Callbacks |-> StateOf(j)'] =
          [[j \in Callbacks |-> StateOf(j)] EXCEPT ![k] = "used"]
  BY <1>3
<1>8. StateOf(k) = "unused"
  BY <1>1 DEF StateOf
<1> QED
  BY <1>4, <1>6, <1>7, <1>8 DEF Register!Connect, RowKind, StateOf

\* The commit of a sync marks the accounts it has refreshed as fresh: they were
\* connected, and are refreshable if they were.
LEMMA SyncCommitHides ==
    ASSUME IInv, NEW q \in Syncs, Commit(q), NEW a \in Accounts
    PROVE  RowKind(accounts'[a]) = RowKind(accounts[a])
<1>1. CASE accountLock[a] = q
  <2>1. accounts[a] # NoAccount /\ accounts[a] \in AccountRow /\ q \in Requests /\ began[q] \in Nat
    BY <1>1 DEF IInv, TokenInv, TypeOK, Requests
  <2>2. /\ Refreshed(q, accounts[a]) \in AccountRow
        /\ Refreshed(q, accounts[a]).refreshable = accounts[a].refreshable
    BY <2>1 DEF Refreshed, AccountRow
  <2>3. accounts'[a] = Refreshed(q, accounts[a])
    BY <1>1 DEF Commit
  <2> QED
    BY <2>1, <2>2, <2>3, NothingAssumption DEF RowKind
<1>2. CASE accountLock[a] # q
  BY <1>2 DEF Commit
<1> QED
  BY <1>1, <1>2

\* The passing of time changes no row's kind.
LEMMA ExpireHides ==
    ASSUME TypeOK, NEW b \in Accounts, Expire(b), NEW a \in Accounts
    PROVE  RowKind(accounts'[a]) = RowKind(accounts[a])
<1>1. CASE a = b
  <2>1. accounts[a] \in AccountRow /\ accounts'[a] = [accounts[a] EXCEPT !.expired = TRUE]
    BY <1>1 DEF TypeOK, Expire, Connected
  <2>2. accounts'[a] \in AccountRow /\ accounts'[a].refreshable = accounts[a].refreshable
    BY <2>1 DEF AccountRow
  <2> QED
    BY <2>1, <2>2, NothingAssumption DEF RowKind
<1>2. CASE a # b
  BY <1>2 DEF TypeOK, Expire
<1> QED
  BY <1>1, <1>2

\* A callback that begins creates, one that commits connects; every other step
\* ends callbacks silently or is not seen by the register.
LEMMA RegisterStep == IInv /\ [Next]_vars => [Register!Next]_(Register!vars)
<1> SUFFICES ASSUME IInv, [Next]_vars PROVE [Register!Next]_(Register!vars)
  OBVIOUS
<1>0. TypeOK
  BY DEF IInv
<1>1. ASSUME NEW k \in Callbacks, ConnectBegin(k) PROVE [Register!Next]_(Register!vars)
  BY <1>0, <1>1, BeginCreates DEF Register!Next
<1>2. ASSUME NEW k \in Callbacks, ConnectCommit(k) PROVE [Register!Next]_(Register!vars)
  <2>1. PICK a \in Accounts : a = owner[k]
    BY <1>0 DEF TypeOK, Requests
  <2>2. Register!Connect(k, k, a)
    BY <1>0, <1>2, <2>1, CommitConnects
  <2> QED
    BY <2>2 DEF Register!Next
<1>3. ASSUME NEW k \in Callbacks, ConnectWrite(k) PROVE [Register!Next]_(Register!vars)
  <2>1. accounts' = accounts
    BY <1>3 DEF ConnectWrite
  <2>2. \A j \in Callbacks : \/ pc'[j] = pc[j]
                             \/ pc[j] = "connect" /\ pc'[j] = "reply"
    BY <1>0, <1>3 DEF ConnectWrite, Goto, TypeOK, Requests
  <2> QED
    BY <1>0, <2>1, <2>2, HiddenStep DEF Finished
<1>4. ASSUME NEW R \in SUBSET Requests, Abort(R), accounts' = accounts,
             \A k \in R \cap Callbacks : Active(k)
      PROVE  [Register!Next]_(Register!vars)
  <2>1. \A k \in Callbacks : pc'[k] = IF k \in R THEN "failed" ELSE pc[k]
    BY <1>4 DEF Abort, Forget, Requests
  <2> QED
    BY <1>0, <1>4, <2>1, HiddenStep DEF Active, Finished
<1>5. ASSUME NEW k \in Callbacks, ConnectFails(k) PROVE [Register!Next]_(Register!vars)
  BY <1>4, <1>5 DEF ConnectFails, AbortOne, Requests, Active, Finished
<1>6. ASSUME NEW q \in Syncs,
             \/ NotConnected(q) \/ CannotRefresh(q) \/ GmailFails(q)
             \/ InsertRefused(q) \/ DeadlockVictim(q) \/ DatabaseError(q)
      PROVE  [Register!Next]_(Register!vars)
  <2>1. {q} \in SUBSET Requests /\ Abort({q}) /\ accounts' = accounts
    BY <1>6 DEF NotConnected, CannotRefresh, GmailFails, InsertRefused,
                DeadlockVictim, DatabaseError, AbortOne, Requests
  <2> QED
    BY <1>4, <2>1, NothingAssumption
<1>7. CASE Crash
  BY <1>4, <1>7 DEF Crash
<1>8. ASSUME NEW q \in Syncs,
             \/ ReadOwner(q) \/ OpenMailbox(q) \/ RefreshToken(q) \/ SaveToken(q)
             \/ ListPage(q)  \/ Fetch(q) \/ FetchFails(q) \/ Insert(q)
             \/ InsertFindsDuplicate(q)  \/ Reply(q) \/ Commit(q)
      PROVE  [Register!Next]_(Register!vars)
  <2>1. \A a \in Accounts : RowKind(accounts'[a]) = RowKind(accounts[a])
    <3>1. CASE Commit(q)
      BY <3>1, SyncCommitHides
    <3>2. CASE ~Commit(q)
      BY <1>8, <3>2 DEF ReadOwner, OpenMailbox, RefreshToken, SaveToken, ListPage, Fetch,
                        FetchFails, Insert, InsertFindsDuplicate, Reply, tables
    <3> QED
      BY <3>1, <3>2
  <2>2. \A k \in Callbacks : pc'[k] = pc[k]
    <3>1. \A k \in Callbacks : k # q
      BY NothingAssumption
    <3> QED
      BY <1>0, <1>8, <3>1 DEF ReadOwner, OpenMailbox, RefreshToken, SaveToken, ListPage, Fetch,
             FetchFails, Insert, InsertFindsDuplicate, Reply, Commit, Goto, TypeOK, Requests
  <2> QED
    BY <1>0, <2>1, <2>2, HiddenStep
<1>9. ASSUME NEW b \in Accounts, Expire(b) PROVE [Register!Next]_(Register!vars)
  <2>1. pc' = pc
    BY <1>9 DEF Expire
  <2> QED
    BY <1>0, <1>9, <2>1, ExpireHides, HiddenStep
<1>10. CASE UNCHANGED vars
  BY <1>0, <1>10, HiddenStep DEF vars, tables
<1> QED
  BY <1>1, <1>2, <1>3, <1>5, <1>6, <1>7, <1>8, <1>9, <1>10 DEF Next, Serve, Quiescent

\* Syncs store and refresh tokens, callbacks commit, fail and crash in any order,
\* and the accounts change only as the callbacks' atomic steps change them: a
\* sync never disconnects an account and never costs it its refresh token.
THEOREM SyncRefinement == Spec => ImplementsRegister
BY RegisterInit, RegisterStep, Invariance, PTL DEF Spec, ImplementsRegister, Register!Spec
===============================================================================
