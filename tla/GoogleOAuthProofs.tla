-------------------------- MODULE GoogleOAuthProofs --------------------------
(***************************************************************************)
(* What GoogleOAuth guarantees for every set of states, callbacks and      *)
(* accounts and every lifetime of a state.                                 *)
(*                                                                         *)
(* The state half of the invariant says that the row lock of a state is    *)
(* held by the one callback that has consumed it; the account half follows *)
(* a refresh token from the lookup to the commit.  Together they make the  *)
(* commit the one step in which ConnectionRegister connects an account.    *)
(***************************************************************************)
EXTENDS GoogleOAuth, TLAPS

\* c has consumed its state and its transaction is open.
Holding(c) == pc[c] \in {"exchange", "lookup", "select", "flush", "reply", "commit"}

\* c's exchange has been answered.
Answered(c) == pc[c] \in {"lookup", "select", "flush", "reply", "commit", "done"}

StateInv(s) ==
    /\ stateRow[s] # "absent" => startPc[s] = "done"
    /\ \A c \in Callbacks : stateLock[s] = c =>
           carried[c] = s /\ Holding(c) /\ stateRow[s] = "unused"
    /\ stateRow[s] = "used" => \E c \in Callbacks : pc[c] = "done" /\ carried[c] = s

CallbackInv(c) ==
    /\ Holding(c) => stateLock[carried[c]] = c
    /\ pc[c] = "done" => stateRow[carried[c]] = "used"
    /\ Holds(c) => readAt[c] < expires[carried[c]]

OnceInv ==
    \A c, d \in Callbacks : pc[c] = "done" /\ pc[d] = "done" /\ carried[c] = carried[d] => c = d

StateHalf ==
    /\ \A s \in States : StateInv(s)
    /\ \A c \in Callbacks : CallbackInv(c)
    /\ OnceInv

\* The refresh token t was granted to account a, by c itself or by a callback
\* that has committed.
Legitimate(t, a, c) ==
    \/ t = NoToken
    \/ t = c /\ grant[c].fresh
    \/ Granted(a, t) /\ grant[t].fresh

GrantInv(c) ==
    /\ Answered(c) => grant[c] \in Grant
    /\ pc[c] \in {"select", "flush", "reply", "commit"} =>
           Legitimate(refresh[c], grant[c].account, c)
    /\ pc[c] \in {"flush", "reply", "commit"} /\ loaded[c] # NoAccount =>
           accounts[grant[c].account] # NoAccount

AccountInv(a) ==
    /\ \A c \in Callbacks : accountLock[a] = c =>
           /\ pc[c] \in {"reply", "commit"}
           /\ grant[c].account = a
           /\ loaded[c] = NoAccount => accounts[a] = NoAccount
    /\ accounts[a] # NoAccount =>
           /\ Granted(a, accounts[a].access)
           /\ accounts[a].refresh # NoToken =>
                  Granted(a, accounts[a].refresh) /\ grant[accounts[a].refresh].fresh

AccountHalf ==
    /\ \A c \in Callbacks : GrantInv(c)
    /\ \A a \in Accounts : AccountInv(a)

IInv == TypeOK /\ StateHalf /\ AccountHalf

-------------------------------------------------------------------------------

\* With no request received and both tables empty the invariant holds.
THEOREM InitInv == Init => IInv
<1> SUFFICES ASSUME Init PROVE IInv
  OBVIOUS
<1>1. TypeOK
  BY ClockAssumption DEF Init, TypeOK, Token, Finished
<1>2. StateHalf
  BY NothingAssumption
     DEF Init, StateHalf, StateInv, CallbackInv, OnceInv, Holding, Holds
<1>3. AccountHalf
  BY NothingAssumption DEF Init, AccountHalf, GrantInv, AccountInv, Answered
<1> QED
  BY <1>1, <1>2, <1>3 DEF IInv

\* What c publishes is a row.
LEMMA WrittenType ==
    ASSUME TypeOK, AccountHalf, NEW c \in Callbacks, pc[c] = "commit"
    PROVE  Written(c) \in AccountRow
<1>1. grant[c] \in Grant /\ grant[c].account \in Accounts
  BY DEF AccountHalf, GrantInv, Answered, Grant
<1>2. refresh[c] \in Token
  BY DEF TypeOK
<1>3. CASE loaded[c] # NoAccount
  <2>1. accounts[grant[c].account] \in AccountRow
    BY <1>1, <1>3 DEF AccountHalf, GrantInv, TypeOK
  <2> QED
    BY <1>2, <2>1 DEF Written, AccountRow
<1>4. CASE loaded[c] = NoAccount
  BY <1>2, <1>4 DEF Written, AccountRow
<1> QED
  BY <1>3, <1>4

\* Every handler step keeps the types; lookup and commit need the account half,
\* which says that the rows they read are there.
LEMMA TypeStep == IInv /\ [Next]_vars => TypeOK'
<1> SUFFICES ASSUME IInv, [Next]_vars PROVE TypeOK'
  OBVIOUS
<1>0. TypeOK /\ AccountHalf
  BY DEF IInv
<1> USE <1>0 DEF TypeOK, requestVars, stateVars, accountVars, Goto, Finished
<1>1. CASE Tick
  BY <1>1, ClockAssumption DEF Tick
<1>2. ASSUME NEW s \in States, Start(s) PROVE TypeOK'
  BY <1>2, ClockAssumption DEF Start
<1>3. ASSUME NEW s \in States, StartCommit(s) PROVE TypeOK'
  BY <1>3 DEF StartCommit
<1>4. ASSUME NEW s \in States, StartFails(s) PROVE TypeOK'
  BY <1>4 DEF StartFails
<1>5. ASSUME NEW c \in Callbacks, Reject(c) PROVE TypeOK'
  BY <1>5 DEF Reject
<1>6. ASSUME NEW c \in Callbacks, Receive(c) PROVE TypeOK'
  BY <1>6 DEF Receive
<1>7. ASSUME NEW c \in Callbacks, Consume(c) PROVE TypeOK'
  BY <1>7 DEF Consume
<1>8. ASSUME NEW c \in Callbacks, InvalidState(c) PROVE TypeOK'
  BY <1>8 DEF InvalidState
<1>9. ASSUME NEW c \in Callbacks, Exchange(c) PROVE TypeOK'
  BY <1>9 DEF Exchange
<1>10. ASSUME NEW c \in Callbacks, ExchangeFails(c) PROVE TypeOK'
  BY <1>10 DEF ExchangeFails, Release
<1>11. ASSUME NEW c \in Callbacks, Lookup(c) PROVE TypeOK'
  <2>1. grant[c] \in Grant /\ grant[c].account \in Accounts
    BY <1>11 DEF Lookup, AccountHalf, GrantInv, Answered, Grant
  <2>2. accounts[grant[c].account] # NoAccount => accounts[grant[c].account].refresh \in Token
    BY <2>1 DEF AccountRow
  <2>3. refresh' \in [Callbacks -> Token]
    BY <1>11, <2>2 DEF Lookup, Token
  <2> QED
    BY <1>11, <2>3 DEF Lookup
<1>12. ASSUME NEW c \in Callbacks, Select(c) PROVE TypeOK'
  <2>1. grant[c] \in Grant /\ grant[c].account \in Accounts
    BY <1>12 DEF Select, AccountHalf, GrantInv, Answered, Grant
  <2> QED
    BY <1>12, <2>1 DEF Select
<1>13. ASSUME NEW c \in Callbacks, Flush(c) PROVE TypeOK'
  BY <1>13 DEF Flush
<1>14. ASSUME NEW c \in Callbacks, Conflict(c) PROVE TypeOK'
  BY <1>14 DEF Conflict, Release
<1>15. ASSUME NEW c \in Callbacks, Reply(c) PROVE TypeOK'
  BY <1>15 DEF Reply
<1>16. ASSUME NEW c \in Callbacks, Commit(c) PROVE TypeOK'
  <2>1. Written(c) \in AccountRow
    BY <1>16, WrittenType DEF Commit
  <2>2. accounts' \in [Accounts -> AccountRow \cup {NoAccount}]
    BY <1>16, <2>1 DEF Commit
  <2>3. stateRow' \in [States -> {"absent", "unused", "used"}]
    BY <1>16 DEF Commit
  <2> QED
    BY <1>16, <2>2, <2>3 DEF Commit, Release
<1>17. ASSUME NEW c \in Callbacks, DatabaseError(c) PROVE TypeOK'
  BY <1>17 DEF DatabaseError, Release
<1>18. CASE Crash
  BY <1>18 DEF Crash, Release
<1>19. CASE UNCHANGED vars
  BY <1>19 DEF vars
<1> QED
  BY <1>1, <1>2, <1>3, <1>4, <1>5, <1>6, <1>7, <1>8, <1>9, <1>10, <1>11, <1>12, <1>13,
     <1>14, <1>15, <1>16, <1>17, <1>18, <1>19
     DEF Next, Local, Quiescent

-------------------------------------------------------------------------------
(* The state half. *)

\* Callbacks in R fail and free their state, the others stay on their side of
\* the consumption and of the commit, and a created state stays as it is.
LEMMA StateFrame ==
    ASSUME TypeOK, StateHalf, NEW R \in SUBSET Callbacks,
           UNCHANGED <<stateRow, carried>>,
           \A s \in States : startPc[s] = "done" =>
               startPc'[s] = "done" /\ expires'[s] = expires[s],
           \A s \in States :
               stateLock'[s] = IF stateLock[s] \in R THEN NoCallback ELSE stateLock[s],
           \A q \in R : pc[q] # "done" /\ pc'[q] = "failed",
           \A q \in Callbacks \ R :
               /\ Holding(q)' <=> Holding(q)
               /\ pc'[q] = "done" <=> pc[q] = "done"
               /\ Holds(q) => readAt'[q] = readAt[q]
    PROVE  StateHalf'
<1>1. \A q \in R : ~Holding(q)' /\ ~Holds(q)'
  BY DEF Holding, Holds
<1>2. \A q \in Callbacks : pc'[q] = "done" <=> pc[q] = "done"
  OBVIOUS
<1>3. \A q \in Callbacks : Holds(q)' => q \notin R /\ Holds(q)
  BY <1>1, <1>2 DEF Holding, Holds
<1>4. \A q \in Callbacks : Holds(q) => startPc[carried[q]] = "done"
  BY DEF StateHalf, StateInv, CallbackInv, Holds, Holding, TypeOK
<1>5. ASSUME NEW s \in States PROVE StateInv(s)'
  BY <1>1, <1>2, <1>5, NothingAssumption DEF StateHalf, StateInv
<1>6. ASSUME NEW q \in Callbacks PROVE CallbackInv(q)'
  <2>1. carried[q] \in States
    BY DEF TypeOK
  <2>2. Holding(q)' => stateLock'[carried[q]] = q
    BY <1>1, <2>1 DEF StateHalf, CallbackInv
  <2>3. Holds(q)' => readAt'[q] < expires'[carried[q]]
    BY <1>3, <1>4, <2>1 DEF StateHalf, CallbackInv
  <2> QED
    BY <1>2, <2>2, <2>3 DEF StateHalf, CallbackInv
<1>7. OnceInv'
  BY <1>2 DEF StateHalf, OnceInv
<1> QED
  BY <1>5, <1>6, <1>7 DEF StateHalf

\* Every step, failures and crashes included, keeps the state rows and their
\* locks in agreement with the callbacks.
LEMMA StateStep == IInv /\ [Next]_vars => StateHalf'
<1> SUFFICES ASSUME IInv, [Next]_vars PROVE StateHalf'
  OBVIOUS
<1>0. TypeOK /\ StateHalf
  BY DEF IInv
<1> DEFINE Quiet ==
      /\ UNCHANGED <<stateRow, stateLock, carried>>
      /\ \A s \in States : startPc[s] = "done" =>
             startPc'[s] = "done" /\ expires'[s] = expires[s]
      /\ \A q \in Callbacks :
             /\ Holding(q)' <=> Holding(q)
             /\ pc'[q] = "done" <=> pc[q] = "done"
             /\ Holds(q) => readAt'[q] = readAt[q]
<1> DEFINE Fails(R) ==
      /\ UNCHANGED <<stateRow, expires, carried, readAt>>
      /\ Release(R)
      /\ \A s \in States : startPc[s] = "done" => startPc'[s] = "done"
      /\ \A q \in R : pc[q] # "done" /\ pc'[q] = "failed"
      /\ \A q \in Callbacks \ R : pc'[q] = pc[q]
<1>a. ASSUME Quiet PROVE StateHalf'
  BY <1>0, <1>a, StateFrame, {} \in SUBSET Callbacks
<1>b. ASSUME NEW R \in SUBSET Callbacks, Fails(R) PROVE StateHalf'
  BY <1>0, <1>b, StateFrame DEF Release, Holding
<1> HIDE DEF Quiet, Fails
<1>1. CASE Tick
  BY <1>1, <1>a DEF Tick, stateVars, requestVars, Quiet, Holding, Holds
<1>2. ASSUME NEW s \in States, Start(s) PROVE StateHalf'
  BY <1>0, <1>2, <1>a DEF Start, requestVars, TypeOK, Quiet, Holding, Holds
<1>3. ASSUME NEW s \in States, StartCommit(s) PROVE StateHalf'
  <2>1. /\ stateRow[s] = "absent" /\ startPc[s] = "open"
        /\ stateRow' = [stateRow EXCEPT ![s] = "unused"]
        /\ startPc' = [startPc EXCEPT ![s] = "done"]
        /\ UNCHANGED <<expires, stateLock, pc, carried, readAt>>
    BY <1>0, <1>3 DEF StartCommit, StateHalf, StateInv, TypeOK, requestVars
  <2>2. \A t \in States : StateInv(t)'
    BY <1>0, <2>1 DEF StateHalf, StateInv, Holding, TypeOK
  <2>3. \A c \in Callbacks : CallbackInv(c)'
    BY <1>0, <2>1 DEF StateHalf, CallbackInv, Holding, Holds, TypeOK
  <2> QED
    BY <1>0, <2>1, <2>2, <2>3 DEF StateHalf, OnceInv
<1>4. ASSUME NEW s \in States, StartFails(s) PROVE StateHalf'
  BY <1>0, <1>4, <1>a DEF StartFails, requestVars, TypeOK, Quiet, Holding, Holds
<1>5. ASSUME NEW c \in Callbacks, Reject(c) PROVE StateHalf'
  BY <1>0, <1>5, <1>a DEF Reject, Goto, stateVars, TypeOK, Quiet, Holding, Holds
<1>6. ASSUME NEW c \in Callbacks, Receive(c) PROVE StateHalf'
  BY <1>0, <1>6, <1>a DEF Receive, Goto, stateVars, TypeOK, Quiet, Holding, Holds
<1>7. ASSUME NEW c \in Callbacks, Consume(c) PROVE StateHalf'
  <2> DEFINE s == carried[c]
  <2>1. /\ s \in States /\ stateRow[s] = "unused" /\ readAt[c] < expires[s]
        /\ pc[c] = "consume" /\ pc' = [pc EXCEPT ![c] = "exchange"]
        /\ stateLock[s] = NoCallback /\ stateLock' = [stateLock EXCEPT ![s] = c]
        /\ UNCHANGED <<startPc, expires, stateRow, carried, readAt>>
    BY <1>0, <1>7 DEF Consume, Consumable, Goto, TypeOK
  <2>2. \A t \in States : StateInv(t)'
    BY <1>0, <2>1 DEF StateHalf, StateInv, Holding, TypeOK
  <2>3. \A d \in Callbacks : CallbackInv(d)'
    BY <1>0, <2>1, NothingAssumption DEF StateHalf, CallbackInv, Holding, Holds, TypeOK
  <2> QED
    BY <1>0, <2>1, <2>2, <2>3 DEF StateHalf, OnceInv, TypeOK
<1>8. ASSUME NEW c \in Callbacks, InvalidState(c) PROVE StateHalf'
  BY <1>0, <1>8, <1>a DEF InvalidState, Goto, stateVars, TypeOK, Quiet, Holding, Holds
<1>9. ASSUME NEW c \in Callbacks, Exchange(c) PROVE StateHalf'
  BY <1>0, <1>9, <1>a DEF Exchange, Goto, stateVars, TypeOK, Quiet, Holding, Holds
<1>10. ASSUME NEW c \in Callbacks, ExchangeFails(c) PROVE StateHalf'
  BY <1>0, <1>10, <1>b, {c} \in SUBSET Callbacks DEF ExchangeFails, Goto, TypeOK, Fails
<1>11. ASSUME NEW c \in Callbacks, Lookup(c) PROVE StateHalf'
  BY <1>0, <1>11, <1>a DEF Lookup, Goto, stateVars, TypeOK, Quiet, Holding, Holds
<1>12. ASSUME NEW c \in Callbacks, Select(c) PROVE StateHalf'
  BY <1>0, <1>12, <1>a DEF Select, Goto, stateVars, TypeOK, Quiet, Holding, Holds
<1>13. ASSUME NEW c \in Callbacks, Flush(c) PROVE StateHalf'
  BY <1>0, <1>13, <1>a DEF Flush, Goto, stateVars, TypeOK, Quiet, Holding, Holds
<1>14. ASSUME NEW c \in Callbacks, Conflict(c) PROVE StateHalf'
  BY <1>0, <1>14, <1>b, {c} \in SUBSET Callbacks DEF Conflict, Goto, TypeOK, Fails
<1>15. ASSUME NEW c \in Callbacks, Reply(c) PROVE StateHalf'
  BY <1>0, <1>15, <1>a DEF Reply, Goto, stateVars, TypeOK, Quiet, Holding, Holds
<1>16. ASSUME NEW c \in Callbacks, Commit(c) PROVE StateHalf'
  <2> DEFINE s == carried[c]
  <2>1. /\ s \in States /\ stateLock[s] = c /\ stateRow[s] = "unused"
        /\ \A t \in States : stateLock[t] = c => t = s
    BY <1>0, <1>16 DEF Commit, StateHalf, StateInv, CallbackInv, Holding, TypeOK
  <2>2. /\ pc[c] = "commit" /\ pc' = [pc EXCEPT ![c] = "done"]
        /\ stateRow' = [stateRow EXCEPT ![s] = "used"]
        /\ stateLock' = [stateLock EXCEPT ![s] = NoCallback]
        /\ UNCHANGED <<startPc, expires, carried, readAt>>
    BY <1>0, <1>16, <2>1 DEF Commit, Release, Goto, TypeOK
  <2>3. \A t \in States : StateInv(t)'
    BY <1>0, <2>1, <2>2, NothingAssumption DEF StateHalf, StateInv, Holding, TypeOK
  <2>4. \A d \in Callbacks : CallbackInv(d)'
    BY <1>0, <2>1, <2>2 DEF StateHalf, CallbackInv, Holding, Holds, TypeOK
  <2>5. OnceInv'
    BY <1>0, <2>1, <2>2 DEF StateHalf, CallbackInv, OnceInv, TypeOK
  <2> QED
    BY <2>3, <2>4, <2>5 DEF StateHalf
<1>17. ASSUME NEW c \in Callbacks, DatabaseError(c) PROVE StateHalf'
  BY <1>0, <1>17, <1>b, {c} \in SUBSET Callbacks DEF DatabaseError, Goto, TypeOK, Fails
<1>18. CASE Crash
  <2>1. Fails({c \in Callbacks : Active(c)})
    BY <1>0, <1>18 DEF Crash, Active, Finished, TypeOK, Fails
  <2> QED
    BY <1>b, <2>1
<1>19. CASE UNCHANGED vars
  BY <1>19, <1>a DEF vars, stateVars, requestVars, Quiet, Holding, Holds
<1> QED
  BY <1>1, <1>2, <1>3, <1>4, <1>5, <1>6, <1>7, <1>8, <1>9, <1>10, <1>11, <1>12, <1>13,
     <1>14, <1>15, <1>16, <1>17, <1>18, <1>19
     DEF Next, Local, Quiescent

-------------------------------------------------------------------------------
(* The account half. *)

\* Callbacks in R fail and free their account, the others move within the part
\* before the answer, or past the reply; no row and no answer changes.
LEMMA AccountFrame ==
    ASSUME TypeOK, AccountHalf, NEW R \in SUBSET Callbacks,
           UNCHANGED <<accounts, grant, refresh, loaded>>,
           \A a \in Accounts :
               accountLock'[a] = IF accountLock[a] \in R THEN NoCallback ELSE accountLock[a],
           \A q \in R : pc[q] # "done" /\ pc'[q] = "failed",
           \A q \in Callbacks \ R :
               \/ pc'[q] = pc[q]
               \/ ~Answered(q) /\ ~Answered(q)'
               \/ pc[q] = "reply" /\ pc'[q] = "commit"
    PROVE  AccountHalf'
<1>1. \A q \in Callbacks : pc'[q] = "done" <=> pc[q] = "done"
  BY DEF Answered
<1>2. \A a, q : q \in Callbacks => (Granted(a, q)' <=> Granted(a, q))
  BY <1>1 DEF Granted
<1>3. ASSUME NEW q \in Callbacks PROVE GrantInv(q)'
  <2>1. \A a : Legitimate(refresh[q], a, q) => Legitimate(refresh[q], a, q)'
    BY <1>2 DEF Legitimate, TypeOK, Token
  <2> QED
    BY <2>1 DEF AccountHalf, GrantInv, Answered
<1>4. ASSUME NEW a \in Accounts PROVE AccountInv(a)'
  BY <1>2, NothingAssumption DEF AccountHalf, AccountInv, Answered, TypeOK, AccountRow, Token
<1> QED
  BY <1>3, <1>4 DEF AccountHalf

\* Every step keeps each token with the account it was granted to.
LEMMA AccountStep == IInv /\ [Next]_vars => AccountHalf'
<1> SUFFICES ASSUME IInv, [Next]_vars PROVE AccountHalf'
  OBVIOUS
<1>0. TypeOK /\ AccountHalf
  BY DEF IInv
<1> DEFINE Quiet ==
      /\ UNCHANGED <<accounts, accountLock, grant, refresh, loaded>>
      /\ \A q \in Callbacks :
             \/ pc'[q] = pc[q]
             \/ ~Answered(q) /\ ~Answered(q)'
             \/ pc[q] = "reply" /\ pc'[q] = "commit"
<1> DEFINE Fails(R) ==
      /\ UNCHANGED <<accounts, grant, refresh, loaded>>
      /\ Release(R)
      /\ \A q \in R : pc[q] # "done" /\ pc'[q] = "failed"
      /\ \A q \in Callbacks \ R : pc'[q] = pc[q]
<1>a. ASSUME Quiet PROVE AccountHalf'
  BY <1>0, <1>a, AccountFrame, {} \in SUBSET Callbacks
<1>b. ASSUME NEW R \in SUBSET Callbacks, Fails(R) PROVE AccountHalf'
  BY <1>0, <1>b, AccountFrame DEF Release
<1>c. ASSUME NEW c \in Callbacks, pc[c] # "done", pc'[c] # "done",
             \A q \in Callbacks : q # c => pc'[q] = pc[q] /\ grant'[q] = grant[q]
      PROVE  \A a, q : q \in Callbacks => (Granted(a, q)' <=> Granted(a, q))
                                        /\ (Granted(a, q) => grant'[q] = grant[q])
  BY <1>c DEF Granted
<1> HIDE DEF Quiet, Fails
<1>1. CASE Tick
  BY <1>1, <1>a DEF Tick, accountVars, requestVars, Quiet
<1>2. ASSUME NEW s \in States, Start(s) PROVE AccountHalf'
  BY <1>2, <1>a DEF Start, accountVars, requestVars, Quiet
<1>3. ASSUME NEW s \in States, StartCommit(s) PROVE AccountHalf'
  BY <1>3, <1>a DEF StartCommit, accountVars, requestVars, Quiet
<1>4. ASSUME NEW s \in States, StartFails(s) PROVE AccountHalf'
  BY <1>4, <1>a DEF StartFails, accountVars, requestVars, Quiet
<1>5. ASSUME NEW c \in Callbacks, Reject(c) PROVE AccountHalf'
  BY <1>0, <1>5, <1>a DEF Reject, Goto, accountVars, TypeOK, Quiet, Answered
<1>6. ASSUME NEW c \in Callbacks, Receive(c) PROVE AccountHalf'
  BY <1>0, <1>6, <1>a DEF Receive, Goto, accountVars, TypeOK, Quiet, Answered
<1>7. ASSUME NEW c \in Callbacks, Consume(c) PROVE AccountHalf'
  BY <1>0, <1>7, <1>a DEF Consume, Goto, accountVars, TypeOK, Quiet, Answered
<1>8. ASSUME NEW c \in Callbacks, InvalidState(c) PROVE AccountHalf'
  BY <1>0, <1>8, <1>a DEF InvalidState, Goto, accountVars, TypeOK, Quiet, Answered
<1>9. ASSUME NEW c \in Callbacks, Exchange(c) PROVE AccountHalf'
  <2>1. /\ pc[c] = "exchange" /\ pc' = [pc EXCEPT ![c] = "lookup"]
        /\ grant'[c] \in Grant /\ \A q \in Callbacks : q # c => grant'[q] = grant[q]
        /\ UNCHANGED <<accounts, accountLock, refresh, loaded>>
    BY <1>0, <1>9 DEF Exchange, Goto, accountVars, TypeOK
  <2>2. \A a, q : q \in Callbacks => (Granted(a, q)' <=> Granted(a, q))
                                   /\ (Granted(a, q) => grant'[q] = grant[q])
    BY <1>0, <1>c, <2>1 DEF TypeOK
  <2>3. ASSUME NEW q \in Callbacks PROVE GrantInv(q)'
    BY <1>0, <2>1, <2>2 DEF AccountHalf, GrantInv, Legitimate, Answered, TypeOK, Token
  <2>4. ASSUME NEW a \in Accounts PROVE AccountInv(a)'
    BY <1>0, <2>1, <2>2 DEF AccountHalf, AccountInv, TypeOK, AccountRow, Token
  <2> QED
    BY <2>3, <2>4 DEF AccountHalf
<1>10. ASSUME NEW c \in Callbacks, ExchangeFails(c) PROVE AccountHalf'
  BY <1>0, <1>10, <1>b, {c} \in SUBSET Callbacks DEF ExchangeFails, Goto, TypeOK, Fails
<1>11. ASSUME NEW c \in Callbacks, Lookup(c) PROVE AccountHalf'
  <2>1. /\ pc[c] = "lookup" /\ pc' = [pc EXCEPT ![c] = "select"]
        /\ \A q \in Callbacks : q # c => refresh'[q] = refresh[q]
        /\ UNCHANGED <<accounts, accountLock, grant, loaded>>
    BY <1>0, <1>11 DEF Lookup, Goto, accountVars, TypeOK
  <2>2. PICK a \in Accounts : a = grant[c].account
    BY <1>0, <2>1 DEF AccountHalf, GrantInv, Answered, Grant
  <2>3. \A b, q : q \in Callbacks => (Granted(b, q)' <=> Granted(b, q))
    BY <1>0, <1>c, <2>1 DEF TypeOK
  <2>4. ASSUME NEW q \in Callbacks, q # c PROVE GrantInv(q)'
    BY <1>0, <2>1, <2>3, <2>4 DEF AccountHalf, GrantInv, Legitimate, Answered, TypeOK, Token
  <2>5. PICK t \in Token : t = refresh'[c] /\ t = IF grant[c].fresh THEN c
                                                 ELSE IF accounts[a] # NoAccount
                                                      THEN accounts[a].refresh
                                                      ELSE NoToken
    BY <1>0, <1>11, <2>2 DEF Lookup, TypeOK, AccountRow, Token
  <2>6. Legitimate(t, a, c)
    BY <1>0, <2>2, <2>5 DEF AccountHalf, AccountInv, Legitimate
  <2>7. Legitimate(t, a, c)'
    BY <2>1, <2>3, <2>5, <2>6 DEF Legitimate, Token
  <2>8. GrantInv(c)'
    BY <1>0, <2>1, <2>2, <2>5, <2>7 DEF AccountHalf, GrantInv, Answered, TypeOK
  <2>9. ASSUME NEW b \in Accounts PROVE AccountInv(b)'
    BY <1>0, <2>1, <2>3 DEF AccountHalf, AccountInv, TypeOK, AccountRow, Token
  <2> QED
    BY <2>4, <2>8, <2>9 DEF AccountHalf
<1>12. ASSUME NEW c \in Callbacks, Select(c) PROVE AccountHalf'
  <2>1. /\ pc[c] = "select" /\ pc' = [pc EXCEPT ![c] = "flush"]
        /\ loaded'[c] = accounts[grant[c].account]
        /\ \A q \in Callbacks : q # c => loaded'[q] = loaded[q]
        /\ UNCHANGED <<accounts, accountLock, grant, refresh>>
    BY <1>0, <1>12 DEF Select, Goto, accountVars, TypeOK
  <2>2. \A b, q : q \in Callbacks => (Granted(b, q)' <=> Granted(b, q))
    BY <1>0, <1>c, <2>1 DEF TypeOK
  <2>3. ASSUME NEW q \in Callbacks PROVE GrantInv(q)'
    BY <1>0, <2>1, <2>2 DEF AccountHalf, GrantInv, Legitimate, Answered, TypeOK, Token
  <2>4. ASSUME NEW b \in Accounts PROVE AccountInv(b)'
    BY <1>0, <2>1, <2>2 DEF AccountHalf, AccountInv, TypeOK, AccountRow, Token
  <2> QED
    BY <2>3, <2>4 DEF AccountHalf
<1>13. ASSUME NEW c \in Callbacks, Flush(c) PROVE AccountHalf'
  <2> DEFINE a == grant[c].account
  <2>1. /\ pc[c] = "flush" /\ pc' = [pc EXCEPT ![c] = "reply"]
        /\ loaded[c] = NoAccount => accounts[a] = NoAccount
        /\ accountLock' = [accountLock EXCEPT ![a] = c]
        /\ UNCHANGED <<accounts, grant, refresh, loaded>>
    BY <1>13 DEF Flush, Goto
  <2>2. \A b, q : q \in Callbacks => (Granted(b, q)' <=> Granted(b, q))
    BY <1>0, <1>c, <2>1 DEF TypeOK
  <2>3. ASSUME NEW q \in Callbacks PROVE GrantInv(q)'
    BY <1>0, <2>1, <2>2 DEF AccountHalf, GrantInv, Legitimate, Answered, TypeOK, Token
  <2>4. ASSUME NEW b \in Accounts PROVE AccountInv(b)'
    BY <1>0, <2>1, <2>2 DEF AccountHalf, AccountInv, TypeOK, AccountRow, Token
  <2> QED
    BY <2>3, <2>4 DEF AccountHalf
<1>14. ASSUME NEW c \in Callbacks, Conflict(c) PROVE AccountHalf'
  BY <1>0, <1>14, <1>b, {c} \in SUBSET Callbacks DEF Conflict, Goto, TypeOK, Fails
<1>15. ASSUME NEW c \in Callbacks, Reply(c) PROVE AccountHalf'
  BY <1>0, <1>15, <1>a DEF Reply, Goto, accountVars, TypeOK, Quiet
<1>16. ASSUME NEW c \in Callbacks, Commit(c) PROVE AccountHalf'
  <2>1. /\ pc[c] = "commit" /\ pc' = [pc EXCEPT ![c] = "done"]
        /\ UNCHANGED <<grant, refresh, loaded>>
    BY <1>16 DEF Commit, Goto
  <2>2. PICK a \in Accounts : grant[c] # NoGrant /\ a = grant[c].account
    BY <1>0, <2>1, NothingAssumption DEF AccountHalf, GrantInv, Answered, Grant
  <2>3. \A b, q : q \in Callbacks /\ Granted(b, q) => Granted(b, q)'
    BY <1>0, <2>1 DEF Granted, TypeOK
  <2>4. Granted(a, c)'
    BY <1>0, <2>1, <2>2 DEF Granted, TypeOK
  <2>5. PICK row \in AccountRow : row = Written(c)
    BY <1>0, <2>1, WrittenType
  <2>6. /\ \A b \in Accounts : accounts'[b] = IF accountLock[b] = c THEN row ELSE accounts[b]
        /\ \A b \in Accounts : accountLock'[b] =
               IF accountLock[b] = c THEN NoCallback ELSE accountLock[b]
    BY <1>16, <2>5 DEF Commit, Release
  <2>7. \A b \in Accounts : accounts[b] # NoAccount => accounts'[b] # NoAccount
    BY <2>6, NothingAssumption
  <2>8. row.access = c /\ row.refresh \in Token
    BY <2>5 DEF Written, AccountRow
  <2>9. row.refresh # NoToken => Granted(a, row.refresh)' /\ grant[row.refresh].fresh
    <3>1. CASE loaded[c] # NoAccount /\ refresh[c] \in {NoToken, loaded[c].refresh}
      <4>1. accounts[a] # NoAccount /\ row.refresh = accounts[a].refresh
        BY <1>0, <2>1, <2>2, <2>5, <3>1 DEF AccountHalf, GrantInv, Written
      <4>2. row.refresh # NoToken => Granted(a, row.refresh) /\ grant[row.refresh].fresh
        BY <1>0, <4>1 DEF AccountHalf, AccountInv
      <4> QED
        BY <2>3, <2>8, <4>2 DEF Token
    <3>2. CASE ~(loaded[c] # NoAccount /\ refresh[c] \in {NoToken, loaded[c].refresh})
      <4>1. row.refresh = refresh[c]
        BY <2>5, <3>2 DEF Written
      <4>2. Legitimate(row.refresh, a, c)
        BY <1>0, <2>1, <2>2, <4>1 DEF AccountHalf, GrantInv
      <4> QED
        BY <2>3, <2>4, <2>8, <4>2 DEF Legitimate, Token
    <3> QED
      BY <3>1, <3>2
  <2>10. ASSUME NEW q \in Callbacks PROVE GrantInv(q)'
    <3>1. \A b, t : t \in Token /\ Legitimate(t, b, q) => Legitimate(t, b, q)'
      BY <2>1, <2>3 DEF Legitimate, Token
    <3>2. refresh[q] \in Token /\ (grant[q] \in Grant => grant[q].account \in Accounts)
      BY <1>0 DEF TypeOK, Grant
    <3>3. (q # c => pc'[q] = pc[q]) /\ pc'[c] = "done"
      BY <1>0, <2>1 DEF TypeOK
    <3> QED
      BY <1>0, <2>1, <2>7, <3>1, <3>2, <3>3 DEF AccountHalf, GrantInv, Answered
  <2>11. ASSUME NEW b \in Accounts PROVE AccountInv(b)'
    <3>1. CASE accountLock[b] = c
      <4>1. b = a
        BY <1>0, <2>2, <3>1 DEF AccountHalf, AccountInv
      <4>2. accounts'[b] = row /\ accountLock'[b] = NoCallback
        BY <2>6, <3>1
      <4> QED
        BY <2>1, <2>4, <2>8, <2>9, <4>1, <4>2, NothingAssumption DEF AccountInv
    <3>2. CASE accountLock[b] # c
      BY <1>0, <2>1, <2>3, <2>6, <3>2
         DEF AccountHalf, AccountInv, TypeOK, AccountRow, Token
    <3> QED
      BY <3>1, <3>2
  <2> QED
    BY <2>10, <2>11 DEF AccountHalf
<1>17. ASSUME NEW c \in Callbacks, DatabaseError(c) PROVE AccountHalf'
  BY <1>0, <1>17, <1>b, {c} \in SUBSET Callbacks DEF DatabaseError, Goto, TypeOK, Fails
<1>18. CASE Crash
  <2>1. Fails({c \in Callbacks : Active(c)})
    BY <1>0, <1>18 DEF Crash, Active, Finished, TypeOK, Fails
  <2> QED
    BY <1>b, <2>1
<1>19. CASE UNCHANGED vars
  BY <1>19, <1>a DEF vars, accountVars, requestVars, Quiet
<1> QED
  BY <1>1, <1>2, <1>3, <1>4, <1>5, <1>6, <1>7, <1>8, <1>9, <1>10, <1>11, <1>12, <1>13,
     <1>14, <1>15, <1>16, <1>17, <1>18, <1>19
     DEF Next, Local, Quiescent

-------------------------------------------------------------------------------
(* What follows for every behaviour. *)

\* Every behaviour keeps the invariant: locks stand for open transactions, and
\* what a callback is about to store was granted to the account it stores it in.
THEOREM Invariance == Spec => []IInv
<1>1. Init => IInv
  BY InitInv
<1>2. IInv /\ [Next]_vars => IInv'
  BY TypeStep, StateStep, AccountStep DEF IInv
<1> QED
  BY <1>1, <1>2, PTL DEF Spec

\* The clock, the rows, the locks and the requests stay in their types.
THEOREM TypeCorrect == Spec => []TypeOK
<1>1. IInv => TypeOK
  BY DEF IInv
<1> QED
  BY <1>1, Invariance, PTL

\* However many callbacks carry a state, whatever fails or crashes, it lets one
\* of them through at a time, and one for good; and only a state that start has
\* committed and that had not expired when the callback read the clock.
THEOREM StateAuthorisesOnce == Spec => []AuthorisedOnce
<1>1. IInv => AuthorisedOnce
  <2> SUFFICES ASSUME IInv PROVE AuthorisedOnce
    OBVIOUS
  <2>0. TypeOK /\ StateHalf
    BY DEF IInv
  <2>1. ASSUME NEW c \in Callbacks, Holds(c)
        PROVE  startPc[carried[c]] = "done" /\ readAt[c] < expires[carried[c]]
    BY <2>0, <2>1 DEF StateHalf, StateInv, CallbackInv, Holds, Holding, TypeOK
  <2>2. ASSUME NEW c \in Callbacks, NEW d \in Callbacks,
               Holds(c), Holds(d), carried[d] = carried[c]
        PROVE  d = c
    <3> DEFINE s == carried[c]
    <3>1. s \in States
      BY <2>0 DEF TypeOK
    <3>2. \A q \in {c, d} : \/ pc[q] = "done" /\ stateRow[s] = "used"
                            \/ stateLock[s] = q /\ stateRow[s] = "unused"
      BY <2>0, <2>2, <3>1 DEF StateHalf, StateInv, CallbackInv, Holds, Holding
    <3> QED
      BY <2>0, <2>2, <3>2 DEF StateHalf, OnceInv
  <2> QED
    BY <2>1, <2>2 DEF AuthorisedOnce
<1> QED
  BY <1>1, Invariance, PTL

\* The commit that spends a state is the one that stores the credentials: no
\* failure burns a state, and no state survives the connection it made.
THEOREM StateSpentByItsCallback == Spec => []SpentMeansConnected
<1>1. IInv => SpentMeansConnected
  <2> SUFFICES ASSUME IInv, NEW s \in States
               PROVE  stateRow[s] = "used" <=>
                          \E c \in Callbacks : pc[c] = "done" /\ carried[c] = s
    BY DEF SpentMeansConnected
  <2>1. stateRow[s] = "used" => \E c \in Callbacks : pc[c] = "done" /\ carried[c] = s
    BY DEF IInv, StateHalf, StateInv
  <2>2. \A c \in Callbacks : pc[c] = "done" /\ carried[c] = s => stateRow[s] = "used"
    BY DEF IInv, StateHalf, CallbackInv
  <2> QED
    BY <2>1, <2>2
<1> QED
  BY <1>1, Invariance, PTL

\* No interleaving of the callbacks of several accounts stores under an address
\* a token that Google granted to another one, or to a callback that failed.
THEOREM TokensStayWithTheirAccount == Spec => []TokensOfTheirAccount
<1>1. IInv => TokensOfTheirAccount
  BY DEF IInv, AccountHalf, AccountInv, TokensOfTheirAccount
<1> QED
  BY <1>1, Invariance, PTL

\* The partial UPDATE never leaves an account without the refresh token it had,
\* even when upsert loaded the row before that token was committed.
THEOREM RefreshTokenIsNeverErased == Spec => RefreshTokenSurvives
<1> DEFINE Stored(a) == accounts[a] # NoAccount /\ accounts[a].refresh # NoToken
<1>1. ASSUME IInv, [Next]_vars, NEW a \in Accounts, Stored(a)
      PROVE  accounts'[a] # NoAccount /\ accounts'[a].refresh # NoToken
  <2>0. TypeOK /\ AccountHalf
    BY <1>1 DEF IInv
  <2>1. CASE accounts' = accounts
    BY <1>1, <2>1
  <2>2. ASSUME NEW c \in Callbacks, Commit(c), accountLock[a] = c
        PROVE  accounts'[a] # NoAccount /\ accounts'[a].refresh # NoToken
    <3>1. accounts'[a] = Written(c) /\ Written(c) \in AccountRow
      BY <2>0, <2>2, WrittenType DEF Commit
    <3>2. a = grant[c].account /\ loaded[c] # NoAccount
      BY <1>1, <2>0, <2>2 DEF AccountHalf, AccountInv
    <3>3. Written(c).refresh # NoToken
      BY <1>1, <3>2 DEF Written
    <3> QED
      BY <3>1, <3>3, NothingAssumption
  <2>3. ASSUME NEW c \in Callbacks, Commit(c), accountLock[a] # c
        PROVE  accounts'[a] = accounts[a]
    BY <2>3 DEF Commit
  <2> QED
    BY <1>1, <2>1, <2>2, <2>3
       DEF Next, Local, Quiescent, Tick, Start, StartCommit, StartFails, Reject, Receive,
           Consume, InvalidState, Exchange, ExchangeFails, Lookup, Select, Flush, Conflict,
           Reply, DatabaseError, Crash, accountVars, vars
<1>2. IInv /\ [Next]_vars =>
        [\A a \in Accounts : accounts[a] # NoAccount /\ accounts[a].refresh # NoToken =>
             accounts'[a] # NoAccount /\ accounts'[a].refresh # NoToken]_vars
  BY <1>1
<1> QED
  BY <1>2, Invariance, PTL DEF Spec, RefreshTokenSurvives

-------------------------------------------------------------------------------
(* GoogleOAuth implements ConnectionRegister. *)

\* A callback that has written its account holds the lock of its row: the
\* converse of what AccountInv says of a lock.
WriterInv ==
    \A c \in Callbacks : pc[c] \in {"reply", "commit"} => accountLock[grant[c].account] = c

\* Only a callback's own end frees its account, and its grant is fixed by then.
LEMMA WriterStep == IInv /\ WriterInv /\ [Next]_vars => WriterInv'
<1> SUFFICES ASSUME IInv, WriterInv, [Next]_vars PROVE WriterInv'
  OBVIOUS
<1>0. TypeOK
  BY DEF IInv
<1>g. \A c \in Callbacks : pc[c] \in {"flush", "reply", "commit"} => grant[c].account \in Accounts
  BY DEF IInv, AccountHalf, GrantInv, Answered, Grant
<1>a. ASSUME UNCHANGED <<accountLock, grant>>,
             \A c \in Callbacks : pc'[c] \in {"reply", "commit"} => pc[c] \in {"reply", "commit"}
      PROVE  WriterInv'
  BY <1>a DEF WriterInv
<1>b. ASSUME NEW R \in SUBSET Callbacks, Release(R), UNCHANGED grant,
             \A c \in R : pc'[c] \in Finished,
             \A c \in Callbacks \ R : pc'[c] = pc[c]
      PROVE  WriterInv'
  BY <1>b, <1>g DEF WriterInv, Release, Finished
<1>1. ASSUME NEW c \in Callbacks, Exchange(c) PROVE WriterInv'
  BY <1>0, <1>1 DEF Exchange, Goto, accountVars, WriterInv, TypeOK
<1>2. ASSUME NEW c \in Callbacks, Flush(c) PROVE WriterInv'
  <2>1. /\ pc[c] = "flush" /\ pc' = [pc EXCEPT ![c] = "reply"]
        /\ accountLock[grant[c].account] = NoCallback
        /\ accountLock' = [accountLock EXCEPT ![grant[c].account] = c]
        /\ UNCHANGED grant
    BY <1>2 DEF Flush, Goto
  <2>2. grant[c].account \in Accounts
    BY <1>g, <2>1
  <2>3. ASSUME NEW d \in Callbacks, d # c, pc[d] \in {"reply", "commit"}
        PROVE  accountLock'[grant[d].account] = d
    BY <1>0, <1>g, <2>1, <2>3, NothingAssumption DEF WriterInv, TypeOK
  <2> QED
    BY <1>0, <2>1, <2>2, <2>3 DEF WriterInv, TypeOK
<1>3. ASSUME NEW c \in Callbacks,
             ExchangeFails(c) \/ Conflict(c) \/ DatabaseError(c) \/ Commit(c)
      PROVE  WriterInv'
  <2>1. Release({c}) /\ UNCHANGED grant /\ pc'[c] \in Finished
    BY <1>0, <1>3 DEF ExchangeFails, Conflict, DatabaseError, Commit, Goto, Finished, TypeOK
  <2>2. \A d \in Callbacks \ {c} : pc'[d] = pc[d]
    BY <1>0, <1>3 DEF ExchangeFails, Conflict, DatabaseError, Commit, Goto, TypeOK
  <2> QED
    BY <1>b, <2>1, <2>2
<1>4. CASE Crash
  BY <1>0, <1>b, <1>4 DEF Crash, Active, Finished, TypeOK
<1>5. ASSUME NEW c \in Callbacks,
             \/ Reject(c) \/ Receive(c) \/ Consume(c) \/ InvalidState(c)
             \/ Lookup(c) \/ Select(c) \/ Reply(c)
      PROVE  WriterInv'
  BY <1>0, <1>a, <1>5 DEF Reject, Receive, Consume, InvalidState, Lookup, Select, Reply,
                          Goto, accountVars, TypeOK
<1>6. ASSUME NEW s \in States, Start(s) \/ StartCommit(s) \/ StartFails(s) PROVE WriterInv'
  BY <1>a, <1>6 DEF Start, StartCommit, StartFails, accountVars, requestVars
<1>7. CASE Tick \/ UNCHANGED vars
  BY <1>a, <1>7 DEF Tick, accountVars, requestVars, vars
<1> QED
  BY <1>1, <1>2, <1>3, <1>4, <1>5, <1>6, <1>7 DEF Next, Local, Quiescent

\* Nothing is created, connected or over at the start.
LEMMA RegisterInit == Init => Register!Init
BY DEF Init, Register!Init, RowKind, Finished

\* A step that leaves states and accounts alone only ends callbacks, if that.
LEMMA SilentStep ==
    ASSUME stateRow' = stateRow, accounts' = accounts,
           \A c \in Callbacks : pc[c] \in Finished => pc'[c] \in Finished
    PROVE  [Register!Next]_(Register!vars)
<1> DEFINE C == {c \in Callbacks : pc'[c] \in Finished /\ pc[c] \notin Finished}
<1>1. Register!EndSilently(C)
  BY DEF Register!EndSilently
<1> QED
  BY <1>1 DEF Register!Next, Register!EndSilently

\* What the commit makes of its account's row is what a grant with or without a
\* refresh token makes of it.
LEMMA CommitConnects ==
    ASSUME IInv, WriterInv, NEW c \in Callbacks, Commit(c),
           NEW s \in States, s = carried[c],
           NEW a \in Accounts, a = grant[c].account
    PROVE  Register!Connect(c, s, a)
<1>0. TypeOK /\ StateHalf /\ AccountHalf /\ pc[c] = "commit"
  BY DEF IInv, Commit
<1>1. stateRow[s] = "unused" /\ stateRow' = [stateRow EXCEPT ![s] = "used"]
  <2>1. stateLock[s] = c /\ stateRow[s] = "unused"
    BY <1>0 DEF StateHalf, StateInv, CallbackInv, Holding
  <2>2. \A t \in States : stateLock[t] = c => t = s
    BY <1>0 DEF StateHalf, StateInv
  <2> QED
    BY <1>0, <2>1, <2>2 DEF Commit, TypeOK
<1>2. accounts' = [accounts EXCEPT ![a] = Written(c)]
  <2>1. accountLock[a] = c
    BY <1>0 DEF WriterInv
  <2>2. \A b \in Accounts : accountLock[b] = c => b = a
    BY <1>0 DEF AccountHalf, AccountInv
  <2> QED
    BY <1>0, <2>1, <2>2 DEF Commit, TypeOK
<1>3. \E granted \in BOOLEAN :
         RowKind(Written(c)) = Register!After(RowKind(accounts[a]), granted)
  <2>1. Written(c) \in AccountRow
    BY <1>0, WrittenType
  <2>2. RowKind(Written(c)) \in {"bare", "refreshable"}
    BY <2>1, NothingAssumption DEF RowKind
  <2>3. ASSUME RowKind(accounts[a]) = "refreshable" PROVE RowKind(Written(c)) = "refreshable"
    <3>1. accounts[a] # NoAccount /\ accounts[a].refresh # NoToken
      BY <2>3 DEF RowKind
    <3>2. loaded[c] # NoAccount
      BY <1>0, <3>1 DEF WriterInv, AccountHalf, AccountInv
    <3>3. Written(c).refresh # NoToken
      BY <3>1, <3>2 DEF Written
    <3> QED
      BY <2>1, <3>3, NothingAssumption DEF RowKind
  <2>4. RowKind(Written(c)) =
            Register!After(RowKind(accounts[a]), RowKind(Written(c)) = "refreshable")
    BY <2>2, <2>3 DEF Register!After
  <2> QED
    BY <2>4
<1>4. PICK granted \in BOOLEAN :
         RowKind(Written(c)) = Register!After(RowKind(accounts[a]), granted)
  BY <1>3
<1>5. [b \in Accounts |-> RowKind(accounts'[b])] =
          [[b \in Accounts |-> RowKind(accounts[b])] EXCEPT
               ![a] = Register!After(@, granted)]
  BY <1>0, <1>2, <1>4 DEF TypeOK
<1>6. /\ c \notin {d \in Callbacks : pc[d] \in Finished}
      /\ {d \in Callbacks : pc'[d] \in Finished} =
             {d \in Callbacks : pc[d] \in Finished} \cup {c}
  BY <1>0 DEF Commit, Goto, Finished, TypeOK
<1> QED
  BY <1>1, <1>5, <1>6 DEF Register!Connect

\* A start that commits creates its state, a callback that commits connects, and
\* every other step ends callbacks silently or is not seen by the register.
LEMMA RegisterStep ==
    IInv /\ WriterInv /\ [Next]_vars => [Register!Next]_(Register!vars)
<1> SUFFICES ASSUME IInv, WriterInv, [Next]_vars PROVE [Register!Next]_(Register!vars)
  OBVIOUS
<1>0. TypeOK
  BY DEF IInv
<1>1. ASSUME NEW s \in States, StartCommit(s) PROVE [Register!Next]_(Register!vars)
  <2>1. stateRow[s] = "absent"
    BY <1>1 DEF IInv, StateHalf, StateInv, StartCommit
  <2>2. Register!Create(s)
    BY <1>1, <2>1 DEF StartCommit, accountVars, requestVars, Register!Create
  <2> QED
    BY <2>2 DEF Register!Next
<1>2. ASSUME NEW c \in Callbacks, Commit(c) PROVE [Register!Next]_(Register!vars)
  <2>1. PICK s \in States, a \in Accounts : s = carried[c] /\ a = grant[c].account
    BY <1>0, <1>2 DEF IInv, AccountHalf, GrantInv, Answered, Grant, Commit, TypeOK
  <2>2. Register!Connect(c, s, a)
    BY <1>2, <2>1, CommitConnects
  <2> QED
    BY <2>2 DEF Register!Next
<1>3. CASE ~(\E s \in States : StartCommit(s)) /\ ~(\E c \in Callbacks : Commit(c))
  <2>1. UNCHANGED <<stateRow, accounts>>
    BY <1>3 DEF Next, Local, Quiescent, Tick, Start, StartFails, Reject, Receive, Consume,
                InvalidState, Exchange, ExchangeFails, Lookup, Select, Flush, Conflict,
                Reply, DatabaseError, Crash, stateVars, accountVars, vars
  <2>2. ASSUME NEW d \in Callbacks, pc[d] \in Finished PROVE pc'[d] = pc[d]
    BY <1>0, <1>3, <2>2, ZenonT(60)
       DEF Next, Local, Quiescent, Tick, Start, StartFails, Reject, Receive, Consume,
           InvalidState, Exchange, ExchangeFails, Lookup, Select, Flush, Conflict,
           Reply, DatabaseError, Crash, Goto, Active, Finished, requestVars, vars, TypeOK
  <2> QED
    BY <2>1, <2>2, SilentStep
<1> QED
  BY <1>1, <1>2, <1>3

\* However callbacks interleave, fail and crash, oauth_states and google_accounts
\* change as if each callback were one atomic step.
THEOREM ConnectionRefinement == Spec => ImplementsRegister
<1>1. Init => WriterInv
  BY DEF Init, WriterInv
<1>2. Spec => []WriterInv
  BY <1>1, WriterStep, Invariance, PTL DEF Spec
<1> QED
  BY <1>2, RegisterInit, RegisterStep, Invariance, PTL
     DEF Spec, ImplementsRegister, Register!Spec
===============================================================================
