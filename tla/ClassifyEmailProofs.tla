-------------------------- MODULE ClassifyEmailProofs --------------------------
(***************************************************************************)
(* What ClassifyEmail guarantees for every set of requests and e-mails,    *)
(* every settings and every number of attempts.                            *)
(*                                                                         *)
(* The properties speak of visible rows only.  To carry them through a     *)
(* commit the invariant also follows the candidate of a request from the   *)
(* rules (load), through the provider's retry loop (ask), to the           *)
(* uncommitted write that its row lock stands for.                         *)
(***************************************************************************)
EXTENDS ClassifyEmail, TLAPS

\* r is a plain classify request that found its e-mail already classified.
Reusing(r) == op[r] = "classify" /\ onArrival[r].classified

\* What r is about to write, or has written, is a legitimate classification.
Candidate(r) ==
    /\ mail[r] \in Stored
    /\ op[r] # "get"
    /\ ~Reusing(r)
    /\ source[r] \in AllowedSources(mail[r])
    /\ Explains(r)

\* Inside the retry loop every call so far failed with a transient error.
Retrying(r) ==
    /\ Len(calls[r]) < MaxAttempts
    /\ \A i \in DOMAIN calls[r] : calls[r][i] = "transient"

RequestInv(r) ==
    /\ pc[r] \in {"idle", "lookup", "load"} => calls[r] = << >>
    /\ pc[r] = "idle" => ~onArrival[r].classified
    /\ pc[r] = "load" => op[r] # "get" /\ ~Reusing(r)
    /\ pc[r] = "ask" =>
           mail[r] \in Stored /\ op[r] # "get" /\ ~Reusing(r) /\ NeedsAi(mail[r]) /\ Retrying(r)
    /\ pc[r] = "upsert" => Candidate(r)
    /\ Reusing(r) => calls[r] = << >> /\ table[mail[r]] # NoRow

\* A row lock belongs to a request between its upsert and the end of its transaction.
LockInv(e) ==
    \A w \in Requests : lock[e] = w =>
        /\ pc[w] \in {"reply", "commit"}
        /\ mail[w] = e
        /\ Candidate(w)

RowInv(e) ==
    table[e] # NoRow =>
        /\ pc[table[e].by] = "done"
        /\ mail[table[e].by] = e
        /\ Candidate(table[e].by)
        /\ table[e].source = source[table[e].by]

ResultInv(r) ==
    result[r] # NoRow /\ result[r].by # r => CommittedBy(mail[r], result[r].by)

IInv ==
    /\ TypeOK
    /\ \A r \in Requests : RequestInv(r)
    /\ \A e \in Emails : LockInv(e)
    /\ \A e \in Emails : RowInv(e)
    /\ \A r \in Requests : ResultInv(r)

-------------------------------------------------------------------------------

\* A candidate stays legitimate as long as its request's own fields stay put.
LEMMA CandidateFrame ==
    ASSUME NEW r,
           calls'[r] = calls[r], source'[r] = source[r], onArrival'[r] = onArrival[r],
           UNCHANGED <<mail, op>>
    PROVE  Candidate(r)' <=> Candidate(r)
BY DEF Candidate, Reusing, Explains, RetriedOnlyTransients, AllowedSources, NeedsAi

\* One more outcome after transient failures only: either the loop goes round
\* again, still with transient failures only and attempts left, or the calls
\* explain the source that execute picks.
LEMMA OneMoreCall ==
    ASSUME NEW seen \in Seq(Outcomes), NEW outcome \in Outcomes,
           Len(seen) < MaxAttempts,
           \A i \in DOMAIN seen : seen[i] = "transient"
    PROVE  LET more == Append(seen, outcome) IN
           /\ more \in Seq(Outcomes)
           /\ more # << >>
           /\ Len(more) = Len(seen) + 1
           /\ more[Len(more)] = outcome
           /\ \A i \in DOMAIN more : i < Len(more) => more[i] = "transient"
BY SettingsAssumption DEF Outcomes

\* Before any request, with an empty table, the invariant holds.
THEOREM InitInv == Init => IInv
<1> SUFFICES ASSUME Init PROVE IInv
  OBVIOUS
<1>1. TypeOK
  BY SentinelAssumption DEF Init, TypeOK, Sources, Operations, Outcomes
<1>2. \A r \in Requests : RequestInv(r)
  BY DEF Init, RequestInv, Reusing
<1>3. (\A e \in Emails : LockInv(e)) /\ (\A e \in Emails : RowInv(e))
  BY SentinelAssumption DEF Init, LockInv, RowInv
<1>4. \A r \in Requests : ResultInv(r)
  BY DEF Init, ResultInv
<1> QED
  BY <1>1, <1>2, <1>3, <1>4 DEF IInv

\* Every step of a request, and a crash, keeps the types.
LEMMA TypeStep == TypeOK /\ [Next]_vars => TypeOK'
<1> SUFFICES ASSUME TypeOK, [Next]_vars PROVE TypeOK'
  OBVIOUS
<1> USE DEF TypeOK
<1>1. ASSUME NEW r \in Requests, Arrive(r) PROVE TypeOK'
  BY <1>1 DEF Arrive, Goto
<1>2. ASSUME NEW r \in Requests, ReuseExisting(r) PROVE TypeOK'
  BY <1>2 DEF ReuseExisting, Goto
<1>3. ASSUME NEW r \in Requests, NoExisting(r) PROVE TypeOK'
  BY <1>3 DEF NoExisting, Goto, Finished
<1>4. ASSUME NEW r \in Requests, ApplyRules(r) PROVE TypeOK'
  BY <1>4 DEF ApplyRules, Goto, Sources
<1>5. ASSUME NEW r \in Requests, EmailNotFound(r) PROVE TypeOK'
  BY <1>5 DEF EmailNotFound, Goto, Finished
<1>6. ASSUME NEW r \in Requests, AskProvider(r) PROVE TypeOK'
  <2>1. PICK outcome \in Outcomes :
          /\ calls' = [calls EXCEPT ![r] = Append(@, outcome)]
          /\ IF RetryAgain(r, outcome)
             THEN UNCHANGED <<pc, source>>
             ELSE /\ source' = [source EXCEPT ![r] =
                                  IF outcome = "valid" THEN "ai" ELSE "fallback"]
                  /\ Goto(r, "upsert")
    BY <1>6 DEF AskProvider
  <2>2. Append(calls[r], outcome) \in Seq(Outcomes)
    OBVIOUS
  <2>3. calls' \in [Requests -> Seq(Outcomes)]
    BY <2>1, <2>2
  <2>4. (pc' \in [Requests -> {"idle", "lookup", "load", "ask", "upsert", "reply", "commit"}
                                \cup Finished]) /\ source' \in [Requests -> Sources]
    BY <2>1 DEF Goto, Sources
  <2> QED
    BY <1>6, <2>3, <2>4 DEF AskProvider
<1>7. ASSUME NEW r \in Requests, Upsert(r) PROVE TypeOK'
  <2>1. RowOf(r) \in Row
    BY <1>7 DEF RowOf, Row
  <2> QED
    BY <1>7, <2>1 DEF Upsert, Goto
<1>8. ASSUME NEW r \in Requests, Reply(r) PROVE TypeOK'
  BY <1>8 DEF Reply, Goto
<1>9. ASSUME NEW r \in Requests, Commit(r) PROVE TypeOK'
  <2>1. RowOf(r) \in Row
    BY <1>9 DEF RowOf, Row
  <2> QED
    BY <1>9, <2>1 DEF Commit, Release, Goto, Finished
<1>10. ASSUME NEW r \in Requests, DatabaseError(r) PROVE TypeOK'
  BY <1>10 DEF DatabaseError, Release, Goto, Finished
<1>11. CASE Crash
  BY <1>11 DEF Crash, Release, Finished
<1>12. CASE UNCHANGED vars
  BY <1>12 DEF vars
<1> QED
  BY <1>1, <1>2, <1>3, <1>4, <1>5, <1>6, <1>7, <1>8, <1>9, <1>10, <1>11, <1>12
     DEF Next, Serve, Quiescent

\* Every step of a request, and a crash, keeps the candidates legitimate, the
\* locks with open transactions and the rows with their committed writers.
LEMMA InvStep == IInv /\ [Next]_vars => IInv'
<1> SUFFICES ASSUME IInv, [Next]_vars PROVE IInv'
  OBVIOUS
<1>0. TypeOK /\ TypeOK'
  BY TypeStep DEF IInv
<1> DEFINE Kept(q) ==
      /\ calls'[q] = calls[q]
      /\ source'[q] = source[q]
      /\ onArrival'[q] = onArrival[q]
<1>a. ASSUME UNCHANGED <<mail, op>>
      PROVE  \A q : Kept(q) => (Candidate(q)' <=> Candidate(q))
  BY <1>a, CandidateFrame
<1>b. ASSUME UNCHANGED mail,
             \A q \in Requests, e \in Emails : lock'[e] = q =>
                 /\ lock[e] = q
                 /\ pc[q] \in {"reply", "commit"} =>
                       pc'[q] \in {"reply", "commit"} /\ (Candidate(q)' <=> Candidate(q))
      PROVE  \A e \in Emails : LockInv(e)'
  BY <1>b DEF IInv, LockInv
<1>1. ASSUME NEW r \in Requests, Arrive(r) PROVE IInv'
  <2>1. \A q \in Requests : q # r => Kept(q) /\ pc'[q] = pc[q]
    BY <1>0, <1>1 DEF Arrive, Goto, TypeOK
  <2>2. \A q \in Requests : q # r => (Candidate(q)' <=> Candidate(q))
    BY <1>1, <1>a, <2>1 DEF Arrive
  <2>3. /\ pc[r] = "idle" /\ pc'[r] = IF op[r] = "force" THEN "load" ELSE "lookup"
        /\ onArrival'[r].classified <=> table[mail[r]] # NoRow
        /\ UNCHANGED <<table, lock, mail, op, calls, source, result>>
    BY <1>0, <1>1 DEF Arrive, Goto, TypeOK
  <2>4. \A q \in Requests : RequestInv(q)'
    BY <1>0, <2>1, <2>2, <2>3 DEF IInv, RequestInv, Reusing, Retrying, NeedsAi, TypeOK
  <2>5. \A e \in Emails : LockInv(e)'
    BY <1>b, <2>1, <2>2, <2>3
  <2>6. \A e \in Emails : RowInv(e)'
    BY <1>0, <2>1, <2>2, <2>3 DEF IInv, RowInv, TypeOK, Row
  <2>7. \A q \in Requests : ResultInv(q)'
    BY <1>0, <2>1, <2>3 DEF IInv, ResultInv, CommittedBy, TypeOK, Row
  <2> QED
    BY <1>0, <2>4, <2>5, <2>6, <2>7 DEF IInv
<1>2. ASSUME NEW r \in Requests, ReuseExisting(r) PROVE IInv'
  <2>1. /\ pc[r] = "lookup" /\ pc'[r] = "reply" /\ table[mail[r]] # NoRow
        /\ result'[r] = table[mail[r]]
        /\ \A q \in Requests : q # r => pc'[q] = pc[q] /\ result'[q] = result[q]
        /\ UNCHANGED <<table, lock, mail, op, calls, source, onArrival>>
    BY <1>0, <1>2 DEF ReuseExisting, Goto, TypeOK
  <2>2. \A q : Candidate(q)' <=> Candidate(q)
    BY <1>a, <2>1
  <2>4. \A q \in Requests : RequestInv(q)'
    BY <1>0, <2>1, <2>2 DEF IInv, RequestInv, Reusing, Retrying, NeedsAi, TypeOK
  <2>5. \A e \in Emails : LockInv(e)'
    BY <1>b, <2>1, <2>2
  <2>6. \A e \in Emails : RowInv(e)'
    BY <1>0, <2>1, <2>2 DEF IInv, RowInv, TypeOK, Row
  <2>7. ASSUME NEW q \in Requests PROVE ResultInv(q)'
    <3>1. CommittedBy(mail[r], table[mail[r]].by)
      BY <1>0, <2>1 DEF IInv, RowInv, Candidate, CommittedBy, TypeOK
    <3>2. table[mail[r]].by # r
      BY <2>1, <3>1 DEF CommittedBy
    <3>3. CASE q = r
      BY <1>0, <2>1, <3>1, <3>2, <3>3 DEF ResultInv, CommittedBy, TypeOK, Row
    <3>4. CASE q # r
      BY <1>0, <2>1, <3>4 DEF IInv, ResultInv, CommittedBy, TypeOK, Row
    <3> QED
      BY <3>3, <3>4
  <2> QED
    BY <1>0, <2>4, <2>5, <2>6, <2>7 DEF IInv
<1>3. ASSUME NEW r \in Requests, NoExisting(r) PROVE IInv'
  <2>1. /\ pc[r] = "lookup" /\ pc'[r] = (IF op[r] = "get" THEN "failed" ELSE "load")
        /\ table[mail[r]] = NoRow
        /\ \A q \in Requests : q # r => pc'[q] = pc[q]
        /\ UNCHANGED <<table, lock, mail, op, calls, source, result, onArrival>>
    BY <1>0, <1>3 DEF NoExisting, Goto, TypeOK
  <2>2. \A q : Candidate(q)' <=> Candidate(q)
    BY <1>a, <2>1
  <2>4. \A q \in Requests : RequestInv(q)'
    BY <1>0, <2>1, <2>2 DEF IInv, RequestInv, Reusing, Retrying, NeedsAi, TypeOK
  <2>5. \A e \in Emails : LockInv(e)'
    BY <1>b, <2>1, <2>2
  <2>6. \A e \in Emails : RowInv(e)'
    BY <1>0, <2>1, <2>2 DEF IInv, RowInv, TypeOK, Row
  <2>7. \A q \in Requests : ResultInv(q)'
    BY <1>0, <2>1 DEF IInv, ResultInv, CommittedBy, TypeOK, Row
  <2> QED
    BY <1>0, <2>4, <2>5, <2>6, <2>7 DEF IInv
<1>4. ASSUME NEW r \in Requests, ApplyRules(r) PROVE IInv'
  <2>1. /\ pc[r] = "load" /\ pc'[r] = (IF NeedsAi(mail[r]) THEN "ask" ELSE "upsert")
        /\ mail[r] \in Stored
        /\ source'[r] = "deterministic"
        /\ \A q \in Requests : q # r => pc'[q] = pc[q] /\ Kept(q)
        /\ UNCHANGED <<table, lock, mail, op, calls, result, onArrival>>
    BY <1>0, <1>4 DEF ApplyRules, Goto, TypeOK
  <2>2. \A q \in Requests : q # r => (Candidate(q)' <=> Candidate(q))
    BY <1>a, <2>1
  <2>3. /\ calls[r] = << >> /\ op[r] # "get" /\ ~Reusing(r)
        /\ ~NeedsAi(mail[r]) => Candidate(r)'
    <3>1. calls[r] = << >> /\ op[r] # "get" /\ ~Reusing(r)
      BY <2>1 DEF IInv, RequestInv
    <3>2. Explains(r)'
      BY <2>1, <3>1, SettingsAssumption DEF Explains, RetriedOnlyTransients
    <3> QED
      BY <2>1, <3>1, <3>2 DEF Candidate, Reusing, AllowedSources, NeedsAi
  <2>4. \A q \in Requests : RequestInv(q)'
    BY <1>0, <2>1, <2>2, <2>3, SettingsAssumption
       DEF IInv, RequestInv, Reusing, Retrying, NeedsAi, TypeOK
  <2>5. \A e \in Emails : LockInv(e)'
    BY <1>b, <2>1, <2>2
  <2>6. \A e \in Emails : RowInv(e)'
    BY <1>0, <2>1, <2>2 DEF IInv, RowInv, TypeOK, Row
  <2>7. \A q \in Requests : ResultInv(q)'
    BY <1>0, <2>1 DEF IInv, ResultInv, CommittedBy, TypeOK, Row
  <2> QED
    BY <1>0, <2>4, <2>5, <2>6, <2>7 DEF IInv
<1>5. ASSUME NEW r \in Requests, EmailNotFound(r) PROVE IInv'
  <2>1. /\ pc[r] = "load" /\ pc'[r] = "failed"
        /\ \A q \in Requests : q # r => pc'[q] = pc[q]
        /\ UNCHANGED <<table, lock, mail, op, calls, source, result, onArrival>>
    BY <1>0, <1>5 DEF EmailNotFound, Goto, TypeOK
  <2>2. \A q : Candidate(q)' <=> Candidate(q)
    BY <1>a, <2>1
  <2>4. \A q \in Requests : RequestInv(q)'
    BY <1>0, <2>1, <2>2 DEF IInv, RequestInv, Reusing, Retrying, NeedsAi, TypeOK
  <2>5. \A e \in Emails : LockInv(e)'
    BY <1>b, <2>1, <2>2
  <2>6. \A e \in Emails : RowInv(e)'
    BY <1>0, <2>1, <2>2 DEF IInv, RowInv, TypeOK, Row
  <2>7. \A q \in Requests : ResultInv(q)'
    BY <1>0, <2>1 DEF IInv, ResultInv, CommittedBy, TypeOK, Row
  <2> QED
    BY <1>0, <2>4, <2>5, <2>6, <2>7 DEF IInv
<1>6. ASSUME NEW r \in Requests, AskProvider(r) PROVE IInv'
  <2>1. PICK outcome \in Outcomes :
          /\ calls' = [calls EXCEPT ![r] = Append(@, outcome)]
          /\ IF RetryAgain(r, outcome)
             THEN UNCHANGED <<pc, source>>
             ELSE /\ source' = [source EXCEPT ![r] =
                                  IF outcome = "valid" THEN "ai" ELSE "fallback"]
                  /\ Goto(r, "upsert")
    BY <1>6 DEF AskProvider
  <2>2. /\ pc[r] = "ask" /\ calls'[r] = Append(calls[r], outcome)
        /\ \A q \in Requests : q # r => pc'[q] = pc[q] /\ Kept(q)
        /\ UNCHANGED <<table, lock, mail, op, result, onArrival>>
        /\ pc'[r] = IF RetryAgain(r, outcome) THEN "ask" ELSE "upsert"
        /\ ~RetryAgain(r, outcome) =>
              source'[r] = IF outcome = "valid" THEN "ai" ELSE "fallback"
    BY <1>0, <1>6, <2>1 DEF AskProvider, Goto, TypeOK
  <2>3. \A q \in Requests : q # r => (Candidate(q)' <=> Candidate(q))
    BY <1>a, <2>2
  <2>4. /\ mail[r] \in Stored /\ op[r] # "get" /\ ~Reusing(r)
        /\ NeedsAi(mail[r]) /\ Retrying(r)
    BY <2>2 DEF IInv, RequestInv
  <2>5. /\ calls'[r] # << >>
        /\ Len(calls'[r]) = Len(calls[r]) + 1
        /\ calls'[r][Len(calls'[r])] = outcome
        /\ \A i \in DOMAIN calls'[r] : i < Len(calls'[r]) => calls'[r][i] = "transient"
    <3>1. calls[r] \in Seq(Outcomes)
      BY <1>0 DEF TypeOK
    <3> QED
      BY <2>2, <2>4, <3>1, OneMoreCall DEF Retrying
  <2>6. Len(calls[r]) \in Nat /\ calls'[r] \in Seq(Outcomes)
    BY <1>0 DEF TypeOK
  <2>7. RetryAgain(r, outcome) => Retrying(r)'
    BY <2>5, <2>6, SettingsAssumption DEF RetryAgain, Retrying
  <2>8. ~RetryAgain(r, outcome) => Candidate(r)'
    <3> SUFFICES ASSUME ~RetryAgain(r, outcome) PROVE Candidate(r)'
      OBVIOUS
    <3>1. Len(calls'[r]) <= MaxAttempts
      BY <2>4, <2>5, <2>6, SettingsAssumption DEF Retrying
    <3>2. outcome = "transient" => Len(calls'[r]) = MaxAttempts
      BY <2>4, <2>5, <2>6, SettingsAssumption DEF Retrying, RetryAgain
    <3>3. Explains(r)'
      BY <2>2, <2>5, <3>1, <3>2 DEF Explains, RetriedOnlyTransients, Outcomes
    <3> QED
      BY <2>2, <2>4, <3>3 DEF Candidate, Reusing, AllowedSources, NeedsAi
  <2>9. \A q \in Requests : RequestInv(q)'
    <3>1. RequestInv(r)'
      BY <2>2, <2>4, <2>7, <2>8 DEF RequestInv, Reusing, NeedsAi
    <3>2. ASSUME NEW q \in Requests, q # r PROVE RequestInv(q)'
      BY <2>2, <2>3, <3>2 DEF IInv, RequestInv, Reusing, Retrying, NeedsAi
    <3> QED
      BY <3>1, <3>2
  <2>10. \A e \in Emails : LockInv(e)'
    BY <1>b, <2>2, <2>3
  <2>11. \A e \in Emails : RowInv(e)'
    BY <1>0, <2>2, <2>3 DEF IInv, RowInv, TypeOK, Row
  <2>12. \A q \in Requests : ResultInv(q)'
    BY <1>0, <2>2 DEF IInv, ResultInv, CommittedBy, TypeOK, Row
  <2> QED
    BY <1>0, <2>9, <2>10, <2>11, <2>12 DEF IInv
<1>7. ASSUME NEW r \in Requests, Upsert(r) PROVE IInv'
  <2>1. /\ pc[r] = "upsert" /\ pc'[r] = "reply"
        /\ lock' = [lock EXCEPT ![mail[r]] = r]
        /\ result'[r] = RowOf(r)
        /\ \A q \in Requests : q # r => pc'[q] = pc[q] /\ result'[q] = result[q]
        /\ UNCHANGED <<table, mail, op, calls, source, onArrival>>
    BY <1>0, <1>7 DEF Upsert, Goto, TypeOK
  <2>2. \A q : Candidate(q)' <=> Candidate(q)
    BY <1>a, <2>1
  <2>3. Candidate(r)
    BY <2>1 DEF IInv, RequestInv
  <2>4. \A q \in Requests : RequestInv(q)'
    BY <1>0, <2>1, <2>2 DEF IInv, RequestInv, Reusing, Retrying, NeedsAi, TypeOK
  <2>5. ASSUME NEW e \in Emails PROVE LockInv(e)'
    <3> SUFFICES ASSUME NEW w \in Requests, lock'[e] = w
                 PROVE  pc'[w] \in {"reply", "commit"} /\ mail'[w] = e /\ Candidate(w)'
      BY DEF LockInv
    <3>1. CASE mail[r] = e
      <4>1. w = r
        BY <1>0, <2>1, <3>1 DEF TypeOK
      <4> QED
        BY <2>1, <2>2, <2>3, <3>1, <4>1
    <3>2. CASE mail[r] # e
      <4>1. lock[e] = w
        BY <1>0, <2>1, <3>2 DEF TypeOK
      <4>2. pc[w] \in {"reply", "commit"} /\ mail[w] = e /\ Candidate(w)
        BY <4>1 DEF IInv, LockInv
      <4> QED
        BY <2>1, <2>2, <4>2
    <3> QED
      BY <3>1, <3>2
  <2>6. \A e \in Emails : RowInv(e)'
    BY <1>0, <2>1, <2>2 DEF IInv, RowInv, TypeOK, Row
  <2>7. ASSUME NEW q \in Requests PROVE ResultInv(q)'
    <3>1. CASE q = r
      <4>1. result'[r].by = r
        BY <2>1 DEF RowOf
      <4> QED
        BY <3>1, <4>1 DEF ResultInv
    <3>2. CASE q # r
      BY <1>0, <2>1, <3>2 DEF IInv, ResultInv, CommittedBy, TypeOK, Row
    <3> QED
      BY <3>1, <3>2
  <2> QED
    BY <1>0, <2>4, <2>5, <2>6, <2>7 DEF IInv
<1>8. ASSUME NEW r \in Requests, Reply(r) PROVE IInv'
  <2>1. /\ pc[r] = "reply" /\ pc'[r] = "commit"
        /\ \A q \in Requests : q # r => pc'[q] = pc[q]
        /\ UNCHANGED <<table, lock, mail, op, calls, source, result, onArrival>>
    BY <1>0, <1>8 DEF Reply, Goto, TypeOK
  <2>2. \A q : Candidate(q)' <=> Candidate(q)
    BY <1>a, <2>1
  <2>4. \A q \in Requests : RequestInv(q)'
    BY <1>0, <2>1, <2>2 DEF IInv, RequestInv, Reusing, Retrying, NeedsAi, TypeOK
  <2>5. \A e \in Emails : LockInv(e)'
    BY <1>b, <2>1, <2>2
  <2>6. \A e \in Emails : RowInv(e)'
    BY <1>0, <2>1, <2>2 DEF IInv, RowInv, TypeOK, Row
  <2>7. \A q \in Requests : ResultInv(q)'
    BY <1>0, <2>1 DEF IInv, ResultInv, CommittedBy, TypeOK, Row
  <2> QED
    BY <1>0, <2>4, <2>5, <2>6, <2>7 DEF IInv
<1>9. ASSUME NEW r \in Requests, Commit(r) PROVE IInv'
  <2>1. /\ pc[r] = "commit" /\ pc'[r] = "done"
        /\ \A q \in Requests : q # r => pc'[q] = pc[q]
        /\ table' = [e \in Emails |-> IF lock[e] = r THEN RowOf(r) ELSE table[e]]
        /\ \A e \in Emails : lock'[e] = IF lock[e] = r THEN NoRequest ELSE lock[e]
        /\ UNCHANGED <<mail, op, calls, source, result, onArrival>>
    BY <1>0, <1>9 DEF Commit, Release, Goto, TypeOK
  <2>2. \A q : Candidate(q)' <=> Candidate(q)
    BY <1>a, <2>1
  <2>3. RowOf(r) \in Row /\ RowOf(r) # NoRow
    BY <1>0, SentinelAssumption DEF RowOf, Row, TypeOK
  <2>4. \A q \in Requests : RequestInv(q)'
    BY <1>0, <2>1, <2>2, <2>3 DEF IInv, RequestInv, Reusing, Retrying, NeedsAi, TypeOK
  <2>5. \A e \in Emails : LockInv(e)'
    BY <1>b, <2>1, <2>2, SentinelAssumption
  <2>6. ASSUME NEW e \in Emails PROVE RowInv(e)'
    <3>1. CASE lock[e] = r
      <4>1. mail[r] = e /\ Candidate(r)
        BY <3>1 DEF IInv, LockInv
      <4>2. table'[e].by = r /\ table'[e].source = source[r]
        BY <2>1, <3>1 DEF RowOf
      <4> QED
        BY <2>1, <2>2, <4>1, <4>2 DEF RowInv
    <3>2. CASE lock[e] # r
      BY <1>0, <2>1, <2>2, <3>2 DEF IInv, RowInv, TypeOK, Row
    <3> QED
      BY <3>1, <3>2
  <2>7. \A q \in Requests : ResultInv(q)'
    BY <1>0, <2>1 DEF IInv, ResultInv, CommittedBy, TypeOK, Row
  <2> QED
    BY <1>0, <2>4, <2>5, <2>6, <2>7 DEF IInv
<1>10. ASSUME NEW r \in Requests, DatabaseError(r) PROVE IInv'
  <2>1. /\ pc[r] \in {"lookup", "load", "upsert", "commit"} /\ pc'[r] = "failed"
        /\ \A q \in Requests : q # r => pc'[q] = pc[q]
        /\ \A e \in Emails : lock'[e] = IF lock[e] = r THEN NoRequest ELSE lock[e]
        /\ UNCHANGED <<table, mail, op, calls, source, result, onArrival>>
    BY <1>0, <1>10 DEF DatabaseError, Release, Goto, TypeOK
  <2>2. \A q : Candidate(q)' <=> Candidate(q)
    BY <1>a, <2>1
  <2>4. \A q \in Requests : RequestInv(q)'
    BY <1>0, <2>1, <2>2 DEF IInv, RequestInv, Reusing, Retrying, NeedsAi, TypeOK
  <2>5. \A e \in Emails : LockInv(e)'
    BY <1>b, <2>1, <2>2, SentinelAssumption
  <2>6. \A e \in Emails : RowInv(e)'
    BY <1>0, <2>1, <2>2 DEF IInv, RowInv, TypeOK, Row
  <2>7. \A q \in Requests : ResultInv(q)'
    BY <1>0, <2>1 DEF IInv, ResultInv, CommittedBy, TypeOK, Row
  <2> QED
    BY <1>0, <2>4, <2>5, <2>6, <2>7 DEF IInv
<1>11. CASE Crash
  <2>1. /\ \A q \in Requests : pc'[q] = IF Active(q) THEN "failed" ELSE pc[q]
        /\ \A e \in Emails :
              lock'[e] = IF lock[e] \in {q \in Requests : Active(q)} THEN NoRequest ELSE lock[e]
        /\ UNCHANGED <<table, mail, op, calls, source, result, onArrival>>
    BY <1>0, <1>11 DEF Crash, Release, TypeOK
  <2>2. \A q : Candidate(q)' <=> Candidate(q)
    BY <1>a, <2>1
  <2>3. \A q \in Requests : pc'[q] \notin {"lookup", "load", "ask", "upsert", "reply", "commit"}
    BY <1>0, <2>1 DEF Active, Finished, TypeOK
  <2>4. \A q \in Requests : RequestInv(q)'
    BY <1>0, <2>1, <2>2, <2>3 DEF IInv, RequestInv, Reusing, Active, Finished, TypeOK
  <2>5. \A e \in Emails : LockInv(e)'
    BY <1>b, <2>1, <2>2, SentinelAssumption DEF Active, Finished
  <2>6. \A e \in Emails : RowInv(e)'
    BY <1>0, <2>1, <2>2 DEF IInv, RowInv, Active, Finished, TypeOK, Row
  <2>7. \A q \in Requests : ResultInv(q)'
    BY <1>0, <2>1 DEF IInv, ResultInv, CommittedBy, Active, Finished, TypeOK, Row
  <2> QED
    BY <1>0, <2>4, <2>5, <2>6, <2>7 DEF IInv
<1>12. CASE UNCHANGED vars
  <2>1. \A q : Candidate(q)' <=> Candidate(q)
    BY <1>12, <1>a DEF vars
  <2> QED
    BY <1>0, <1>12, <2>1 DEF vars, IInv, RequestInv, LockInv, RowInv, ResultInv, CommittedBy,
       Reusing, Retrying, NeedsAi
<1> QED
  BY <1>1, <1>2, <1>3, <1>4, <1>5, <1>6, <1>7, <1>8, <1>9, <1>10, <1>11, <1>12
     DEF Next, Serve, Quiescent

\* The invariant holds in every reachable state, whatever the constants.
THEOREM Invariance == Spec => []IInv
BY InitInv, InvStep, PTL DEF Spec

\* Every variable keeps its type.
THEOREM TypeCorrect == Spec => []TypeOK
<1>1. IInv => TypeOK
  BY DEF IInv
<1> QED
  BY <1>1, Invariance, PTL

\* No request ever sees a row of a transaction that has not committed, even
\* when requests race, fail at any statement or die with the process.
THEOREM NoDirtyReads == Spec => []OnlyCommittedIsSeen
<1>1. IInv => OnlyCommittedIsSeen
  BY DEF IInv, RowInv, ResultInv, Candidate, CommittedBy, OnlyCommittedIsSeen
<1> QED
  BY <1>1, Invariance, PTL

\* The stored source always tells how the classification was obtained, for any
\* limit of attempts and any sequence of provider failures.
THEOREM HonestSource == Spec => []SourceIsHonest
<1>1. IInv => SourceIsHonest
  <2> SUFFICES ASSUME IInv, NEW e \in Emails, table[e] # NoRow
               PROVE  table[e].source \in AllowedSources(e) /\ Explains(table[e].by)
    BY DEF SourceIsHonest
  <2> QED
    BY DEF IInv, RowInv, Candidate
<1> QED
  BY <1>1, Invariance, PTL

\* A request that finds its e-mail classified on arrival never calls the
\* provider and never writes.
THEOREM FreeReuse == Spec => []ReuseIsFree
<1>1. IInv => ReuseIsFree
  <2> SUFFICES ASSUME IInv, NEW r \in Requests, Reusing(r)
               PROVE  /\ calls[r] = << >>
                      /\ \A e \in Emails : lock[e] # r /\ (table[e] # NoRow => table[e].by # r)
    BY DEF ReuseIsFree, Reusing
  <2>1. calls[r] = << >>
    BY DEF IInv, RequestInv
  <2>2. ASSUME NEW e \in Emails PROVE lock[e] # r /\ (table[e] # NoRow => table[e].by # r)
    BY DEF IInv, LockInv, RowInv, Candidate
  <2> QED
    BY <2>1, <2>2
<1> QED
  BY <1>1, Invariance, PTL

-------------------------------------------------------------------------------

\* The empty table is the empty register.
LEMMA RegisterInit == Init => Register!Init
BY DEF Init, Register!Init, Finished

\* A step that leaves the table alone only ends requests, if that.
LEMMA SilentStep ==
    ASSUME table' = table,
           \A r \in Requests : pc[r] \in Finished => pc'[r] \in Finished
    PROVE  [Register!Next]_(Register!vars)
<1> DEFINE R == {r \in Requests : pc'[r] \in Finished /\ pc[r] \notin Finished}
<1>1. Register!EndSilently(R)
  BY DEF Register!EndSilently
<1> QED
  BY <1>1 DEF Register!Next, Register!EndSilently

\* A commit that holds its row replaces it; any other step ends a request
\* silently or is not seen by the register.
LEMMA RegisterStep == IInv /\ IInv' /\ [Next]_vars => [Register!Next]_(Register!vars)
<1> SUFFICES ASSUME IInv, IInv', [Next]_vars PROVE [Register!Next]_(Register!vars)
  OBVIOUS
<1>0. TypeOK
  BY DEF IInv
<1>1. CASE \E r \in Requests : Commit(r)
  <2>1. PICK r \in Requests : Commit(r)
    BY <1>1
  <2>2. /\ pc[r] = "commit" /\ pc'[r] = "done"
        /\ \A q \in Requests : q # r => pc'[q] = pc[q]
        /\ table' = [e \in Emails |-> IF lock[e] = r THEN RowOf(r) ELSE table[e]]
    BY <1>0, <2>1 DEF Commit, Goto, TypeOK
  <2>3. {q \in Requests : pc'[q] \in Finished} = {q \in Requests : pc[q] \in Finished} \cup {r}
    BY <2>2 DEF Finished
  <2>4. r \notin {q \in Requests : pc[q] \in Finished}
    BY <2>2 DEF Finished
  <2>5. CASE \E e \in Emails : lock[e] = r
    <3>1. PICK e \in Emails : lock[e] = r
      BY <2>5
    <3>2. mail[r] = e /\ Candidate(r)
      BY <3>1 DEF IInv, LockInv
    <3>3. \A f \in Emails : lock[f] = r => f = e
      BY <3>2 DEF IInv, LockInv
    <3>4. table' = [table EXCEPT ![e] = [source |-> source[r], by |-> r]]
      BY <1>0, <2>2, <3>1, <3>3 DEF RowOf, TypeOK
    <3>5. e \in Stored /\ source[r] \in Register!AllowedSources(e)
      BY <3>2, SettingsAssumption
         DEF Candidate, AllowedSources, NeedsAi, Register!AllowedSources
    <3>6. Register!Replace(r, e, source[r])
      BY <2>3, <2>4, <3>4 DEF Register!Replace
    <3> QED
      BY <3>5, <3>6 DEF Register!Next, Register!Replace
  <2>6. CASE ~ \E e \in Emails : lock[e] = r
    <3>1. table' = table
      BY <1>0, <2>2, <2>6 DEF TypeOK
    <3> QED
      BY <2>2, <3>1, SilentStep DEF Finished
  <2> QED
    BY <2>5, <2>6
<1>2. CASE ~ \E r \in Requests : Commit(r)
  <2>1. table' = table
    BY <1>2 DEF Next, Serve, Arrive, ReuseExisting, NoExisting, ApplyRules, EmailNotFound,
                AskProvider, Upsert, Reply, DatabaseError, Crash, Quiescent, vars
  <2>2. ASSUME NEW q \in Requests, pc[q] \in Finished PROVE pc'[q] = pc[q]
    BY <1>0, <1>2, <2>2
       DEF Next, Serve, Arrive, ReuseExisting, NoExisting, ApplyRules, EmailNotFound,
           AskProvider, Upsert, Reply, DatabaseError, Crash, Quiescent, vars, Goto,
           Active, Finished, TypeOK
  <2> QED
    BY <2>1, <2>2, SilentStep
<1> QED
  BY <1>1, <1>2

\* The component implements the register it promises.
THEOREM Refinement == Spec => ImplementsRegister
BY RegisterInit, RegisterStep, Invariance, PTL DEF Spec, ImplementsRegister, Register!Spec
===============================================================================
