---------------------------- MODULE ApiServerProofs ----------------------------
(***************************************************************************)
(* What ApiServer guarantees for every finite set of requests, every size  *)
(* of the pool, and however often PostgreSQL goes away or the process      *)
(* dies.                                                                   *)
(*                                                                         *)
(* The invariant ties a connection to the step its request is at, and each *)
(* connection to the states of PostgreSQL its request has lived through.   *)
(***************************************************************************)
EXTENDS ApiServer, FiniteSetTheorems, SequenceTheorems, TLAPS

Holders == {r \in Requests : conn[r] # "none"}

\* A request holds a connection from its checkout to its end, got it while
\* PostgreSQL was up, and has seen the outage that broke it.
HolderInv(r) ==
    /\ conn[r] # "none" <=> pc[r] \in {"select", "work", "commit"}
    /\ conn[r] # "none" => r \in sawUp
    /\ conn[r] = "dead" => r \in sawDown

\* What an active request has seen of PostgreSQL includes how it is now.
SeenInv(r) ==
    /\ app = "starting" => ~Active(r)
    /\ Active(r) => r \in IF up THEN sawUp ELSE sawDown

\* Each endpoint goes its own way: /ready ends with its SELECT, the others with
\* a commit behind a 200.
WayInv(r) ==
    /\ pc[r] = "select" => kind[r] = "ready"
    /\ pc[r] \in {"work", "commit"} => kind[r] = "session"
    /\ pc[r] = "commit" => status[r] = 200
    /\ r \in kept => pc[r] \in Ended

\* What the safety properties say of r.
PromiseInv(r) ==
    /\ cause[r] = "lost" => r \in sawDown
    /\ kind[r] = "ready" /\ status[r] = 200 => r \in sawUp
    /\ pc[r] \notin Ended => cause[r] = "none"
    /\ r \in kept => status[r] = 200
    /\ pc[r] \in Ended /\ kind[r] = "session" /\ status[r] = 200 /\ cause[r] = "none" =>
           r \in kept

RequestInv(r) == HolderInv(r) /\ SeenInv(r) /\ WayInv(r) /\ PromiseInv(r)

IInv ==
    /\ TypeOK
    /\ \A r \in Requests : RequestInv(r)

-------------------------------------------------------------------------------
(* Types, and the limits of the pool. *)

\* The server has not started: nobody holds a connection.
THEOREM InitInv == Init => IInv
<1> SUFFICES ASSUME Init PROVE IInv
  OBVIOUS
<1>1. Made = 0
  <2>1. {r \in Requests : conn[r] # "none"} = {} /\ Len(idle) = 0
    BY DEF Init
  <2> QED
    BY <2>1, FS_EmptySet DEF Made
<1>2. TypeOK
  BY <1>1, PoolAssumption DEF Init, TypeOK, Capacity, Statuses, Unanswered, Ended
<1> QED
  BY <1>2 DEF Init, IInv, RequestInv, HolderInv, SeenInv, WayInv, PromiseInv, Active,
              Unanswered, Ended

\* The holders of connections are among the finitely many requests.
LEMMA HoldersFinite == IsFiniteSet(Holders) /\ Cardinality(Holders) \in Nat
BY PoolAssumption, FS_Subset, FS_CardinalityType DEF Holders

\* A request takes a connection.
LEMMA TakeOne ==
    ASSUME TypeOK, NEW r \in Requests, conn[r] = "none", conn' = [conn EXCEPT ![r] = "live"]
    PROVE  Cardinality(Holders') = Cardinality(Holders) + 1
<1>1. Holders' = Holders \cup {r} /\ r \notin Holders
  BY DEF Holders, TypeOK
<1>2. Cardinality(Holders \cup {r}) = Cardinality(Holders) + 1
  BY <1>1, HoldersFinite, FS_AddElement
<1> QED
  BY <1>1, <1>2

\* A request gives its connection back.
LEMMA ReturnOne ==
    ASSUME TypeOK, NEW r \in Requests, conn[r] # "none", conn' = [conn EXCEPT ![r] = "none"]
    PROVE  Cardinality(Holders') \in Nat /\ Cardinality(Holders') + 1 = Cardinality(Holders)
<1>1. Holders' = Holders \ {r} /\ r \in Holders
  BY DEF Holders, TypeOK
<1>2. /\ Cardinality(Holders \ {r}) = Cardinality(Holders) - 1
      /\ Cardinality(Holders \ {r}) \in Nat
  BY <1>1, HoldersFinite, FS_RemoveElement, FS_CardinalityType
<1> QED
  BY <1>1, <1>2, HoldersFinite

\* What TypeOK says of the pool.
PoolOK ==
    /\ idle \in Seq({"live", "dead"}) /\ Len(idle) <= PoolSize
    /\ conn \in [Requests -> {"none", "live", "dead"}]
    /\ Made <= Capacity

\* The connection that comes back is queued or closed: the pool gets no larger.
LEMMA ReleasePool ==
    ASSUME TypeOK, NEW r \in Requests, Release(r)
    PROVE  PoolOK'
<1>1. /\ idle \in Seq({"live", "dead"}) /\ Len(idle) \in Nat /\ Len(idle) <= PoolSize
      /\ Len(idle) + Cardinality(Holders) <= PoolSize + MaxOverflow
      /\ conn[r] \in {"none", "live", "dead"}
  BY LenProperties DEF TypeOK, Made, Holders, Capacity
<1>2. conn' \in [Requests -> {"none", "live", "dead"}]
  BY DEF Release, GiveBack, TypeOK
<1>3. CASE conn[r] = "none"
  <2>1. conn' = conn /\ idle' = idle
    BY <1>3 DEF Release, GiveBack, TypeOK
  <2> QED
    BY <2>1 DEF TypeOK, PoolOK, Made
<1>4. CASE conn[r] # "none"
  <2>1. Cardinality(Holders') \in Nat /\ Cardinality(Holders') + 1 = Cardinality(Holders)
    BY <1>4, ReturnOne DEF Release, GiveBack
  <2>2. /\ idle' \in Seq({"live", "dead"}) /\ Len(idle') \in Nat
        /\ Len(idle') <= Len(idle) + 1 /\ Len(idle') <= PoolSize
    <3>1. idle' = IF Len(idle) < PoolSize THEN Append(idle, conn[r]) ELSE idle
      BY <1>4 DEF Release, GiveBack
    <3>2. /\ Append(idle, conn[r]) \in Seq({"live", "dead"})
          /\ Len(Append(idle, conn[r])) = Len(idle) + 1
      BY <1>1, <1>4, AppendProperties
    <3> QED
      BY <1>1, <3>1, <3>2, PoolAssumption
  <2>3. Len(idle') + Cardinality(Holders') <= PoolSize + MaxOverflow
    BY <1>1, <2>1, <2>2, HoldersFinite, PoolAssumption
  <2> QED
    BY <1>2, <2>2, <2>3 DEF PoolOK, Made, Holders, Capacity
<1> QED
  BY <1>3, <1>4

\* An idle connection changes hands, or a new one is made where there is room.
LEMMA CheckoutPool ==
    ASSUME TypeOK, NEW r \in Requests, conn[r] = "none", Checkout(r)
    PROVE  PoolOK'
<1>1. /\ idle \in Seq({"live", "dead"}) /\ Len(idle) \in Nat /\ Len(idle) <= PoolSize
      /\ Len(idle) + Cardinality(Holders) <= PoolSize + MaxOverflow
      /\ idle = <<>> => Len(idle) + Cardinality(Holders) < PoolSize + MaxOverflow
  BY LenProperties DEF TypeOK, Made, Holders, Capacity, Checkout, Available
<1>2. idle # <<>> => /\ Tail(idle) \in Seq({"live", "dead"})
                     /\ Len(Tail(idle)) \in Nat /\ Len(Tail(idle)) + 1 = Len(idle)
  BY <1>1, HeadTailProperties, EmptySeq, LenProperties
<1>3. Cardinality(Holders) \in Nat /\ PoolSize \in Nat /\ MaxOverflow \in Nat
  BY HoldersFinite, PoolAssumption
<1>4. CASE up
  <2>1. conn' = [conn EXCEPT ![r] = "live"] /\ idle' = IF idle # <<>> THEN Tail(idle) ELSE idle
    BY <1>4 DEF Checkout
  <2>2. Cardinality(Holders') = Cardinality(Holders) + 1
    BY <2>1, TakeOne
  <2>3. conn' \in [Requests -> {"none", "live", "dead"}]
    BY <2>1 DEF TypeOK
  <2>4. /\ idle' \in Seq({"live", "dead"}) /\ Len(idle') <= PoolSize
        /\ Len(idle') + Cardinality(Holders') <= PoolSize + MaxOverflow
    BY <1>1, <1>2, <1>3, <2>1, <2>2
  <2> QED
    BY <2>3, <2>4 DEF PoolOK, Made, Holders, Capacity
<1>5. CASE ~up
  <2>1. conn' = conn /\ idle' = IF idle # <<>> THEN Append(Tail(idle), "dead") ELSE idle
    BY <1>5 DEF Checkout
  <2>2. idle' \in Seq({"live", "dead"}) /\ Len(idle') = Len(idle)
    BY <1>1, <1>2, <2>1, AppendProperties
  <2> QED
    BY <2>1, <2>2 DEF TypeOK, PoolOK, Made
<1> QED
  BY <1>4, <1>5

\* An outage breaks connections, and loses none.
LEMMA OutagePool == TypeOK /\ DatabaseDown => PoolOK'
<1> SUFFICES ASSUME TypeOK, DatabaseDown PROVE PoolOK'
  OBVIOUS
<1>1. /\ idle' = [i \in 1..Len(idle) |-> "dead"] /\ Len(idle) \in Nat
      /\ conn' = [r \in Requests |-> IF conn[r] = "live" THEN "dead" ELSE conn[r]]
  BY LenProperties DEF DatabaseDown, TypeOK
<1>2. idle' \in Seq({"live", "dead"}) /\ Len(idle') = Len(idle)
  BY <1>1, SeqDef, LenProperties
<1>3. {r \in Requests : conn'[r] # "none"} = {r \in Requests : conn[r] # "none"}
  BY <1>1
<1> QED
  BY <1>1, <1>2, <1>3 DEF TypeOK, PoolOK, Made

\* Starting fills the pool with one connection at most, disposing empties it.
LEMMA RefillPool ==
    ASSUME IInv, Started \/ Dispose
    PROVE  PoolOK'
<1>0. TypeOK
  BY DEF IInv
<1>1. CASE Started
  <2>1. \A r \in Requests : conn[r] = "none"
    BY <1>0, <1>1 DEF IInv, RequestInv, HolderInv, SeenInv, Started, Active, Ended
  <2>2. {r \in Requests : conn[r] # "none"} = {}
    BY <2>1
  <2>3. conn' = conn /\ idle' \in Seq({"live", "dead"}) /\ Len(idle') \in 0..1
    <3>1. conn' = conn /\ (idle' = <<"live">> \/ idle' = <<>>)
      BY <1>1 DEF Started
    <3>2. ASSUME idle' = <<"live">> PROVE idle' \in Seq({"live", "dead"}) /\ Len(idle') \in 0..1
      BY <3>2
    <3>3. ASSUME idle' = <<>> PROVE idle' \in Seq({"live", "dead"}) /\ Len(idle') \in 0..1
      BY <3>3, EmptySeq
    <3> QED
      BY <3>1, <3>2, <3>3, Zenon
  <2>4. Made' = Len(idle')
    <3>1. {r \in Requests : conn'[r] # "none"} = {}
      BY <2>2, <2>3
    <3>2. Made' = Len(idle') + Cardinality({})
      BY <3>1 DEF Made
    <3> QED
      BY <2>3, <3>2, FS_EmptySet
  <2>5. conn \in [Requests -> {"none", "live", "dead"}]
    BY <1>0 DEF TypeOK
  <2>6. 1 <= PoolSize /\ 1 <= Capacity
    BY PoolAssumption DEF Capacity
  <2>7. Len(idle') <= PoolSize /\ Made' <= Capacity
    BY <2>3, <2>4, <2>6, PoolAssumption DEF Capacity
  <2> QED
    BY <2>3, <2>5, <2>7 DEF PoolOK, Capacity
<1>2. CASE Dispose
  <2>1. conn' = conn /\ idle' = <<>> /\ Len(idle') = 0 /\ Len(idle) \in Nat
    BY <1>0, <1>2, LenProperties DEF Dispose, TypeOK
  <2>2. Cardinality(Holders) \in Nat /\ Len(idle) + Cardinality(Holders) <= Capacity
    BY <1>0, HoldersFinite DEF TypeOK, Made, Holders
  <2>3. Made' <= Capacity
    BY <2>1, <2>2, PoolAssumption DEF Made, Holders, Capacity
  <2> QED
    BY <1>0, <2>1, <2>3, PoolAssumption DEF PoolOK, TypeOK
<1> QED
  BY <1>1, <1>2

\* A process that dies takes its pool with it.
LEMMA CrashPool == Crash => PoolOK'
<1> SUFFICES ASSUME Crash PROVE PoolOK'
  OBVIOUS
<1>1. idle' = <<>> /\ conn' = [r \in Requests |-> "none"]
  BY DEF Crash
<1>2. {r \in Requests : conn'[r] # "none"} = {} /\ Len(idle') = 0
  BY <1>1
<1>3. Made' = 0
  BY <1>2, FS_EmptySet DEF Made
<1> QED
  BY <1>1, <1>2, <1>3, EmptySeq, PoolAssumption DEF PoolOK, Capacity

\* Every exception has a status of its own: none is answered with a 200.
LEMMA ErrorStatusType == \A e : ErrorStatus(e) \in Statuses \ {200, Unanswered}
BY DEF ErrorStatus, Statuses, Unanswered

\* What TypeOK says of everything else.
RestOK ==
    /\ app \in {"starting", "serving", "stopping", "stopped"}
    /\ up \in BOOLEAN /\ outages \in 0..MaxOutages
    /\ pc \in [Requests -> {"idle", "wait", "select", "work", "commit"} \cup Ended]
    /\ kind \in [Requests -> Kinds]
    /\ status \in [Requests -> Statuses \cup {Unanswered}]
    /\ \A r \in Requests : pc[r] \in {"commit", "ended"} => status[r] # Unanswered
    /\ \A r \in Requests : status[r] # Unanswered => pc[r] \in {"commit"} \cup Ended
    /\ cause \in [Requests -> {"none", "lost", "timeout", "refused", "crash"}]
    /\ kept \subseteq Requests
    /\ sawUp \subseteq Requests /\ sawDown \subseteq Requests

\* A request that ends has an answer.
LEMMA EndOK ==
    ASSUME RestOK, NEW r \in Requests, NEW answer \in Statuses \ {Unanswered}, End(r, answer)
    PROVE  /\ pc' \in [Requests -> {"idle", "wait", "select", "work", "commit"} \cup Ended]
           /\ status' \in [Requests -> Statuses \cup {Unanswered}]
           /\ \A q \in Requests : pc'[q] \in {"commit", "ended"} => status'[q] # Unanswered
           /\ \A q \in Requests : status'[q] # Unanswered => pc'[q] \in {"commit"} \cup Ended
BY DEF RestOK, End, Ended

\* So has one that a lost connection or a full pool ends.
LEMMA FailOK ==
    ASSUME RestOK, NEW r \in Requests, NEW why \in {"lost", "timeout"}, Fail(r, why)
    PROVE  /\ pc' \in [Requests -> {"idle", "wait", "select", "work", "commit"} \cup Ended]
           /\ status' \in [Requests -> Statuses \cup {Unanswered}]
           /\ \A q \in Requests : pc'[q] \in {"commit", "ended"} => status'[q] # Unanswered
           /\ \A q \in Requests : status'[q] # Unanswered => pc'[q] \in {"commit"} \cup Ended
           /\ cause' \in [Requests -> {"none", "lost", "timeout", "refused", "crash"}]
<1>1. DatabaseFailure(r) \in Statuses \ {Unanswered}
  BY DEF DatabaseFailure, Statuses, Unanswered
<1>2. End(r, DatabaseFailure(r))
  BY DEF Fail
<1>3. cause' \in [Requests -> {"none", "lost", "timeout", "refused", "crash"}]
  BY DEF Fail, RestOK
<1> QED
  BY <1>1, <1>2, <1>3, EndOK

\* Every action of the server keeps the types, and the pool its limit.
LEMMA TypeStep == IInv /\ [Next]_vars => TypeOK'
<1> SUFFICES ASSUME IInv, [Next]_vars PROVE TypeOK'
  OBVIOUS
<1>0. TypeOK /\ PoolOK /\ RestOK
  BY DEF IInv, TypeOK, PoolOK, RestOK
<1>q. PoolOK' /\ RestOK' => TypeOK'
  BY DEF TypeOK, PoolOK, RestOK
<1>p. UNCHANGED poolVars => PoolOK'
  BY <1>0 DEF poolVars, PoolOK, Made
<1> USE <1>0 DEF databaseVars, poolVars, historyVars
<1>1. ASSUME Started \/ Stop \/ Dispose PROVE TypeOK'
  <2>1. RestOK'
    BY <1>1 DEF Started, Stop, Dispose, RestOK
  <2> QED
    BY <1>1, <1>p, <1>q, <2>1, RefillPool DEF Stop
<1>2. ASSUME DatabaseDown PROVE TypeOK'
  <2>1. RestOK'
    <3>1. outages' \in 0..MaxOutages
      BY <1>2, PoolAssumption DEF DatabaseDown, RestOK
    <3>2. sawDown' \subseteq Requests
      BY <1>2 DEF DatabaseDown, RestOK
    <3> QED
      BY <1>2, <3>1, <3>2 DEF DatabaseDown, RestOK
  <2> QED
    BY <1>2, <1>q, <2>1, OutagePool
<1>3. ASSUME DatabaseUp PROVE TypeOK'
  BY <1>3, <1>p, <1>q DEF DatabaseUp, RestOK
<1>4. ASSUME NEW r \in Requests, Arrive(r) PROVE TypeOK'
  <2>1. RestOK'
    BY <1>4 DEF Arrive, RestOK, Ended
  <2> QED
    BY <1>4, <1>p, <1>q, <2>1 DEF Arrive
<1>5. ASSUME NEW r \in Requests, Checkout(r) PROVE TypeOK'
  <2>1. conn[r] = "none"
    BY <1>5 DEF IInv, RequestInv, HolderInv, Checkout, Waiting
  <2>2. RestOK'
    <3>1. CASE up
      BY <1>5, <3>1 DEF Checkout, Begun, Waiting, RestOK, Ended
    <3>2. CASE ~up
      BY <1>5, <3>2, FailOK DEF Checkout, RestOK
    <3> QED
      BY <3>1, <3>2
  <2> QED
    BY <1>5, <1>q, <2>1, <2>2, CheckoutPool
<1>6. ASSUME NEW r \in Requests, PoolTimeout(r) PROVE TypeOK'
  <2>1. RestOK'
    BY <1>6, FailOK DEF PoolTimeout, RestOK
  <2> QED
    BY <1>6, <1>p, <1>q, <2>1 DEF PoolTimeout
<1>7. ASSUME NEW r \in Requests, SelectOne(r) PROVE TypeOK'
  <2>1. RestOK'
    <3>1. CASE conn[r] = "live"
      <4>1. 200 \in Statuses \ {Unanswered}
        BY DEF Statuses, Unanswered
      <4>2. End(r, 200) /\ UNCHANGED <<cause, app, databaseVars, kind, kept, historyVars>>
        BY <1>7, <3>1 DEF SelectOne
      <4> QED
        BY <4>1, <4>2, EndOK DEF RestOK
    <3>2. CASE conn[r] # "live"
      BY <1>7, <3>2, FailOK DEF SelectOne, RestOK
    <3> QED
      BY <3>1, <3>2
  <2> QED
    BY <1>7, <1>q, <2>1, ReleasePool DEF SelectOne
<1>8. ASSUME NEW r \in Requests, Refuse(r) PROVE TypeOK'
  <2>1. PICK e : End(r, ErrorStatus(e))
    BY <1>8 DEF Refuse
  <2>2. RestOK'
    BY <1>8, <2>1, EndOK, ErrorStatusType DEF Refuse, RestOK
  <2> QED
    BY <1>8, <1>p, <1>q, <2>2 DEF Refuse
<1>9. ASSUME NEW r \in Requests, Raise(r) PROVE TypeOK'
  <2>1. PICK e : End(r, ErrorStatus(e))
    BY <1>9 DEF Raise
  <2>2. RestOK'
    BY <1>9, <2>1, EndOK, ErrorStatusType DEF Raise, RestOK
  <2> QED
    BY <1>9, <1>q, <2>2, ReleasePool DEF Raise
<1>10. ASSUME NEW r \in Requests, StatementFails(r) PROVE TypeOK'
  <2>1. RestOK'
    BY <1>10, FailOK DEF StatementFails, RestOK
  <2> QED
    BY <1>10, <1>q, <2>1, ReleasePool DEF StatementFails
<1>11. ASSUME NEW r \in Requests, Answer(r) PROVE TypeOK'
  <2>1. RestOK'
    BY <1>11 DEF Answer, RestOK, Statuses, Unanswered, Ended
  <2> QED
    BY <1>11, <1>p, <1>q, <2>1 DEF Answer
<1>12. ASSUME NEW r \in Requests, Commit(r) PROVE TypeOK'
  <2>1. RestOK'
    BY <1>12 DEF Commit, RestOK, Ended
  <2> QED
    BY <1>12, <1>q, <2>1, ReleasePool DEF Commit
<1>13. ASSUME NEW r \in Requests, CommitFails(r) PROVE TypeOK'
  <2>1. RestOK'
    BY <1>13 DEF CommitFails, RestOK, Ended
  <2> QED
    BY <1>13, <1>q, <2>1, ReleasePool DEF CommitFails
<1>14. ASSUME Crash PROVE TypeOK'
  <2>1. RestOK'
    BY <1>14 DEF Crash, RestOK, Active, Ended
  <2> QED
    BY <1>14, <1>q, <2>1, CrashPool
<1>15. CASE UNCHANGED vars
  BY <1>15, <1>p, <1>q DEF vars, RestOK
<1> QED
  BY <1>1, <1>2, <1>3, <1>4, <1>5, <1>6, <1>7, <1>8, <1>9, <1>10, <1>11, <1>12, <1>13,
     <1>14, <1>15 DEF Next, Serve, Quiescent

-------------------------------------------------------------------------------
(* Requests. *)

\* Nothing happens to a request, and PostgreSQL stays as it is.
LEMMA RequestFrame ==
    ASSUME NEW q \in Requests, RequestInv(q),
           UNCHANGED <<up, conn[q], pc[q], kind[q], status[q], cause[q]>>,
           app' = "starting" => app = "starting",
           q \in kept' <=> q \in kept,
           q \in sawUp' <=> q \in sawUp,
           q \in sawDown' <=> q \in sawDown
    PROVE  RequestInv(q)'
BY DEF RequestInv, HolderInv, SeenInv, WayInv, PromiseInv, Active

\* A request that ends with anything but a 200 holds no connection and keeps
\* nothing, and has lived through the outage that made it fail.
LEMMA EndStep ==
    ASSUME IInv, NEW q \in Requests, pc[q] \in {"wait", "select", "work"},
           pc'[q] = "ended", conn'[q] = "none", status'[q] # 200,
           cause'[q] = "lost" => q \in sawDown,
           UNCHANGED <<app, kept, sawUp, sawDown>>
    PROVE  RequestInv(q)'
<1>1. q \notin kept /\ app # "starting"
  BY DEF IInv, RequestInv, WayInv, SeenInv, Active, Ended
<1> QED
  BY <1>1 DEF RequestInv, HolderInv, SeenInv, WayInv, PromiseInv, Active, Ended

\* The step of one request.
LEMMA RequestStep ==
    ASSUME IInv, [Next]_vars, NEW q \in Requests
    PROVE  RequestInv(q)'
<1>0. TypeOK /\ RequestInv(q) /\ app \in {"starting", "serving", "stopping", "stopped"}
  BY DEF IInv, TypeOK
<1>a. Active(q) => q \in IF up THEN sawUp ELSE sawDown
  BY <1>0 DEF RequestInv, SeenInv
<1> USE DEF databaseVars, poolVars, historyVars
<1>1. ASSUME Started \/ Stop \/ Dispose PROVE RequestInv(q)'
  BY <1>0, <1>1, RequestFrame DEF Started, Stop, Dispose
<1>2. ASSUME DatabaseDown PROVE RequestInv(q)'
  <2>1. /\ up /\ up' = FALSE /\ UNCHANGED <<app, pc, kind, status, kept, cause, sawUp>>
        /\ conn'[q] = IF conn[q] = "live" THEN "dead" ELSE conn[q]
        /\ q \in sawDown' <=> q \in sawDown \/ Active(q)
    BY <1>2 DEF DatabaseDown
  <2> QED
    BY <1>0, <2>1 DEF RequestInv, HolderInv, SeenInv, WayInv, PromiseInv, Active, Ended
<1>3. ASSUME DatabaseUp PROVE RequestInv(q)'
  <2>1. /\ up' = TRUE /\ UNCHANGED <<app, conn, pc, kind, status, kept, cause, sawDown>>
        /\ q \in sawUp' <=> q \in sawUp \/ Active(q)
    BY <1>3 DEF DatabaseUp
  <2> QED
    BY <1>0, <2>1 DEF RequestInv, HolderInv, SeenInv, WayInv, PromiseInv, Active
<1>4. ASSUME NEW r \in Requests, r # q,
             \/ Arrive(r) \/ Checkout(r) \/ PoolTimeout(r) \/ SelectOne(r) \/ Refuse(r)
             \/ Raise(r) \/ StatementFails(r) \/ Answer(r) \/ Commit(r) \/ CommitFails(r)
      PROVE  RequestInv(q)'
  <2>1. UNCHANGED <<app, up, conn[q], pc[q], kind[q], status[q], cause[q]>>
    BY <1>0, <1>4 DEF TypeOK, Arrive, Checkout, PoolTimeout, SelectOne, Refuse, Raise,
             StatementFails, Answer, Commit, CommitFails, Fail, End, Release, GiveBack
  <2>2. /\ q \in kept' <=> q \in kept
        /\ q \in sawUp' <=> q \in sawUp
        /\ q \in sawDown' <=> q \in sawDown
    BY <1>4 DEF Arrive, Checkout, PoolTimeout, SelectOne, Refuse, Raise,
             StatementFails, Answer, Commit, CommitFails
  <2> QED
    BY <1>0, <2>1, <2>2, RequestFrame
<1>5. ASSUME Arrive(q) PROVE RequestInv(q)'
  <2>1. /\ app = "serving" /\ pc[q] = "idle" /\ pc'[q] = "wait"
        /\ q \in IF up' THEN sawUp' ELSE sawDown'
        /\ q \in sawUp => q \in sawUp'
        /\ q \in sawDown => q \in sawDown'
        /\ UNCHANGED <<app, conn, kind, status, kept, cause>>
    BY <1>0, <1>5 DEF Arrive, TypeOK
  <2> QED
    BY <1>0, <2>1 DEF RequestInv, HolderInv, SeenInv, WayInv, PromiseInv, Active, Ended
<1>6. ASSUME Checkout(q), up PROVE RequestInv(q)'
  <2>1. /\ pc[q] = "wait" /\ pc'[q] = Begun(q) /\ conn'[q] = "live"
        /\ UNCHANGED <<app, up, kind, status, kept, cause, sawUp, sawDown>>
    BY <1>0, <1>6 DEF Checkout, Waiting, TypeOK
  <2>2. q \in sawUp /\ kind[q] \in Kinds
    BY <1>0, <1>a, <1>6, <2>1 DEF Active, Ended, TypeOK
  <2> QED
    BY <1>0, <2>1, <2>2
       DEF RequestInv, HolderInv, SeenInv, WayInv, PromiseInv, Active, Begun, Kinds, Ended
<1>b. ASSUME NEW why \in {"lost", "timeout"}, Fail(q, why),
             pc[q] \in {"wait", "select", "work"}, conn'[q] = "none",
             why = "lost" => q \in sawDown,
             UNCHANGED <<app, kept, sawUp, sawDown>>
      PROVE  RequestInv(q)'
  <2>1. /\ pc'[q] = "ended" /\ status'[q] = DatabaseFailure(q) /\ cause'[q] = why
    BY <1>0, <1>b DEF Fail, End, TypeOK
  <2>2. status'[q] # 200
    BY <2>1 DEF DatabaseFailure
  <2> QED
    BY <1>b, <2>1, <2>2, EndStep
<1>7. ASSUME Checkout(q), ~up PROVE RequestInv(q)'
  <2>1. /\ Fail(q, "lost") /\ pc[q] = "wait" /\ conn' = conn
        /\ UNCHANGED <<app, kept, sawUp, sawDown>>
    BY <1>7 DEF Checkout, Waiting
  <2>2. conn'[q] = "none" /\ q \in sawDown
    BY <1>0, <1>a, <1>7, <2>1 DEF TypeOK, RequestInv, HolderInv, Active, Ended
  <2> QED
    BY <1>b, <2>1, <2>2
<1>8. ASSUME PoolTimeout(q) PROVE RequestInv(q)'
  <2>1. /\ Fail(q, "timeout") /\ pc[q] = "wait" /\ conn' = conn
        /\ UNCHANGED <<app, kept, sawUp, sawDown>>
    BY <1>8 DEF PoolTimeout, Waiting
  <2>2. conn'[q] = "none"
    BY <1>0, <2>1 DEF TypeOK, RequestInv, HolderInv
  <2> QED
    BY <1>b, <2>1, <2>2
<1>9. ASSUME (SelectOne(q) /\ conn[q] # "live") \/ StatementFails(q) PROVE RequestInv(q)'
  <2>1. /\ Fail(q, "lost") /\ pc[q] \in {"select", "work"} /\ conn[q] # "live"
        /\ UNCHANGED <<app, kept, sawUp, sawDown>>
    BY <1>9 DEF SelectOne, StatementFails
  <2>2. conn'[q] = "none"
    BY <1>0, <1>9 DEF SelectOne, StatementFails, Release, GiveBack, TypeOK
  <2>3. conn[q] = "dead" /\ q \in sawDown
    BY <1>0, <2>1 DEF TypeOK, RequestInv, HolderInv
  <2> QED
    BY <1>b, <2>1, <2>2, <2>3
<1>10. ASSUME Refuse(q) \/ Raise(q) PROVE RequestInv(q)'
  <2>1. PICK e : End(q, ErrorStatus(e))
    BY <1>10 DEF Refuse, Raise
  <2>2. pc'[q] = "ended" /\ status'[q] # 200
    BY <1>0, <2>1, ErrorStatusType DEF End, TypeOK
  <2>3. /\ pc[q] \in {"wait", "work"} /\ cause' = cause
        /\ UNCHANGED <<app, kept, sawUp, sawDown>>
    BY <1>10 DEF Refuse, Raise, Waiting
  <2>4. conn'[q] = "none"
    BY <1>0, <1>10
       DEF Refuse, Raise, Waiting, Release, GiveBack, TypeOK, RequestInv, HolderInv
  <2> QED
    BY <1>0, <2>2, <2>3, <2>4, EndStep DEF RequestInv, PromiseInv
<1>11. ASSUME SelectOne(q), conn[q] = "live" PROVE RequestInv(q)'
  <2>1. /\ pc[q] = "select" /\ pc'[q] = "ended" /\ conn'[q] = "none" /\ status'[q] = 200
        /\ UNCHANGED <<app, up, kind, kept, cause, sawUp, sawDown>>
    BY <1>0, <1>11 DEF SelectOne, End, Release, GiveBack, TypeOK
  <2> QED
    BY <1>0, <1>11, <2>1 DEF RequestInv, HolderInv, SeenInv, WayInv, PromiseInv, Active, Ended
<1>12. ASSUME Answer(q) PROVE RequestInv(q)'
  <2>1. /\ pc[q] = "work" /\ pc'[q] = "commit" /\ status'[q] = 200
        /\ UNCHANGED <<app, up, conn, kind, kept, cause, sawUp, sawDown>>
    BY <1>0, <1>12 DEF Answer, TypeOK
  <2> QED
    BY <1>0, <2>1 DEF RequestInv, HolderInv, SeenInv, WayInv, PromiseInv, Active, Ended
<1>13. ASSUME Commit(q) PROVE RequestInv(q)'
  <2>1. /\ pc[q] = "commit" /\ pc'[q] = "ended" /\ conn'[q] = "none" /\ q \in kept'
        /\ UNCHANGED <<app, up, kind, status, cause, sawUp, sawDown>>
    BY <1>0, <1>13 DEF Commit, Release, GiveBack, TypeOK
  <2> QED
    BY <1>0, <2>1 DEF RequestInv, HolderInv, SeenInv, WayInv, PromiseInv, Active, Ended
<1>14. ASSUME CommitFails(q) PROVE RequestInv(q)'
  <2>1. /\ pc[q] = "commit" /\ pc'[q] = "ended" /\ conn'[q] = "none"
        /\ cause'[q] = IF conn[q] = "live" THEN "refused" ELSE "lost"
        /\ UNCHANGED <<app, up, kind, status, kept, sawUp, sawDown>>
    BY <1>0, <1>14 DEF CommitFails, Release, GiveBack, TypeOK
  <2>2. conn[q] \in {"live", "dead"}
    BY <1>0, <2>1 DEF TypeOK, RequestInv, HolderInv
  <2> QED
    BY <1>0, <2>1, <2>2
       DEF RequestInv, HolderInv, SeenInv, WayInv, PromiseInv, Active, Ended
<1>15. ASSUME Crash PROVE RequestInv(q)'
  <2>1. /\ pc'[q] = IF Active(q) THEN "cut" ELSE pc[q]
        /\ cause'[q] = IF Active(q) THEN "crash" ELSE cause[q]
        /\ conn'[q] = "none"
        /\ UNCHANGED <<up, kind, status, kept, sawUp, sawDown>>
    BY <1>0, <1>15 DEF Crash
  <2> QED
    BY <1>0, <2>1 DEF RequestInv, HolderInv, SeenInv, WayInv, PromiseInv, Active, Ended
<1>16. CASE UNCHANGED vars
  BY <1>0, <1>16, RequestFrame DEF vars
<1> QED
  BY <1>0, <1>1, <1>2, <1>3, <1>4, <1>5, <1>6, <1>7, <1>8, <1>9, <1>10, <1>11, <1>12,
     <1>13, <1>14, <1>15, <1>16 DEF Next, Serve, Quiescent

-------------------------------------------------------------------------------
(* The theorems. *)

\* The invariant holds whatever the requests, the size of the pool and its overflow,
\* and however often PostgreSQL goes and comes back.
THEOREM Invariance == Spec => []IInv
<1>1. IInv /\ [Next]_vars => IInv'
  BY TypeStep, RequestStep DEF IInv
<1> QED
  BY <1>1, InitInv, PTL DEF Spec

\* Every variable stays in its type, a request is answered exactly from its
\* commit or its end on, and the pool never makes more connections than
\* database_pool_size and database_max_overflow allow.
THEOREM TypeCorrect == Spec => []TypeOK
<1>1. IInv => TypeOK
  BY DEF IInv
<1> QED
  BY <1>1, Invariance, PTL

\* However often PostgreSQL goes away, pool_pre_ping lets no request fail for an
\* outage that was over before it came.
THEOREM OutagesAreForgotten == Spec => []OutagesAreNotRemembered
<1>1. IInv => OutagesAreNotRemembered
  BY DEF IInv, RequestInv, PromiseInv, OutagesAreNotRemembered
<1> QED
  BY <1>1, Invariance, PTL

\* A probe answered "ready" found PostgreSQL up while it was served.
THEOREM ReadyIsTrue == Spec => []ReadyMeansUp
<1>1. IInv => ReadyMeansUp
  BY DEF IInv, RequestInv, PromiseInv, ReadyMeansUp
<1> QED
  BY <1>1, Invariance, PTL

\* A transaction is kept only behind a 200, and behind a 200 it is kept unless the
\* commit after the answer failed or the process died before it.
THEOREM AnswersAreTrue == Spec => []AnswerMatchesDatabase
<1>1. IInv => AnswerMatchesDatabase
  BY DEF IInv, RequestInv, WayInv, PromiseInv, AnswerMatchesDatabase
<1> QED
  BY <1>1, Invariance, PTL

\* No way out of a request leaks its connection.
THEOREM NoConnectionLeaks == Spec => []ConnectionsComeBack
<1>1. IInv => ConnectionsComeBack
  BY DEF IInv, TypeOK, RequestInv, HolderInv, ConnectionsComeBack, Active, Ended
<1> QED
  BY <1>1, Invariance, PTL
===============================================================================
