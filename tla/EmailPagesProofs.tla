--------------------------- MODULE EmailPagesProofs ---------------------------
(***************************************************************************)
(* What EmailPages guarantees for every finite mailbox, whatever the dates *)
(* of its e-mails, and every limit.                                        *)
(*                                                                         *)
(* Rows are only added, so the position of a row only grows: what a walk   *)
(* has not shown is still ahead of it, and what it shows twice has been    *)
(* pushed back by a newer row.                                             *)
(***************************************************************************)
EXTENDS EmailPages, FiniteSetTheorems, WellFoundedInduction, TLAPS

\* The rows of S before e, and how many they are.
Before(S, e) == {d \in S : Precedes(d, e)}

Walking == {"list", "count", "reply"}

\* What the walk has taken note of is committed.
StoredInv == atStart \subseteq stored /\ seen \subseteq stored /\ items \subseteq stored

\* What the walk must still show lies on this page or on a later one, and if it
\* lies on a later one, the total says so.
AheadInv ==
    \A e \in atStart \ seen :
        /\ pc # "done"
        /\ pc \in Walking => Position(e) >= offset
        /\ pc \in {"count", "reply"} => e \in items \/ Position(e) >= offset + Limit
        /\ pc = "reply" => e \in items \/ total > offset + Limit

\* The first page is asked for at offset 0.
OffsetInv == pc = "idle" => offset = 0

\* A page starts at the offset.
PageInv ==
    pc \in {"count", "reply"} => \A e \in items : Position(e) >= offset

\* What the walk has shown was before the offset when it began.
BehindInv ==
    /\ pc = "idle" => seen = {}
    /\ pc \in Walking => \A e \in seen : Cardinality(Before(atStart, e)) < offset
    /\ pc \in {"count", "reply"} =>
           \A e \in items : Cardinality(Before(atStart, e)) < offset + Limit

\* The page lies within the rows that are counted, and then within the count.
WithinInv ==
    /\ pc = "count" /\ items # {} => offset + Cardinality(items) <= Total
    /\ PageWithinTotal

IInv ==
    /\ TypeOK
    /\ StoredInv
    /\ OffsetInv
    /\ AheadInv
    /\ PageInv
    /\ BehindInv
    /\ WithinInv

-------------------------------------------------------------------------------
(* The order of the rows, and their positions. *)

\* ORDER BY received_at DESC, id DESC is a strict order.
LEMMA PrecedesIsOrder ==
    ASSUME NEW c \in Emails, NEW d \in Emails, NEW e \in Emails
    PROVE  /\ ~Precedes(e, e)
           /\ Precedes(c, d) /\ Precedes(d, e) => Precedes(c, e)
<1>1. /\ ReceivedAt[c] \in Nat /\ ReceivedAt[d] \in Nat /\ ReceivedAt[e] \in Nat
      /\ Id[c] \in Nat /\ Id[d] \in Nat /\ Id[e] \in Nat
  BY PagingAssumption
<1> QED
  BY <1>1 DEF Precedes

\* More rows, no fewer before e.
LEMMA BeforeGrows ==
    ASSUME NEW S \in SUBSET Emails, NEW T \in SUBSET S, NEW e
    PROVE  /\ Cardinality(Before(S, e)) \in Nat /\ Cardinality(Before(T, e)) \in Nat
           /\ Cardinality(Before(T, e)) <= Cardinality(Before(S, e))
           /\ Cardinality(Before(T, e)) # Cardinality(Before(S, e)) =>
                  \E d \in S \ T : Precedes(d, e)
<1>1. /\ IsFiniteSet(Before(S, e)) /\ IsFiniteSet(Before(T, e))
      /\ Before(T, e) \subseteq Before(S, e)
  BY PagingAssumption, FS_Subset DEF Before
<1>2. /\ Cardinality(Before(S, e)) \in Nat /\ Cardinality(Before(T, e)) \in Nat
      /\ Cardinality(Before(T, e)) <= Cardinality(Before(S, e))
  BY <1>1, FS_CardinalityType, FS_Subset
<1>3. Before(T, e) # Before(S, e) => \E d \in S \ T : Precedes(d, e)
  BY DEF Before
<1> QED
  BY <1>2, <1>3

\* A row of S is not before itself: its position is less than the number of rows.
LEMMA BeforeIsLess ==
    ASSUME NEW S \in SUBSET Emails, NEW e \in S
    PROVE  Cardinality(Before(S, e)) < Cardinality(S)
<1>1. IsFiniteSet(S) /\ Before(S, e) \subseteq S /\ e \notin Before(S, e)
  BY PagingAssumption, FS_Subset, PrecedesIsOrder DEF Before
<1>2. /\ Cardinality(Before(S, e)) \in Nat /\ Cardinality(S) \in Nat
      /\ Cardinality(Before(S, e)) <= Cardinality(S)
      /\ Cardinality(S) # Cardinality(Before(S, e))
  BY <1>1, FS_CardinalityType, FS_Subset
<1> QED
  BY <1>2

\* A page has a first row.
LEMMA FirstOfPage ==
    ASSUME NEW S \in SUBSET Emails, NEW P \in SUBSET S, P # {}
    PROVE  \E e \in P : P \cap Before(S, e) = {}
<1> DEFINE T == {Before(S, e) : e \in P}
<1>1. IsFiniteSet(S) /\ \A e \in P : IsFiniteSet(Before(S, e)) /\ Before(S, e) \subseteq S
  BY PagingAssumption, FS_Subset DEF Before
<1>2. T \subseteq FiniteSubsetsOf(S) /\ T # {}
  BY <1>1 DEF FiniteSubsetsOf
<1>3. PICK x \in T : \A y \in T : <<y, x>> \notin StrictSubsetOrdering(S)
  BY <1>2, WFMin, FS_StrictSubsetOrderingWellFounded
<1>4. PICK e \in P : x = Before(S, e)
  OBVIOUS
<1>5. ASSUME NEW d \in P, d \in Before(S, e) PROVE FALSE
  <2>1. Before(S, d) \subseteq Before(S, e)
    BY <1>5, PrecedesIsOrder DEF Before
  <2>2. d \notin Before(S, d)
    BY PrecedesIsOrder DEF Before
  <2>3. <<Before(S, d), Before(S, e)>> \in StrictSubsetOrdering(S)
    BY <1>1, <1>5, <2>1, <2>2 DEF StrictSubsetOrdering
  <2> QED
    BY <1>3, <1>4, <2>3
<1> QED
  BY <1>5

\* A page that starts at the offset o and is not empty ends within the rows.
LEMMA PageFits ==
    ASSUME NEW S \in SUBSET Emails, NEW o \in Nat, NEW P \in SUBSET S, P # {},
           \A e \in P : Cardinality(Before(S, e)) >= o
    PROVE  /\ Cardinality(P) \in Nat /\ Cardinality(S) \in Nat
           /\ o + Cardinality(P) <= Cardinality(S)
<1>1. PICK e \in P : P \cap Before(S, e) = {}
  BY FirstOfPage
<1>2. /\ IsFiniteSet(S) /\ IsFiniteSet(P) /\ IsFiniteSet(Before(S, e))
      /\ P \cup Before(S, e) \subseteq S
  BY PagingAssumption, FS_Subset DEF Before
<1>3. Cardinality(P \cup Before(S, e)) =
          Cardinality(P) + Cardinality(Before(S, e)) - Cardinality(P \cap Before(S, e))
  BY <1>2, FS_Union
<1>4. Cardinality(P \cap Before(S, e)) = 0
  BY <1>1, FS_EmptySet
<1>5. Cardinality(P \cup Before(S, e)) <= Cardinality(S)
  BY <1>2, FS_Subset
<1>6. /\ Cardinality(P) \in Nat /\ Cardinality(S) \in Nat /\ Cardinality(Before(S, e)) \in Nat
      /\ Cardinality(Before(S, e)) >= o
  BY <1>2, FS_CardinalityType
<1> QED
  BY <1>3, <1>4, <1>5, <1>6

\* A commit of a sync pushes rows to later pages only, and the count up.
LEMMA PositionsGrow ==
    ASSUME stored \in SUBSET Emails, stored' \in SUBSET Emails, stored \subseteq stored'
    PROVE  /\ \A e : Position(e) \in Nat /\ Position(e)' \in Nat /\ Position(e) <= Position(e)'
           /\ Total \in Nat /\ Total' \in Nat /\ Total <= Total'
<1>1. ASSUME NEW e
      PROVE  Position(e) \in Nat /\ Position(e)' \in Nat /\ Position(e) <= Position(e)'
  <2>1. /\ Position(e) = Cardinality(Before(stored, e))
        /\ Position(e)' = Cardinality(Before(stored', e))
    BY DEF Position, Before
  <2> QED
    BY <2>1, BeforeGrows
<1>2. /\ Total = Cardinality(stored) /\ Total' = Cardinality(stored')
      /\ IsFiniteSet(stored) /\ IsFiniteSet(stored')
  BY PagingAssumption, FS_Subset DEF Total
<1>3. Total \in Nat /\ Total' \in Nat /\ Total <= Total'
  BY <1>2, FS_Subset, FS_CardinalityType
<1> QED
  BY <1>1, <1>3

-------------------------------------------------------------------------------
(* The invariant. *)

\* Nothing is stored, and the walk has not begun.
THEOREM InitInv == Init => IInv
BY DEF Init, IInv, TypeOK, StoredInv, OffsetInv, AheadInv, PageInv, BehindInv, WithinInv,
       PageWithinTotal, Walking

\* Rows are only added, and counted as they are.
LEMMA TypeStep == IInv /\ [Next]_vars => TypeOK' /\ stored \subseteq stored'
<1> SUFFICES ASSUME IInv, [Next]_vars PROVE TypeOK' /\ stored \subseteq stored'
  OBVIOUS
<1>1. TypeOK /\ StoredInv /\ Total \in Nat
  BY PositionsGrow, PagingAssumption, FS_Subset, FS_CardinalityType DEF IInv, TypeOK, Total
<1> USE <1>1 DEF TypeOK, walkVars
<1>2. ASSUME SyncInserts \/ SyncCommits \/ SyncRollsBack PROVE TypeOK' /\ stored \subseteq stored'
  BY <1>2 DEF SyncInserts, SyncCommits, SyncRollsBack
<1>3. ASSUME Begin \/ Fails PROVE TypeOK' /\ stored \subseteq stored'
  BY <1>3 DEF Begin, Fails
<1>4. ASSUME List PROVE TypeOK' /\ stored \subseteq stored'
  BY <1>4 DEF List, Page
<1>5. ASSUME Count PROVE TypeOK' /\ stored \subseteq stored'
  BY <1>5 DEF Count
<1>6. ASSUME Reply PROVE TypeOK' /\ stored \subseteq stored'
  BY <1>6, PagingAssumption DEF Reply, NextOffset
<1>7. ASSUME NEW e \in Emails, Get(e) PROVE TypeOK' /\ stored \subseteq stored'
  <2>1. answer' = <<e, TRUE>> \/ answer' = <<e, FALSE>>
    <3>1. CASE e \in stored
      <4>1. (e \in stored) = TRUE
        BY <3>1
      <4> QED
        BY <1>7, <4>1 DEF Get
    <3>2. CASE e \notin stored
      <4>1. (e \in stored) = FALSE
        BY <3>2
      <4> QED
        BY <1>7, <4>1 DEF Get
    <3> QED
      BY <3>1, <3>2
  <2>2. answer' \in Emails \X BOOLEAN
    <3>1. /\ <<e, TRUE>> \in Emails \X BOOLEAN
          /\ <<e, FALSE>> \in Emails \X BOOLEAN
      OBVIOUS
    <3> QED
      BY <2>1, <3>1, Zenon
  <2> QED
    BY <1>7, <2>2 DEF Get
<1>8. CASE UNCHANGED vars
  BY <1>8 DEF vars
<1> QED
  BY <1>2, <1>3, <1>4, <1>5, <1>6, <1>7, <1>8 DEF Next

\* The walk stands still while rows are added.
LEMMA WalkFrame ==
    ASSUME IInv, TypeOK', stored \subseteq stored', UNCHANGED walkVars
    PROVE  IInv'
<1>1. /\ \A e : Position(e) \in Nat /\ Position(e)' \in Nat /\ Position(e) <= Position(e)'
      /\ Total \in Nat /\ Total' \in Nat /\ Total <= Total'
  BY PositionsGrow DEF IInv, TypeOK
<1>2. /\ pc' = pc /\ offset' = offset /\ items' = items /\ total' = total
      /\ atStart' = atStart /\ seen' = seen
      /\ offset \in Nat /\ Limit \in Nat
  BY PagingAssumption DEF walkVars, IInv, TypeOK
<1>3. StoredInv' /\ OffsetInv'
  BY <1>2 DEF IInv, StoredInv, OffsetInv
<1>4. AheadInv'
  BY <1>1, <1>2 DEF IInv, AheadInv
<1>5. PageInv'
  BY <1>1, <1>2 DEF IInv, PageInv
<1>6. BehindInv'
  BY <1>2 DEF IInv, BehindInv
<1>7. WithinInv'
  <2>1. items # {} => Cardinality(items) \in Nat
    BY PagingAssumption, FS_Subset, FS_CardinalityType DEF IInv, TypeOK
  <2> QED
    BY <1>1, <1>2, <2>1 DEF IInv, WithinInv, PageWithinTotal
<1> QED
  BY <1>3, <1>4, <1>5, <1>6, <1>7 DEF IInv

\* A page: what was to come is on it or after it.
LEMMA ListStep ==
    ASSUME IInv, TypeOK', List
    PROVE  IInv'
<1>1. /\ pc = "list" /\ pc' = "count" /\ items' = Page(offset) /\ items' \subseteq stored
      /\ UNCHANGED <<stored, offset, total, atStart, seen>>
      /\ offset \in Nat /\ Limit \in Nat /\ stored \in SUBSET Emails
  BY PagingAssumption DEF List, Page, IInv, TypeOK
<1>2. /\ \A e : Position(e)' = Position(e) /\ Position(e) \in Nat
      /\ \A e : Position(e) = Cardinality(Before(stored, e))
      /\ Total' = Total
  BY <1>1, PositionsGrow DEF Position, Total, Before
<1>3. \A e \in stored : e \in items' <=> Position(e) >= offset /\ Position(e) < offset + Limit
  BY <1>1 DEF Page
<1>4. StoredInv' /\ OffsetInv'
  BY <1>1 DEF IInv, StoredInv, OffsetInv
<1>5. AheadInv'
  <2> SUFFICES ASSUME NEW e \in atStart \ seen
               PROVE  Position(e) >= offset /\ (e \in items' \/ Position(e) >= offset + Limit)
    BY <1>1, <1>2 DEF AheadInv, Walking
  <2>1. e \in stored /\ Position(e) >= offset /\ Position(e) \in Nat
    BY <1>1, <1>2 DEF IInv, StoredInv, AheadInv, Walking
  <2> QED
    BY <1>1, <1>3, <2>1
<1>6. PageInv'
  BY <1>1, <1>2, <1>3 DEF PageInv
<1>7. BehindInv'
  <2>1. ASSUME NEW e \in items' PROVE Cardinality(Before(atStart, e)) < offset + Limit
    <3>1. Position(e) \in Nat /\ Position(e) < offset + Limit
      BY <1>1, <1>2, <1>3
    <3>2. /\ Cardinality(Before(atStart, e)) \in Nat
          /\ Cardinality(Before(atStart, e)) <= Position(e)
      BY <1>1, <1>2, BeforeGrows DEF IInv, StoredInv
    <3> QED
      BY <1>1, <3>1, <3>2
  <2> QED
    BY <1>1, <2>1 DEF IInv, BehindInv, Walking
<1>8. WithinInv'
  <2>1. ASSUME items' # {} PROVE offset + Cardinality(items') <= Cardinality(stored)
    <3>1. \A e \in items' : Cardinality(Before(stored, e)) >= offset
      BY <1>1, <1>2, <1>3
    <3> QED
      BY <1>1, <2>1, <3>1, PageFits
  <2> QED
    BY <1>1, <2>1 DEF WithinInv, PageWithinTotal, Total
<1> QED
  BY <1>4, <1>5, <1>6, <1>7, <1>8 DEF IInv

\* The count is taken after the page: it reaches beyond what is still to come.
LEMMA CountStep ==
    ASSUME IInv, TypeOK', Count
    PROVE  IInv'
<1>1. /\ pc = "count" /\ pc' = "reply" /\ total' = Total
      /\ UNCHANGED <<stored, items, offset, atStart, seen>>
      /\ offset \in Nat /\ Limit \in Nat /\ stored \in SUBSET Emails
  BY PagingAssumption DEF Count, IInv, TypeOK
<1>2. /\ \A e : Position(e)' = Position(e) /\ Position(e) \in Nat
      /\ \A e : Position(e) = Cardinality(Before(stored, e))
      /\ Total = Cardinality(stored) /\ Total \in Nat
  BY <1>1, PositionsGrow DEF Position, Total, Before
<1>3. AheadInv'
  <2> SUFFICES ASSUME NEW e \in atStart \ seen
               PROVE  /\ Position(e) >= offset
                      /\ e \in items \/ Position(e) >= offset + Limit
                      /\ e \in items \/ total' > offset + Limit
    BY <1>1, <1>2 DEF AheadInv, Walking
  <2>1. Position(e) >= offset /\ (e \in items \/ Position(e) >= offset + Limit)
    BY <1>1 DEF IInv, AheadInv, Walking
  <2>2. e \in stored
    BY DEF IInv, StoredInv
  <2>3. Position(e) < total' /\ Position(e) \in Nat /\ total' \in Nat
    BY <1>1, <1>2, <2>2, BeforeIsLess
  <2> QED
    BY <1>1, <2>1, <2>3
<1>4. WithinInv'
  BY <1>1 DEF IInv, WithinInv, PageWithinTotal
<1>5. PageInv' /\ BehindInv' /\ StoredInv' /\ OffsetInv'
  BY <1>1, <1>2 DEF IInv, PageInv, BehindInv, StoredInv, OffsetInv, Walking
<1> QED
  BY <1>3, <1>4, <1>5 DEF IInv

\* The client moves on past the page, or stops where nothing is to come.
LEMMA ReplyStep ==
    ASSUME IInv, TypeOK', Reply
    PROVE  IInv'
<1>1. /\ pc = "reply" /\ seen' = seen \cup items
      /\ \/ pc' = "list" /\ offset' = offset + Limit
         \/ pc' = "done" /\ offset' = offset /\ ~(offset + Limit < total)
      /\ UNCHANGED <<stored, items, total, atStart>>
      /\ offset \in Nat /\ Limit \in Nat /\ total \in Nat /\ stored \in SUBSET Emails
  BY PagingAssumption DEF Reply, NextOffset, IInv, TypeOK
<1>2. \A e : Position(e)' = Position(e) /\ Position(e) \in Nat
  BY <1>1, PositionsGrow DEF Position
<1>3. AheadInv'
  <2> SUFFICES ASSUME NEW e \in atStart \ (seen \cup items)
               PROVE  pc' = "list" /\ Position(e) >= offset'
    BY <1>1, <1>2 DEF AheadInv, Walking
  <2>1. Position(e) >= offset + Limit /\ total > offset + Limit
    BY <1>1 DEF IInv, AheadInv
  <2> QED
    BY <1>1, <2>1
<1>4. BehindInv'
  <2> SUFFICES ASSUME pc' = "list", NEW e \in seen \cup items
               PROVE  Cardinality(Before(atStart, e)) < offset'
    BY <1>1 DEF BehindInv, Walking
  <2>1. Cardinality(Before(atStart, e)) < offset + Limit
    <3>1. CASE e \in items
      BY <1>1, <3>1 DEF IInv, BehindInv
    <3>2. CASE e \in seen
      <4>1. Cardinality(Before(atStart, e)) < offset
        BY <1>1, <3>2 DEF IInv, BehindInv, Walking
      <4>2. Cardinality(Before(atStart, e)) \in Nat
        BY <1>1, BeforeGrows DEF IInv, StoredInv
      <4> QED
        BY <1>1, <4>1, <4>2
    <3> QED
      BY <3>1, <3>2
  <2> QED
    BY <1>1, <2>1
<1>5. PageInv' /\ WithinInv' /\ StoredInv' /\ OffsetInv'
  BY <1>1 DEF IInv, PageInv, WithinInv, PageWithinTotal, StoredInv, OffsetInv
<1> QED
  BY <1>3, <1>4, <1>5 DEF IInv

\* The walk begins: every stored row is still to come.
LEMMA BeginStep ==
    ASSUME IInv, TypeOK', Begin
    PROVE  IInv'
<1>1. /\ pc = "idle" /\ pc' = "list" /\ atStart' = stored /\ seen = {}
      /\ UNCHANGED <<stored, items, offset, total, seen>>
  BY DEF Begin, IInv, BehindInv
<1>2. offset = 0
  BY <1>1 DEF IInv, OffsetInv
<1>3. \A e : Position(e)' \in Nat
  BY <1>1, PositionsGrow DEF IInv, TypeOK
<1>4. AheadInv'
  BY <1>1, <1>2, <1>3 DEF AheadInv
<1>5. PageInv' /\ BehindInv' /\ WithinInv' /\ StoredInv' /\ OffsetInv'
  BY <1>1 DEF IInv, PageInv, BehindInv, WithinInv, PageWithinTotal, StoredInv, OffsetInv
<1> QED
  BY <1>4, <1>5 DEF IInv

\* A request that fails is asked again at the same offset.
LEMMA FailsStep ==
    ASSUME IInv, TypeOK', Fails
    PROVE  IInv'
<1>1. /\ pc \in {"list", "count"} /\ pc' = "list"
      /\ UNCHANGED <<stored, items, offset, total, atStart, seen>>
  BY DEF Fails
<1>2. \A e : Position(e)' = Position(e)
  BY <1>1 DEF Position
<1>3. AheadInv' /\ BehindInv'
  BY <1>1, <1>2 DEF IInv, AheadInv, BehindInv, Walking
<1>4. PageInv' /\ WithinInv' /\ StoredInv' /\ OffsetInv'
  BY <1>1 DEF IInv, PageInv, WithinInv, PageWithinTotal, StoredInv, OffsetInv
<1> QED
  BY <1>3, <1>4 DEF IInv

-------------------------------------------------------------------------------
(* The theorems. *)

\* The invariant holds for any e-mails, any size of page, and any arrivals between
\* the two statements of a page and between pages.
THEOREM Invariance == Spec => []IInv
<1>1. IInv /\ [Next]_vars => IInv'
  <2> SUFFICES ASSUME IInv, [Next]_vars PROVE IInv'
    OBVIOUS
  <2>1. TypeOK' /\ stored \subseteq stored'
    BY TypeStep
  <2>2. CASE SyncInserts \/ SyncCommits \/ SyncRollsBack \/ (\E e \in Emails : Get(e))
             \/ UNCHANGED vars
    <3>1. UNCHANGED walkVars
      BY <2>2 DEF SyncInserts, SyncCommits, SyncRollsBack, Get, vars, walkVars
    <3> QED
      BY <2>1, <3>1, WalkFrame
  <2> QED
    BY <2>1, <2>2, BeginStep, ListStep, CountStep, FailsStep, ReplyStep DEF Next
<1> QED
  BY <1>1, InitInv, PTL DEF Spec

\* Rows, pages, offsets and totals stay in their types.
THEOREM TypeCorrect == Spec => []TypeOK
<1>1. IInv => TypeOK
  BY DEF IInv
<1> QED
  BY <1>1, Invariance, PTL

\* However many e-mails of whatever age are committed during a walk, it answers
\* every e-mail that was stored when it began.
THEOREM NothingIsMissed == Spec => []WalkMissesNothing
<1>1. IInv => WalkMissesNothing
  BY DEF IInv, AheadInv, WalkMissesNothing
<1> QED
  BY <1>1, Invariance, PTL

\* Page and total come from two statements, and never contradict each other.
THEOREM PagesFitTheirTotal == Spec => []PageWithinTotal
<1>1. IInv => PageWithinTotal
  BY DEF IInv, WithinInv
<1> QED
  BY <1>1, Invariance, PTL

\* What a walk shows twice has been pushed back by a newer arrival.
THEOREM RepeatsAreExplained == Spec => []RepeatsAreArrivals
<1>1. ASSUME IInv, pc = "reply", NEW e \in items \cap seen
      PROVE  \E d \in stored \ atStart : Precedes(d, e)
  <2>1. /\ stored \in SUBSET Emails /\ atStart \in SUBSET stored /\ offset \in Nat
        /\ Position(e) = Cardinality(Before(stored, e))
    BY <1>1 DEF IInv, TypeOK, StoredInv, Position, Before
  <2>2. Cardinality(Before(stored, e)) >= offset /\ Cardinality(Before(atStart, e)) < offset
    BY <1>1, <2>1 DEF IInv, PageInv, BehindInv, Walking
  <2>3. Cardinality(Before(stored, e)) \in Nat /\ Cardinality(Before(atStart, e)) \in Nat
    BY <2>1, BeforeGrows
  <2>4. Cardinality(Before(atStart, e)) # Cardinality(Before(stored, e))
    BY <2>1, <2>2, <2>3
  <2> QED
    BY <2>1, <2>4, BeforeGrows
<1>2. IInv => RepeatsAreArrivals
  BY <1>1 DEF RepeatsAreArrivals
<1> QED
  BY <1>2, Invariance, PTL

\* No row disappears: what a page has answered, GET /emails/{id} finds.
THEOREM ListedIsFoundAlways == Spec => ListedIsFound
<1>1. ASSUME IInv, [Next]_vars, answer' # answer, answer'[1] \in seen PROVE answer'[2]
  <2>1. PICK e \in Emails : answer' = <<e, e \in stored>>
    BY <1>1 DEF Next, SyncInserts, SyncCommits, SyncRollsBack, Begin, List, Count, Fails,
                Reply, Get, vars
  <2>2. e \in stored
    BY <1>1, <2>1 DEF IInv, StoredInv
  <2> QED
    BY <2>1, <2>2
<1>2. IInv /\ [Next]_vars => [answer' # answer /\ answer'[1] \in seen => answer'[2]]_vars
  BY <1>1
<1> QED
  BY <1>2, Invariance, PTL DEF Spec, ListedIsFound
===============================================================================
