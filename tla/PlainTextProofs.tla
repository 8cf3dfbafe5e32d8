---------------------------- MODULE PlainTextProofs ----------------------------
(***************************************************************************)
(* normalize_plain_text gives what a reader of the raw text would get, for *)
(* strings of any length over any words.                                   *)
(*                                                                         *)
(* Each stage of the pipeline keeps characters of its input, in order, all *)
(* the words among them, and at most replaces white space by white space   *)
(* (Thins).  Two words that are neighbours stay so, and SameBreaks says    *)
(* when what separates them is unchanged (SepAt).  The stages establish,   *)
(* one after the other, that wide white space has words around it on its   *)
(* line (WideInside), that spaces are single and inside, and that no three *)
(* line feeds follow each other, which leaves nothing between two words    *)
(* but their separator or wide white space (LaidOut).                      *)
(***************************************************************************)
EXTENDS PlainText, Integers, FiniteSetTheorems, SequenceTheorems, WellFoundedInduction, TLAPS

(* Induction on the natural numbers as a fact about sets. *)

\* A set of natural numbers that is not empty has a least element: the intervals
\* from 1 to its elements are finite and ordered by inclusion.
LEMMA LeastNumber ==
    ASSUME NEW S \in SUBSET Nat, S # {}
    PROVE  \E m \in S : \A k \in S : m <= k
<1> DEFINE T == {1..k : k \in S}
<1>1. T \subseteq FiniteSubsetsOf(Nat) /\ T # {}
  <2>1. ASSUME NEW k \in S PROVE 1..k \subseteq Nat /\ IsFiniteSet(1..k)
    BY FS_Interval
  <2> QED
    BY <2>1 DEF FiniteSubsetsOf
<1>2. PICK x \in T : \A y \in T : <<y, x>> \notin StrictSubsetOrdering(Nat)
  BY <1>1, WFMin, FS_StrictSubsetOrderingWellFounded
<1>3. PICK m \in S : x = 1..m
  OBVIOUS
<1>4. ASSUME NEW k \in S, k < m PROVE FALSE
  <2>1. 1..k \subseteq 1..m /\ m \in 1..m /\ m \notin 1..k
    BY <1>4
  <2>2. <<1..k, 1..m>> \in StrictSubsetOrdering(Nat)
    BY <2>1 DEF StrictSubsetOrdering
  <2> QED
    BY <1>2, <1>3, <2>2
<1> QED
  BY <1>4

\* What holds of 0 and passes on below n holds up to n.
LEMMA ReachesUpTo ==
    ASSUME NEW n \in Nat, NEW G, 0 \in G, \A i \in 0..(n - 1) : i \in G => i + 1 \in G
    PROVE  \A i \in 0..n : i \in G
<1> DEFINE S == {i \in 0..n : i \notin G}
<1> SUFFICES ASSUME S # {} PROVE FALSE
  OBVIOUS
<1>1. PICK m \in S : \A k \in S : m <= k
  <2>1. S \in SUBSET Nat
    OBVIOUS
  <2> HIDE DEF S
  <2> QED
    BY <2>1, LeastNumber
<1>2. m # 0 /\ m - 1 \in 0..(n - 1) /\ (m - 1) + 1 = m
  OBVIOUS
<1>3. m - 1 \in G
  BY <1>1, <1>2
<1>4. (m - 1) + 1 \in G
  BY <1>2, <1>3
<1> QED
  BY <1>1, <1>2, <1>4

-------------------------------------------------------------------------------
(* Increasing enumerations of sets of positions. *)

\* f lists the elements of I in increasing order.
Lists(f, I) ==
    /\ f \in Seq(Nat)
    /\ \A k \in 1..Len(f) : f[k] \in I
    /\ \A i \in I : \E k \in 1..Len(f) : f[k] = i
    /\ \A j, k \in 1..Len(f) : j < k => f[j] < f[k]

\* What a list is, for the provers.
LEMMA ListsFacts ==
    ASSUME NEW I, NEW f, Lists(f, I)
    PROVE  /\ Len(f) \in Nat /\ DOMAIN f = 1..Len(f)
           /\ \A k \in 1..Len(f) : f[k] \in Nat /\ f[k] \in I
           /\ \A i \in I : \E k \in 1..Len(f) : f[k] = i
           /\ \A j, k \in 1..Len(f) : j < k => f[j] < f[k]
BY ElementOfSeq DEF Lists

\* Every number is in the list.
LEMMA ListsAll ==
    ASSUME NEW I, NEW f, Lists(f, I), NEW i \in I
    PROVE  \E k \in 1..Len(f) : f[k] = i
BY DEF Lists

Upto(I, k, before) ==
    IF k = 0 THEN <<>> ELSE IF k \in I THEN Append(before, k) ELSE before

\* The recursion of Ascending has a solution.
LEMMA AscendingRuns ==
    ASSUME NEW I, NEW n \in Nat
    PROVE  \E f : Ascending(I, n) = f[n] /\ f = [k \in 0..n |-> Upto(I, k, f[k - 1])]
<1> DEFINE run(m, f) == f = [k \in 0..m |-> Upto(I, k, f[k - 1])]
           G == {m \in 0..n : \E f : run(m, f)}
<1>1. 0 \in G
  <2>1. run(0, [k \in 0..0 |-> <<>>])
    BY DEF Upto
  <2> HIDE DEF run
  <2> QED
    BY <2>1
<1>2. ASSUME NEW m \in 0..(n - 1), m \in G PROVE m + 1 \in G
  <2>1. PICK f : run(m, f)
    BY <1>2
  <2> DEFINE g == [k \in 0..(m + 1) |-> IF k <= m THEN f[k] ELSE Upto(I, k, f[m])]
  <2>2. ASSUME NEW k \in 0..(m + 1) PROVE g[k] = Upto(I, k, g[k - 1])
    <3>1. CASE k = 0
      BY <2>1, <3>1 DEF Upto
    <3>2. CASE k # 0 /\ k <= m
      BY <2>1, <3>2
    <3>3. CASE k # 0 /\ k = m + 1
      BY <2>1, <3>3
    <3> QED
      BY <3>1, <3>2, <3>3
  <2>3. run(m + 1, g)
    BY <2>2
  <2> HIDE DEF g, run
  <2> QED
    BY <2>3
<1>3. \E f : run(n, f)
  <2> HIDE DEF run
  <2>1. \A m \in 0..n : m \in G
    <3>1. \A m \in 0..(n - 1) : m \in G => m + 1 \in G
      BY <1>2
    <3> HIDE DEF G
    <3> QED
      BY <1>1, <3>1, ReachesUpTo
  <2> QED
    BY <2>1
<1> DEFINE f == CHOOSE f : run(n, f)
<1>4. Ascending(I, n) = f[n]
  BY DEF Ascending, Upto
<1>5. run(n, f)
  <2> HIDE DEF run
  <2> QED
    BY <1>3
<1> HIDE DEF f
<1> QED
  BY <1>4, <1>5

\* Nothing is listed by the empty list.
LEMMA EmptyLists == Lists(<<>>, {})
BY DEF Lists

\* A list goes on with a number that is greater than all of it.
LEMMA ListsGrows ==
    ASSUME NEW I, NEW f, Lists(f, I), NEW x \in Nat, \A i \in I : i < x
    PROVE  Lists(Append(f, x), I \cup {x})
<1> DEFINE g == Append(f, x)
<1>1. /\ g \in Seq(Nat) /\ Len(f) \in Nat /\ Len(g) = Len(f) + 1
      /\ g[Len(f) + 1] = x /\ \A k \in 1..Len(f) : g[k] = f[k]
  BY AppendProperties DEF Lists
<1> HIDE DEF g
<1>2. \A k \in 1..Len(g) : k \in 1..Len(f) \/ k = Len(f) + 1
  BY <1>1
<1>3. \A k \in 1..Len(f) : k \in 1..Len(g)
  BY <1>1
<1>4. \A k \in 1..Len(g) : g[k] \in I \cup {x}
  BY <1>1, <1>2 DEF Lists
<1>5. \A i \in I \cup {x} : \E k \in 1..Len(g) : g[k] = i
  <2>1. Len(f) + 1 \in 1..Len(g)
    BY <1>1
  <2> QED
    BY <1>1, <1>3, <2>1 DEF Lists
<1>6. ASSUME NEW j \in 1..Len(g), NEW k \in 1..Len(g), j < k PROVE g[j] < g[k]
  <2>1. j \in 1..Len(f)
    BY <1>1, <1>6
  <2>2. CASE k \in 1..Len(f)
    BY <1>1, <1>6, <2>1, <2>2 DEF Lists
  <2>3. CASE k = Len(f) + 1
    BY <1>1, <2>1, <2>3 DEF Lists
  <2> QED
    BY <1>2, <2>2, <2>3
<1> QED
  BY <1>1, <1>4, <1>5, <1>6 DEF Lists, g

\* Ascending(I, n) lists the numbers of I between 1 and n.
LEMMA AscendingLists ==
    ASSUME NEW I, NEW n \in Nat
    PROVE  Lists(Ascending(I, n), I \cap 1..n)
<1>1. PICK f : Ascending(I, n) = f[n] /\ f = [k \in 0..n |-> Upto(I, k, f[k - 1])]
  BY AscendingRuns
<1> DEFINE G == {m \in 0..n : Lists(f[m], I \cap 1..m)}
<1>2. 0 \in G
  <2>1. f[0] = <<>> /\ I \cap 1..0 = {} /\ 0 \in 0..n
    BY <1>1 DEF Upto
  <2> QED
    BY <2>1, EmptyLists
<1>3. ASSUME NEW m \in 0..(n - 1), m \in G PROVE m + 1 \in G
  <2>1. f[m + 1] = IF m + 1 \in I THEN Append(f[m], m + 1) ELSE f[m]
    <3>1. m + 1 \in 0..n /\ m + 1 # 0 /\ (m + 1) - 1 = m
      OBVIOUS
    <3> QED
      BY <1>1, <3>1 DEF Upto
  <2>2. m + 1 \in 0..n /\ m + 1 \in Nat /\ \A i \in I \cap 1..m : i < m + 1
    OBVIOUS
  <2>3. CASE m + 1 \in I
    <3>1. I \cap 1..(m + 1) = (I \cap 1..m) \cup {m + 1}
      BY <2>3
    <3>2. Lists(f[m], I \cap 1..m)
      BY <1>3
    <3>3. Lists(Append(f[m], m + 1), (I \cap 1..m) \cup {m + 1})
      BY <2>2, <3>2, ListsGrows
    <3> QED
      BY <2>1, <2>2, <2>3, <3>1, <3>3
  <2>4. CASE m + 1 \notin I
    <3>1. I \cap 1..(m + 1) = I \cap 1..m
      BY <2>4
    <3> QED
      BY <1>3, <2>1, <2>2, <2>4, <3>1
  <2> QED
    BY <2>3, <2>4
<1>4. n \in G
  <2>1. \A m \in 0..(n - 1) : m \in G => m + 1 \in G
    BY <1>3
  <2> HIDE DEF G
  <2> QED
    BY <1>2, <2>1, ReachesUpTo
<1> QED
  BY <1>1, <1>4

\* Two lists of one set agree as far as the first of them goes.
LEMMA ListsAgree ==
    ASSUME NEW I, NEW f, NEW g, Lists(f, I), Lists(g, I)
    PROVE  \A k \in 1..Len(f) : k \in 1..Len(g) /\ f[k] = g[k]
<1> DEFINE D == {k \in 1..Len(f) : ~(k \in 1..Len(g) /\ f[k] = g[k])}
<1> SUFFICES ASSUME D # {} PROVE FALSE
  OBVIOUS
<1>0. Len(f) \in Nat /\ Len(g) \in Nat
  BY ListsFacts
<1>1. PICK k \in D : \A j \in D : k <= j
  <2>1. D \in SUBSET Nat
    OBVIOUS
  <2> HIDE DEF D
  <2> QED
    BY <2>1, LeastNumber
<1>2. /\ k \in 1..Len(f)
      /\ \A j \in 1..(k - 1) : j \in 1..Len(f) /\ j \in 1..Len(g) /\ f[j] = g[j]
  <2>1. k \in 1..Len(f)
    BY <1>1
  <2>2. ASSUME NEW j \in 1..(k - 1)
        PROVE  j \in 1..Len(f) /\ j \in 1..Len(g) /\ f[j] = g[j]
    <3>1. j \in 1..Len(f) /\ ~(k <= j)
      BY <1>0, <2>1
    <3>2. j \notin D
      BY <1>1, <3>1
    <3> QED
      BY <3>1, <3>2
  <2> QED
    BY <2>1, <2>2
<1>3. PICK m \in 1..Len(g) : g[m] = f[k]
  <2>1. f[k] \in I
    BY <1>2, ListsFacts
  <2> QED
    BY <2>1, ListsAll
<1>4. m >= k
  <2> SUFFICES ASSUME m < k PROVE FALSE
    BY <1>0, <1>2
  <2>1. m \in 1..(k - 1)
    BY <1>0, <1>2
  <2>2. f[m] < f[k] /\ f[m] = f[k]
    BY <1>2, <1>3, <2>1, ListsFacts
  <2>3. f[m] \in Nat
    BY <1>2, <2>1, ListsFacts
  <2> QED
    BY <2>2, <2>3
<1>5. k \in 1..Len(g) /\ (g[k] < g[m] \/ k = m)
  <2>1. k \in 1..Len(g)
    BY <1>0, <1>2, <1>4
  <2>2. k < m \/ k = m
    BY <1>0, <1>2, <1>4
  <2> QED
    BY <2>1, <2>2, ListsFacts
<1>6. PICK l \in 1..Len(f) : f[l] = g[k]
  <2>1. g[k] \in I
    BY <1>5, ListsFacts
  <2> QED
    BY <2>1, ListsAll
<1>7. l >= k
  <2> SUFFICES ASSUME l < k PROVE FALSE
    BY <1>0, <1>2
  <2>1. l \in 1..(k - 1)
    BY <1>0, <1>2
  <2>2. g[l] < g[k] /\ g[l] = g[k]
    BY <1>2, <1>5, <1>6, <2>1, ListsFacts
  <2>3. g[l] \in Nat
    BY <1>2, <2>1, ListsFacts
  <2> QED
    BY <2>2, <2>3
<1>8. f[k] < f[l] \/ k = l
  BY <1>0, <1>2, <1>7, ListsFacts
<1>9. f[k] \in Nat /\ g[k] \in Nat
  BY <1>2, <1>5, ListsFacts
<1>10. f[k] = g[k]
  BY <1>3, <1>5, <1>6, <1>8, <1>9
<1> QED
  BY <1>1, <1>5, <1>10

\* A set has one list.
LEMMA ListsAreUnique ==
    ASSUME NEW I, NEW f, NEW g, Lists(f, I), Lists(g, I)
    PROVE  f = g
<1>1. Len(f) \in Nat /\ Len(g) \in Nat /\ f \in Seq(Nat) /\ g \in Seq(Nat)
  BY DEF Lists
<1>2. Len(f) = Len(g)
  <2>1. Len(f) \in 1..Len(f) => Len(f) <= Len(g)
    BY <1>1, ListsAgree
  <2>2. Len(g) \in 1..Len(g) => Len(g) <= Len(f)
    BY <1>1, ListsAgree
  <2> QED
    BY <1>1, <2>1, <2>2
<1>3. \A k \in 1..Len(f) : f[k] = g[k]
  BY ListsAgree
<1> QED
  BY <1>1, <1>2, <1>3, SeqEqual

\* One number more to list.
LEMMA AscendingGrows ==
    ASSUME NEW I, NEW J, NEW n \in Nat, I \cap 1..n = J \cap 1..n
    PROVE  Ascending(J, n + 1) = IF n + 1 \in J THEN Append(Ascending(I, n), n + 1)
                                 ELSE Ascending(I, n)
<1> DEFINE a == Ascending(I, n)
           b == Ascending(J, n + 1)
<1>1. Lists(a, I \cap 1..n) /\ Lists(b, J \cap 1..(n + 1))
  BY AscendingLists
<1> HIDE DEF a, b
<1>2. CASE n + 1 \in J
  <2>1. J \cap 1..(n + 1) = (I \cap 1..n) \cup {n + 1}
    BY <1>2
  <2>2. \A i \in I \cap 1..n : i < n + 1
    OBVIOUS
  <2>3. Lists(Append(a, n + 1), (I \cap 1..n) \cup {n + 1})
    BY <1>1, <2>2, ListsGrows
  <2>4. b = Append(a, n + 1)
    BY <1>1, <2>1, <2>3, ListsAreUnique
  <2> QED
    BY <1>2, <2>4 DEF a, b
<1>3. CASE n + 1 \notin J
  <2>1. J \cap 1..(n + 1) = I \cap 1..n
    BY <1>3
  <2>2. b = a
    BY <1>1, <2>1, ListsAreUnique
  <2> QED
    BY <1>3, <2>2 DEF a, b
<1> QED
  BY <1>2, <1>3

\* What is read at the positions of a list, when the list goes on.
LEMMA MapGrows ==
    ASSUME NEW S, NEW a \in Seq(Nat), NEW x \in Nat, NEW F, NEW G,
           \A k \in DOMAIN a : F[a[k]] \in S /\ G[a[k]] = F[a[k]], G[x] \in S
    PROVE  /\ [k \in DOMAIN a |-> F[a[k]]] \in Seq(S)
           /\ [k \in DOMAIN Append(a, x) |-> G[Append(a, x)[k]]] =
                  Append([k \in DOMAIN a |-> F[a[k]]], G[x])
<1> DEFINE b == Append(a, x)
           f == [k \in DOMAIN a |-> F[a[k]]]
           g == [k \in DOMAIN b |-> G[b[k]]]
<1>1. /\ Len(a) \in Nat /\ DOMAIN a = 1..Len(a)
      /\ b \in Seq(Nat) /\ DOMAIN b = 1..(Len(a) + 1)
      /\ b[Len(a) + 1] = x /\ \A k \in 1..Len(a) : b[k] = a[k]
  BY AppendProperties
<1>2. f \in Seq(S) /\ Len(f) = Len(a)
  BY <1>1
<1>3. /\ Append(f, G[x]) \in Seq(S) /\ Len(Append(f, G[x])) = Len(a) + 1
      /\ Append(f, G[x])[Len(a) + 1] = G[x]
      /\ \A k \in 1..Len(a) : Append(f, G[x])[k] = F[a[k]]
  BY <1>1, <1>2, AppendProperties
<1> HIDE DEF b
<1>4. \A k \in 1..(Len(a) + 1) : k \in 1..Len(a) \/ k = Len(a) + 1
  BY <1>1
<1>5. \A k \in 1..(Len(a) + 1) : g[k] = Append(f, G[x])[k]
  BY <1>1, <1>3, <1>4
<1>6. g \in Seq(S) /\ Len(g) = Len(a) + 1
  <2>1. \A k \in 1..(Len(a) + 1) : G[b[k]] \in S
    BY <1>1, <1>4
  <2> QED
    BY <1>1, <2>1
<1> HIDE DEF f, g
<1>7. g = Append(f, G[x])
  BY <1>3, <1>5, <1>6, SeqEqual
<1> QED
  BY <1>2, <1>7 DEF b, f, g

-------------------------------------------------------------------------------
(* Picking characters. *)

\* Pick gives the characters at the positions that Ascending lists.
LEMMA PickFacts ==
    ASSUME NEW S, NEW s \in Seq(S), NEW I \in SUBSET DOMAIN s,
           NEW e, e = Ascending(I, Len(s))
    PROVE  /\ Lists(e, I) /\ Len(e) \in Nat
           /\ Pick(s, I) \in Seq(S) /\ Len(Pick(s, I)) = Len(e)
           /\ \A k \in 1..Len(e) : e[k] \in 1..Len(s) /\ Pick(s, I)[k] = s[e[k]]
<1>1. Len(s) \in Nat /\ DOMAIN s = 1..Len(s) /\ I \cap 1..Len(s) = I
  OBVIOUS
<1>2. Lists(e, I)
  BY <1>1, AscendingLists
<1>3. Len(e) \in Nat /\ DOMAIN e = 1..Len(e) /\ \A k \in 1..Len(e) : e[k] \in 1..Len(s)
  BY <1>1, <1>2, ListsFacts
<1>4. Pick(s, I) = [k \in 1..Len(e) |-> s[e[k]]]
  BY <1>3 DEF Pick
<1>5. \A k \in 1..Len(e) : s[e[k]] \in S
  BY <1>1, <1>3, ElementOfSeq
<1>6. Pick(s, I) \in Seq(S) /\ Len(Pick(s, I)) = Len(e)
  BY <1>3, <1>4, <1>5
<1> QED
  BY <1>2, <1>3, <1>4, <1>6

\* t keeps the characters of s at the positions e lists, all its words among
\* them, and may replace white space by white space, but not by a wide one.
Thins(e, s, t) ==
    /\ s \in Seq(Characters) /\ t \in Seq(Characters)
    /\ Len(t) = Len(e)
    /\ \E I \in SUBSET DOMAIN s : WordsAt(s) \subseteq I /\ Lists(e, I)
    /\ \A k \in 1..Len(e) : s[e[k]] \in Words \/ t[k] \in Words => t[k] = s[e[k]]
    /\ \A k \in 1..Len(e) : t[k] = "wide" => s[e[k]] = "wide"

\* What it is to thin a text out, for the provers.
LEMMA ThinFacts ==
    ASSUME NEW e, NEW s, NEW t, Thins(e, s, t)
    PROVE  /\ Len(e) \in Nat /\ Len(s) \in Nat /\ Len(t) = Len(e)
           /\ DOMAIN t = 1..Len(e) /\ DOMAIN s = 1..Len(s)
           /\ \A k \in 1..Len(e) : e[k] \in 1..Len(s)
           /\ \A j, k \in 1..Len(e) : j < k => e[j] < e[k]
           /\ \A k \in 1..Len(e) : t[k] \in Words <=> s[e[k]] \in Words
           /\ \A k \in 1..Len(e) : t[k] \in Words => t[k] = s[e[k]]
           /\ \A k \in 1..Len(e) : t[k] = "wide" => s[e[k]] = "wide"
           /\ \A i \in WordsAt(s) : \E k \in 1..Len(e) : e[k] = i
<1>1. PICK I \in SUBSET DOMAIN s : WordsAt(s) \subseteq I /\ Lists(e, I)
  BY DEF Thins
<1>2. /\ Len(s) \in Nat /\ DOMAIN s = 1..Len(s) /\ DOMAIN t = 1..Len(t)
      /\ Len(t) = Len(e)
      /\ \A k \in 1..Len(e) : s[e[k]] \in Words \/ t[k] \in Words => t[k] = s[e[k]]
      /\ \A k \in 1..Len(e) : t[k] = "wide" => s[e[k]] = "wide"
  BY DEF Thins
<1>3. \A i \in WordsAt(s) : \E k \in 1..Len(e) : e[k] = i
  BY <1>1, ListsAll
<1> QED
  BY <1>1, <1>2, <1>3, ListsFacts

\* The positions of the words, in order.
LEMMA WordPositionsList ==
    ASSUME NEW s \in Seq(Characters)
    PROVE  Lists(WordPositions(s), WordsAt(s))
<1>1. WordsAt(s) \in SUBSET DOMAIN s
  BY DEF WordsAt
<1> QED
  BY <1>1, PickFacts DEF WordPositions

\* As many words as positions of words.
LEMMA WordsOfLength ==
    ASSUME NEW s \in Seq(Characters)
    PROVE  Len(WordsOf(s)) = Len(WordPositions(s))
<1>1. WordsAt(s) \in SUBSET DOMAIN s
  BY DEF WordsAt
<1> QED
  BY <1>1, PickFacts DEF WordPositions, WordsOf

\* The words stay, in their order.
LEMMA ThinKeepsWords ==
    ASSUME NEW e, NEW s, NEW t, Thins(e, s, t)
    PROVE  /\ Len(WordPositions(t)) = Len(WordPositions(s))
           /\ \A k \in 1..Len(WordPositions(t)) :
                  WordPositions(s)[k] = e[WordPositions(t)[k]]
           /\ WordsOf(t) = WordsOf(s)
<1> DEFINE a == WordPositions(t)
           b == WordPositions(s)
           c == [k \in 1..Len(a) |-> e[a[k]]]
<1>1. Lists(a, WordsAt(t)) /\ Lists(b, WordsAt(s))
  BY WordPositionsList DEF Thins
<1>2. /\ Len(a) \in Nat /\ DOMAIN a = 1..Len(a) /\ DOMAIN b = 1..Len(b)
      /\ \A k \in 1..Len(a) : a[k] \in 1..Len(e) /\ t[a[k]] \in Words
      /\ \A j, k \in 1..Len(a) : j < k => a[j] < a[k]
  <2>1. \A i \in WordsAt(t) : i \in 1..Len(e) /\ t[i] \in Words
    BY ThinFacts DEF WordsAt
  <2> HIDE DEF a, b
  <2> QED
    BY <1>1, <2>1, ListsFacts
<1> HIDE DEF a, b
<1>3. \A k \in 1..Len(a) : e[a[k]] \in Nat /\ e[a[k]] \in WordsAt(s)
  BY <1>2, ThinFacts DEF WordsAt
<1>4. ASSUME NEW i \in WordsAt(s) PROVE \E k \in 1..Len(a) : e[a[k]] = i
  <2>1. PICK j \in 1..Len(e) : e[j] = i
    BY ThinFacts
  <2>2. j \in WordsAt(t)
    BY <2>1, ThinFacts DEF WordsAt
  <2>3. PICK k \in 1..Len(a) : a[k] = j
    BY <1>1, <2>2, ListsAll
  <2> QED
    BY <2>1, <2>3
<1>5. Lists(c, WordsAt(s)) /\ Len(c) = Len(a)
  <2>1. c \in Seq(Nat) /\ Len(c) = Len(a) /\ \A k \in 1..Len(a) : c[k] = e[a[k]]
    BY <1>2, <1>3
  <2>2. \A j, k \in 1..Len(a) : j < k => e[a[j]] < e[a[k]]
    BY <1>2, ThinFacts
  <2> HIDE DEF c
  <2> QED
    BY <1>3, <1>4, <2>1, <2>2 DEF Lists
<1>6. c = b
  BY <1>1, <1>5, ListsAreUnique
<1>7. Len(b) = Len(a) /\ \A k \in 1..Len(a) : b[k] = e[a[k]]
  BY <1>5, <1>6
<1>8. WordsOf(t) = WordsOf(s)
  <2>1. WordsOf(t) = [k \in 1..Len(a) |-> t[a[k]]]
    BY <1>2 DEF WordsOf, Pick, WordPositions, a
  <2>2. WordsOf(s) = [k \in 1..Len(a) |-> s[b[k]]]
    BY <1>2, <1>7 DEF WordsOf, Pick, WordPositions, b
  <2>3. \A k \in 1..Len(a) : t[a[k]] = s[b[k]]
    BY <1>2, <1>7, ThinFacts
  <2> QED
    BY <2>1, <2>2, <2>3
<1> QED
  BY <1>7, <1>8 DEF a, b

-------------------------------------------------------------------------------
(* What separates two words. *)

Break(s, i) == s[i] = "lf" \/ (s[i] = "cr" /\ s[i + 1] # "lf")

BreaksAt(s, p, q) == {i \in (p + 1)..(q - 1) : Break(s, i)}

SepAt(s, p, q) ==
    IF \E i, j \in BreaksAt(s, p, q) : i # j THEN <<"lf", "lf">>
    ELSE IF BreaksAt(s, p, q) # {} THEN <<"lf">>
    ELSE IF p + 1 # q THEN <<"space">>
    ELSE <<>>

\* The words at p and q have no word between them.
Neighbours(s, p, q) ==
    /\ p \in 1..Len(s) /\ q \in 1..Len(s) /\ p < q
    /\ s[p] \in Words /\ s[q] \in Words
    /\ \A i \in (p + 1)..(q - 1) : s[i] \notin Words

\* No word is white space.
LEMMA WordsAreApart ==
    \A w \in Words : /\ w # "space" /\ w # "nbsp" /\ w # "ref"
                      /\ w # "wide" /\ w # "lf" /\ w # "cr"
BY WordsAreNotWhite DEF White

\* Separator of the gap between two neighbours, told from the text itself.
LEMMA SeparatorAt ==
    ASSUME NEW s \in Seq(Characters), NEW p, NEW q, Neighbours(s, p, q)
    PROVE  Separator(SubSeq(s, p + 1, q - 1)) = SepAt(s, p, q)
<1> DEFINE gap == SubSeq(s, p + 1, q - 1)
<1>1. /\ p \in 1..Len(s) /\ q \in 1..Len(s) /\ p < q /\ Len(s) \in Nat
      /\ s[q] # "lf"
  BY WordsAreApart DEF Neighbours
<1>2. /\ gap \in Seq(Characters) /\ Len(gap) = q - 1 - p /\ DOMAIN gap = 1..(q - 1 - p)
      /\ \A i \in 1..(q - 1 - p) : gap[i] = s[p + i]
  <2>1. Len(gap) = q - 1 - p /\ \A i \in 1..(q - 1 - p) : gap[i] = s[p + 1 + i - 1]
    BY <1>1
  <2>2. gap \in Seq(Characters)
    BY <1>1
  <2>3. \A i \in 1..(q - 1 - p) : p + 1 + i - 1 = p + i
    BY <1>1
  <2> QED
    BY <2>1, <2>2, <2>3
<1> HIDE DEF gap
<1>3. \A i \in DOMAIN gap : i \in LineEnds(gap) <=> p + i \in BreaksAt(s, p, q)
  <2> SUFFICES ASSUME NEW i \in DOMAIN gap
               PROVE  i \in LineEnds(gap) <=> p + i \in BreaksAt(s, p, q)
    OBVIOUS
  <2>1. i \in 1..(q - 1 - p) /\ p + i \in (p + 1)..(q - 1) /\ (p + i) + 1 = p + (i + 1)
    BY <1>1, <1>2
  <2>2. CASE i = Len(gap)
    <3>1. p + (i + 1) = q
      BY <1>1, <1>2, <2>2
    <3> QED
      BY <1>1, <1>2, <2>1, <2>2, <3>1 DEF LineEnds, BreaksAt, Break
  <2>3. CASE i # Len(gap)
    <3>1. i + 1 \in 1..(q - 1 - p)
      BY <1>1, <1>2, <2>1, <2>3
    <3> QED
      BY <1>2, <2>1, <2>3, <3>1 DEF LineEnds, BreaksAt, Break
  <2> QED
    BY <2>2, <2>3
<1>4. \A b \in BreaksAt(s, p, q) : b - p \in DOMAIN gap /\ p + (b - p) = b
  BY <1>1, <1>2 DEF BreaksAt
<1>5. \A i \in LineEnds(gap) : i \in DOMAIN gap /\ i \in Nat
  BY <1>2 DEF LineEnds
<1>6. (\E i, j \in LineEnds(gap) : i # j) <=> \E i, j \in BreaksAt(s, p, q) : i # j
  <2>1. ASSUME NEW i \in LineEnds(gap), NEW j \in LineEnds(gap), i # j
        PROVE  \E k, l \in BreaksAt(s, p, q) : k # l
    <3>1. p + i \in BreaksAt(s, p, q) /\ p + j \in BreaksAt(s, p, q)
      BY <1>3, <1>5
    <3>2. p + i # p + j
      BY <1>1, <1>5, <2>1
    <3> QED
      BY <3>1, <3>2
  <2>2. ASSUME NEW i \in BreaksAt(s, p, q), NEW j \in BreaksAt(s, p, q), i # j
        PROVE  \E k, l \in LineEnds(gap) : k # l
    <3>1. i - p \in LineEnds(gap) /\ j - p \in LineEnds(gap) /\ i - p # j - p
      BY <1>3, <1>4, <2>2
    <3> QED
      BY <3>1
  <2> QED
    BY <2>1, <2>2
<1>7. LineEnds(gap) # {} <=> BreaksAt(s, p, q) # {}
  BY <1>3, <1>4, <1>5
<1>8. gap # <<>> <=> p + 1 # q
  BY <1>1, <1>2
<1> QED
  BY <1>6, <1>7, <1>8 DEF Separator, SepAt, gap

\* The gaps of a text are those between neighbours.
LEMMA GapFacts ==
    ASSUME NEW s \in Seq(Characters), NEW k \in 1..(Len(WordPositions(s)) - 1),
           NEW p, NEW q, p = WordPositions(s)[k], q = WordPositions(s)[k + 1]
    PROVE  /\ Neighbours(s, p, q)
           /\ Gap(s, k) = SubSeq(s, p + 1, q - 1)
<1> DEFINE a == WordPositions(s)
<1>1. Lists(a, WordsAt(s))
  BY WordPositionsList
<1> HIDE DEF a
<1>2. /\ Len(a) \in Nat /\ k \in 1..Len(a) /\ k + 1 \in 1..Len(a) /\ k < k + 1
      /\ p = a[k] /\ q = a[k + 1]
  BY <1>1, ListsFacts DEF a
<1>3. \A l \in 1..Len(a) : a[l] \in Nat /\ a[l] \in 1..Len(s) /\ s[a[l]] \in Words
  <2>1. \A i \in WordsAt(s) : i \in 1..Len(s) /\ s[i] \in Words
    BY DEF WordsAt
  <2> QED
    BY <1>1, <2>1, ListsFacts
<1>4. p \in 1..Len(s) /\ q \in 1..Len(s) /\ p < q /\ s[p] \in Words /\ s[q] \in Words
  BY <1>1, <1>2, <1>3, ListsFacts
<1>5. ASSUME NEW i \in (p + 1)..(q - 1), s[i] \in Words PROVE FALSE
  <2>1. i \in WordsAt(s) /\ p < i /\ i < q
    BY <1>4, <1>5 DEF WordsAt
  <2>2. PICK l \in 1..Len(a) : a[l] = i
    BY <1>1, <2>1, ListsAll
  <2>3. l < k \/ l = k \/ l = k + 1 \/ k + 1 < l
    BY <1>2, <2>2
  <2>4. (l < k => a[l] < a[k]) /\ (k + 1 < l => a[k + 1] < a[l])
    BY <1>1, <1>2, <2>2, ListsFacts
  <2> QED
    BY <1>2, <1>3, <1>4, <2>1, <2>2, <2>3, <2>4
<1> QED
  BY <1>4, <1>5 DEF Neighbours, Gap

\* t reads like s: the same words, separated as they were, by wide white space
\* only where there was some.
SameReading(t, s) ==
    /\ WordsOf(t) = WordsOf(s)
    /\ \A k \in 1..(Len(WordPositions(t)) - 1) :
           /\ Separator(Gap(t, k)) = Separator(Gap(s, k))
           /\ HasWide(Gap(t, k)) => HasWide(Gap(s, k))

\* Wide white space in a gap, told from the text itself.
LEMMA WideInGap ==
    ASSUME NEW s \in Seq(Characters), NEW p, NEW q, Neighbours(s, p, q)
    PROVE  HasWide(SubSeq(s, p + 1, q - 1)) <=> \E i \in (p + 1)..(q - 1) : s[i] = "wide"
<1> DEFINE gap == SubSeq(s, p + 1, q - 1)
<1>1. p \in 1..Len(s) /\ q \in 1..Len(s) /\ p < q /\ Len(s) \in Nat
  BY DEF Neighbours
<1>2. DOMAIN gap = 1..(q - 1 - p) /\ \A i \in 1..(q - 1 - p) : gap[i] = s[p + i]
  <2>1. /\ Len(gap) = q - 1 - p /\ DOMAIN gap = 1..(q - 1 - p)
        /\ \A i \in 1..(q - 1 - p) : gap[i] = s[p + 1 + i - 1]
    BY <1>1
  <2>2. \A i \in 1..(q - 1 - p) : p + 1 + i - 1 = p + i
    BY <1>1
  <2> QED
    BY <2>1, <2>2
<1> HIDE DEF gap
<1>3. \A i \in 1..(q - 1 - p) : p + i \in (p + 1)..(q - 1)
  BY <1>1
<1>4. \A i \in (p + 1)..(q - 1) : i - p \in 1..(q - 1 - p) /\ p + (i - p) = i
  BY <1>1
<1> QED
  BY <1>2, <1>3, <1>4 DEF HasWide, gap

\* Neighbours in t stand for neighbours in s.
LEMMA NeighboursInBoth ==
    ASSUME NEW e, NEW s, NEW t, Thins(e, s, t), NEW p, NEW q, Neighbours(t, p, q)
    PROVE  /\ p \in 1..Len(e) /\ q \in 1..Len(e) /\ Neighbours(s, e[p], e[q])
           /\ \A k \in 1..Len(e) : e[p] < e[k] /\ e[k] < e[q] => k \in (p + 1)..(q - 1)
           /\ \A k \in (p + 1)..(q - 1) :
                  k \in 1..Len(e) /\ e[k] \in (e[p] + 1)..(e[q] - 1)
<1>1. p \in 1..Len(e) /\ q \in 1..Len(e) /\ p < q /\ Len(e) \in Nat
  BY ThinFacts DEF Neighbours
<1>2. \A k \in 1..Len(e) : e[p] < e[k] /\ e[k] < e[q] => k \in (p + 1)..(q - 1)
  <2> SUFFICES ASSUME NEW k \in 1..Len(e), e[p] < e[k], e[k] < e[q]
               PROVE  k \in (p + 1)..(q - 1)
    OBVIOUS
  <2>1. e[k] \in Nat /\ e[p] \in Nat /\ e[q] \in Nat
    BY <1>1, ThinFacts
  <2>2. ~(k <= p)
    <3>1. k < p => e[k] < e[p]
      BY <1>1, ThinFacts
    <3> QED
      BY <1>1, <2>1, <3>1
  <2>3. ~(q <= k)
    <3>1. q < k => e[q] < e[k]
      BY <1>1, ThinFacts
    <3> QED
      BY <1>1, <2>1, <3>1
  <2> QED
    BY <1>1, <2>2, <2>3
<1>3. \A k \in (p + 1)..(q - 1) : k \in 1..Len(e) /\ e[k] \in (e[p] + 1)..(e[q] - 1)
  <2> SUFFICES ASSUME NEW k \in (p + 1)..(q - 1)
               PROVE  k \in 1..Len(e) /\ e[k] \in (e[p] + 1)..(e[q] - 1)
    OBVIOUS
  <2>1. k \in 1..Len(e) /\ p < k /\ k < q
    BY <1>1
  <2>2. e[p] < e[k] /\ e[k] < e[q] /\ e[k] \in Nat /\ e[p] \in Nat /\ e[q] \in Nat
    BY <1>1, <2>1, ThinFacts
  <2> QED
    BY <2>1, <2>2
<1>4. ASSUME NEW i \in (e[p] + 1)..(e[q] - 1), s[i] \in Words PROVE FALSE
  <2>1. e[p] \in 1..Len(s) /\ e[q] \in 1..Len(s) /\ Len(s) \in Nat /\ DOMAIN s = 1..Len(s)
    BY <1>1, ThinFacts
  <2>2. i \in WordsAt(s) /\ e[p] < i /\ i < e[q]
    BY <1>4, <2>1 DEF WordsAt
  <2>3. PICK k \in 1..Len(e) : e[k] = i
    BY <2>2, ThinFacts
  <2>4. k \in (p + 1)..(q - 1) /\ t[k] \in Words
    BY <1>2, <1>4, <2>2, <2>3, ThinFacts
  <2> QED
    BY <2>4 DEF Neighbours
<1>5. e[p] < e[q] /\ e[p] \in 1..Len(s) /\ e[q] \in 1..Len(s)
  BY <1>1, ThinFacts
<1>6. s[e[p]] \in Words /\ s[e[q]] \in Words
  BY <1>1, ThinFacts DEF Neighbours
<1> QED
  BY <1>1, <1>2, <1>3, <1>4, <1>5, <1>6 DEF Neighbours

\* A stage that keeps what separates any two neighbours keeps the reading.
LEMMA StageReads ==
    ASSUME NEW e, NEW s, NEW t, Thins(e, s, t),
           \A p, q : Neighbours(t, p, q) => SepAt(t, p, q) = SepAt(s, e[p], e[q])
    PROVE  SameReading(t, s)
<1> DEFINE a == WordPositions(t)
           b == WordPositions(s)
<1>1. s \in Seq(Characters) /\ t \in Seq(Characters)
  BY DEF Thins
<1>2. Len(a) = Len(b) /\ (\A k \in 1..Len(a) : b[k] = e[a[k]]) /\ WordsOf(t) = WordsOf(s)
  BY ThinKeepsWords
<1>3. Len(a) \in Nat
  BY <1>1, WordPositionsList, ListsFacts
<1> HIDE DEF a, b
<1>4. ASSUME NEW k \in 1..(Len(a) - 1)
      PROVE  /\ Separator(Gap(t, k)) = Separator(Gap(s, k))
             /\ HasWide(Gap(t, k)) => HasWide(Gap(s, k))
  <2> DEFINE p == a[k]
             q == a[k + 1]
  <2>1. k \in 1..Len(a) /\ k + 1 \in 1..Len(a) /\ k \in 1..(Len(b) - 1)
    BY <1>2, <1>3
  <2>2. b[k] = e[p] /\ b[k + 1] = e[q]
    BY <1>2, <2>1
  <2>3. Neighbours(t, p, q) /\ Gap(t, k) = SubSeq(t, p + 1, q - 1)
    BY <1>1, GapFacts DEF a
  <2>4. Neighbours(s, e[p], e[q]) /\ Gap(s, k) = SubSeq(s, e[p] + 1, e[q] - 1)
    BY <1>1, <2>1, <2>2, GapFacts DEF b
  <2> HIDE DEF p, q
  <2>5. /\ Separator(Gap(t, k)) = SepAt(t, p, q)
        /\ Separator(Gap(s, k)) = SepAt(s, e[p], e[q])
    BY <1>1, <2>3, <2>4, SeparatorAt
  <2>6. HasWide(Gap(t, k)) => HasWide(Gap(s, k))
    <3> SUFFICES ASSUME HasWide(Gap(t, k)) PROVE HasWide(Gap(s, k))
      OBVIOUS
    <3>1. PICK i \in (p + 1)..(q - 1) : t[i] = "wide"
      BY <1>1, <2>3, WideInGap
    <3>2. i \in 1..Len(e) /\ e[i] \in (e[p] + 1)..(e[q] - 1)
      BY <2>3, NeighboursInBoth
    <3>3. s[e[i]] = "wide"
      BY <3>1, <3>2, ThinFacts
    <3> QED
      BY <1>1, <2>4, <3>2, <3>3, WideInGap
  <2> QED
    BY <2>3, <2>5, <2>6
<1> QED
  BY <1>2, <1>4 DEF SameReading, a

\* So does one that keeps each line end, and a character of each gap.
KeepsBreaks(e, s, t, p, q) ==
    /\ \A k \in (p + 1)..(q - 1) : Break(t, k) <=> Break(s, e[k])
    /\ \A i \in BreaksAt(s, e[p], e[q]) : \E k \in 1..Len(e) : e[k] = i
    /\ BreaksAt(s, e[p], e[q]) = {} /\ e[p] + 1 # e[q] => p + 1 # q

\* Neighbours are separated as they were when their gap keeps its line ends.
LEMMA SameBreaks ==
    ASSUME NEW e, NEW s, NEW t, Thins(e, s, t), NEW p, NEW q, Neighbours(t, p, q),
           KeepsBreaks(e, s, t, p, q)
    PROVE  SepAt(t, p, q) = SepAt(s, e[p], e[q])
<1> USE DEF KeepsBreaks
<1>1. /\ Neighbours(s, e[p], e[q]) /\ Len(e) \in Nat
      /\ p \in 1..Len(e) /\ q \in 1..Len(e) /\ p < q
      /\ e[p] \in Nat /\ e[q] \in Nat
      /\ \A k \in 1..Len(e) : e[p] < e[k] /\ e[k] < e[q] => k \in (p + 1)..(q - 1)
      /\ \A k \in (p + 1)..(q - 1) :
             k \in 1..Len(e) /\ e[k] \in (e[p] + 1)..(e[q] - 1)
  <2>1. Len(e) \in Nat /\ \A k \in 1..Len(e) : e[k] \in Nat
    BY ThinFacts
  <2> QED
    BY <2>1, NeighboursInBoth DEF Neighbours
<1>2. \A k \in BreaksAt(t, p, q) : k \in 1..Len(e) /\ e[k] \in BreaksAt(s, e[p], e[q])
  BY <1>1 DEF BreaksAt
<1>3. \A i \in BreaksAt(s, e[p], e[q]) : \E k \in BreaksAt(t, p, q) : e[k] = i
  <2> SUFFICES ASSUME NEW i \in BreaksAt(s, e[p], e[q])
               PROVE  \E k \in BreaksAt(t, p, q) : e[k] = i
    OBVIOUS
  <2>1. PICK k \in 1..Len(e) : e[k] = i
    OBVIOUS
  <2>2. i \in Nat /\ e[p] < i /\ i < e[q] /\ Break(s, i)
    BY <1>1 DEF BreaksAt
  <2>3. k \in (p + 1)..(q - 1)
    BY <1>1, <2>1, <2>2
  <2> QED
    BY <2>1, <2>2, <2>3 DEF BreaksAt
<1>4. \A k, l \in BreaksAt(t, p, q) : k # l => e[k] # e[l]
  <2> SUFFICES ASSUME NEW k \in BreaksAt(t, p, q), NEW l \in BreaksAt(t, p, q), k # l
               PROVE  e[k] # e[l]
    OBVIOUS
  <2>1. k \in 1..Len(e) /\ l \in 1..Len(e) /\ e[k] \in Nat /\ e[l] \in Nat
    BY <1>2, ThinFacts
  <2>2. k < l \/ l < k
    BY <1>1, <2>1
  <2>3. e[k] < e[l] \/ e[l] < e[k]
    BY <2>1, <2>2, ThinFacts
  <2> QED
    BY <2>1, <2>3
<1>5. p + 1 # q => e[p] + 1 # e[q]
  <2> SUFFICES ASSUME p + 1 # q PROVE e[p] + 1 # e[q]
    OBVIOUS
  <2>1. p + 1 \in (p + 1)..(q - 1)
    BY <1>1
  <2>2. e[p + 1] \in (e[p] + 1)..(e[q] - 1)
    BY <1>1, <2>1
  <2> QED
    BY <1>1, <2>2
<1>6. (\E i, j \in BreaksAt(t, p, q) : i # j) <=> \E i, j \in BreaksAt(s, e[p], e[q]) : i # j
  BY <1>2, <1>3, <1>4
<1>7. BreaksAt(t, p, q) = {} <=> BreaksAt(s, e[p], e[q]) = {}
  BY <1>2, <1>3
<1> QED
  BY <1>5, <1>6, <1>7 DEF SepAt

-------------------------------------------------------------------------------
(* The stages. *)

LineEnded == Words \cup {"space", "wide", "lf", "cr"}
Lined == Words \cup {"space", "wide", "lf"}

\* To pick characters, all the words among them, is to thin a text out.
LEMMA PickThins ==
    ASSUME NEW S \in SUBSET Characters, NEW s \in Seq(S),
           NEW I \in SUBSET DOMAIN s, WordsAt(s) \subseteq I,
           NEW e, e = Ascending(I, Len(s)), NEW t, t = Pick(s, I)
    PROVE  /\ Thins(e, s, t) /\ t \in Seq(S)
           /\ \A k \in 1..Len(e) : e[k] \in I /\ t[k] = s[e[k]]
           /\ \A i \in I : \E k \in 1..Len(e) : e[k] = i
<1>1. Lists(e, I) /\ t \in Seq(S) /\ Len(t) = Len(e) /\ \A k \in 1..Len(e) : t[k] = s[e[k]]
  BY PickFacts
<1>2. s \in Seq(Characters) /\ t \in Seq(Characters)
  BY <1>1
<1> QED
  BY <1>1, <1>2, ListsFacts DEF Thins

\* References and U+00A0 become spaces: nothing moves.
LEMMA UnescapeReads ==
    ASSUME NEW s \in Seq(Characters), NEW t, t = Unescape(s)
    PROVE  t \in Seq(LineEnded) /\ SameReading(t, s)
<1> DEFINE e == [i \in 1..Len(s) |-> i]
<1>1. /\ Len(s) \in Nat /\ DOMAIN s = 1..Len(s)
      /\ \A i \in 1..Len(s) : s[i] \in Characters
  OBVIOUS
<1>2. t = [i \in 1..Len(s) |-> IF s[i] \in {"ref", "nbsp"} THEN "space" ELSE s[i]]
  BY <1>1 DEF Unescape, Replace
<1>3. \A i \in 1..Len(s) : t[i] \in LineEnded
  BY <1>1, <1>2 DEF LineEnded, Characters, White
<1>4. t \in Seq(LineEnded) /\ Len(t) = Len(s)
  BY <1>1, <1>2, <1>3
<1>5. /\ \A i \in 1..Len(s) : s[i] \in Words \/ t[i] \in Words => t[i] = s[i]
      /\ \A i \in 1..Len(s) : t[i] = "wide" => s[i] = "wide"
  BY <1>2, WordsAreApart
<1>6. Thins(e, s, t)
  <2>1. Lists(e, DOMAIN s) /\ Len(e) = Len(s) /\ \A k \in 1..Len(s) : e[k] = k
    BY <1>1 DEF Lists
  <2>2. t \in Seq(Characters)
    BY <1>4 DEF LineEnded, Characters, White
  <2>3. WordsAt(s) \subseteq DOMAIN s
    BY DEF WordsAt
  <2> HIDE DEF e
  <2> QED
    BY <1>1, <1>4, <1>5, <2>1, <2>2, <2>3 DEF Thins
<1>7. ASSUME NEW p, NEW q, Neighbours(t, p, q)
      PROVE  SepAt(t, p, q) = SepAt(s, e[p], e[q])
  <2>1. p \in 1..Len(s) /\ q \in 1..Len(s) /\ e[p] = p /\ e[q] = q
    BY <1>4, <1>7 DEF Neighbours
  <2>2. \A i \in (p + 1)..(q - 1) : i \in 1..Len(s) /\ i + 1 \in 1..Len(s)
    BY <1>1, <2>1
  <2>3. \A i \in (p + 1)..(q - 1) : Break(t, i) <=> Break(s, i)
    BY <1>2, <2>2 DEF Break
  <2>4. BreaksAt(t, p, q) = BreaksAt(s, p, q)
    BY <2>3 DEF BreaksAt
  <2> QED
    BY <2>1, <2>4 DEF SepAt
<1> HIDE DEF e
<1> QED
  BY <1>4, <1>6, <1>7, StageReads

\* CR LF and CR become LF: each line still ends once.
LEMMA LineBreaksReads ==
    ASSUME NEW s \in Seq(LineEnded), NEW t, t = LineBreaks(s)
    PROVE  t \in Seq(Lined) /\ SameReading(t, s)
<1> DEFINE I == {i \in DOMAIN s : ~(s[i] = "cr" /\ i < Len(s) /\ s[i + 1] = "lf")}
           e == Ascending(I, Len(s))
           kept == Pick(s, I)
<1>1. /\ Len(s) \in Nat /\ DOMAIN s = 1..Len(s)
      /\ LineEnded \in SUBSET Characters
  BY DEF LineEnded, Characters, White
<1>2. I \in SUBSET DOMAIN s /\ WordsAt(s) \subseteq I
  BY WordsAreApart DEF WordsAt
<1>3. /\ Thins(e, s, kept) /\ kept \in Seq(LineEnded)
      /\ \A k \in 1..Len(e) : e[k] \in I /\ kept[k] = s[e[k]]
      /\ \A i \in I : \E k \in 1..Len(e) : e[k] = i
  <2> HIDE DEF I
  <2> QED
    BY <1>1, <1>2, PickThins
<1>4. t = Replace(kept, "cr", "lf")
  BY DEF LineBreaks
<1>5. \A i \in 1..Len(s) :
          i \in I <=> ~(s[i] = "cr" /\ i < Len(s) /\ s[i + 1] = "lf")
  BY <1>1
<1> HIDE DEF I, e, kept
<1>6. Len(e) \in Nat /\ DOMAIN kept = 1..Len(e) /\ \A k \in 1..Len(e) : e[k] \in 1..Len(s)
  BY <1>3, ThinFacts
<1>7. t = [k \in 1..Len(e) |-> IF kept[k] = "cr" THEN "lf" ELSE kept[k]]
  BY <1>4, <1>6 DEF Replace
<1>8. \A k \in 1..Len(e) : kept[k] \in LineEnded
  BY <1>3, <1>6
<1>9. t \in Seq(Lined) /\ Len(t) = Len(e)
  <2>1. \A k \in 1..Len(e) : (IF kept[k] = "cr" THEN "lf" ELSE kept[k]) \in Lined
    BY <1>8 DEF LineEnded, Lined
  <2> QED
    BY <1>6, <1>7, <2>1
<1>10. Thins(e, s, t)
  <2>1. t \in Seq(Characters) /\ s \in Seq(Characters)
    BY <1>1, <1>9 DEF Lined, Characters, White
  <2>2. \E J \in SUBSET DOMAIN s : WordsAt(s) \subseteq J /\ Lists(e, J)
    BY <1>3 DEF Thins
  <2>3. /\ \A k \in 1..Len(e) : s[e[k]] \in Words \/ t[k] \in Words => t[k] = s[e[k]]
        /\ \A k \in 1..Len(e) : t[k] = "wide" => s[e[k]] = "wide"
    BY <1>3, <1>7, WordsAreApart
  <2> QED
    BY <1>9, <2>1, <2>2, <2>3 DEF Thins
<1>11. ASSUME NEW p, NEW q, Neighbours(t, p, q)
       PROVE  SepAt(t, p, q) = SepAt(s, e[p], e[q])
  <2>1. /\ p \in 1..Len(e) /\ q \in 1..Len(e) /\ Neighbours(s, e[p], e[q])
        /\ \A k \in 1..Len(e) : e[p] < e[k] /\ e[k] < e[q] => k \in (p + 1)..(q - 1)
        /\ \A k \in (p + 1)..(q - 1) :
               k \in 1..Len(e) /\ e[k] \in (e[p] + 1)..(e[q] - 1)
    BY <1>10, <1>11, NeighboursInBoth
  <2>2. e[p] \in 1..Len(s) /\ e[q] \in 1..Len(s)
    BY <1>6, <2>1
  <2>3. ASSUME NEW i \in (e[p] + 1)..(e[q] - 1)
        PROVE  i \in 1..Len(s) /\ i < Len(s) /\ i + 1 \in 1..Len(s)
    BY <1>1, <2>2
  <2>4. \A k \in (p + 1)..(q - 1) : Break(t, k) <=> Break(s, e[k])
    <3> SUFFICES ASSUME NEW k \in (p + 1)..(q - 1) PROVE Break(t, k) <=> Break(s, e[k])
      OBVIOUS
    <3>1. k \in 1..Len(e) /\ e[k] \in I /\ kept[k] = s[e[k]]
      BY <1>3, <2>1
    <3>2. e[k] \in 1..Len(s) /\ e[k] < Len(s)
      BY <2>1, <2>3
    <3>3. ~(s[e[k]] = "cr" /\ s[e[k] + 1] = "lf")
      BY <1>5, <3>1, <3>2
    <3>4. t[k] # "cr" /\ (t[k] = "lf" <=> s[e[k]] \in {"lf", "cr"})
      BY <1>7, <3>1
    <3> QED
      BY <3>3, <3>4 DEF Break
  <2>5. \A i \in BreaksAt(s, e[p], e[q]) : \E k \in 1..Len(e) : e[k] = i
    <3> SUFFICES ASSUME NEW i \in BreaksAt(s, e[p], e[q])
                 PROVE  \E k \in 1..Len(e) : e[k] = i
      OBVIOUS
    <3>1. i \in I
      BY <1>5, <2>3 DEF BreaksAt, Break
    <3> QED
      BY <1>3, <3>1
  <2>6. BreaksAt(s, e[p], e[q]) = {} /\ e[p] + 1 # e[q] => p + 1 # q
    <3> SUFFICES ASSUME BreaksAt(s, e[p], e[q]) = {}, e[p] + 1 # e[q], p + 1 = q
                 PROVE  FALSE
      OBVIOUS
    <3>1. e[p] + 1 \in (e[p] + 1)..(e[q] - 1)
      BY <2>2, <2>1 DEF Neighbours
    <3>2. e[p] + 1 \notin I
      <4> SUFFICES ASSUME e[p] + 1 \in I PROVE FALSE
        OBVIOUS
      <4>1. PICK k \in 1..Len(e) : e[k] = e[p] + 1
        BY <1>3
      <4>2. k \in (p + 1)..(q - 1)
        BY <2>1, <2>2, <3>1, <4>1
      <4> QED
        BY <1>6, <2>1, <4>2
    <3>3. s[e[p] + 1] = "cr" /\ s[(e[p] + 1) + 1] = "lf"
      BY <1>5, <2>3, <3>1, <3>2
    <3>4. (e[p] + 1) + 1 \in (e[p] + 1)..(e[q] - 1)
      <4>1. s[e[q]] # "lf"
        BY <2>1, WordsAreApart DEF Neighbours
      <4>2. (e[p] + 1) + 1 # e[q]
        BY <3>3, <4>1
      <4> QED
        BY <2>2, <3>1, <4>2
    <3>5. Break(s, (e[p] + 1) + 1)
      BY <3>3 DEF Break
    <3>6. (e[p] + 1) + 1 \in BreaksAt(s, e[p], e[q])
      BY <3>4, <3>5 DEF BreaksAt
    <3> QED
      BY <3>6
  <2> QED
    <3>1. KeepsBreaks(e, s, t, p, q)
      BY <2>4, <2>5, <2>6 DEF KeepsBreaks
    <3> QED
      BY <1>10, <1>11, <3>1, SameBreaks
<1> QED
  BY <1>9, <1>10, <1>11, StageReads

\* What follows a position in a list.
LEMMA NextInList ==
    ASSUME NEW I \in SUBSET Nat, NEW e, Lists(e, I), NEW k \in 1..Len(e),
           NEW j \in I, e[k] < j, \A m \in (e[k] + 1)..(j - 1) : m \notin I
    PROVE  k + 1 \in 1..Len(e) /\ e[k + 1] = j
<1>1. PICK l \in 1..Len(e) : e[l] = j
  BY ListsAll
<1>2. Len(e) \in Nat /\ e[k] \in Nat /\ e[l] \in Nat
  BY ListsFacts
<1>3. k < l
  <2>1. l < k => e[l] < e[k]
    BY ListsFacts
  <2> QED
    BY <1>1, <1>2, <2>1
<1>4. k + 1 \in 1..Len(e) /\ k < k + 1 /\ (k + 1 < l \/ k + 1 = l)
  BY <1>2, <1>3
<1>5. e[k + 1] \in I /\ e[k + 1] \in Nat /\ e[k] < e[k + 1]
  BY <1>4, ListsFacts
<1>6. ~(k + 1 < l)
  <2> SUFFICES ASSUME k + 1 < l PROVE FALSE
    OBVIOUS
  <2>1. e[k + 1] < e[l]
    BY <1>4, ListsFacts
  <2>2. e[k + 1] \in (e[k] + 1)..(j - 1)
    BY <1>1, <1>2, <1>5, <2>1
  <2> QED
    BY <1>5, <2>2
<1> QED
  BY <1>1, <1>4, <1>6

\* Wide white space has words around it on its line.
WideInside(s) == \A i \in 1..Len(s) : s[i] = "wide" => WithinLine(s, i)

\* What is within a line stays within it when no character is replaced.
LEMMA StaysWithinLine ==
    ASSUME NEW e, NEW s, NEW t, Thins(e, s, t), \A k \in 1..Len(e) : t[k] = s[e[k]],
           NEW k \in 1..Len(e), WithinLine(s, e[k])
    PROVE  WithinLine(t, k)
<1>1. /\ Len(e) \in Nat /\ Len(s) \in Nat /\ Len(t) = Len(e) /\ DOMAIN s = 1..Len(s)
      /\ \A l \in 1..Len(e) : e[l] \in 1..Len(s)
      /\ \A j, l \in 1..Len(e) : j < l => e[j] < e[l]
      /\ \A i \in WordsAt(s) : \E l \in 1..Len(e) : e[l] = i
  BY ThinFacts
<1>2. \E l \in 1..(k - 1) : t[l] \in Words /\ \A j \in l..k : t[j] # "lf"
  <2>1. PICK i \in 1..(e[k] - 1) : s[i] \in Words /\ \A j \in i..e[k] : s[j] # "lf"
    BY DEF WithinLine
  <2>2. PICK l \in 1..Len(e) : e[l] = i
    <3>1. i \in WordsAt(s)
      BY <1>1, <2>1 DEF WordsAt
    <3> QED
      BY <1>1, <3>1
  <2>3. l < k
    <3>1. e[l] < e[k] /\ e[k] \in Nat /\ e[l] \in Nat
      BY <1>1, <2>2
    <3>2. k < l => e[k] < e[l]
      BY <1>1
    <3> QED
      BY <3>1, <3>2
  <2>4. ASSUME NEW j \in l..k PROVE t[j] # "lf"
    <3>1. j \in 1..Len(e) /\ (l < j \/ l = j) /\ (j < k \/ j = k)
      BY <1>1
    <3>2. e[j] \in Nat /\ e[l] <= e[j] /\ e[j] <= e[k] /\ e[k] \in Nat /\ e[l] \in Nat
      BY <1>1, <3>1
    <3>3. e[j] \in i..e[k]
      BY <2>2, <3>2
    <3> QED
      BY <2>1, <3>1, <3>3
  <2>5. l \in 1..(k - 1) /\ t[l] \in Words
    BY <2>1, <2>2, <2>3
  <2> QED
    BY <2>4, <2>5
<1>3. \E l \in (k + 1)..Len(t) : t[l] \in Words /\ \A j \in k..l : t[j] # "lf"
  <2>1. PICK i \in (e[k] + 1)..Len(s) : s[i] \in Words /\ \A j \in e[k]..i : s[j] # "lf"
    BY DEF WithinLine
  <2>0. e[k] \in Nat /\ i \in 1..Len(s) /\ e[k] < i
    BY <1>1
  <2>2. PICK l \in 1..Len(e) : e[l] = i
    <3>1. i \in WordsAt(s)
      BY <1>1, <2>0, <2>1 DEF WordsAt
    <3> QED
      BY <1>1, <3>1
  <2>3. k < l
    <3>1. l < k => e[l] < e[k]
      BY <1>1
    <3> QED
      BY <2>0, <2>2, <3>1
  <2>4. ASSUME NEW j \in k..l PROVE t[j] # "lf"
    <3>1. j \in 1..Len(e) /\ (k < j \/ k = j) /\ (j < l \/ j = l)
      BY <1>1
    <3>2. e[j] \in Nat /\ e[k] <= e[j] /\ e[j] <= e[l]
      BY <1>1, <3>1
    <3>3. e[j] \in e[k]..i
      BY <2>0, <2>2, <3>2
    <3> QED
      BY <2>1, <3>1, <3>3
  <2>5. l \in (k + 1)..Len(t) /\ t[l] \in Words
    BY <1>1, <2>1, <2>2, <2>3
  <2> QED
    BY <2>4, <2>5
<1> QED
  BY <1>2, <1>3 DEF WithinLine

\* So wide white space that is kept stays inside.
LEMMA WideStaysInside ==
    ASSUME NEW e, NEW s, NEW t, Thins(e, s, t), \A k \in 1..Len(e) : t[k] = s[e[k]],
           \A k \in 1..Len(e) : s[e[k]] = "wide" => WithinLine(s, e[k])
    PROVE  WideInside(t)
<1>1. Len(t) = Len(e)
  BY ThinFacts
<1> QED
  BY <1>1, StaysWithinLine DEF WideInside

\* Between neighbours on one line there is no other line.
LEMMA WideGap ==
    ASSUME NEW s, Len(s) \in Nat, WideInside(s), NEW p, NEW q, Neighbours(s, p, q),
           NEW i \in (p + 1)..(q - 1), s[i] = "wide"
    PROVE  \A j \in (p + 1)..(q - 1) : s[j] # "lf"
<1>1. /\ p \in 1..Len(s) /\ q \in 1..Len(s) /\ p < q
      /\ \A j \in (p + 1)..(q - 1) : s[j] \notin Words
  BY DEF Neighbours
<1>2. WithinLine(s, i)
  BY <1>1 DEF WideInside
<1>3. PICK k \in 1..(i - 1) : s[k] \in Words /\ \A j \in k..i : s[j] # "lf"
  BY <1>2 DEF WithinLine
<1>4. PICK l \in (i + 1)..Len(s) : s[l] \in Words /\ \A j \in i..l : s[j] # "lf"
  BY <1>2 DEF WithinLine
<1>5. k <= p /\ q <= l
  <2>1. k \notin (p + 1)..(q - 1) /\ l \notin (p + 1)..(q - 1)
    BY <1>1, <1>3, <1>4
  <2> QED
    BY <1>1, <2>1
<1>6. \A j \in (p + 1)..(q - 1) : j \in k..i \/ j \in i..l
  BY <1>1, <1>5
<1> QED
  BY <1>3, <1>4, <1>6

\* A space has a character that is not collapsed on either side.
SingleSpaces(s) ==
    \A i \in 1..Len(s) :
        s[i] = "space" => /\ i > 1 /\ i < Len(s)
                          /\ s[i - 1] \notin {"space", "lf"}
                          /\ s[i + 1] \notin {"space", "lf"}

\* Between two neighbours there are line feeds only, or none.  In the second case
\* there is wide white space, or at most one space.
LEMMA GapKinds ==
    ASSUME NEW s \in Seq(Lined), SingleSpaces(s), WideInside(s),
           NEW p, NEW q, Neighbours(s, p, q)
    PROVE  \/ \A i \in (p + 1)..(q - 1) : s[i] = "lf"
           \/ /\ \A i \in (p + 1)..(q - 1) : s[i] # "lf"
              /\ \/ \E i \in (p + 1)..(q - 1) : s[i] = "wide"
                 \/ s[p + 1] = "space" /\ q = p + 2
<1>1. /\ p \in 1..Len(s) /\ q \in 1..Len(s) /\ p < q /\ Len(s) \in Nat
      /\ \A i \in (p + 1)..(q - 1) : s[i] \notin Words
  BY DEF Neighbours
<1>2. \A i \in (p + 1)..(q - 1) : i \in 1..Len(s) /\ s[i] \in {"space", "wide", "lf"}
  <2> SUFFICES ASSUME NEW i \in (p + 1)..(q - 1)
               PROVE  i \in 1..Len(s) /\ s[i] \in {"space", "wide", "lf"}
    OBVIOUS
  <2>1. i \in 1..Len(s)
    BY <1>1
  <2>2. s[i] \in Lined /\ s[i] \notin Words
    BY <1>1, <2>1, ElementOfSeq
  <2> QED
    BY <2>1, <2>2 DEF Lined
<1>3. CASE \E i \in (p + 1)..(q - 1) : s[i] = "wide"
  BY <1>1, <1>3, WideGap
<1>4. CASE ~\E i \in (p + 1)..(q - 1) : s[i] = "wide"
  <2>1. ASSUME NEW i \in (p + 1)..(q - 1), s[i] = "space" PROVE i = p + 1 /\ q = p + 2
    <3>1. s[i - 1] \notin {"space", "lf"} /\ s[i + 1] \notin {"space", "lf"}
      BY <1>2, <2>1 DEF SingleSpaces
    <3>2. i - 1 \notin (p + 1)..(q - 1) /\ i + 1 \notin (p + 1)..(q - 1)
      BY <1>2, <1>4, <3>1
    <3> QED
      BY <1>1, <3>2
  <2>2. CASE \E i \in (p + 1)..(q - 1) : s[i] = "space"
    <3>1. s[p + 1] = "space" /\ q = p + 2
      BY <2>1, <2>2
    <3>2. \A i \in (p + 1)..(q - 1) : i = p + 1
      BY <1>1, <3>1
    <3> QED
      BY <3>1, <3>2
  <2>3. CASE ~\E i \in (p + 1)..(q - 1) : s[i] = "space"
    BY <1>2, <1>4, <2>3
  <2> QED
    BY <2>2, <2>3
<1> QED
  BY <1>3, <1>4

\* Wide white space goes from the ends of a line: between two words with no line
\* end between them none goes.
LEMMA StripWideReads ==
    ASSUME NEW s \in Seq(Lined), NEW t, t = StripWide(s)
    PROVE  t \in Seq(Lined) /\ SameReading(t, s) /\ WideInside(t)
<1> DEFINE I == {i \in DOMAIN s : s[i] = "wide" => WithinLine(s, i)}
           e == Ascending(I, Len(s))
<1>1. /\ Len(s) \in Nat /\ DOMAIN s = 1..Len(s)
      /\ Lined \in SUBSET Characters
      /\ \A i \in 1..Len(s) : s[i] \in Lined
  BY DEF Lined, Characters, White
<1>2. I \in SUBSET DOMAIN s /\ WordsAt(s) \subseteq I
  BY WordsAreApart DEF WordsAt
<1>3. t = Pick(s, I)
  BY DEF StripWide
<1>4. \A i \in 1..Len(s) : i \in I <=> (s[i] = "wide" => WithinLine(s, i))
  BY <1>1
<1> HIDE DEF I, e
<1>5. /\ Thins(e, s, t) /\ t \in Seq(Lined)
      /\ \A k \in 1..Len(e) : e[k] \in I /\ t[k] = s[e[k]]
      /\ \A i \in I : \E k \in 1..Len(e) : e[k] = i
  BY <1>1, <1>2, <1>3, PickThins DEF e
<1>6. Len(e) \in Nat /\ \A k \in 1..Len(e) : e[k] \in 1..Len(s)
  BY <1>5, ThinFacts
<1>7. WideInside(t)
  <2>1. \A k \in 1..Len(e) : s[e[k]] = "wide" => WithinLine(s, e[k])
    BY <1>4, <1>5, <1>6
  <2> QED
    BY <1>5, <2>1, WideStaysInside
<1>8. ASSUME NEW p, NEW q, Neighbours(t, p, q)
      PROVE  SepAt(t, p, q) = SepAt(s, e[p], e[q])
  <2> DEFINE P == e[p]
             Q == e[q]
  <2>1. /\ p \in 1..Len(e) /\ q \in 1..Len(e) /\ Neighbours(s, P, Q)
        /\ \A k \in 1..Len(e) : P < e[k] /\ e[k] < Q => k \in (p + 1)..(q - 1)
        /\ \A k \in (p + 1)..(q - 1) :
               k \in 1..Len(e) /\ e[k] \in (P + 1)..(Q - 1)
    BY <1>5, <1>8, NeighboursInBoth
  <2>2. P \in 1..Len(s) /\ Q \in 1..Len(s) /\ P < Q /\ s[P] \in Words /\ s[Q] \in Words
    BY <1>6, <2>1 DEF Neighbours
  <2> HIDE DEF P, Q
  <2>3. \A i \in (P + 1)..(Q - 1) : i \in 1..Len(s) /\ s[i] \in {"space", "wide", "lf"}
    <3> SUFFICES ASSUME NEW i \in (P + 1)..(Q - 1)
                 PROVE  i \in 1..Len(s) /\ s[i] \in {"space", "wide", "lf"}
      OBVIOUS
    <3>1. i \in 1..Len(s)
      BY <1>1, <2>2
    <3>2. s[i] \notin Words
      BY <2>1 DEF Neighbours
    <3> QED
      BY <1>1, <3>1, <3>2 DEF Lined
  <2>4. \A i \in (P + 1)..(Q - 1) : Break(s, i) <=> s[i] = "lf"
    BY <2>3 DEF Break
  <2>5. \A k \in (p + 1)..(q - 1) : Break(t, k) <=> Break(s, e[k])
    <3> SUFFICES ASSUME NEW k \in (p + 1)..(q - 1) PROVE Break(t, k) <=> Break(s, e[k])
      OBVIOUS
    <3>1. t[k] = s[e[k]] /\ e[k] \in (P + 1)..(Q - 1)
      BY <1>5, <2>1
    <3> QED
      BY <2>3, <2>4, <3>1 DEF Break
  <2>6. \A i \in BreaksAt(s, P, Q) : \E k \in 1..Len(e) : e[k] = i
    <3> SUFFICES ASSUME NEW i \in BreaksAt(s, P, Q)
                 PROVE  \E k \in 1..Len(e) : e[k] = i
      OBVIOUS
    <3>1. i \in 1..Len(s) /\ s[i] # "wide"
      BY <2>3, <2>4 DEF BreaksAt
    <3> QED
      BY <1>4, <1>5, <3>1
  <2>7. BreaksAt(s, P, Q) = {} /\ P + 1 # Q => p + 1 # q
    <3> SUFFICES ASSUME BreaksAt(s, P, Q) = {}, P + 1 # Q
                 PROVE  p + 1 # q
      OBVIOUS
    <3>1. P + 1 \in (P + 1)..(Q - 1) /\ P \in 1..((P + 1) - 1) /\ Q \in ((P + 1) + 1)..Len(s)
      BY <2>2
    <3>2. \A j \in P..Q : s[j] # "lf"
      <4> SUFFICES ASSUME NEW j \in P..Q PROVE s[j] # "lf"
        OBVIOUS
      <4>1. j = P \/ j = Q \/ j \in (P + 1)..(Q - 1)
        BY <2>2
      <4>2. s[P] # "lf" /\ s[Q] # "lf"
        BY <2>2, WordsAreApart
      <4>3. j \in (P + 1)..(Q - 1) => s[j] # "lf"
        BY <2>4 DEF BreaksAt
      <4> QED
        BY <4>1, <4>2, <4>3
    <3>3. \A j : j \in P..(P + 1) \/ j \in (P + 1)..Q => j \in P..Q
      BY <2>2, <3>1
    <3>4. WithinLine(s, P + 1)
      BY <2>2, <3>1, <3>2, <3>3 DEF WithinLine
    <3>5. PICK k \in 1..Len(e) : e[k] = P + 1
      BY <1>4, <1>5, <2>3, <3>1, <3>4
    <3>6. k \in (p + 1)..(q - 1)
      BY <2>1, <2>2, <3>1, <3>5
    <3> QED
      BY <1>6, <2>1, <3>6
  <2>8. KeepsBreaks(e, s, t, p, q)
    BY <2>5, <2>6, <2>7 DEF KeepsBreaks, P, Q
  <2> QED
    BY <1>5, <1>8, <2>8, SameBreaks
<1> QED
  BY <1>5, <1>7, <1>8, StageReads

\* Spaces go from the ends of a line and from other spaces: one stays between two
\* words that nothing else separates.
LEMMA TrimLinesReads ==
    ASSUME NEW s \in Seq(Lined), WideInside(s), NEW t, t = TrimLines(s)
    PROVE  t \in Seq(Lined) /\ SameReading(t, s) /\ SingleSpaces(t) /\ WideInside(t)
<1> DEFINE I == {i \in DOMAIN s :
                    s[i] = "space" =>
                        /\ i > 1 /\ s[i - 1] \notin {"space", "lf"}
                        /\ \E k \in (i + 1)..Len(s) :
                              /\ s[k] \notin {"space", "lf"}
                              /\ \A j \in i..(k - 1) : s[j] = "space"}
           e == Ascending(I, Len(s))
<1>1. /\ Len(s) \in Nat /\ DOMAIN s = 1..Len(s)
      /\ Lined \in SUBSET Characters
      /\ \A i \in 1..Len(s) : s[i] \in Lined
  BY DEF Lined, Characters, White
<1>2. I \in SUBSET DOMAIN s /\ WordsAt(s) \subseteq I
  BY WordsAreApart DEF WordsAt
<1>3. t = Pick(s, I)
  BY DEF TrimLines
<1>4. \A i \in 1..Len(s) :
          i \in I <=> (s[i] = "space" =>
                        /\ i > 1 /\ s[i - 1] \notin {"space", "lf"}
                        /\ \E k \in (i + 1)..Len(s) :
                              /\ s[k] \notin {"space", "lf"}
                              /\ \A j \in i..(k - 1) : s[j] = "space")
  BY <1>1
<1> HIDE DEF I, e
<1>5. /\ Thins(e, s, t) /\ t \in Seq(Lined)
      /\ \A k \in 1..Len(e) : e[k] \in I /\ t[k] = s[e[k]]
      /\ \A i \in I : \E k \in 1..Len(e) : e[k] = i
  BY <1>1, <1>2, <1>3, PickThins DEF e
<1>6. Lists(e, I) /\ I \in SUBSET Nat
  BY <1>1, <1>2, PickFacts DEF e
<1>7. /\ Len(e) \in Nat /\ Len(t) = Len(e)
      /\ \A k \in 1..Len(e) : e[k] \in 1..Len(s)
      /\ \A j, k \in 1..Len(e) : j < k => e[j] < e[k]
  BY <1>5, ThinFacts
<1>8. ASSUME NEW p, NEW q, Neighbours(t, p, q)
      PROVE  SepAt(t, p, q) = SepAt(s, e[p], e[q])
  <2>1. /\ p \in 1..Len(e) /\ q \in 1..Len(e) /\ Neighbours(s, e[p], e[q])
        /\ \A k \in 1..Len(e) : e[p] < e[k] /\ e[k] < e[q] => k \in (p + 1)..(q - 1)
        /\ \A k \in (p + 1)..(q - 1) :
               k \in 1..Len(e) /\ e[k] \in (e[p] + 1)..(e[q] - 1)
    BY <1>5, <1>8, NeighboursInBoth
  <2>2. e[p] \in 1..Len(s) /\ e[q] \in 1..Len(s)
    BY <1>7, <2>1
  <2>3. \A i \in (e[p] + 1)..(e[q] - 1) : i \in 1..Len(s) /\ s[i] \in {"space", "wide", "lf"}
    <3> SUFFICES ASSUME NEW i \in (e[p] + 1)..(e[q] - 1)
                 PROVE  i \in 1..Len(s) /\ s[i] \in {"space", "wide", "lf"}
      OBVIOUS
    <3>1. i \in 1..Len(s)
      BY <1>1, <2>2
    <3>2. s[i] \notin Words
      BY <2>1 DEF Neighbours
    <3> QED
      BY <1>1, <3>1, <3>2 DEF Lined
  <2>4. \A i \in (e[p] + 1)..(e[q] - 1) : Break(s, i) <=> s[i] = "lf"
    BY <2>3 DEF Break
  <2>5. \A k \in (p + 1)..(q - 1) : Break(t, k) <=> Break(s, e[k])
    <3> SUFFICES ASSUME NEW k \in (p + 1)..(q - 1) PROVE Break(t, k) <=> Break(s, e[k])
      OBVIOUS
    <3>1. t[k] = s[e[k]] /\ e[k] \in (e[p] + 1)..(e[q] - 1)
      BY <1>5, <2>1
    <3> QED
      BY <2>3, <2>4, <3>1 DEF Break
  <2>6. \A i \in BreaksAt(s, e[p], e[q]) : \E k \in 1..Len(e) : e[k] = i
    <3> SUFFICES ASSUME NEW i \in BreaksAt(s, e[p], e[q])
                 PROVE  \E k \in 1..Len(e) : e[k] = i
      OBVIOUS
    <3>1. i \in 1..Len(s) /\ s[i] # "space"
      BY <2>3, <2>4 DEF BreaksAt
    <3>2. i \in I
      BY <1>4, <3>1
    <3> QED
      BY <1>5, <3>2
  <2>7. BreaksAt(s, e[p], e[q]) = {} /\ e[p] + 1 # e[q] => p + 1 # q
    <3> SUFFICES ASSUME BreaksAt(s, e[p], e[q]) = {}, e[p] + 1 # e[q]
                 PROVE  p + 1 # q
      OBVIOUS
    <3> DEFINE i == e[p] + 1
    <3>1. /\ i \in (e[p] + 1)..(e[q] - 1) /\ i > 1 /\ i - 1 = e[p]
          /\ e[q] \in (i + 1)..Len(s)
      BY <2>1, <2>2 DEF Neighbours
    <3>2. \A j \in (e[p] + 1)..(e[q] - 1) : s[j] # "lf"
      BY <2>3, <2>4 DEF BreaksAt
    <3>3. s[i - 1] \in Words /\ s[e[q]] \in Words
      BY <2>1, <3>1 DEF Neighbours
    <3>4. i \in I
      <4> SUFFICES ASSUME s[i] = "space" PROVE i \in I
        BY <1>4, <2>3, <3>1
      <4>1. i \in 1..Len(s)
        BY <2>3, <3>1
      <4>2. s[i - 1] \notin {"space", "lf"}
        BY <3>3, WordsAreApart
      <4> DEFINE Solid(k) == s[k] \notin {"space", "lf"}
      <4>3. \E k \in (i + 1)..Len(s) : Solid(k) /\ \A j \in i..(k - 1) : s[j] = "space"
        <5>1. s[e[q]] \notin {"space", "lf"} /\ e[q] \in Nat
          BY <2>2, <3>3, WordsAreApart
        <5> DEFINE M == {k \in Nat : k > i /\ s[k] \notin {"space", "lf"}}
        <5>2. M \in SUBSET Nat /\ e[q] \in M
          BY <3>1, <5>1
        <5>3. PICK k \in M : \A m \in M : k <= m
          <6> HIDE DEF M, i
          <6> QED
            BY <5>2, LeastNumber
        <5>4. k \in Nat /\ k > i /\ Solid(k) /\ k <= e[q]
          BY <5>2, <5>3
        <5>5. ASSUME NEW j \in i..(k - 1) PROVE s[j] = "space"
          <6>1. /\ j \in (e[p] + 1)..(e[q] - 1) /\ j \in Nat /\ j < k
                /\ ~(j > i) => j = i
            BY <2>2, <3>1, <5>4
          <6>2. j > i => s[j] \in {"space", "lf"}
            BY <5>3, <6>1
          <6> HIDE DEF i
          <6> QED
            BY <3>2, <6>1, <6>2
        <5>6. k \in (i + 1)..Len(s)
          BY <2>2, <3>1, <5>4
        <5> QED
          BY <5>4, <5>5, <5>6
      <4> HIDE DEF i
      <4> QED
        BY <1>4, <3>1, <4>1, <4>2, <4>3
    <3>5. PICK k \in 1..Len(e) : e[k] = i
      BY <1>5, <3>4
    <3>6. k \in (p + 1)..(q - 1)
      BY <2>1, <2>2, <3>1, <3>5
    <3> QED
      BY <1>7, <2>1, <3>6
  <2>8. KeepsBreaks(e, s, t, p, q)
    BY <2>5, <2>6, <2>7 DEF KeepsBreaks
  <2> QED
    BY <1>5, <1>8, <2>8, SameBreaks
<1>9. SingleSpaces(t)
  <2> SUFFICES ASSUME NEW k \in 1..Len(t), t[k] = "space"
               PROVE  /\ k > 1 /\ k < Len(t)
                      /\ t[k - 1] \notin {"space", "lf"}
                      /\ t[k + 1] \notin {"space", "lf"}
    BY DEF SingleSpaces
  <2> DEFINE i == e[k]
  <2>1. k \in 1..Len(e) /\ i \in I /\ i \in 1..Len(s) /\ s[i] = "space"
    BY <1>5, <1>7
  <2>2. i > 1 /\ s[i - 1] \notin {"space", "lf"}
    BY <1>4, <2>1
  <2>3. PICK j \in (i + 1)..Len(s) :
            /\ s[j] \notin {"space", "lf"}
            /\ \A m \in i..(j - 1) : s[m] = "space"
    BY <1>4, <2>1
  <2>4. i - 1 \in 1..Len(s)
    BY <2>1, <2>2
  <2>5. i - 1 \in I /\ j \in I /\ j \in 1..Len(s)
    <3>1. j \in 1..Len(s)
      BY <2>1, <2>3
    <3> QED
      BY <1>4, <2>2, <2>3, <2>4, <3>1
  <2>6. PICK l \in 1..Len(e) : e[l] = i - 1
    BY <1>5, <2>5
  <2>7. l + 1 \in 1..Len(e) /\ e[l + 1] = i
    <3>1. e[l] < i /\ \A m \in (e[l] + 1)..(i - 1) : m \notin I
      BY <2>1, <2>6
    <3> QED
      BY <1>6, <2>1, <3>1, NextInList
  <2>8. l + 1 = k
    <3>1. l + 1 < k => e[l + 1] < e[k]
      BY <1>7, <2>1, <2>7
    <3>2. k < l + 1 => e[k] < e[l + 1]
      BY <1>7, <2>1, <2>7
    <3> QED
      BY <1>7, <2>1, <2>7, <3>1, <3>2
  <2>9. k + 1 \in 1..Len(e) /\ e[k + 1] = j
    <3>1. \A m \in (e[k] + 1)..(j - 1) : m \notin I
      <4> SUFFICES ASSUME NEW m \in (i + 1)..(j - 1) PROVE m \notin I
        OBVIOUS
      <4>1. m \in 1..Len(s) /\ s[m] = "space" /\ s[m - 1] = "space"
        <5>1. m \in i..(j - 1) /\ m - 1 \in i..(j - 1) /\ m \in 1..Len(s)
          BY <2>1, <2>3
        <5> QED
          BY <2>3, <5>1
      <4> QED
        BY <1>4, <4>1
    <3>2. e[k] < j
      BY <2>1, <2>3
    <3> HIDE DEF i
    <3> QED
      BY <1>6, <2>1, <2>5, <3>1, <3>2, NextInList
  <2>10. l = k - 1 /\ k > 1 /\ k < Len(t)
    BY <1>7, <2>6, <2>8, <2>9
  <2> QED
    BY <1>5, <2>2, <2>3, <2>6, <2>9, <2>10
<1>10. WideInside(t)
  <2>1. \A k \in 1..Len(e) : s[e[k]] = "wide" => WithinLine(s, e[k])
    BY <1>7 DEF WideInside
  <2> QED
    BY <1>5, <2>1, WideStaysInside
<1> QED
  BY <1>5, <1>8, <1>9, <1>10, StageReads

FewBreaks(s) ==
    \A i \in 1..Len(s) : ~(i > 2 /\ s[i - 2] = "lf" /\ s[i - 1] = "lf" /\ s[i] = "lf")

\* Of more than two line feeds two are left, which separate as well.
LEMMA CompactBreaksReads ==
    ASSUME NEW s \in Seq(Lined), SingleSpaces(s), WideInside(s), NEW t, t = CompactBreaks(s)
    PROVE  /\ t \in Seq(Lined) /\ SameReading(t, s)
           /\ SingleSpaces(t) /\ WideInside(t) /\ FewBreaks(t)
<1> DEFINE I == {i \in DOMAIN s : ~(i > 2 /\ \A j \in (i - 2)..i : s[j] = "lf")}
           e == Ascending(I, Len(s))
<1>1. /\ Len(s) \in Nat /\ DOMAIN s = 1..Len(s)
      /\ Lined \in SUBSET Characters
      /\ \A i \in 1..Len(s) : s[i] \in Lined
  BY DEF Lined, Characters, White
<1>2. \A i \in 1..Len(s) :
          i \in I <=> ~(i > 2 /\ s[i - 2] = "lf" /\ s[i - 1] = "lf" /\ s[i] = "lf")
  <2> SUFFICES ASSUME NEW i \in 1..Len(s)
               PROVE  i \in I <=> ~(i > 2 /\ s[i - 2] = "lf" /\ s[i - 1] = "lf" /\ s[i] = "lf")
    OBVIOUS
  <2>1. (i - 2)..i = {i - 2, i - 1, i}
    OBVIOUS
  <2> QED
    BY <1>1, <2>1
<1>3. I \in SUBSET DOMAIN s /\ WordsAt(s) \subseteq I
  <2>1. ASSUME NEW i \in WordsAt(s) PROVE i \in I
    <3>1. i \in 1..Len(s) /\ s[i] # "lf"
      BY WordsAreApart DEF WordsAt
    <3> QED
      BY <1>2, <3>1
  <2> QED
    BY <2>1
<1>4. t = Pick(s, I)
  BY DEF CompactBreaks
<1> HIDE DEF I, e
<1>5. /\ Thins(e, s, t) /\ t \in Seq(Lined)
      /\ \A k \in 1..Len(e) : e[k] \in I /\ t[k] = s[e[k]]
      /\ \A i \in I : \E k \in 1..Len(e) : e[k] = i
  BY <1>1, <1>3, <1>4, PickThins DEF e
<1>6. Lists(e, I) /\ I \in SUBSET Nat
  BY <1>1, <1>3, PickFacts DEF e
<1>7. /\ Len(e) \in Nat /\ Len(t) = Len(e)
      /\ \A k \in 1..Len(e) : e[k] \in 1..Len(s)
      /\ \A j, k \in 1..Len(e) : j < k => e[j] < e[k]
  BY <1>5, ThinFacts
<1>8. ASSUME NEW p, NEW q, Neighbours(t, p, q)
      PROVE  SepAt(t, p, q) = SepAt(s, e[p], e[q])
  <2> DEFINE P == e[p]
             Q == e[q]
  <2>1. /\ p \in 1..Len(e) /\ q \in 1..Len(e) /\ Neighbours(s, P, Q)
        /\ \A k \in 1..Len(e) : P < e[k] /\ e[k] < Q => k \in (p + 1)..(q - 1)
        /\ \A k \in (p + 1)..(q - 1) :
               k \in 1..Len(e) /\ e[k] \in (P + 1)..(Q - 1)
    BY <1>5, <1>8, NeighboursInBoth
  <2>2. P \in 1..Len(s) /\ Q \in 1..Len(s) /\ P < Q /\ s[P] # "lf"
    BY <1>7, <2>1, WordsAreApart DEF Neighbours
  <2> HIDE DEF P, Q
  <2>3. \A i \in (P + 1)..(Q - 1) : i \in 1..Len(s) /\ s[i] \in {"space", "wide", "lf"}
    <3> SUFFICES ASSUME NEW i \in (P + 1)..(Q - 1)
                 PROVE  i \in 1..Len(s) /\ s[i] \in {"space", "wide", "lf"}
      OBVIOUS
    <3>1. i \in 1..Len(s)
      BY <1>1, <2>2
    <3>2. s[i] \notin Words
      BY <2>1 DEF Neighbours
    <3> QED
      BY <1>1, <3>1, <3>2 DEF Lined
  <2>4. \A i \in (P + 1)..(Q - 1) : Break(s, i) <=> s[i] = "lf"
    BY <2>3 DEF Break
  <2>5. \A k \in (p + 1)..(q - 1) : Break(t, k) <=> Break(s, e[k])
    <3> SUFFICES ASSUME NEW k \in (p + 1)..(q - 1) PROVE Break(t, k) <=> Break(s, e[k])
      OBVIOUS
    <3>1. t[k] = s[e[k]] /\ e[k] \in (P + 1)..(Q - 1)
      BY <1>5, <2>1
    <3> QED
      BY <2>3, <2>4, <3>1 DEF Break
  <2>6. CASE \A i \in (P + 1)..(Q - 1) : i \in I
    <3>1. \A i \in BreaksAt(s, P, Q) : \E k \in 1..Len(e) : e[k] = i
      BY <1>5, <2>6 DEF BreaksAt
    <3>2. P + 1 # Q => p + 1 # q
      <4> SUFFICES ASSUME P + 1 # Q PROVE p + 1 # q
        OBVIOUS
      <4>1. P + 1 \in (P + 1)..(Q - 1)
        BY <2>2
      <4>2. PICK k \in 1..Len(e) : e[k] = P + 1
        BY <1>5, <2>6, <4>1
      <4>3. k \in (p + 1)..(q - 1)
        BY <2>1, <2>2, <4>1, <4>2
      <4> QED
        BY <1>7, <2>1, <4>3
    <3>3. KeepsBreaks(e, s, t, p, q)
      BY <2>5, <3>1, <3>2 DEF KeepsBreaks, P, Q
    <3> QED
      BY <1>5, <1>8, <3>3, SameBreaks
  <2>7. CASE \E i \in (P + 1)..(Q - 1) : i \notin I
    <3>1. PICK i \in (P + 1)..(Q - 1) : i \notin I
      BY <2>7
    <3>2. i > 2 /\ s[i - 2] = "lf" /\ s[i - 1] = "lf" /\ s[i] = "lf"
      BY <1>2, <2>3, <3>1
    <3>3. P < i - 2 /\ i - 2 \in (P + 1)..(Q - 1) /\ i - 1 \in (P + 1)..(Q - 1)
      <4>1. s[P] # s[i - 2] /\ s[P] # s[i - 1]
        BY <2>2, <3>2
      <4>2. P # i - 2 /\ P # i - 1
        BY <4>1
      <4> QED
        BY <2>2, <3>1, <4>2
    <3>4. s[P + 1] = "lf" /\ s[P + 2] = "lf"
      <4>1. P + 1 \in (P + 1)..(Q - 1) /\ P + 2 \in (P + 1)..(Q - 1)
        BY <2>2, <3>1, <3>3
      <4>2. \A m \in (P + 1)..(Q - 1) : s[m] = "lf"
        BY <2>1, <3>1, <3>2, GapKinds
      <4> QED
        BY <4>1, <4>2
    <3>5. P + 1 \in I /\ P + 2 \in I
      <4>1. P + 1 \in 1..Len(s) /\ P + 2 \in 1..Len(s)
        BY <2>2, <3>1, <3>3
      <4>2. (P + 1) - 1 = P /\ (P + 2) - 2 = P
        BY <2>2
      <4>3. s[(P + 1) - 1] # "lf" /\ s[(P + 2) - 2] # "lf"
        BY <2>2, <4>2
      <4> QED
        BY <1>2, <4>1, <4>3
    <3>6. PICK k \in 1..Len(e) : e[k] = P + 1
      BY <1>5, <3>5
    <3>7. PICK l \in 1..Len(e) : e[l] = P + 2
      BY <1>5, <3>5
    <3>8. k \in (p + 1)..(q - 1) /\ l \in (p + 1)..(q - 1) /\ k # l
      <4>1. P < P + 1 /\ P + 1 < Q /\ P < P + 2 /\ P + 2 < Q /\ P + 1 # P + 2
        BY <2>2, <3>1, <3>3
      <4> QED
        BY <2>1, <3>6, <3>7, <4>1
    <3>9. k \in BreaksAt(t, p, q) /\ l \in BreaksAt(t, p, q)
      BY <1>5, <3>4, <3>6, <3>7, <3>8 DEF BreaksAt, Break
    <3>10. i \in BreaksAt(s, P, Q) /\ i - 1 \in BreaksAt(s, P, Q) /\ i # i - 1
      BY <2>2, <3>1, <3>2, <3>3 DEF BreaksAt, Break
    <3> QED
      BY <3>8, <3>9, <3>10 DEF SepAt, P, Q
  <2> QED
    BY <2>6, <2>7
<1>9. SingleSpaces(t)
  <2> SUFFICES ASSUME NEW k \in 1..Len(t), t[k] = "space"
               PROVE  /\ k > 1 /\ k < Len(t)
                      /\ t[k - 1] \notin {"space", "lf"}
                      /\ t[k + 1] \notin {"space", "lf"}
    BY DEF SingleSpaces
  <2> DEFINE i == e[k]
  <2>1. k \in 1..Len(e) /\ i \in I /\ i \in 1..Len(s) /\ s[i] = "space"
    BY <1>5, <1>7
  <2>2. /\ i > 1 /\ i < Len(s)
        /\ s[i - 1] \notin {"space", "lf"} /\ s[i + 1] \notin {"space", "lf"}
    BY <2>1 DEF SingleSpaces
  <2>3. i - 1 \in I /\ i + 1 \in I
    <3>1. i - 1 \in 1..Len(s) /\ i + 1 \in 1..Len(s)
      BY <2>1, <2>2
    <3> QED
      BY <1>2, <2>2, <3>1
  <2>4. PICK l \in 1..Len(e) : e[l] = i - 1
    BY <1>5, <2>3
  <2>5. l + 1 \in 1..Len(e) /\ e[l + 1] = i
    <3>1. e[l] < i /\ \A m \in (e[l] + 1)..(i - 1) : m \notin I
      BY <2>1, <2>4
    <3> QED
      BY <1>6, <2>1, <3>1, NextInList
  <2>6. l + 1 = k
    <3>1. l + 1 < k => e[l + 1] < e[k]
      BY <1>7, <2>1, <2>5
    <3>2. k < l + 1 => e[k] < e[l + 1]
      BY <1>7, <2>1, <2>5
    <3> QED
      BY <1>7, <2>1, <2>5, <3>1, <3>2
  <2>7. k + 1 \in 1..Len(e) /\ e[k + 1] = i + 1
    <3>1. e[k] < i + 1 /\ \A m \in (e[k] + 1)..((i + 1) - 1) : m \notin I
      BY <2>1
    <3> HIDE DEF i
    <3> QED
      BY <1>6, <2>1, <2>3, <3>1, NextInList
  <2>8. l = k - 1 /\ k > 1 /\ k < Len(t)
    BY <1>7, <2>4, <2>6, <2>7
  <2> QED
    BY <1>5, <2>2, <2>4, <2>7, <2>8
<1>10. FewBreaks(t)
  <2> SUFFICES ASSUME NEW k \in 1..Len(t), k > 2,
                      t[k - 2] = "lf", t[k - 1] = "lf", t[k] = "lf"
               PROVE  FALSE
    BY DEF FewBreaks
  <2> DEFINE x == e[k - 2]
             y == e[k - 1]
             z == e[k]
  <2>1. k \in 1..Len(e) /\ k - 1 \in 1..Len(e) /\ k - 2 \in 1..Len(e)
    BY <1>7
  <2>2. /\ x \in 1..Len(s) /\ y \in 1..Len(s) /\ z \in 1..Len(s) /\ x < y /\ y < z
        /\ s[x] = "lf" /\ s[y] = "lf" /\ s[z] = "lf" /\ z \in I
    <3>1. k - 2 < k - 1 /\ k - 1 < k
      OBVIOUS
    <3> QED
      BY <1>5, <1>7, <2>1, <3>1
  <2>3. \A m \in x..z : s[m] = "lf"
    <3> SUFFICES ASSUME NEW m \in x..z, s[m] # "lf" PROVE FALSE
      OBVIOUS
    <3>1. m \in 1..Len(s)
      BY <2>2
    <3>2. m \in I /\ m # x /\ m # y /\ m # z
      BY <1>2, <2>2, <3>1
    <3>3. PICK l \in 1..Len(e) : e[l] = m
      BY <1>5, <3>2
    <3>4. l > k - 2
      <4>1. l < k - 2 => e[l] < x
        BY <1>7, <2>1
      <4>2. l = k - 2 => e[l] = x
        OBVIOUS
      <4>3. e[l] > x
        BY <2>2, <3>1, <3>2, <3>3
      <4> QED
        BY <1>7, <2>1, <2>2, <3>1, <3>3, <4>1, <4>2, <4>3
    <3>5. l < k
      <4>1. k < l => z < e[l]
        BY <1>7, <2>1
      <4>2. l = k => e[l] = z
        OBVIOUS
      <4>3. e[l] < z
        BY <2>2, <3>1, <3>2, <3>3
      <4> QED
        BY <1>7, <2>1, <2>2, <3>1, <3>3, <4>1, <4>2, <4>3
    <3>6. l = k - 1
      BY <1>7, <2>1, <3>3, <3>4, <3>5
    <3> QED
      BY <3>2, <3>3, <3>6
  <2>4. z > 2 /\ z - 2 \in x..z /\ z - 1 \in x..z
    <3> HIDE DEF x, y, z
    <3> QED
      BY <1>1, <2>2
  <2> QED
    BY <1>2, <2>2, <2>3, <2>4
<1>11. WideInside(t)
  <2>1. \A k \in 1..Len(e) : s[e[k]] = "wide" => WithinLine(s, e[k])
    BY <1>7 DEF WideInside
  <2> QED
    BY <1>5, <2>1, WideStaysInside
<1> QED
  BY <1>5, <1>8, <1>9, <1>10, <1>11, StageReads

\* What precedes the first word or follows the last one separates no words.
LEMMA StripReads ==
    ASSUME NEW s \in Seq(Lined), SingleSpaces(s), WideInside(s), FewBreaks(s),
           NEW t, t = Strip(s)
    PROVE  /\ t \in Seq(Lined) /\ SameReading(t, s)
           /\ SingleSpaces(t) /\ WideInside(t) /\ FewBreaks(t)
           /\ t # <<>> => t[1] \in Words /\ t[Len(t)] \in Words
<1> DEFINE I == {i \in DOMAIN s :
                    /\ \E j \in 1..i : s[j] \in Words
                    /\ \E j \in i..Len(s) : s[j] \in Words}
           e == Ascending(I, Len(s))
<1>1. /\ Len(s) \in Nat /\ DOMAIN s = 1..Len(s)
      /\ Lined \in SUBSET Characters
      /\ \A i \in 1..Len(s) : s[i] \in Lined
  BY DEF Lined, Characters, White
<1>2. \A i \in 1..Len(s) :
          i \in I <=> /\ \E j \in 1..i : s[j] \in Words
                      /\ \E j \in i..Len(s) : s[j] \in Words
  BY <1>1
<1>3. I \in SUBSET DOMAIN s /\ WordsAt(s) \subseteq I
  <2>1. ASSUME NEW i \in WordsAt(s) PROVE i \in I
    <3>1. i \in 1..Len(s) /\ s[i] \in Words /\ i \in 1..i /\ i \in i..Len(s)
      BY <1>1 DEF WordsAt
    <3> QED
      BY <1>2, <3>1
  <2> QED
    BY <2>1
<1>4. t = Pick(s, I)
  BY DEF Strip
<1> HIDE DEF I, e
<1>5. /\ Thins(e, s, t) /\ t \in Seq(Lined)
      /\ \A k \in 1..Len(e) : e[k] \in I /\ t[k] = s[e[k]]
      /\ \A i \in I : \E k \in 1..Len(e) : e[k] = i
  BY <1>1, <1>3, <1>4, PickThins DEF e
<1>6. Lists(e, I) /\ I \in SUBSET Nat
  BY <1>1, <1>3, PickFacts DEF e
<1>7. /\ Len(e) \in Nat /\ Len(t) = Len(e)
      /\ \A k \in 1..Len(e) : e[k] \in 1..Len(s)
      /\ \A j, k \in 1..Len(e) : j < k => e[j] < e[k]
  BY <1>5, ThinFacts
<1>8. \A i, m \in I : \A j \in i..m : j \in I
  <2> SUFFICES ASSUME NEW i \in I, NEW m \in I, NEW j \in i..m PROVE j \in I
    OBVIOUS
  <2>1. i \in 1..Len(s) /\ m \in 1..Len(s)
    BY <1>1, <1>3
  <2>2. PICK v \in 1..i : s[v] \in Words
    BY <1>2, <2>1
  <2>3. PICK w \in m..Len(s) : s[w] \in Words
    BY <1>2, <2>1
  <2>4. j \in 1..Len(s) /\ v \in 1..j /\ w \in j..Len(s)
    BY <1>1, <2>1
  <2> QED
    BY <1>2, <2>2, <2>3, <2>4
<1>9. \A k \in 1..(Len(e) - 1) : e[k + 1] = e[k] + 1
  <2> SUFFICES ASSUME NEW k \in 1..(Len(e) - 1) PROVE e[k + 1] = e[k] + 1
    OBVIOUS
  <2>1. k \in 1..Len(e) /\ k + 1 \in 1..Len(e) /\ k < k + 1
    BY <1>7
  <2>2. e[k] < e[k + 1] /\ e[k] \in Nat /\ e[k + 1] \in Nat
    BY <1>7, <2>1
  <2>3. e[k] + 1 \in e[k]..e[k + 1] /\ e[k] < e[k] + 1
    BY <2>2
  <2>4. e[k] + 1 \in I
    BY <1>5, <1>8, <2>1, <2>3
  <2>5. \A m \in (e[k] + 1)..((e[k] + 1) - 1) : m \notin I
    BY <2>2
  <2> QED
    BY <1>6, <2>1, <2>3, <2>4, <2>5, NextInList
<1>10. t # <<>> => t[1] \in Words /\ t[Len(t)] \in Words
  <2> SUFFICES ASSUME t # <<>> PROVE t[1] \in Words /\ t[Len(t)] \in Words
    OBVIOUS
  <2>1. 1 \in 1..Len(e) /\ Len(e) \in 1..Len(e)
    BY <1>5, <1>7
  <2>2. PICK v \in 1..e[1] : s[v] \in Words
    BY <1>2, <1>5, <1>7, <2>1
  <2>3. PICK w \in e[Len(e)]..Len(s) : s[w] \in Words
    BY <1>2, <1>5, <1>7, <2>1
  <2>4. v \in WordsAt(s) /\ w \in WordsAt(s)
    BY <1>1, <1>7, <2>1, <2>2, <2>3 DEF WordsAt
  <2>5. PICK k \in 1..Len(e) : e[k] = v
    BY <1>5, <2>4, ThinFacts
  <2>6. PICK l \in 1..Len(e) : e[l] = w
    BY <1>5, <2>4, ThinFacts
  <2>7. k = 1
    <3>1. 1 < k => e[1] < e[k]
      BY <1>7, <2>1
    <3>2. e[1] \in Nat /\ v \in Nat /\ v <= e[1]
      BY <1>7, <2>1, <2>2
    <3> QED
      BY <2>5, <3>1, <3>2
  <2>8. l = Len(e)
    <3>1. l < Len(e) => e[l] < e[Len(e)]
      BY <1>7, <2>1
    <3>2. e[Len(e)] \in Nat /\ w \in Nat /\ e[Len(e)] <= w
      BY <1>7, <2>1, <2>3
    <3> QED
      BY <1>7, <2>6, <3>1, <3>2
  <2> QED
    BY <1>5, <1>7, <2>1, <2>2, <2>3, <2>5, <2>6, <2>7, <2>8
<1>11. ASSUME NEW p, NEW q, Neighbours(t, p, q)
       PROVE  SepAt(t, p, q) = SepAt(s, e[p], e[q])
  <2>1. /\ p \in 1..Len(e) /\ q \in 1..Len(e) /\ Neighbours(s, e[p], e[q])
        /\ \A k \in 1..Len(e) : e[p] < e[k] /\ e[k] < e[q] => k \in (p + 1)..(q - 1)
        /\ \A k \in (p + 1)..(q - 1) :
               k \in 1..Len(e) /\ e[k] \in (e[p] + 1)..(e[q] - 1)
    BY <1>5, <1>11, NeighboursInBoth
  <2>2. \A i \in (e[p] + 1)..(e[q] - 1) : i \in I
    <3>1. e[p] \in I /\ e[q] \in I /\ e[p] \in Nat /\ e[q] \in Nat
      BY <1>5, <1>7, <2>1
    <3>2. \A i \in (e[p] + 1)..(e[q] - 1) : i \in e[p]..e[q]
      BY <3>1
    <3> QED
      BY <1>8, <3>1, <3>2
  <2>3. \A i \in (e[p] + 1)..(e[q] - 1) : i \in 1..Len(s) /\ s[i] # "cr"
    <3>1. \A i \in I : i \in 1..Len(s) /\ s[i] \in Lined /\ (s[i] \in Words \/ s[i] # "cr")
      BY <1>1, <1>3 DEF Lined
    <3> QED
      BY <2>2, <3>1, WordsAreApart
  <2>4. \A k \in (p + 1)..(q - 1) : Break(t, k) <=> Break(s, e[k])
    <3> SUFFICES ASSUME NEW k \in (p + 1)..(q - 1) PROVE Break(t, k) <=> Break(s, e[k])
      OBVIOUS
    <3>1. t[k] = s[e[k]] /\ e[k] \in (e[p] + 1)..(e[q] - 1)
      BY <1>5, <2>1
    <3>2. s[e[k]] # "cr"
      BY <2>3, <3>1
    <3> QED
      BY <3>1, <3>2 DEF Break
  <2>5. \A i \in BreaksAt(s, e[p], e[q]) : \E k \in 1..Len(e) : e[k] = i
    BY <1>5, <2>2 DEF BreaksAt
  <2>6. e[p] + 1 # e[q] => p + 1 # q
    <3> SUFFICES ASSUME p + 1 = q PROVE e[p] + 1 = e[q]
      OBVIOUS
    <3>1. p \in 1..(Len(e) - 1)
      BY <1>7, <2>1
    <3> QED
      BY <1>9, <3>1
  <2>7. KeepsBreaks(e, s, t, p, q)
    BY <2>4, <2>5, <2>6 DEF KeepsBreaks
  <2> QED
    BY <1>5, <1>11, <2>7, SameBreaks
<1>12. \A k \in 1..Len(e) : (k < Len(e) => e[k + 1] = e[k] + 1) /\ (k > 1 => e[k - 1] = e[k] - 1)
  <2> SUFFICES ASSUME NEW k \in 1..Len(e)
               PROVE  (k < Len(e) => e[k + 1] = e[k] + 1) /\ (k > 1 => e[k - 1] = e[k] - 1)
    OBVIOUS
  <2>1. CASE k < Len(e)
    BY <1>7, <1>9, <2>1
  <2>2. k > 1 => e[k - 1] = e[k] - 1
    <3> SUFFICES ASSUME k > 1 PROVE e[k - 1] = e[k] - 1
      OBVIOUS
    <3>1. k - 1 \in 1..(Len(e) - 1) /\ (k - 1) + 1 = k /\ k - 1 \in 1..Len(e)
      BY <1>7
    <3>2. e[(k - 1) + 1] = e[k - 1] + 1 /\ e[k - 1] \in Nat
      BY <1>7, <1>9, <3>1
    <3> QED
      BY <3>1, <3>2
  <2> QED
    BY <2>1, <2>2
<1>13. SingleSpaces(t)
  <2> SUFFICES ASSUME NEW k \in 1..Len(t), t[k] = "space"
               PROVE  /\ k > 1 /\ k < Len(t)
                      /\ t[k - 1] \notin {"space", "lf"}
                      /\ t[k + 1] \notin {"space", "lf"}
    BY DEF SingleSpaces
  <2>1. k \in 1..Len(e) /\ e[k] \in 1..Len(s) /\ s[e[k]] = "space" /\ t # <<>>
    BY <1>5, <1>7
  <2>2. s[e[k] - 1] \notin {"space", "lf"} /\ s[e[k] + 1] \notin {"space", "lf"}
    BY <2>1 DEF SingleSpaces
  <2>3. k # 1 /\ k # Len(t)
    BY <1>10, <2>1, WordsAreApart
  <2>4. k > 1 /\ k < Len(t) /\ k - 1 \in 1..Len(e) /\ k + 1 \in 1..Len(e)
    BY <1>7, <2>1, <2>3
  <2>5. e[k - 1] = e[k] - 1 /\ e[k + 1] = e[k] + 1
    BY <1>7, <1>12, <2>1, <2>4
  <2> QED
    BY <1>5, <2>2, <2>4, <2>5
<1>14. FewBreaks(t)
  <2> SUFFICES ASSUME NEW k \in 1..Len(t), k > 2,
                      t[k - 2] = "lf", t[k - 1] = "lf", t[k] = "lf"
               PROVE  FALSE
    BY DEF FewBreaks
  <2>1. k \in 1..Len(e) /\ k - 1 \in 1..Len(e) /\ k - 2 \in 1..Len(e)
    BY <1>7
  <2>2. e[k - 1] = e[k] - 1 /\ e[(k - 1) - 1] = e[k - 1] - 1 /\ (k - 1) - 1 = k - 2
    BY <1>12, <2>1
  <2>3. /\ e[k] \in 1..Len(s) /\ e[k - 1] \in 1..Len(s) /\ e[k - 2] \in 1..Len(s)
        /\ s[e[k]] = "lf" /\ s[e[k - 1]] = "lf" /\ s[e[k - 2]] = "lf"
    BY <1>5, <1>7, <2>1
  <2>4. e[k - 2] = e[k] - 2 /\ e[k] > 2
    BY <2>2, <2>3
  <2> QED
    BY <2>2, <2>3, <2>4 DEF FewBreaks
<1>15. WideInside(t)
  <2>1. \A k \in 1..Len(e) : s[e[k]] = "wide" => WithinLine(s, e[k])
    BY <1>7 DEF WideInside
  <2> QED
    BY <1>5, <2>1, WideStaysInside
<1> QED
  BY <1>5, <1>10, <1>11, <1>13, <1>14, <1>15, StageReads

\* A text of one character.
LEMMA OneCharacter ==
    ASSUME NEW S, NEW s \in Seq(S), NEW a, Len(s) = 1, s[1] = a
    PROVE  s = <<a>>
<1>1. a \in S
  BY ElementOfSeq
<1>2. <<a>> \in Seq(S) /\ Len(<<a>>) = 1 /\ <<a>>[1] = a
  BY <1>1
<1>3. \A i \in 1..Len(s) : s[i] = <<a>>[i]
  BY <1>2
<1> QED
  BY <1>2, <1>3, SeqEqual

\* A text of two characters.
LEMMA TwoCharacters ==
    ASSUME NEW S, NEW s \in Seq(S), NEW a, NEW b, Len(s) = 2, s[1] = a, s[2] = b
    PROVE  s = <<a, b>>
<1>1. a \in S /\ b \in S
  <2>1. 1 \in 1..Len(s) /\ 2 \in 1..Len(s)
    OBVIOUS
  <2> QED
    BY <2>1, ElementOfSeq
<1>2. <<a, b>> \in Seq(S) /\ Len(<<a, b>>) = 2 /\ <<a, b>>[1] = a /\ <<a, b>>[2] = b
  BY <1>1
<1>3. \A i \in 1..Len(s) : i = 1 \/ i = 2
  OBVIOUS
<1>4. \A i \in 1..Len(s) : s[i] = <<a, b>>[i]
  BY <1>2, <1>3
<1> QED
  BY <1>2, <1>4, SeqEqual

\* A text that is laid out so has its separators between its words, or wide white
\* space within a line.
LEMMA LaidOut ==
    ASSUME NEW s \in Seq(Lined), SingleSpaces(s), WideInside(s), FewBreaks(s),
           NEW k \in 1..(Len(WordPositions(s)) - 1)
    PROVE  \/ Gap(s, k) = Separator(Gap(s, k))
           \/ HasWide(Gap(s, k)) /\ LineEnds(Gap(s, k)) = {}
<1> DEFINE p == WordPositions(s)[k]
           q == WordPositions(s)[k + 1]
<1>1. Len(s) \in Nat /\ s \in Seq(Characters) /\ \A i \in 1..Len(s) : s[i] \in Lined
  <2>1. Lined \subseteq Characters
    BY DEF Lined, Characters, White
  <2> QED
    BY <2>1
<1>2. Neighbours(s, p, q) /\ Gap(s, k) = SubSeq(s, p + 1, q - 1)
  BY <1>1, GapFacts
<1> HIDE DEF p, q
<1>3. Separator(Gap(s, k)) = SepAt(s, p, q)
  BY <1>1, <1>2, SeparatorAt
<1>4. p \in 1..Len(s) /\ q \in 1..Len(s) /\ p < q /\ s[p] \in Words /\ s[q] \in Words
  BY <1>2 DEF Neighbours
<1> DEFINE gap == SubSeq(s, p + 1, q - 1)
<1>5. /\ gap \in Seq(Lined) /\ Len(gap) = q - 1 - p
      /\ \A i \in 1..(q - 1 - p) : gap[i] = s[p + i]
  <2>1. Len(gap) = q - 1 - p /\ \A i \in 1..(q - 1 - p) : gap[i] = s[p + 1 + i - 1]
    BY <1>4
  <2>2. gap \in Seq(Lined)
    BY <1>4
  <2>3. \A i \in 1..(q - 1 - p) : p + 1 + i - 1 = p + i
    BY <1>4
  <2> QED
    BY <2>1, <2>2, <2>3
<1> HIDE DEF gap
<1>6. \A i \in (p + 1)..(q - 1) : s[i] \in {"space", "wide", "lf"}
  <2> SUFFICES ASSUME NEW i \in (p + 1)..(q - 1) PROVE s[i] \in {"space", "wide", "lf"}
    OBVIOUS
  <2>1. i \in 1..Len(s)
    BY <1>4
  <2>2. s[i] \notin Words
    BY <1>2 DEF Neighbours
  <2> QED
    BY <1>1, <2>1, <2>2 DEF Lined
<1>7. \A i \in (p + 1)..(q - 1) : Break(s, i) <=> s[i] = "lf"
  BY <1>6 DEF Break
<1>8. CASE p + 1 = q
  <2>1. BreaksAt(s, p, q) = {}
    BY <1>4, <1>8 DEF BreaksAt
  <2>2. gap = <<>>
    BY <1>4, <1>5, <1>8
  <2>3. Gap(s, k) = Separator(Gap(s, k))
    BY <1>2, <1>3, <1>8, <2>1, <2>2 DEF SepAt, gap
  <2> QED
    BY <2>3
<1>12. CASE p + 1 # q /\ \E i \in (p + 1)..(q - 1) : s[i] = "wide"
  <2>1. \A i \in (p + 1)..(q - 1) : s[i] # "lf"
    BY <1>1, <1>2, <1>12, WideGap
  <2>2. HasWide(gap)
    BY <1>1, <1>2, <1>12, WideInGap DEF gap
  <2>3. LineEnds(gap) = {}
    <3> SUFFICES ASSUME NEW i \in 1..(q - 1 - p), gap[i] \in {"lf", "cr"} PROVE FALSE
      BY <1>5 DEF LineEnds
    <3>1. p + i \in (p + 1)..(q - 1) /\ gap[i] = s[p + i]
      BY <1>4, <1>5
    <3> QED
      BY <1>6, <2>1, <3>1
  <2> QED
    BY <1>2, <2>2, <2>3 DEF gap
<1>9. CASE q = p + 2 /\ s[p + 1] = "space"
  <2>3. BreaksAt(s, p, q) = {}
    <3>1. \A i \in (p + 1)..(q - 1) : i = p + 1
      BY <1>4, <1>9
    <3> QED
      BY <1>7, <1>9, <3>1 DEF BreaksAt
  <2>4. gap = <<"space">>
    <3>1. Len(gap) = 1 /\ gap[1] = "space"
      BY <1>4, <1>5, <1>9
    <3> QED
      BY <1>5, <3>1, OneCharacter
  <2>5. p + 1 # q
    BY <1>4, <1>9
  <2>6. Gap(s, k) = Separator(Gap(s, k))
    BY <1>2, <1>3, <2>3, <2>4, <2>5 DEF SepAt, gap
  <2> QED
    BY <2>6
<1>10. CASE p + 1 # q /\ \A i \in (p + 1)..(q - 1) : s[i] = "lf"
  <2>1. p + 1 \in (p + 1)..(q - 1)
    BY <1>4, <1>10
  <2>2. s[p + 1] = "lf" /\ p + 1 \in BreaksAt(s, p, q)
    BY <1>7, <1>10, <2>1 DEF BreaksAt
  <2>3. CASE q = p + 2
    <3>1. \A i \in BreaksAt(s, p, q) : i = p + 1
      BY <1>4, <2>3 DEF BreaksAt
    <3>2. gap = <<"lf">>
      <4>1. Len(gap) = 1 /\ gap[1] = "lf"
        BY <1>4, <1>5, <2>2, <2>3
      <4> QED
        BY <1>5, <4>1, OneCharacter
    <3>3. Gap(s, k) = Separator(Gap(s, k))
      BY <1>2, <1>3, <2>2, <3>1, <3>2 DEF SepAt, gap
    <3> QED
      BY <3>3
  <2>4. CASE q # p + 2
    <3>1. p + 2 \in (p + 1)..(q - 1) /\ p + 2 # p + 1
      BY <1>4, <2>1, <2>4
    <3>2. s[p + 2] = "lf" /\ p + 2 \in BreaksAt(s, p, q)
      BY <1>7, <1>10, <3>1 DEF BreaksAt
    <3>3. q = p + 3
      <4> SUFFICES ASSUME q # p + 3 PROVE FALSE
        OBVIOUS
      <4>1. p + 3 \in (p + 1)..(q - 1) /\ p + 3 # p + 1
        BY <1>4, <3>1
      <4>3. s[p + 3] = "lf"
        BY <1>10, <4>1
      <4>4. p + 3 \in 1..Len(s) /\ p + 3 > 2 /\ (p + 3) - 2 = p + 1 /\ (p + 3) - 1 = p + 2
        BY <1>4, <4>1
      <4>5. s[(p + 3) - 2] = "lf" /\ s[(p + 3) - 1] = "lf"
        BY <2>2, <3>2, <4>4
      <4> QED
        BY <4>3, <4>4, <4>5 DEF FewBreaks
    <3>4. gap = <<"lf", "lf">>
      <4>1. Len(gap) = 2 /\ gap[1] = s[p + 1] /\ gap[2] = s[p + 2]
        BY <1>4, <1>5, <3>3
      <4>2. Len(gap) = 2 /\ gap[1] = "lf" /\ gap[2] = "lf"
        BY <2>2, <3>2, <4>1
      <4> HIDE DEF gap
      <4>3. gap \in Seq(Lined)
        BY <1>5
      <4> QED
        BY <4>2, <4>3, TwoCharacters
    <3>5. Gap(s, k) = Separator(Gap(s, k))
      BY <1>2, <1>3, <2>2, <3>1, <3>2, <3>4 DEF SepAt, gap
    <3> QED
      BY <3>5
  <2> QED
    BY <2>3, <2>4
<1>11. s \in Seq(Lined)
  OBVIOUS
<1> QED
  BY <1>2, <1>8, <1>12, <1>9, <1>10, <1>11, GapKinds

\* A text as normalize_plain_text leaves it.
Tidy(s) ==
    /\ s \in Seq(Lined)
    /\ SingleSpaces(s)
    /\ WideInside(s)
    /\ FewBreaks(s)
    /\ s # <<>> => s[1] \in Words /\ s[Len(s)] \in Words

\* The stages one after the other: the result is tidy and reads as its input does.
LEMMA NormalizeTidies ==
    ASSUME NEW s \in Seq(Characters), NEW t, t = NormalizePlainText(s)
    PROVE  /\ Tidy(t)
           /\ WordsOf(t) = WordsOf(s)
           /\ \A k \in 1..(Len(WordsOf(t)) - 1) :
                  /\ Separator(Gap(t, k)) = Separator(Gap(s, k))
                  /\ HasWide(Gap(t, k)) => HasWide(Gap(s, k))
<1> DEFINE s1 == Unescape(s)
           s2 == LineBreaks(s1)
           s3 == StripWide(s2)
           s4 == TrimLines(s3)
           s5 == CompactBreaks(s4)
           s6 == Strip(s5)
<1>1. s1 \in Seq(LineEnded) /\ SameReading(s1, s)
  BY UnescapeReads
<1>2. s2 \in Seq(Lined) /\ SameReading(s2, s1)
  <2> HIDE DEF s1
  <2> QED
    BY <1>1, LineBreaksReads
<1>3. s3 \in Seq(Lined) /\ SameReading(s3, s2) /\ WideInside(s3)
  <2> HIDE DEF s2
  <2> QED
    BY <1>2, StripWideReads
<1>4. s4 \in Seq(Lined) /\ SameReading(s4, s3) /\ SingleSpaces(s4) /\ WideInside(s4)
  <2> HIDE DEF s3
  <2> QED
    BY <1>3, TrimLinesReads
<1>5. /\ s5 \in Seq(Lined) /\ SameReading(s5, s4)
      /\ SingleSpaces(s5) /\ WideInside(s5) /\ FewBreaks(s5)
  <2> HIDE DEF s4
  <2> QED
    BY <1>4, CompactBreaksReads
<1>6. Tidy(s6) /\ SameReading(s6, s5)
  <2> HIDE DEF s5
  <2> QED
    BY <1>5, StripReads DEF Tidy
<1>7. t = s6
  BY DEF NormalizePlainText
<1> HIDE DEF s1, s2, s3, s4, s5, s6
<1>8. WordsOf(s6) = WordsOf(s)
  BY <1>1, <1>2, <1>3, <1>4, <1>5, <1>6 DEF SameReading
<1>9. /\ Len(WordPositions(s6)) = Len(WordsOf(s6)) /\ Len(WordPositions(s5)) = Len(WordsOf(s5))
      /\ Len(WordPositions(s4)) = Len(WordsOf(s4)) /\ Len(WordPositions(s3)) = Len(WordsOf(s3))
      /\ Len(WordPositions(s2)) = Len(WordsOf(s2)) /\ Len(WordPositions(s1)) = Len(WordsOf(s1))
  <2>1. /\ s1 \in Seq(Characters) /\ s2 \in Seq(Characters) /\ s3 \in Seq(Characters)
        /\ s4 \in Seq(Characters) /\ s5 \in Seq(Characters) /\ s6 \in Seq(Characters)
    <3>1. LineEnded \subseteq Characters /\ Lined \subseteq Characters
      BY DEF LineEnded, Lined, Characters, White
    <3> QED
      BY <1>1, <1>2, <1>3, <1>4, <1>5, <1>6, <3>1 DEF Tidy
  <2> QED
    BY <2>1, WordsOfLength
<1>10. \A k \in 1..(Len(WordsOf(s6)) - 1) :
           /\ Separator(Gap(s6, k)) = Separator(Gap(s, k))
           /\ HasWide(Gap(s6, k)) => HasWide(Gap(s, k))
  BY <1>1, <1>2, <1>3, <1>4, <1>5, <1>6, <1>9 DEF SameReading
<1> QED
  BY <1>6, <1>7, <1>8, <1>10

\* A tidy text has between its words what separates them, or wide white space.
LEMMA TidyGaps ==
    ASSUME NEW s, Tidy(s)
    PROVE  /\ s \in Seq(Characters)
           /\ \A k \in 1..(Len(WordsOf(s)) - 1) :
                  \/ Gap(s, k) = Separator(Gap(s, k))
                  \/ HasWide(Gap(s, k)) /\ LineEnds(Gap(s, k)) = {}
<1>1. s \in Seq(Characters)
  <2>1. Lined \subseteq Characters
    BY DEF Lined, Characters, White
  <2> QED
    BY <2>1 DEF Tidy
<1>2. Len(WordsOf(s)) = Len(WordPositions(s))
  BY <1>1, WordsOfLength
<1> QED
  BY <1>1, <1>2, LaidOut DEF Tidy

\* A tidy text is its own reading.
LEMMA TidyReadsItself ==
    ASSUME NEW s, Tidy(s)
    PROVE  IsReadingOf(s, s)
BY TidyGaps DEF IsReadingOf, Tidy

\* Gaps on one line are those that a space separates.
LEMMA SameLine ==
    ASSUME NEW new, NEW old, HasWide(new), LineEnds(new) = {},
           Separator(new) = Separator(old)
    PROVE  LineEnds(old) = {}
<1>1. new # <<>>
  BY DEF HasWide
<1>2. Separator(new) = <<"space">>
  BY <1>1 DEF Separator
<1>3. <<"space">> # <<"lf">> /\ <<"space">> # <<"lf", "lf">>
  OBVIOUS
<1> QED
  BY <1>2, <1>3 DEF Separator

\* A tidy text without words is empty.
LEMMA TidyHasWords ==
    ASSUME NEW s, Tidy(s)
    PROVE  WordsOf(s) = <<>> <=> s = <<>>
<1>1. Lists(WordPositions(s), WordsAt(s)) /\ Len(WordsOf(s)) = Len(WordPositions(s))
  BY TidyGaps, WordPositionsList, WordsOfLength
<1>2. WordsOf(s) = <<>> <=> Len(WordPositions(s)) = 0
  <2>1. WordsOf(s) \in Seq(Characters)
    <3>1. WordsAt(s) \in SUBSET DOMAIN s
      BY DEF WordsAt
    <3> QED
      BY <3>1, TidyGaps, PickFacts DEF WordsOf
  <2> QED
    BY <1>1, <2>1, EmptySeq
<1>3. CASE s = <<>>
  <2>1. WordsAt(s) = {}
    BY <1>3 DEF WordsAt
  <2>2. Len(WordPositions(s)) = 0
    BY <1>1, <2>1, ListsFacts
  <2> QED
    BY <1>2, <1>3, <2>2
<1>4. CASE s # <<>>
  <2>1. 1 \in WordsAt(s)
    BY <1>4 DEF Tidy, WordsAt
  <2>2. PICK k \in 1..Len(WordPositions(s)) : WordPositions(s)[k] = 1
    BY <1>1, <2>1, ListsAll
  <2>3. Len(WordPositions(s)) # 0
    BY <2>2
  <2> QED
    BY <1>2, <1>4, <2>3
<1> QED
  BY <1>3, <1>4

\* The normalized text of any string is a reading of it: the same words, set
\* apart as they were, by a space, a line feed or a blank line, or by the wide white
\* space that stood between them, and nothing around them.
THEOREM NormalizeIsReading ==
    ASSUME NEW s \in Seq(Characters)
    PROVE  IsReadingOf(NormalizePlainText(s), s)
<1> DEFINE t == NormalizePlainText(s)
<1>1. /\ Tidy(t) /\ WordsOf(t) = WordsOf(s)
      /\ \A k \in 1..(Len(WordsOf(t)) - 1) :
             /\ Separator(Gap(t, k)) = Separator(Gap(s, k))
             /\ HasWide(Gap(t, k)) => HasWide(Gap(s, k))
  BY NormalizeTidies
<1> HIDE DEF t
<1>2. ASSUME NEW k \in 1..(Len(WordsOf(t)) - 1)
      PROVE  \/ Gap(t, k) = Separator(Gap(s, k))
             \/ /\ HasWide(Gap(t, k)) /\ HasWide(Gap(s, k))
                /\ LineEnds(Gap(t, k)) = {} /\ LineEnds(Gap(s, k)) = {}
  <2>1. \/ Gap(t, k) = Separator(Gap(t, k))
        \/ HasWide(Gap(t, k)) /\ LineEnds(Gap(t, k)) = {}
    BY <1>1, TidyGaps
  <2> QED
    BY <1>1, <2>1, SameLine
<1> QED
  BY <1>1, <1>2 DEF IsReadingOf, Tidy, t
===============================================================================
