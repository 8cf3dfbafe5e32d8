-------------------- MODULE DeterministicClassifierProofs --------------------
(***************************************************************************)
(* The rules choose a category and a confidence as their documentation     *)
(* says, for every text made of any phrases.                               *)
(***************************************************************************)
EXTENDS DeterministicClassifier, FiniteSetTheorems, TLAPS

\* A set that lists four elements is finite.
LEMMA FourIsFinite ==
    ASSUME NEW a, NEW b, NEW c, NEW d
    PROVE  IsFiniteSet({a, b, c, d})
<1>1. IsFiniteSet({a})
  BY FS_Singleton
<1>2. IsFiniteSet({a, b})
  <2>1. {a, b} = {a} \cup {b}
    OBVIOUS
  <2> QED
    BY <1>1, <2>1, FS_AddElement
<1>3. IsFiniteSet({a, b, c})
  <2>1. {a, b, c} = {a, b} \cup {c}
    OBVIOUS
  <2> QED
    BY <1>2, <2>1, FS_AddElement
<1> QED
  <2>1. {a, b, c, d} = {a, b, c} \cup {d}
    OBVIOUS
  <2> QED
    BY <1>3, <2>1, FS_AddElement

\* A set that lists eight elements is finite.
LEMMA EightIsFinite ==
    ASSUME NEW a, NEW b, NEW c, NEW d, NEW e, NEW f, NEW g, NEW h
    PROVE  IsFiniteSet({a, b, c, d, e, f, g, h})
<1>1. IsFiniteSet({a, b, c, d}) /\ IsFiniteSet({e, f, g, h})
  BY FourIsFinite
<1>2. {a, b, c, d, e, f, g, h} = {a, b, c, d} \cup {e, f, g, h}
  OBVIOUS
<1> QED
  BY <1>1, <1>2, FS_Union

\* The terms found in a text that is finite are finitely many.
LEMMA TermsAreFinite ==
    ASSUME NEW t, IsFiniteSet(t)
    PROVE  IsFiniteSet(Terms(t))
<1> DEFINE shorter == {"atividade", "nota", "imediatamente", "agora", "prazo", "responda"}
<1>1. IsFiniteSet(shorter)
  <2>1. IsFiniteSet({"atividade", "nota", "imediatamente", "agora"})
    BY FourIsFinite
  <2>2. IsFiniteSet({"prazo", "responda", "prazo", "responda"})
    BY FourIsFinite
  <2>3. shorter = {"atividade", "nota", "imediatamente", "agora"}
                      \cup {"prazo", "responda", "prazo", "responda"}
    OBVIOUS
  <2> QED
    BY <2>1, <2>2, <2>3, FS_Union
<1>2. \A p \in t : Inside(p) \subseteq shorter
  BY DEF Inside
<1>3. Terms(t) \in SUBSET (t \cup shorter)
  BY <1>2 DEF Terms
<1> HIDE DEF shorter
<1>4. IsFiniteSet(t \cup shorter)
  BY <1>1, FS_Union
<1> QED
  BY <1>3, <1>4, FS_Subset

\* Scores are natural numbers, and a longer text scores at least as high.
LEMMA ScoresGrow ==
    ASSUME NEW s, NEW t, IsFiniteSet(t), s \subseteq t, NEW c
    PROVE  Score(s, c) \in Nat /\ Score(t, c) \in Nat /\ Score(s, c) <= Score(t, c)
<1> DEFINE found(p) == Terms(p) \cap CategoryTerms[c]
<1>1. IsFiniteSet(found(t))
  BY TermsAreFinite, FS_Intersection
<1>2. found(s) \in SUBSET found(t)
  BY DEF Terms
<1> HIDE DEF found
<1>3. IsFiniteSet(found(s)) /\ Cardinality(found(s)) <= Cardinality(found(t))
  BY <1>1, <1>2, FS_Subset
<1> QED
  BY <1>1, <1>3, FS_CardinalityType DEF Score, CountMatches, found

\* The best of the items up to i, given the best of those before.
Keep(t, i, last) ==
    IF i = 1 THEN Categories[1]
    ELSE IF Better(t, Categories[i], last) THEN Categories[i] ELSE last

\* What holds of 0 and passes on holds after ten steps.
LEMMA TenSteps ==
    ASSUME NEW G, 0 \in G, \A i \in 0..9 : i \in G => i + 1 \in G
    PROVE  \A i \in 0..10 : i \in G
<1>1. 1 \in G /\ 2 \in G /\ 3 \in G
  OBVIOUS
<1>2. 4 \in G /\ 5 \in G /\ 6 \in G
  BY <1>1
<1>3. 7 \in G /\ 8 \in G /\ 9 \in G /\ 10 \in G
  BY <1>2
<1>4. \A i \in 0..10 : i \in {0, 1, 2, 3, 4, 5, 6, 7, 8, 9, 10}
  OBVIOUS
<1> QED
  BY <1>1, <1>2, <1>3, <1>4

\* RULES has ten categories.
LEMMA TenCategories == DOMAIN Categories = 1..10 /\ Len(Categories) = 10
BY DEF Categories

\* max() sees the items one after the other: the recursion of BestSoFar has a
\* solution, so its value is one.
LEMMA BestRuns ==
    ASSUME NEW t
    PROVE  BestSoFar(t) = [i \in 1..10 |-> Keep(t, i, BestSoFar(t)[i - 1])]
<1> DEFINE run(n, f) == f = [i \in 1..n |-> Keep(t, i, f[i - 1])]
           G == {n \in 0..10 : \E f : run(n, f)}
<1>1. 0 \in G
  <2>1. run(0, <<>>)
    OBVIOUS
  <2> HIDE DEF run
  <2> QED
    BY <2>1
<1>2. ASSUME NEW n \in 0..9, n \in G PROVE n + 1 \in G
  <2>1. PICK f : run(n, f)
    BY <1>2
  <2> DEFINE g == [i \in 1..(n + 1) |-> IF i <= n THEN f[i] ELSE Keep(t, i, f[n])]
  <2>2. ASSUME NEW i \in 1..(n + 1) PROVE g[i] = Keep(t, i, g[i - 1])
    <3>1. CASE i = 1
      BY <2>1, <3>1 DEF Keep
    <3>2. CASE i # 1 /\ i <= n
      BY <2>1, <3>2
    <3>3. CASE i # 1 /\ i = n + 1
      BY <2>1, <3>3
    <3> QED
      BY <3>1, <3>2, <3>3
  <2>3. run(n + 1, g)
    BY <2>2
  <2> HIDE DEF g, run
  <2> QED
    BY <2>3
<1>3. \E f : run(10, f)
  <2> HIDE DEF run
  <2>1. \A i \in 0..10 : i \in G
    <3>1. \A i \in 0..9 : i \in G => i + 1 \in G
      BY <1>2
    <3> HIDE DEF G
    <3> QED
      BY <1>1, <3>1, TenSteps
  <2> QED
    BY <2>1
<1>4. BestSoFar(t) = CHOOSE f : run(10, f)
  BY TenCategories DEF BestSoFar, Keep
<1>5. run(10, BestSoFar(t))
  <2> HIDE DEF run
  <2> QED
    BY <1>3, <1>4
<1> QED
  BY <1>5

\* The category with index i leads the first n: none of them scores higher, and
\* those before it score less.
Leads(t, i, n) ==
    /\ \A j \in 1..n : Score(t, Categories[j]) <= Score(t, Categories[i])
    /\ \A j \in 1..(i - 1) : Score(t, Categories[j]) < Score(t, Categories[i])

\* The best of the first n items is the one that leads them.
LEMMA BestLeads ==
    ASSUME NEW t, IsFiniteSet(t), NEW n \in 1..10
    PROVE  \E i \in 1..n : BestSoFar(t)[n] = Categories[i] /\ Leads(t, i, n)
<1> DEFINE led(m) == \E i \in 1..m : BestSoFar(t)[m] = Categories[i] /\ Leads(t, i, m)
           G == {m \in 0..10 : m = 0 \/ led(m)}
<1>1. \A c : Score(t, c) \in Nat
  BY ScoresGrow
<1>2. led(1)
  BY <1>1, BestRuns DEF Keep, Leads
<1>3. ASSUME NEW m \in 1..9, led(m) PROVE led(m + 1)
  <2>1. PICK i \in 1..m : BestSoFar(t)[m] = Categories[i] /\ Leads(t, i, m)
    BY <1>3
  <2>2. BestSoFar(t)[m + 1] = Keep(t, m + 1, Categories[i])
    BY <2>1, BestRuns
  <2>3. CASE Better(t, Categories[m + 1], Categories[i])
    <3>1. BestSoFar(t)[m + 1] = Categories[m + 1]
      BY <2>2, <2>3 DEF Keep
    <3>2. Leads(t, m + 1, m + 1)
      BY <1>1, <2>1, <2>3 DEF Leads, Better
    <3> QED
      BY <3>1, <3>2
  <2>4. CASE ~Better(t, Categories[m + 1], Categories[i])
    <3>1. BestSoFar(t)[m + 1] = Categories[i]
      BY <2>2, <2>4 DEF Keep
    <3>2. Leads(t, i, m + 1)
      BY <1>1, <2>1, <2>4 DEF Leads, Better
    <3> QED
      BY <3>1, <3>2
  <2> QED
    BY <2>3, <2>4
<1>4. \A m \in 0..9 : m \in G => m + 1 \in G
  <2> HIDE DEF led
  <2> QED
    BY <1>2, <1>3
<1>5. n \in G
  <2>1. 0 \in G
    OBVIOUS
  <2> HIDE DEF G
  <2> QED
    BY <1>4, <2>1, TenSteps
<1> QED
  BY <1>5

\* The category of a text is one of the table and scores as high as any.
LEMMA BestIsHighest ==
    ASSUME NEW t, IsFiniteSet(t)
    PROVE  /\ MatchCount(t) \in Nat
           /\ \A j \in 1..10 : Score(t, Categories[j]) <= MatchCount(t)
           /\ \E i \in 1..10 : BestCategory(t) = Categories[i] /\ Leads(t, i, 10)
<1>1. PICK i \in 1..10 : BestSoFar(t)[10] = Categories[i] /\ Leads(t, i, 10)
  BY BestLeads
<1>2. BestCategory(t) = Categories[i]
  BY <1>1, TenCategories DEF BestCategory
<1> QED
  BY <1>1, <1>2, ScoresGrow DEF MatchCount, Leads

\* A longer text has as many matches or more: the category that led the shorter
\* one still scores at least as high.
LEMMA MatchesGrow ==
    ASSUME NEW s, NEW t, IsFiniteSet(s), IsFiniteSet(t), s \subseteq t
    PROVE  MatchCount(s) <= MatchCount(t)
<1>1. PICK i \in 1..10 : BestCategory(s) = Categories[i]
  BY BestIsHighest
<1>2. MatchCount(s) <= Score(t, Categories[i]) /\ Score(t, Categories[i]) \in Nat
  BY <1>1, ScoresGrow DEF MatchCount
<1> QED
  BY <1>2, BestIsHighest

-------------------------------------------------------------------------------
(* The theorems. *)

TypeInv == text \in SUBSET Phrases /\ IsFiniteSet(text)

\* A text of finitely many phrases gets one phrase more.
LEMMA TypeStep == TypeInv /\ [Next]_text => TypeInv'
<1> SUFFICES ASSUME TypeInv, [Next]_text PROVE TypeInv'
  OBVIOUS
<1>1. ASSUME NEW p \in Phrases, Add(p) PROVE TypeInv'
  BY <1>1, FS_AddElement DEF TypeInv, Add
<1>2. CASE UNCHANGED text
  BY <1>2 DEF TypeInv
<1> QED
  BY <1>1, <1>2 DEF Next

\* A text is built of the phrases, and of finitely many of them.
THEOREM TypeCorrect == Spec => []TypeInv
<1>1. Init => TypeInv
  BY FS_EmptySet DEF Init, TypeInv
<1> QED
  BY <1>1, TypeStep, PTL DEF Spec

\* The category of a text is the first of the table with the most terms in it,
\* and "unknown" when no term was found: max() over the scores of classify.
THEOREM WinnerIsFirst == Spec => []WinnerIsFirstBest
<1>1. ASSUME TypeInv PROVE WinnerIsFirstBest
  <2>1. PICK i \in 1..10 : BestCategory(text) = Categories[i] /\ Leads(text, i, 10)
    BY <1>1, BestIsHighest DEF TypeInv
  <2>2. MatchCount(text) = Score(text, Categories[i])
    BY <2>1 DEF MatchCount
  <2>3. \A c : Score(text, c) \in Nat
    BY <1>1, ScoresGrow DEF TypeInv
  <2>4. CASE \A j \in 1..10 : Score(text, Categories[j]) = 0
    BY <2>2, <2>4, TenCategories DEF WinnerIsFirstBest, Category
  <2>5. CASE \E j \in 1..10 : Score(text, Categories[j]) # 0
    <3>1. MatchCount(text) # 0
      BY <2>1, <2>2, <2>3, <2>5 DEF Leads
    <3>2. Category(text) = Categories[i]
      BY <2>1, <3>1 DEF Category
    <3> QED
      BY <2>1, <2>3, <2>5, <3>2, TenCategories DEF WinnerIsFirstBest, Leads
  <2> QED
    BY <2>4, <2>5
<1> QED
  BY <1>1, TypeCorrect, PTL

\* The confidence of a classification is in 0..98 and reaches the threshold of
\* the AI call exactly when its category has two terms in the text.
THEOREM ConfidenceTellsEvidence == Spec => []ConfidenceIsEvidence
<1>1. ASSUME TypeInv PROVE ConfidenceIsEvidence
  BY <1>1, BestIsHighest DEF TypeInv, ConfidenceIsEvidence, Confidence, Threshold
<1> QED
  BY <1>1, TypeCorrect, PTL

\* A phrase more never lowers the confidence nor takes a flag away, and changes
\* urgency or a required reply only for the reasons classify gives.
THEOREM EvidenceIsKept == Spec => LongerTextKeepsEvidence
<1> DEFINE Kept ==
       /\ Confidence(text') >= Confidence(text)
       /\ Flags(text) \subseteq Flags(text')
       /\ Priority(text) = "critical" /\ Priority(text') # "critical" =>
              Category(text') \in {"newsletter", "advertising"}
       /\ Priority(text) = "high" /\ Priority(text') \in {"medium", "low"} =>
              Category(text') \in {"newsletter", "advertising"}
       /\ RequiresReply(text) /\ ~RequiresReply(text') =>
              \/ ContainsAny(text', NoReplyTerms)
              \/ Category(text') \in {"newsletter", "advertising", "notification"}
<1>1. ASSUME TypeInv, [Next]_text, text' # text PROVE Kept
  <2>1. text \subseteq text' /\ IsFiniteSet(text) /\ IsFiniteSet(text')
    BY <1>1, TypeStep DEF TypeInv, Next, Add
  <2>2. \A terms : ContainsAny(text, terms) => ContainsAny(text', terms)
    BY <2>1 DEF ContainsAny, Terms
  <2>3. /\ MatchCount(text) \in Nat /\ MatchCount(text') \in Nat
        /\ MatchCount(text) <= MatchCount(text')
    BY <2>1, BestIsHighest, MatchesGrow
  <2>4. Confidence(text') >= Confidence(text)
    BY <2>3 DEF Confidence
  <2>5. Flags(text) \subseteq Flags(text')
    BY <2>2 DEF Flags
  <2>6. Priority(text) = "critical" /\ Priority(text') # "critical" =>
            Category(text') \in {"newsletter", "advertising"}
    BY <2>2 DEF Priority
  <2>7. Priority(text) = "high" /\ Priority(text') \in {"medium", "low"} =>
            Category(text') \in {"newsletter", "advertising"}
    BY <2>2 DEF Priority
  <2>8. RequiresReply(text) /\ ~RequiresReply(text') =>
            \/ ContainsAny(text', NoReplyTerms)
            \/ Category(text') \in {"newsletter", "advertising", "notification"}
    BY <2>2 DEF RequiresReply
  <2> QED
    BY <2>4, <2>5, <2>6, <2>7, <2>8
<1>2. TypeInv /\ [Next]_text => [Kept]_text
  BY <1>1
<1> QED
  BY <1>2, TypeCorrect, PTL DEF Spec, LongerTextKeepsEvidence
===============================================================================
