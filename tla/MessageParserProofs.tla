------------------------- MODULE MessageParserProofs -------------------------
(***************************************************************************)
(* What _HTMLTextExtractor hides and shows, for documents of any length    *)
(* and any markup that HTMLParser does not raise on, what the fallback     *)
(* makes of the others, and what parse_gmail_message makes the body and    *)
(* the hashed text, for messages of any number of parts.                   *)
(*                                                                         *)
(* _ignored_depth counts all the ignored elements with one number.  Behind *)
(* it stand the counts of each: never less than the counter when an end    *)
(* tag may be stray (DepthInv), and exactly the counter when none is       *)
(* (BalanceInv).  So while it is zero in a proper document nothing is open *)
(* (OutsideIsUncounted), and the handlers append what is readable          *)
(* (ReadInv).                                                              *)
(***************************************************************************)
EXTENDS MessageParser, PlainTextProofs

(* The elements of a document, told from its events evs. *)

StartsOf(evs, i, j, tag) == {k \in i..j : Opens(evs[k], tag)}
EndsOf(evs, i, j, tag) == {k \in i..j : Closes(evs[k], tag)}

\* Since event j the element ends at most as often as it starts.
StaysOpen(evs, j, n, tag) ==
    \A m \in (j + 1)..n :
        Cardinality(EndsOf(evs, j + 1, m, tag)) <= Cardinality(StartsOf(evs, j + 1, m, tag))

InsideOf(evs, i, tag) ==
    \E j \in 1..(i - 1) : Opens(evs[j], tag) /\ StaysOpen(evs, j, i - 1, tag)

\* Inside and Proper, said of a sequence of events.
LEMMA InsideIs == \A i, tag : Inside(i, tag) <=> InsideOf(events, i, tag)
BY DEF Inside, InsideOf, StaysOpen, Starts, Ends, StartsOf, EndsOf

\* The same after a step.
LEMMA InsideIsNext == \A i, tag : Inside(i, tag)' <=> InsideOf(events', i, tag)
BY DEF Inside, InsideOf, StaysOpen, Starts, Ends, StartsOf, EndsOf

\* A document that goes on, event by event.
LEMMA LongerDocument ==
    ASSUME NEW S, NEW evs \in Seq(S), NEW e \in S, NEW n, n = Len(evs), NEW tag
    PROVE  /\ Append(evs, e) \in Seq(S) /\ Len(Append(evs, e)) = n + 1 /\ n \in Nat
           /\ \A k \in 1..n : Append(evs, e)[k] = evs[k]
           /\ Append(evs, e)[n + 1] = e
OBVIOUS

\* What an element does before an event does not depend on what follows.
LEMMA PastIsKept ==
    ASSUME NEW S, NEW evs \in Seq(S), NEW e \in S, NEW i \in 1..(Len(evs) + 1), NEW tag
    PROVE  InsideOf(Append(evs, e), i, tag) <=> InsideOf(evs, i, tag)
<1> DEFINE longer == Append(evs, e)
<1>1. \A k \in 1..(i - 1) : longer[k] = evs[k]
  OBVIOUS
<1>2. \A j \in 1..(i - 1), m \in 1..(i - 1) :
          /\ StartsOf(longer, j + 1, m, tag) = StartsOf(evs, j + 1, m, tag)
          /\ EndsOf(longer, j + 1, m, tag) = EndsOf(evs, j + 1, m, tag)
  BY <1>1 DEF StartsOf, EndsOf
<1> HIDE DEF longer
<1>3. \A j \in 1..(i - 1) :
          StaysOpen(longer, j, i - 1, tag) <=> StaysOpen(evs, j, i - 1, tag)
  BY <1>2 DEF StaysOpen
<1> QED
  BY <1>1, <1>3 DEF InsideOf, longer

\* How the counts of an element since i change with one event more.
LEMMA CountsGrow ==
    ASSUME NEW evs, NEW longer, NEW n \in Nat, \A k \in 1..n : longer[k] = evs[k],
           NEW i \in 1..(n + 1), NEW tag
    PROVE  /\ Cardinality(StartsOf(evs, i, n, tag)) \in Nat
           /\ Cardinality(EndsOf(evs, i, n, tag)) \in Nat
           /\ Cardinality(StartsOf(longer, i, n + 1, tag)) =
                  IF Opens(longer[n + 1], tag) THEN Cardinality(StartsOf(evs, i, n, tag)) + 1
                  ELSE Cardinality(StartsOf(evs, i, n, tag))
           /\ Cardinality(EndsOf(longer, i, n + 1, tag)) =
                  IF Closes(longer[n + 1], tag) THEN Cardinality(EndsOf(evs, i, n, tag)) + 1
                  ELSE Cardinality(EndsOf(evs, i, n, tag))
<1> DEFINE s == StartsOf(evs, i, n, tag)
           t == EndsOf(evs, i, n, tag)
<1>1. IsFiniteSet(s) /\ IsFiniteSet(t) /\ n + 1 \notin s /\ n + 1 \notin t
  <2>1. s \in SUBSET (i..n) /\ t \in SUBSET (i..n) /\ n + 1 \notin i..n
    BY DEF StartsOf, EndsOf
  <2>2. IsFiniteSet(i..n)
    BY FS_Interval
  <2> HIDE DEF s, t
  <2> QED
    BY <2>1, <2>2, FS_Subset
<1>2. i..(n + 1) = (i..n) \cup {n + 1} /\ \A k \in i..n : longer[k] = evs[k]
  OBVIOUS
<1>3. StartsOf(longer, i, n + 1, tag) =
          IF Opens(longer[n + 1], tag) THEN s \cup {n + 1} ELSE s
  BY <1>2 DEF StartsOf
<1>4. EndsOf(longer, i, n + 1, tag) =
          IF Closes(longer[n + 1], tag) THEN t \cup {n + 1} ELSE t
  BY <1>2 DEF EndsOf
<1> HIDE DEF s, t
<1>5. /\ Cardinality(s) \in Nat /\ Cardinality(t) \in Nat
      /\ Cardinality(s \cup {n + 1}) = Cardinality(s) + 1
      /\ Cardinality(t \cup {n + 1}) = Cardinality(t) + 1
  BY <1>1, FS_AddElement, FS_CardinalityType
<1> QED
  BY <1>3, <1>4, <1>5 DEF s, t

-------------------------------------------------------------------------------
(* The steps of a message, for the document that is parsed. *)

\* The calls of the parser on the parts joined by "\n\n".
Calls ==
    [kind : {"start", "end", "empty"}, tag : Tags, data : {<<>>}]
        \cup [kind : {"data"}, tag : {NoTag}, data : Data \cup {ParagraphBreak}]

\* The parser handles e and appends n chunks.
Handles(e, n) ==
    /\ e \in Calls /\ n \in Nat
    /\ events' = Append(events, e)
    /\ AppendChunks(n)

DocumentInv ==
    /\ events \in Seq(Calls)
    /\ raw \in RawText \cup {NoTag}
    /\ depth \in Nat
    /\ chunks \in Seq(Nat) /\ \A k \in DOMAIN chunks : chunks[k] \in DOMAIN events

\* A message either leaves the document alone or takes one call more.
LEMMA DocumentSteps ==
    ASSUME [Next]_vars
    PROVE  \/ UNCHANGED htmlVars
           \/ \E tag \in Tags : StartTag(tag) \/ EndTag(tag) \/ EmptyTag(tag)
           \/ \E data \in Data \cup {ParagraphBreak} : Text(data)
BY DEF Next, vars, Visit, UsePlain, UseHtml, UseNothing, Finish, Feed, HtmlEvent,
       Raise, LeaveUnread, FeedNextPart, CloseParser, FallBack, Quiescent

\* The handlers, by the call they handle and the chunks they append.
LEMMA Handlers ==
    /\ \A tag \in Tags : StartTag(tag) =>
           Handles([kind |-> "start", tag |-> tag, data |-> <<>>],
                   IF StartsLine(tag) THEN 1 ELSE 0)
    /\ \A tag \in Tags : EndTag(tag) =>
           Handles([kind |-> "end", tag |-> tag, data |-> <<>>],
                   IF StartsLine(tag) THEN 1 ELSE 0)
    /\ \A tag \in Tags : EmptyTag(tag) =>
           Handles([kind |-> "empty", tag |-> tag, data |-> <<>>],
                   IF StartsLine(tag) THEN 2 ELSE 0)
    /\ \A data \in Data \cup {ParagraphBreak} : Text(data) =>
           Handles([kind |-> "data", tag |-> NoTag, data |-> data],
                   IF depth = 0 THEN 1 ELSE 0)
BY DEF StartTag, EndTag, EmptyTag, Text, Call, Handles, Calls

\* A sequence that goes on with n times the number x.
LEMMA GoesOnWith ==
    ASSUME NEW s \in Seq(Nat), NEW n \in Nat, NEW x \in Nat,
           NEW t, t = s \o [i \in 1..n |-> x]
    PROVE  /\ t \in Seq(Nat) /\ Len(s) \in Nat /\ Len(t) = Len(s) + n
           /\ \A k \in 1..Len(s) : t[k] = s[k]
           /\ \A k \in (Len(s) + 1)..(Len(s) + n) : t[k] = x
<1> DEFINE more == [i \in 1..n |-> x]
<1>1. more \in Seq(Nat) /\ Len(more) = n /\ \A i \in 1..n : more[i] = x
  OBVIOUS
<1> HIDE DEF more
<1>2. t = s \o more
  BY DEF more
<1>3. /\ t \in Seq(Nat) /\ Len(t) = Len(s) + n
      /\ \A k \in 1..(Len(s) + n) : t[k] = IF k <= Len(s) THEN s[k] ELSE more[k - Len(s)]
  BY <1>1, <1>2, ConcatProperties
<1>4. Len(s) \in Nat
  OBVIOUS
<1>5. \A k \in (Len(s) + 1)..(Len(s) + n) : t[k] = x
  <2> SUFFICES ASSUME NEW k \in (Len(s) + 1)..(Len(s) + n) PROVE t[k] = x
    OBVIOUS
  <2>1. k \in 1..(Len(s) + n) /\ ~(k <= Len(s)) /\ k - Len(s) \in 1..n
    BY <1>4
  <2> QED
    BY <1>1, <1>3, <2>1
<1>6. \A k \in 1..Len(s) : k \in 1..(Len(s) + n) /\ k <= Len(s)
  BY <1>4
<1> QED
  BY <1>3, <1>4, <1>5, <1>6

\* Chunks are appended for the call that is handled, and only then.
LEMMA ChunksGrow ==
    ASSUME DocumentInv, NEW e, NEW n, Handles(e, n)
    PROVE  /\ chunks' \in Seq(Nat)
           /\ \A k \in DOMAIN chunks : k \in DOMAIN chunks' /\ chunks'[k] = chunks[k]
           /\ \A k \in DOMAIN chunks' :
                  \/ k \in DOMAIN chunks /\ chunks'[k] = chunks[k]
                  \/ n > 0 /\ chunks'[k] = Len(events) + 1
           /\ n > 0 => \E k \in DOMAIN chunks' : chunks'[k] = Len(events) + 1
<1> DEFINE l == Len(chunks)
           x == Len(events) + 1
<1>1. n \in Nat /\ chunks \in Seq(Nat) /\ x \in Nat
  BY DEF DocumentInv, Handles
<1>2. chunks' = chunks \o [i \in 1..n |-> x]
  BY DEF Handles, AppendChunks
<1>3. /\ chunks' \in Seq(Nat) /\ l \in Nat /\ Len(chunks') = l + n
      /\ \A k \in 1..l : chunks'[k] = chunks[k]
      /\ \A k \in (l + 1)..(l + n) : chunks'[k] = x
  BY <1>1, <1>2, GoesOnWith
<1>4. DOMAIN chunks = 1..l /\ DOMAIN chunks' = 1..(l + n)
  BY <1>1, <1>3
<1> HIDE DEF l, x
<1>5. \A k \in 1..l : k \in 1..(l + n)
  BY <1>1, <1>3
<1>6. \A k \in 1..(l + n) : k \in 1..l \/ (n > 0 /\ k \in (l + 1)..(l + n))
  BY <1>1, <1>3
<1>7. n > 0 => l + 1 \in (l + 1)..(l + n) /\ l + 1 \in 1..(l + n)
  BY <1>1, <1>3
<1> QED
  BY <1>3, <1>4, <1>5, <1>6, <1>7 DEF x

\* The document is one call longer, and every chunk is still of one of its calls.
LEMMA DocumentGrows ==
    ASSUME DocumentInv, NEW e, NEW n, Handles(e, n)
    PROVE  /\ events' \in Seq(Calls) /\ Len(events) \in Nat
           /\ Len(events') = Len(events) + 1
           /\ \A k \in 1..Len(events) : events'[k] = events[k]
           /\ events'[Len(events) + 1] = e
           /\ \A k \in DOMAIN chunks' : chunks'[k] \in DOMAIN events'
<1>1. /\ events' \in Seq(Calls) /\ Len(events) \in Nat
      /\ Len(events') = Len(events) + 1
      /\ \A k \in 1..Len(events) : events'[k] = events[k]
      /\ events'[Len(events) + 1] = e
  BY LongerDocument DEF DocumentInv, Handles
<1> QED
  BY <1>1, ChunksGrow DEF DocumentInv

\* No step of a message leaves the document ill formed.
LEMMA DocumentStep == DocumentInv /\ [Next]_vars => DocumentInv'
<1> SUFFICES ASSUME DocumentInv, [Next]_vars PROVE DocumentInv'
  OBVIOUS
<1>1. ASSUME NEW e, NEW n, Handles(e, n), raw' \in RawText \cup {NoTag}, depth' \in Nat
      PROVE  DocumentInv'
  BY <1>1, ChunksGrow, DocumentGrows DEF DocumentInv
<1>2. ASSUME NEW tag \in Tags, StartTag(tag) PROVE DocumentInv'
  <2>1. raw' \in RawText \cup {NoTag} /\ depth' \in Nat
    BY <1>2 DEF StartTag, Opened, DocumentInv
  <2> QED
    BY <1>1, <1>2, <2>1, Handlers
<1>3. ASSUME NEW tag \in Tags, EndTag(tag) PROVE DocumentInv'
  <2>1. raw' \in RawText \cup {NoTag} /\ depth' \in Nat
    BY <1>3 DEF EndTag, Closed, DocumentInv
  <2> QED
    BY <1>1, <1>3, <2>1, Handlers
<1>4. ASSUME NEW tag \in Tags, EmptyTag(tag) PROVE DocumentInv'
  BY <1>1, <1>4, Handlers DEF EmptyTag, DocumentInv
<1>5. ASSUME NEW data \in Data \cup {ParagraphBreak}, Text(data) PROVE DocumentInv'
  BY <1>1, <1>5, Handlers DEF Text, DocumentInv
<1>6. CASE UNCHANGED htmlVars
  BY <1>6 DEF htmlVars, DocumentInv
<1> QED
  BY <1>2, <1>3, <1>4, <1>5, <1>6, DocumentSteps

-------------------------------------------------------------------------------
(* Active text: within <script> or <style> the parser sees data only, so the *)
(* element is either open, with nothing but data since, or ended by the      *)
(* first call that was not data.                                             *)

\* Nothing but data between the events j and n.
OnlyData(evs, j, n) == \A k \in (j + 1)..(n - 1) : evs[k].kind = "data"

EndedNext(evs, j, n, tag) ==
    \E m \in (j + 1)..n : Closes(evs[m], tag) /\ OnlyData(evs, j, m)

RawInv ==
    /\ raw # NoTag => depth > 0
    /\ \A j \in DOMAIN events, tag \in RawText :
          Opens(events[j], tag) =>
              \/ EndedNext(events, j, Len(events), tag)
              \/ raw = tag /\ OnlyData(events, j, Len(events) + 1)

\* An element each of whose starts was ended like that is not open.
LEMMA EndedIsOutside ==
    ASSUME NEW evs, NEW n \in Nat, NEW tag,
           \A j \in 1..n : Opens(evs[j], tag) => EndedNext(evs, j, n, tag)
    PROVE  ~InsideOf(evs, n + 1, tag)
<1> SUFFICES ASSUME NEW j \in 1..n, Opens(evs[j], tag), StaysOpen(evs, j, n, tag)
             PROVE  FALSE
  BY DEF InsideOf
<1>1. PICK m \in (j + 1)..n : Closes(evs[m], tag) /\ OnlyData(evs, j, m)
  BY DEF EndedNext
<1>2. EndsOf(evs, j + 1, m, tag) = {m}
  BY <1>1 DEF EndsOf, OnlyData, Closes
<1>3. StartsOf(evs, j + 1, m, tag) = {}
  BY <1>1 DEF StartsOf, OnlyData, Opens, Closes
<1>4. Cardinality(EndsOf(evs, j + 1, m, tag)) = 1
  BY <1>2, FS_Singleton
<1>5. Cardinality(StartsOf(evs, j + 1, m, tag)) = 0
  BY <1>3, FS_EmptySet
<1> QED
  BY <1>4, <1>5 DEF StaysOpen

\* A start that was ended stays ended when the document goes on.
LEMMA EndedStays ==
    ASSUME NEW S, NEW evs \in Seq(S), NEW e \in S, NEW j \in 1..Len(evs), NEW tag,
           EndedNext(evs, j, Len(evs), tag)
    PROVE  EndedNext(Append(evs, e), j, Len(evs) + 1, tag)
<1>1. PICK m \in (j + 1)..Len(evs) : Closes(evs[m], tag) /\ OnlyData(evs, j, m)
  BY DEF EndedNext
<1>2. \A k \in 1..Len(evs) : Append(evs, e)[k] = evs[k]
  OBVIOUS
<1>3. m \in (j + 1)..(Len(evs) + 1) /\ \A k \in (j + 1)..m : k \in 1..Len(evs)
  OBVIOUS
<1> QED
  BY <1>1, <1>2, <1>3 DEF EndedNext, OnlyData

\* No handler but those of the element itself leaves a start of it open.
LEMMA RawStep == DocumentInv /\ RawInv /\ [Next]_vars => RawInv'
<1> SUFFICES ASSUME DocumentInv, RawInv, [Next]_vars PROVE RawInv'
  OBVIOUS
<1> DEFINE n == Len(events)
           Settled(j, tag) == \/ EndedNext(events', j, n + 1, tag)
                              \/ raw' = tag /\ OnlyData(events', j, n + 2)
<1>1. ASSUME NEW e, NEW c, Handles(e, c), raw' # NoTag => depth' > 0,
             \A j \in 1..n, tag \in RawText :
                 Opens(events[j], tag) /\ ~EndedNext(events, j, n, tag) => Settled(j, tag),
             \A tag \in RawText : Opens(e, tag) => raw' = tag
      PROVE  RawInv'
  <2>1. /\ events \in Seq(Calls) /\ e \in Calls /\ n \in Nat
        /\ events' = Append(events, e) /\ Len(events') = n + 1
        /\ \A k \in 1..n : events'[k] = events[k]
        /\ events'[n + 1] = e
    BY <1>1, DocumentGrows DEF Handles, DocumentInv
  <2>2. ASSUME NEW j \in 1..n, NEW tag \in RawText, Opens(events[j], tag)
        PROVE  Settled(j, tag)
    <3>1. CASE EndedNext(events, j, n, tag)
      BY <2>1, <3>1, EndedStays
    <3>2. CASE ~EndedNext(events, j, n, tag)
      BY <1>1, <2>2, <3>2
    <3> QED
      BY <3>1, <3>2
  <2>3. \A tag \in RawText : Opens(e, tag) => Settled(n + 1, tag)
    BY <1>1, <2>1 DEF OnlyData
  <2>4. \A j \in 1..(n + 1) : j \in 1..n \/ j = n + 1
    BY <2>1
  <2>5. DOMAIN events' = 1..(n + 1) /\ (n + 1) + 1 = n + 2
    BY <2>1, DocumentGrows, <1>1
  <2> HIDE DEF n
  <2> QED
    BY <1>1, <2>1, <2>2, <2>3, <2>4, <2>5 DEF RawInv
<1>2. ASSUME NEW j \in 1..n, NEW tag \in RawText,
             Opens(events[j], tag), ~EndedNext(events, j, n, tag)
      PROVE  raw = tag /\ OnlyData(events, j, n + 1) /\ tag # NoTag
  BY <1>2 DEF RawInv, RawText, NoTag
<1>3. \A e, c : Handles(e, c) =>
          \A j \in 1..n : OnlyData(events, j, n + 1) => OnlyData(events', j, n + 1)
  BY DocumentGrows DEF OnlyData
<1>4. ASSUME NEW t \in Tags, StartTag(t) PROVE RawInv'
  <2>1. raw = NoTag /\ (t \in RawText => raw' = t) /\ (raw' # NoTag => depth' > 0)
    BY <1>4 DEF StartTag, Opened, RawText, Ignored, DocumentInv
  <2> DEFINE e == [kind |-> "start", tag |-> t, data |-> <<>>]
  <2>2. Handles(e, IF StartsLine(t) THEN 1 ELSE 0)
    BY <1>4, Handlers
  <2>3. \A tag : Opens(e, tag) => tag = t
    BY DEF Opens
  <2> QED
    BY <1>1, <1>2, <2>1, <2>2, <2>3
<1>5. ASSUME NEW t \in Tags, EndTag(t) PROVE RawInv'
  <2>1. raw' = NoTag /\ raw \in {NoTag, t}
    BY <1>5 DEF EndTag
  <2> DEFINE e == [kind |-> "end", tag |-> t, data |-> <<>>]
  <2>2. Handles(e, IF StartsLine(t) THEN 1 ELSE 0)
    BY <1>5, Handlers
  <2>3. Closes(events'[n + 1], t) /\ \A tag : ~Opens(e, tag)
    BY <2>2, DocumentGrows DEF Closes, Opens
  <2>4. ASSUME NEW j \in 1..n, NEW tag \in RawText,
               Opens(events[j], tag), ~EndedNext(events, j, n, tag)
        PROVE  EndedNext(events', j, n + 1, tag)
    <3>1. tag = t /\ OnlyData(events', j, n + 1)
      BY <1>2, <1>3, <2>1, <2>2, <2>4
    <3>2. n + 1 \in (j + 1)..(n + 1)
      BY <2>2, DocumentGrows
    <3> QED
      BY <2>3, <3>1, <3>2 DEF EndedNext
  <2> QED
    BY <1>1, <2>1, <2>2, <2>3, <2>4
<1>6. ASSUME NEW t \in Tags, EmptyTag(t) PROVE RawInv'
  <2>1. raw = NoTag /\ raw' = NoTag
    BY <1>6 DEF EmptyTag
  <2> DEFINE e == [kind |-> "empty", tag |-> t, data |-> <<>>]
  <2>2. Handles(e, IF StartsLine(t) THEN 2 ELSE 0)
    BY <1>6, Handlers
  <2>3. \A tag : ~Opens(e, tag)
    BY DEF Opens
  <2> QED
    BY <1>1, <1>2, <2>1, <2>2, <2>3
<1>7. ASSUME NEW data \in Data \cup {ParagraphBreak}, Text(data) PROVE RawInv'
  <2>1. UNCHANGED <<raw, depth>>
    BY <1>7 DEF Text
  <2> DEFINE e == [kind |-> "data", tag |-> NoTag, data |-> data]
  <2>2. Handles(e, IF depth = 0 THEN 1 ELSE 0)
    BY <1>7, Handlers
  <2>3. events'[n + 1].kind = "data" /\ \A tag : ~Opens(e, tag)
    BY <2>2, DocumentGrows DEF Opens
  <2>4. ASSUME NEW j \in 1..n, NEW tag \in RawText,
               Opens(events[j], tag), ~EndedNext(events, j, n, tag)
        PROVE  raw' = tag /\ OnlyData(events', j, n + 2)
    <3>1. raw' = tag /\ OnlyData(events', j, n + 1)
      BY <1>2, <1>3, <2>1, <2>2, <2>4
    <3>2. n \in Nat
      BY <2>2, DocumentGrows
    <3> QED
      BY <2>3, <3>1, <3>2 DEF OnlyData
  <2> QED
    BY <1>1, <2>1, <2>2, <2>3, <2>4 DEF RawInv
<1>8. CASE UNCHANGED htmlVars
  BY <1>8 DEF htmlVars, RawInv
<1> QED
  BY <1>4, <1>5, <1>6, <1>7, <1>8, DocumentSteps

\* What the handlers append is outside every raw text element.
HiddenInv == \A k \in DOMAIN chunks : \A tag \in RawText : ~Inside(chunks[k], tag)

\* A chunk is appended outside every raw text element.
LEMMA HiddenStep ==
    ASSUME DocumentInv, RawInv, HiddenInv, [Next]_vars
    PROVE  HiddenInv'
<1> DEFINE n == Len(events)
<1>1. ASSUME depth = 0, NEW tag \in RawText PROVE ~InsideOf(events, n + 1, tag)
  <2>1. n \in Nat /\ DOMAIN events = 1..n
    BY DEF DocumentInv
  <2>2. raw # tag
    BY <1>1 DEF RawInv, RawText, NoTag
  <2>3. \A j \in 1..n : Opens(events[j], tag) => EndedNext(events, j, n, tag)
    BY <2>1, <2>2 DEF RawInv
  <2> QED
    BY <2>1, <2>3, EndedIsOutside
<1>2. ASSUME NEW e, NEW c, Handles(e, c), c > 0 => depth = 0
      PROVE  HiddenInv'
  <2>1. events \in Seq(Calls) /\ e \in Calls /\ events' = Append(events, e) /\ n \in Nat
    BY <1>2, DocumentGrows DEF DocumentInv, Handles
  <2>2. ASSUME NEW k \in DOMAIN chunks', NEW tag \in RawText
        PROVE  ~InsideOf(events', chunks'[k], tag)
    <3>1. CASE k \in DOMAIN chunks /\ chunks'[k] = chunks[k]
      <4>1. ~InsideOf(events, chunks[k], tag)
        BY <3>1, InsideIs DEF HiddenInv
      <4>2. chunks[k] \in 1..(n + 1)
        BY <3>1, <2>1 DEF DocumentInv
      <4> QED
        BY <2>1, <3>1, <4>1, <4>2, PastIsKept
    <3>2. CASE c > 0 /\ chunks'[k] = n + 1
      <4>1. n + 1 \in 1..(n + 1)
        BY <2>1
      <4> QED
        BY <1>1, <1>2, <2>1, <3>2, <4>1, PastIsKept
    <3> QED
      BY <1>2, <3>1, <3>2, ChunksGrow
  <2> QED
    BY <2>2, InsideIsNext DEF HiddenInv
<1>3. ASSUME NEW t \in Tags, StartTag(t) \/ EndTag(t) PROVE HiddenInv'
  <2>1. (IF StartsLine(t) THEN 1 ELSE 0) > 0 => depth = 0
    BY DEF StartsLine
  <2> QED
    BY <1>2, <1>3, <2>1, Handlers
<1>4. ASSUME NEW t \in Tags, EmptyTag(t) PROVE HiddenInv'
  <2>1. (IF StartsLine(t) THEN 2 ELSE 0) > 0 => depth = 0
    BY DEF StartsLine
  <2> QED
    BY <1>2, <1>4, <2>1, Handlers
<1>5. ASSUME NEW data \in Data \cup {ParagraphBreak}, Text(data) PROVE HiddenInv'
  <2>1. (IF depth = 0 THEN 1 ELSE 0) > 0 => depth = 0
    OBVIOUS
  <2> QED
    BY <1>2, <1>5, <2>1, Handlers
<1>6. CASE UNCHANGED htmlVars
  <2>1. events' = events /\ chunks' = chunks
    BY <1>6 DEF htmlVars
  <2> QED
    BY <2>1, InsideIs, InsideIsNext DEF HiddenInv
<1> QED
  BY <1>3, <1>4, <1>5, <1>6, DocumentSteps

-------------------------------------------------------------------------------
(* Shown text: _ignored_depth counts all the ignored elements together, so   *)
(* it is compared with how many of each are open.                            *)

\* Since the start j of the element, and with it, v more have started than ended.
OpenSince(evs, n, tag, v) ==
    \E j \in 1..n :
        /\ Opens(evs[j], tag) /\ StaysOpen(evs, j, n, tag)
        /\ v + Cardinality(EndsOf(evs, j + 1, n, tag)) =
               Cardinality(StartsOf(evs, j + 1, n, tag)) + 1

Sum(open) == open["script"] + open["style"] + open["noscript"] + open["svg"]

\* No more ignored elements are counted than are open.
DepthInv ==
    \E open \in [Ignored -> Nat] :
        /\ depth <= Sum(open)
        /\ \A tag \in Ignored :
              open[tag] > 0 => OpenSince(events, Len(events), tag, open[tag])

\* One event more of an open element: it stays open unless it was the last end.
LEMMA OpenGrows ==
    ASSUME NEW evs, NEW longer, NEW n \in Nat, \A k \in 1..n : longer[k] = evs[k],
           NEW tag, NEW v \in Nat, OpenSince(evs, n, tag, v), NEW w \in Nat, w > 0,
           w = IF Opens(longer[n + 1], tag) THEN v + 1
               ELSE IF Closes(longer[n + 1], tag) THEN v - 1 ELSE v
    PROVE  OpenSince(longer, n + 1, tag, w)
<1>1. PICK j \in 1..n :
          /\ Opens(evs[j], tag) /\ StaysOpen(evs, j, n, tag)
          /\ v + Cardinality(EndsOf(evs, j + 1, n, tag)) =
                 Cardinality(StartsOf(evs, j + 1, n, tag)) + 1
  BY DEF OpenSince
<1> DEFINE s == Cardinality(StartsOf(evs, j + 1, n, tag))
           t == Cardinality(EndsOf(evs, j + 1, n, tag))
           s2 == Cardinality(StartsOf(longer, j + 1, n + 1, tag))
           t2 == Cardinality(EndsOf(longer, j + 1, n + 1, tag))
<1>2. ~(Opens(longer[n + 1], tag) /\ Closes(longer[n + 1], tag))
  BY DEF Opens, Closes
<1>3. /\ s \in Nat /\ t \in Nat
      /\ s2 = (IF Opens(longer[n + 1], tag) THEN s + 1 ELSE s)
      /\ t2 = (IF Closes(longer[n + 1], tag) THEN t + 1 ELSE t)
  <2>1. j + 1 \in 1..(n + 1)
    OBVIOUS
  <2> QED
    BY <2>1, CountsGrow
<1>4. v + t = s + 1
  BY <1>1
<1>5. ASSUME NEW m \in (j + 1)..n
      PROVE  /\ StartsOf(longer, j + 1, m, tag) = StartsOf(evs, j + 1, m, tag)
             /\ EndsOf(longer, j + 1, m, tag) = EndsOf(evs, j + 1, m, tag)
  BY DEF StartsOf, EndsOf
<1> HIDE DEF s, t, s2, t2
<1>6. w + t2 = s2 + 1 /\ t2 <= s2
  BY <1>2, <1>3, <1>4
<1>7. StaysOpen(longer, j, n + 1, tag)
  <2>1. \A m \in (j + 1)..(n + 1) : m \in (j + 1)..n \/ m = n + 1
    OBVIOUS
  <2> QED
    BY <1>1, <1>5, <1>6, <2>1 DEF StaysOpen, s2, t2
<1>8. j \in 1..(n + 1) /\ Opens(longer[j], tag)
  BY <1>1
<1> QED
  BY <1>6, <1>7, <1>8 DEF OpenSince, s2, t2

\* An element that starts while none of it is open.
LEMMA OpenBegins ==
    ASSUME NEW evs, NEW n \in Nat, NEW tag, Opens(evs[n + 1], tag)
    PROVE  OpenSince(evs, n + 1, tag, 1)
<1>1. n + 1 \in 1..(n + 1) /\ ((n + 1) + 1)..(n + 1) = {}
  OBVIOUS
<1>2. /\ EndsOf(evs, (n + 1) + 1, n + 1, tag) = {}
      /\ StartsOf(evs, (n + 1) + 1, n + 1, tag) = {}
  BY <1>1 DEF EndsOf, StartsOf
<1>3. StaysOpen(evs, n + 1, n + 1, tag)
  BY <1>1 DEF StaysOpen
<1>4. 1 + Cardinality(EndsOf(evs, (n + 1) + 1, n + 1, tag)) =
          Cardinality(StartsOf(evs, (n + 1) + 1, n + 1, tag)) + 1
  BY <1>2, FS_EmptySet
<1> QED
  BY <1>1, <1>3, <1>4 DEF OpenSince

\* While something is counted, the text that follows is inside an element.
LEMMA CountedIsInside ==
    ASSUME DocumentInv, DepthInv, depth > 0
    PROVE  \E tag \in Ignored : InsideOf(events, Len(events) + 1, tag)
<1>1. PICK open \in [Ignored -> Nat] :
          /\ depth <= Sum(open)
          /\ \A tag \in Ignored :
                open[tag] > 0 => OpenSince(events, Len(events), tag, open[tag])
  BY DEF DepthInv
<1>2. PICK tag \in Ignored : open[tag] > 0
  BY <1>1 DEF Sum, Ignored, DocumentInv
<1>3. PICK j \in 1..Len(events) :
          Opens(events[j], tag) /\ StaysOpen(events, j, Len(events), tag)
  BY <1>1, <1>2 DEF OpenSince
<1>4. Len(events) \in Nat /\ (Len(events) + 1) - 1 = Len(events)
  BY DEF DocumentInv
<1> QED
  BY <1>3, <1>4 DEF InsideOf

\* What each call does to the elements that are open.
LEMMA DepthStep == DocumentInv /\ DepthInv /\ [Next]_vars => DepthInv'
<1> SUFFICES ASSUME DocumentInv, DepthInv, [Next]_vars PROVE DepthInv'
  OBVIOUS
<1> DEFINE n == Len(events)
<1>1. PICK open \in [Ignored -> Nat] :
          /\ depth <= Sum(open)
          /\ \A tag \in Ignored : open[tag] > 0 => OpenSince(events, n, tag, open[tag])
  BY DEF DepthInv
<1> DEFINE After(e, tag) ==
               IF Opens(e, tag) THEN open[tag] + 1
               ELSE IF Closes(e, tag) /\ open[tag] > 0 THEN open[tag] - 1
               ELSE open[tag]
<1>2. ASSUME NEW e, NEW c, Handles(e, c), depth' <= Sum([tag \in Ignored |-> After(e, tag)])
      PROVE  DepthInv'
  <2> DEFINE after == [tag \in Ignored |-> After(e, tag)]
  <2>1. n \in Nat /\ events'[n + 1] = e /\ \A k \in 1..n : events'[k] = events[k]
    BY <1>2, DocumentGrows
  <2>2. after \in [Ignored -> Nat]
    OBVIOUS
  <2>3. ASSUME NEW tag \in Ignored, after[tag] > 0
        PROVE  OpenSince(events', n + 1, tag, after[tag])
    <3>1. open[tag] \in Nat /\ after[tag] = After(e, tag) /\ after[tag] \in Nat
      BY <2>2
    <3>2. CASE open[tag] > 0
      <4>1. after[tag] = IF Opens(e, tag) THEN open[tag] + 1
                         ELSE IF Closes(e, tag) THEN open[tag] - 1 ELSE open[tag]
        BY <3>1, <3>2
      <4>2. OpenSince(events, n, tag, open[tag])
        BY <1>1, <3>2
      <4> HIDE DEF after, n
      <4> QED
        BY <2>1, <2>3, <3>1, <4>1, <4>2, OpenGrows
    <3>3. CASE open[tag] = 0
      <4>1. Opens(e, tag) /\ after[tag] = 1
        BY <2>3, <3>1, <3>3
      <4> HIDE DEF after
      <4> QED
        BY <2>1, <4>1, OpenBegins
    <3> QED
      BY <3>1, <3>2, <3>3
  <2>4. Len(events') = n + 1
    BY <1>2, DocumentGrows
  <2> HIDE DEF n, after
  <2>5. depth' <= Sum(after)
    BY <1>2 DEF after
  <2> QED
    BY <2>2, <2>3, <2>4, <2>5 DEF DepthInv
<1>3. /\ open["script"] \in Nat /\ open["style"] \in Nat
      /\ open["noscript"] \in Nat /\ open["svg"] \in Nat
      /\ depth \in Nat
  BY DEF Ignored, DocumentInv
<1>4. \A e : Sum([tag \in Ignored |-> After(e, tag)]) =
          After(e, "script") + After(e, "style") + After(e, "noscript") + After(e, "svg")
  BY DEF Sum, Ignored
<1>5. ASSUME NEW t \in Tags, StartTag(t) PROVE DepthInv'
  <2> DEFINE e == [kind |-> "start", tag |-> t, data |-> <<>>]
  <2>1. Handles(e, IF StartsLine(t) THEN 1 ELSE 0)
    BY <1>5, Handlers
  <2>2. \A tag : After(e, tag) = IF tag = t THEN open[tag] + 1 ELSE open[tag]
    BY DEF Opens, Closes
  <2>3. depth' <= Sum([tag \in Ignored |-> After(e, tag)])
    <3>1. depth' = IF t \in Ignored THEN depth + 1 ELSE depth
      BY <1>5 DEF StartTag, Opened
    <3> HIDE DEF After, e
    <3> QED
      BY <1>1, <1>3, <1>4, <2>2, <3>1 DEF Sum, Ignored
  <2> QED
    BY <1>2, <2>1, <2>3
<1>6. ASSUME NEW t \in Tags, EndTag(t) PROVE DepthInv'
  <2> DEFINE e == [kind |-> "end", tag |-> t, data |-> <<>>]
  <2>1. Handles(e, IF StartsLine(t) THEN 1 ELSE 0)
    BY <1>6, Handlers
  <2>2. \A tag : After(e, tag) =
            IF tag = t /\ open[tag] > 0 THEN open[tag] - 1 ELSE open[tag]
    BY DEF Opens, Closes
  <2>3. depth' <= Sum([tag \in Ignored |-> After(e, tag)])
    <3>1. depth' = IF t \in Ignored /\ depth > 0 THEN depth - 1 ELSE depth
      BY <1>6 DEF EndTag, Closed
    <3> HIDE DEF After, e
    <3> QED
      BY <1>1, <1>3, <1>4, <2>2, <3>1 DEF Sum, Ignored
  <2> QED
    BY <1>2, <2>1, <2>3
<1>7. ASSUME NEW e, NEW c, Handles(e, c), depth' = depth,
             \A tag : ~Opens(e, tag) /\ ~Closes(e, tag)
      PROVE  DepthInv'
  <2>1. \A tag : After(e, tag) = open[tag]
    BY <1>7
  <2>2. depth' <= Sum([tag \in Ignored |-> After(e, tag)])
    BY <1>1, <1>4, <1>7, <2>1 DEF Sum
  <2> QED
    BY <1>2, <1>7, <2>2
<1>8. ASSUME NEW t \in Tags, EmptyTag(t) PROVE DepthInv'
  <2> DEFINE e == [kind |-> "empty", tag |-> t, data |-> <<>>]
  <2>1. Handles(e, IF StartsLine(t) THEN 2 ELSE 0) /\ depth' = depth
    BY <1>8, Handlers DEF EmptyTag
  <2>2. \A tag : ~Opens(e, tag) /\ ~Closes(e, tag)
    BY DEF Opens, Closes
  <2> QED
    BY <1>7, <2>1, <2>2
<1>9. ASSUME NEW data \in Data \cup {ParagraphBreak}, Text(data) PROVE DepthInv'
  <2> DEFINE e == [kind |-> "data", tag |-> NoTag, data |-> data]
  <2>1. Handles(e, IF depth = 0 THEN 1 ELSE 0) /\ depth' = depth
    BY <1>9, Handlers DEF Text
  <2>2. \A tag : ~Opens(e, tag) /\ ~Closes(e, tag)
    BY DEF Opens, Closes
  <2> QED
    BY <1>7, <2>1, <2>2
<1>10. CASE UNCHANGED htmlVars
  BY <1>10 DEF htmlVars, DepthInv
<1> QED
  BY <1>5, <1>6, <1>8, <1>9, <1>10, DocumentSteps

\* What the handlers are given outside every ignored element they append.
ShownInv ==
    \A i \in DOMAIN events :
        events[i].kind = "data" /\ Outside(i) => \E k \in DOMAIN chunks : chunks[k] = i

\* A text outside every ignored element appends its chunk: when it does not,
\* something is counted and the text is inside.
LEMMA ShownStep ==
    ASSUME DocumentInv, DepthInv, ShownInv, [Next]_vars
    PROVE  ShownInv'
<1> DEFINE n == Len(events)
<1>1. ASSUME NEW e, NEW c, Handles(e, c), e.kind = "data" /\ depth = 0 => c > 0
      PROVE  ShownInv'
  <2>1. /\ events \in Seq(Calls) /\ e \in Calls /\ events' = Append(events, e) /\ n \in Nat
        /\ \A k \in 1..n : events'[k] = events[k]
        /\ events'[n + 1] = e /\ DOMAIN events' = 1..(n + 1) /\ DOMAIN events = 1..n
    BY <1>1, DocumentGrows DEF DocumentInv, Handles
  <2>2. ASSUME NEW i \in 1..(n + 1), events'[i].kind = "data",
               \A tag \in Ignored : ~InsideOf(events', i, tag)
        PROVE  \E k \in DOMAIN chunks' : chunks'[k] = i
    <3>1. \A tag \in Ignored : ~InsideOf(events, i, tag)
      BY <2>1, <2>2, PastIsKept
    <3>2. CASE i \in 1..n
      <4>1. events[i].kind = "data" /\ Outside(i)
        BY <2>1, <2>2, <3>1, <3>2, InsideIs DEF Outside
      <4>2. PICK k \in DOMAIN chunks : chunks[k] = i
        BY <2>1, <3>2, <4>1 DEF ShownInv
      <4> QED
        BY <1>1, <4>2, ChunksGrow
    <3>3. CASE i = n + 1
      <4>1. depth = 0
        BY <3>1, <3>3, CountedIsInside DEF DocumentInv
      <4> QED
        BY <1>1, <2>1, <2>2, <3>3, <4>1, ChunksGrow
    <3> QED
      BY <2>1, <3>2, <3>3
  <2> QED
    BY <2>1, <2>2, InsideIsNext DEF ShownInv, Outside
<1>2. ASSUME NEW t \in Tags, StartTag(t) \/ EndTag(t) \/ EmptyTag(t)
      PROVE  ShownInv'
  BY <1>1, <1>2, Handlers
<1>3. ASSUME NEW data \in Data \cup {ParagraphBreak}, Text(data) PROVE ShownInv'
  <2>1. depth = 0 => (IF depth = 0 THEN 1 ELSE 0) > 0
    OBVIOUS
  <2> QED
    BY <1>1, <1>3, <2>1, Handlers
<1>4. CASE UNCHANGED htmlVars
  <2>1. events' = events /\ chunks' = chunks
    BY <1>4 DEF htmlVars
  <2> QED
    BY <2>1, InsideIs, InsideIsNext DEF ShownInv, Outside
<1> QED
  BY <1>2, <1>3, <1>4, DocumentSteps

-------------------------------------------------------------------------------
(* Texts that are joined. *)

\* What is joined up to i, given what is joined before.
Joined(seqs, i, before) == IF i = 1 THEN seqs[i] ELSE before \o seqs[i]

\* The recursion of FlattenSeq has a solution.
LEMMA FlattenRuns ==
    ASSUME NEW seqs, NEW n \in Nat, n = Len(seqs), n # 0
    PROVE  \E f : FlattenSeq(seqs) = f[n] /\ f = [i \in 1..n |-> Joined(seqs, i, f[i - 1])]
<1> DEFINE run(m, f) == f = [i \in 1..m |-> Joined(seqs, i, f[i - 1])]
           G == {m \in 0..n : \E f : run(m, f)}
<1>1. 0 \in G
  <2>1. run(0, <<>>)
    OBVIOUS
  <2> HIDE DEF run
  <2> QED
    BY <2>1
<1>2. ASSUME NEW m \in 0..(n - 1), m \in G PROVE m + 1 \in G
  <2>1. PICK f : run(m, f)
    BY <1>2
  <2> DEFINE g == [i \in 1..(m + 1) |-> IF i <= m THEN f[i] ELSE Joined(seqs, i, f[m])]
  <2>2. ASSUME NEW i \in 1..(m + 1) PROVE g[i] = Joined(seqs, i, g[i - 1])
    <3>1. CASE i = 1
      BY <2>1, <3>1 DEF Joined
    <3>2. CASE i # 1 /\ i <= m
      BY <2>1, <3>2
    <3>3. CASE i # 1 /\ i = m + 1
      BY <2>1, <3>3
    <3> QED
      BY <3>1, <3>2, <3>3
  <2>3. run(m + 1, g)
    BY <2>2
  <2> HIDE DEF g, run
  <2> QED
    BY <2>3
<1>3. \E f : run(n, f)
  <2> HIDE DEF run
  <2>1. \A m \in 0..n : m \in G
    <3>1. \A m \in 0..(n - 1) : m \in G => m + 1 \in G
      BY <1>2
    <3> HIDE DEF G
    <3> QED
      BY <1>1, <3>1, ReachesUpTo
  <2> QED
    BY <2>1
<1> DEFINE f == CHOOSE f : run(n, f)
<1>4. FlattenSeq(seqs) = f[n]
  BY DEF FlattenSeq, Joined
<1>5. run(n, f)
  <2> HIDE DEF run
  <2> QED
    BY <1>3
<1> HIDE DEF f
<1> QED
  BY <1>4, <1>5

\* Joining nothing gives nothing, and a text more is put at the end.
LEMMA FlattenEmpty == FlattenSeq(<<>>) = <<>>
BY DEF FlattenSeq

\* Texts joined are a text.
LEMMA FlattenType ==
    ASSUME NEW S, NEW seqs \in Seq(Seq(S))
    PROVE  FlattenSeq(seqs) \in Seq(S)
<1>1. CASE seqs = <<>>
  <2>1. FlattenSeq(seqs) = <<>>
    BY <1>1, FlattenEmpty
  <2> QED
    BY <2>1
<1>2. CASE seqs # <<>>
  <2>0. PICK n \in Nat : n = Len(seqs)
    OBVIOUS
  <2>1. n # 0 /\ \A i \in 1..n : seqs[i] \in Seq(S)
    BY <1>2, <2>0
  <2>2. PICK f : FlattenSeq(seqs) = f[n] /\ f = [i \in 1..n |-> Joined(seqs, i, f[i - 1])]
    BY <2>0, <2>1, FlattenRuns
  <2> DEFINE G == {m \in 0..n : m # 0 => f[m] \in Seq(S)}
  <2>3. 0 \in G
    BY <2>0
  <2>4. ASSUME NEW m \in 0..(n - 1), m \in G PROVE m + 1 \in G
    <3>1. m + 1 \in 1..n /\ (m + 1) - 1 = m /\ seqs[m + 1] \in Seq(S)
      BY <2>0, <2>1
    <3>2. f[m + 1] = Joined(seqs, m + 1, f[m])
      BY <2>2, <3>1
    <3>3. CASE m = 0
      BY <2>0, <3>1, <3>2, <3>3 DEF Joined
    <3>4. CASE m # 0
      <4>1. f[m] \in Seq(S) /\ m + 1 # 1
        BY <2>4, <3>4
      <4>2. f[m] \o seqs[m + 1] \in Seq(S)
        BY <3>1, <4>1, ConcatProperties
      <4>3. f[m + 1] = f[m] \o seqs[m + 1]
        BY <3>2, <4>1 DEF Joined
      <4> HIDE DEF Joined
      <4>4. f[m + 1] \in Seq(S)
        BY <4>2, <4>3
      <4> QED
        BY <2>0, <3>1, <4>4
    <3> QED
      BY <3>3, <3>4
  <2>5. n \in G
    <3>1. \A m \in 0..(n - 1) : m \in G => m + 1 \in G
      BY <2>4
    <3> HIDE DEF G
    <3>2. \A m \in 0..n : m \in G
      BY <2>3, <3>1, ReachesUpTo
    <3> QED
      BY <3>2
  <2> QED
    BY <2>1, <2>2, <2>5
<1> QED
  BY <1>1, <1>2

\* A text more is put at the end of what is joined.
LEMMA FlattenGrows ==
    ASSUME NEW S, NEW seqs \in Seq(Seq(S)), NEW x \in Seq(S)
    PROVE  FlattenSeq(Append(seqs, x)) = FlattenSeq(seqs) \o x
<1>0. PICK n \in Nat : n = Len(seqs)
  OBVIOUS
<1> DEFINE more == Append(seqs, x)
<1>1. /\ more \in Seq(Seq(S)) /\ Len(more) = n + 1 /\ more[n + 1] = x
      /\ \A i \in 1..n : more[i] = seqs[i]
  BY <1>0, AppendProperties
<1>2. n + 1 # 0 /\ n + 1 \in Nat
  BY <1>0
<1> HIDE DEF more
<1>3. PICK g : FlattenSeq(more) = g[n + 1]
               /\ g = [i \in 1..(n + 1) |-> Joined(more, i, g[i - 1])]
  BY <1>1, <1>2, FlattenRuns
<1>4. g[n + 1] = Joined(more, n + 1, g[n])
  <2>1. n + 1 \in 1..(n + 1) /\ (n + 1) - 1 = n
    BY <1>0
  <2> QED
    BY <1>3, <2>1
<1>5. CASE seqs = <<>>
  <2>1. n = 0
    BY <1>0, <1>5
  <2>2. FlattenSeq(more) = x
    BY <1>1, <1>3, <1>4, <2>1 DEF Joined
  <2>3. FlattenSeq(seqs) \o x = x
    BY <1>5, FlattenEmpty, ConcatEmptySeq
  <2> QED
    BY <2>2, <2>3 DEF more
<1>6. CASE seqs # <<>>
  <2>1. n # 0
    BY <1>0, <1>6
  <2>2. PICK f : FlattenSeq(seqs) = f[n] /\ f = [i \in 1..n |-> Joined(seqs, i, f[i - 1])]
    BY <1>0, <2>1, FlattenRuns
  <2> DEFINE G == {m \in 0..n : m # 0 => g[m] = f[m]}
  <2>3. 0 \in G
    BY <1>0
  <2>4. ASSUME NEW m \in 0..(n - 1), m \in G PROVE m + 1 \in G
    <3>1. m + 1 \in 1..n /\ m + 1 \in 1..(n + 1) /\ (m + 1) - 1 = m
      BY <1>0
    <3>2. f[m + 1] = Joined(seqs, m + 1, f[m]) /\ g[m + 1] = Joined(more, m + 1, g[m])
      BY <1>3, <2>2, <3>1
    <3>3. more[m + 1] = seqs[m + 1]
      BY <1>1, <3>1
    <3>4. CASE m = 0
      BY <1>0, <3>1, <3>2, <3>3, <3>4 DEF Joined
    <3>5. CASE m # 0
      BY <1>0, <2>4, <3>1, <3>2, <3>3, <3>5 DEF Joined
    <3> QED
      BY <3>4, <3>5
  <2>5. n \in G
    <3>1. \A m \in 0..(n - 1) : m \in G => m + 1 \in G
      BY <2>4
    <3> HIDE DEF G
    <3>2. \A m \in 0..n : m \in G
      BY <2>3, <3>1, ReachesUpTo
    <3> QED
      BY <3>2
  <2>6. g[n] = f[n]
    BY <2>1, <2>5
  <2>7. n + 1 # 1
    BY <1>0, <2>1
  <2> QED
    BY <1>1, <1>3, <1>4, <2>2, <2>6, <2>7 DEF Joined, more
<1> QED
  BY <1>5, <1>6

-------------------------------------------------------------------------------
(* The types. *)

\* What handle_data is called with, and what a chunk says, are texts.
LEMMA DataAreTexts ==
    /\ ParagraphBreak \in Data /\ Calls = Event
    /\ \A e \in Event : Content(e) \in Seq(Characters)
<1>1. ParagraphBreak \in Data /\ Data \subseteq Seq(Characters)
  BY MessageAssumption
<1>2. Calls = Event
  <2>1. Data \cup {ParagraphBreak} = Data
    BY <1>1
  <2> QED
    BY <2>1 DEF Calls, Event
<1>3. \A e \in Event : Content(e) \in Seq(Characters)
  <2>1. <<"lf">> \in Seq(Characters)
    BY DEF Characters, White
  <2>2. \A e \in Event : e.kind = "data" => e.data \in Data
    BY DEF Event
  <2> QED
    BY <1>1, <2>1, <2>2 DEF Content
<1> QED
  BY <1>1, <1>2, <1>3

\* A sequence of members of T.
LEMMA SeqOfThese ==
    ASSUME NEW S, NEW T, NEW s \in Seq(S), \A k \in 1..Len(s) : s[k] \in T
    PROVE  s \in Seq(T)
OBVIOUS

\* The types of the document, for each handler.
LEMMA HtmlTypeStep ==
    ASSUME HtmlTypeOK,
           \/ UNCHANGED htmlVars
           \/ \E tag \in Tags : StartTag(tag) \/ EndTag(tag) \/ EmptyTag(tag)
           \/ \E data \in Data \cup {ParagraphBreak} : Text(data)
    PROVE  HtmlTypeOK'
<1> DEFINE n == Len(events)
<1>1. n \in Nat /\ events \in Seq(Event) /\ n <= MaxEvents /\ MaxEvents \in Nat
      /\ depth \in 0..n /\ chunks \in Seq(1..n) /\ chunks \in Seq(Nat)
  <2>1. n \in Nat /\ 1..n \subseteq Nat
    BY DEF HtmlTypeOK
  <2> QED
    BY <2>1, MessageAssumption DEF HtmlTypeOK
<1>2. ASSUME NEW e, NEW c, Handles(e, c), n < MaxEvents,
             raw' \in RawText \cup {NoTag}, depth' \in 0..(n + 1)
      PROVE  HtmlTypeOK'
  <2>1. events' \in Seq(Event) /\ Len(events') = n + 1
    BY <1>1, <1>2, DataAreTexts DEF Handles
  <2>2. /\ chunks' \in Seq(Nat) /\ Len(chunks) \in Nat /\ Len(chunks') = Len(chunks) + c
        /\ \A k \in 1..Len(chunks) : chunks'[k] = chunks[k]
        /\ \A k \in (Len(chunks) + 1)..(Len(chunks) + c) : chunks'[k] = n + 1
    <3>1. c \in Nat /\ n + 1 \in Nat /\ chunks' = chunks \o [i \in 1..c |-> n + 1]
      BY <1>1, <1>2 DEF Handles, AppendChunks
    <3> HIDE DEF n
    <3> QED
      BY <1>1, <3>1, GoesOnWith
  <2>3. chunks' \in Seq(1..(n + 1))
    <3>1. \A k \in 1..Len(chunks) : chunks[k] \in 1..(n + 1)
      <4>1. \A k \in 1..Len(chunks) : chunks[k] \in 1..n
        BY <1>1, ElementOfSeq
      <4> QED
        BY <1>1, <4>1
    <3>2. c \in Nat
      BY <1>2 DEF Handles
    <3>3. \A k \in 1..Len(chunks') :
              k \in 1..Len(chunks) \/ k \in (Len(chunks) + 1)..(Len(chunks) + c)
      BY <2>2, <3>2
    <3>4. \A k \in 1..Len(chunks') : chunks'[k] \in 1..(n + 1)
      <4>1. n + 1 \in 1..(n + 1)
        BY <1>1
      <4> HIDE DEF n
      <4> QED
        BY <2>2, <3>1, <3>3, <4>1
    <3> HIDE DEF n
    <3> QED
      BY <2>2, <3>4, SeqOfThese
  <2> HIDE DEF n
  <2> QED
    BY <1>1, <1>2, <2>1, <2>3 DEF HtmlTypeOK
<1>3. ASSUME NEW tag \in Tags, StartTag(tag) PROVE HtmlTypeOK'
  <2>1. raw' \in RawText \cup {NoTag} /\ depth' \in 0..(n + 1) /\ n < MaxEvents
    BY <1>1, <1>3 DEF StartTag, Opened, Call
  <2> QED
    BY <1>2, <1>3, <2>1, Handlers
<1>4. ASSUME NEW tag \in Tags, EndTag(tag) PROVE HtmlTypeOK'
  <2>1. raw' \in RawText \cup {NoTag} /\ depth' \in 0..(n + 1) /\ n < MaxEvents
    BY <1>1, <1>4 DEF EndTag, Closed, Call
  <2> QED
    BY <1>2, <1>4, <2>1, Handlers
<1>5. ASSUME NEW tag \in Tags, EmptyTag(tag) PROVE HtmlTypeOK'
  <2>1. raw' \in RawText \cup {NoTag} /\ depth' \in 0..(n + 1) /\ n < MaxEvents
    BY <1>1, <1>5 DEF EmptyTag, Call, HtmlTypeOK
  <2> QED
    BY <1>2, <1>5, <2>1, Handlers
<1>6. ASSUME NEW data \in Data \cup {ParagraphBreak}, Text(data) PROVE HtmlTypeOK'
  <2>1. raw' \in RawText \cup {NoTag} /\ depth' \in 0..(n + 1) /\ n < MaxEvents
    BY <1>1, <1>6 DEF Text, Call, HtmlTypeOK
  <2> QED
    BY <1>2, <1>6, <2>1, Handlers
<1>7. CASE UNCHANGED htmlVars
  BY <1>7 DEF htmlVars, HtmlTypeOK
<1> QED
  BY <1>3, <1>4, <1>5, <1>6, <1>7

\* What is shown, and what is joined, are texts.
LEMMA ShownIsText ==
    ASSUME HtmlTypeOK
    PROVE  ShownText \in Seq(Characters)
<1> DEFINE shown == [k \in DOMAIN chunks |-> Content(events[chunks[k]])]
<1>1. DOMAIN chunks = 1..Len(chunks) /\ Len(chunks) \in Nat
  BY DEF HtmlTypeOK
<1>2. \A k \in 1..Len(chunks) : Content(events[chunks[k]]) \in Seq(Characters)
  <2> SUFFICES ASSUME NEW k \in 1..Len(chunks)
               PROVE  Content(events[chunks[k]]) \in Seq(Characters)
    OBVIOUS
  <2>1. chunks[k] \in 1..Len(events)
    BY ElementOfSeq DEF HtmlTypeOK
  <2>2. events[chunks[k]] \in Event
    BY <2>1, ElementOfSeq DEF HtmlTypeOK
  <2> QED
    BY <2>2, DataAreTexts
<1>3. shown \in Seq(Seq(Characters))
  BY <1>1, <1>2
<1> HIDE DEF shown
<1>4. FlattenSeq(shown) \in Seq(Characters)
  BY <1>3, FlattenType
<1> QED
  BY <1>4 DEF ShownText, shown

\* The pieces of a document have texts, and so has what is left of it.
LEMMA StrippedIsText ==
    ASSUME TypeOK
    PROVE  Document \in Seq(Piece) /\ Stripped \in Seq(Characters)
<1>1. Document \in Seq(Piece)
  <2>1. events \in Seq(Piece)
    <3>1. \A k \in 1..Len(events) : events[k] \in Piece
      BY ElementOfSeq DEF TypeOK, HtmlTypeOK, Piece
    <3> QED
      BY <3>1, SeqOfThese DEF TypeOK, HtmlTypeOK
  <2> QED
    BY <2>1, ConcatProperties DEF TypeOK, Document
<1>2. \A e \in Piece : e.data \in Seq(Characters)
  <2>1. Data \subseteq Seq(Characters) /\ <<>> \in Seq(Characters)
    BY MessageAssumption
  <2>2. \A e \in Event : e.data \in Seq(Characters)
    BY <2>1 DEF Event
  <2>3. Broken.data \in Seq(Characters)
    BY DEF Broken
  <2> QED
    BY <2>2, <2>3 DEF Piece
<1> DEFINE Gone(k) == \E i \in 1..k, j \in k..Len(Document) : Matches(i, j)
           pieces == [k \in DOMAIN Document |->
                         IF ~Gone(k) THEN Document[k].data
                         ELSE IF IsCloser(Document[k]) THEN <<"space">> ELSE <<>>]
<1>3. \A k \in 1..Len(Document) : Document[k].data \in Seq(Characters)
  BY <1>1, <1>2, ElementOfSeq
<1>4. <<"space">> \in Seq(Characters) /\ <<>> \in Seq(Characters)
  BY DEF Characters, White
<1>5. DOMAIN Document = 1..Len(Document) /\ Len(Document) \in Nat
  BY <1>1
<1> HIDE DEF Gone
<1>6. pieces \in Seq(Seq(Characters))
  BY <1>3, <1>4, <1>5
<1> HIDE DEF pieces
<1>7. FlattenSeq(pieces) \in Seq(Characters)
  BY <1>6, FlattenType
<1> QED
  BY <1>1, <1>7 DEF Stripped, Substituted, pieces, Gone

\* Without "<" and ">" in the text, the matches are the tags.
LEMMA TagsAreStripped ==
    ASSUME \A k \in DOMAIN Document : Document[k].data \notin Angles, Document \in Seq(Piece)
    PROVE  Stripped = Untagged
<1> DEFINE Gone(k) == \E i \in 1..k, j \in k..Len(Document) : Matches(i, j)
<1>1. DOMAIN Document = 1..Len(Document) /\ Len(Document) \in Nat
  OBVIOUS
<1>2. \A k \in 1..Len(Document) :
          /\ IsOpener(Document[k]) <=> IsMarkup(Document[k])
          /\ IsCloser(Document[k]) <=> IsMarkup(Document[k])
  BY <1>1 DEF IsOpener, IsCloser, Angles
<1>3. ASSUME NEW k \in 1..Len(Document) PROVE Gone(k) <=> IsMarkup(Document[k])
  <2>1. ASSUME IsMarkup(Document[k]) PROVE Gone(k)
    <3>1. k \in 1..k /\ k \in k..Len(Document) /\ k..(k - 1) = {} /\ k # k + 1
      BY <1>1
    <3>2. Matches(k, k)
      BY <1>2, <2>1, <3>1 DEF Matches
    <3> QED
      BY <3>1, <3>2
  <2>2. ASSUME NEW i \in 1..k, NEW j \in k..Len(Document), Matches(i, j)
        PROVE  IsMarkup(Document[k])
    <3>1. i \in 1..Len(Document) /\ (i # j => i \in i..(j - 1))
      BY <1>1
    <3>2. IsMarkup(Document[i]) /\ i = j
      BY <1>2, <2>2, <3>1 DEF Matches
    <3>3. i = k
      BY <3>2
    <3> QED
      BY <3>2, <3>3
  <2> QED
    BY <2>1, <2>2
<1> DEFINE stripped == [k \in DOMAIN Document |->
                           IF ~Gone(k) THEN Document[k].data
                           ELSE IF IsCloser(Document[k]) THEN <<"space">> ELSE <<>>]
           untagged == [k \in DOMAIN Document |->
                           IF IsMarkup(Document[k]) THEN <<"space">> ELSE Document[k].data]
<1>4. Stripped = FlattenSeq(stripped) /\ Untagged = FlattenSeq(untagged)
  BY DEF Stripped, Substituted, Untagged
<1> HIDE DEF Gone
<1>5. stripped = untagged
  BY <1>1, <1>2, <1>3
<1> QED
  BY <1>4, <1>5

\* Plain parts joined are a text.
LEMMA JoinIsText ==
    ASSUME NEW texts \in Seq(Seq(Characters))
    PROVE  Join(texts) \in Seq(Characters)
<1> DEFINE parted == [i \in DOMAIN texts |->
                         IF i = 1 THEN texts[i] ELSE ParagraphBreak \o texts[i]]
<1>1. DOMAIN texts = 1..Len(texts) /\ Len(texts) \in Nat
  OBVIOUS
<1>2. ParagraphBreak \in Seq(Characters)
  BY MessageAssumption
<1>3. \A i \in 1..Len(texts) : texts[i] \in Seq(Characters)
                               /\ ParagraphBreak \o texts[i] \in Seq(Characters)
  BY <1>2, ElementOfSeq, ConcatProperties
<1>4. parted \in Seq(Seq(Characters))
  BY <1>1, <1>3
<1> HIDE DEF parted
<1>5. FlattenSeq(parted) \in Seq(Characters)
  BY <1>4, FlattenType
<1> QED
  BY <1>5 DEF Join, parted

\* What is built from a text has no white space but spaces and line feeds.
LEMMA FinishTypes ==
    ASSUME NEW text, text \in Seq(Lined), Finish(text)
    PROVE  /\ phase' = "done" /\ body' = text /\ snippet' \in Snippets
           /\ hashed' = IF text # <<>> THEN text ELSE NormalizePlainText(snippet')
           /\ body' \in Seq(Lined) /\ hashed' \in Seq(Lined)
           /\ UNCHANGED <<htmlVars, parts, plain, html, parsing, unread>>
<1>1. /\ phase' = "done" /\ body' = text /\ snippet' \in Snippets
      /\ hashed' = IF text # <<>> THEN text ELSE NormalizePlainText(snippet')
      /\ UNCHANGED <<htmlVars, parts, plain, html, parsing, unread>>
  BY DEF Finish, HashSource
<1>2. NormalizePlainText(snippet') \in Seq(Lined)
  <2>1. snippet' \in Seq(Characters)
    BY <1>1, MessageAssumption
  <2> QED
    BY <2>1, NormalizeTidies DEF Tidy
<1> QED
  BY <1>1, <1>2

\* A message starts in its types.
LEMMA InitTypes == Init => TypeOK
<1> SUFFICES ASSUME Init PROVE TypeOK
  OBVIOUS
<1>1. HtmlTypeOK
  BY MessageAssumption DEF Init, HtmlInit, HtmlTypeOK
<1>2. unread \in Seq(Piece) /\ Len(events) + Len(unread) <= MaxEvents
  BY MessageAssumption DEF Init, HtmlInit
<1> QED
  BY <1>1, <1>2, MessageAssumption DEF Init, TypeOK

\* One part more, of a text of its own.
LEMMA VisitTypes ==
    ASSUME TypeOK, NEW mime \in Mimes, NEW named \in BOOLEAN, Visit(mime, named)
    PROVE  TypeOK'
<1> DEFINE number == Len(parts) + 1
<1>1. /\ number \in 1..MaxParts /\ parts \in Seq(Part) /\ Len(parts) \in Nat
      /\ DOMAIN parts = 1..Len(parts) /\ html \in Seq(DOMAIN parts)
  BY MessageAssumption DEF Visit, TypeOK
<1>2. PICK text \in TextsOf(mime, named, number) :
          /\ parts' = Append(parts, [mime |-> mime, named |-> named, text |-> text])
          /\ plain' = IF Collected([mime |-> mime, named |-> named, text |-> text], "plain")
                      THEN Append(plain, text) ELSE plain
          /\ html' = IF Collected([mime |-> mime, named |-> named, text |-> text], "html")
                     THEN Append(html, number) ELSE html
  BY DEF Visit
<1> DEFINE part == [mime |-> mime, named |-> named, text |-> text]
<1>3. text \in Seq(Characters)
  <2>1. WordOf[number] \in Characters /\ PlainTexts[number] \subseteq Seq(Characters)
    BY <1>1, MessageAssumption DEF Characters
  <2>2. <<WordOf[number]>> \in Seq(Characters) /\ <<>> \in Seq(Characters)
    BY <2>1
  <2> HIDE DEF number
  <2> QED
    BY <2>1, <2>2 DEF TextsOf
<1>4. part \in Part /\ (Collected(part, "plain") => text # <<>>)
  BY <1>3 DEF Part, Collected
<1> HIDE DEF part
<1>5. parts' \in Seq(Part) /\ Len(parts') = number /\ DOMAIN parts' = 1..number
  BY <1>1, <1>2, <1>4, AppendProperties DEF part
<1>6. plain' \in Seq(Seq(Characters) \ {<<>>})
  <2>1. CASE Collected(part, "plain")
    BY <1>2, <1>3, <1>4, <2>1, AppendProperties DEF TypeOK, part
  <2>2. CASE ~Collected(part, "plain")
    BY <1>2, <2>2 DEF TypeOK, part
  <2> QED
    BY <2>1, <2>2
<1>7. /\ html' \in Seq(DOMAIN parts') /\ Len(html) \in Nat
      /\ Len(html') \in {Len(html), Len(html) + 1}
  <2>1. html \in Seq(1..number)
    <3>1. \A k \in 1..Len(html) : html[k] \in 1..number
      <4>1. \A k \in 1..Len(html) : html[k] \in 1..Len(parts)
        BY <1>1, ElementOfSeq
      <4> QED
        BY <1>1, <4>1
    <3> QED
      BY <1>1, <3>1, SeqOfThese
  <2>2. number \in 1..number
    BY <1>1
  <2> HIDE DEF number
  <2>3. CASE Collected(part, "html")
    BY <1>2, <1>5, <2>1, <2>2, <2>3, AppendProperties DEF part
  <2>4. CASE ~Collected(part, "html")
    BY <1>2, <1>5, <2>1, <2>4 DEF part
  <2> QED
    BY <2>3, <2>4
<1>8. /\ UNCHANGED <<htmlVars, events, phase, parsing, unread, body, snippet, hashed>>
      /\ parsing' \in 0..Len(html')
  BY <1>7 DEF Visit, TypeOK, htmlVars
<1>9. HtmlTypeOK'
  BY <1>8, HtmlTypeStep DEF TypeOK
<1> HIDE DEF number
<1> QED
  BY <1>1, <1>5, <1>6, <1>7, <1>8, <1>9 DEF TypeOK

\* What has not begun yet.
PhaseInv ==
    /\ phase = "walk" => events = <<>> /\ chunks = <<>> /\ unread = <<>>
    /\ phase = "html" => plain = <<>>

\* The walk comes before the document, and plain parts keep it from being parsed.
LEMMA PhaseStep == PhaseInv /\ [Next]_vars => PhaseInv'
BY DEF PhaseInv, Next, vars, htmlVars, messageVars, Visit, UsePlain, UseHtml, UseNothing,
       Finish, HasMore, Feed, Raise, LeaveUnread, FeedNextPart, CloseParser, FallBack,
       Quiescent

\* A document that is no longer read has room for the breaks after its part.
RoomInv ==
    phase = "html" /\ unread # <<>> =>
        Len(events) + Len(unread) + Len(html) - parsing <= MaxEvents

\* The actions after the walk leave the parts alone.
LEMMA TypeStep == TypeOK /\ RoomInv /\ [Next]_vars => TypeOK'
<1> SUFFICES ASSUME TypeOK, RoomInv, [Next]_vars PROVE TypeOK'
  OBVIOUS
<1>1. HtmlTypeOK'
  BY HtmlTypeStep, DocumentSteps DEF TypeOK
<1>2. ASSUME NEW text, text \in Seq(Lined), Finish(text) PROVE TypeOK'
  <2>1. UNCHANGED <<events, parts, plain, html, parsing, unread>>
    BY <1>2, FinishTypes DEF htmlVars
  <2> QED
    BY <1>1, <1>2, <2>1, FinishTypes DEF TypeOK, Lined
<1>3. ASSUME UNCHANGED <<parts, plain, html, body, snippet, hashed>>,
             phase' \in {"walk", "html", "done"}, parsing' \in 0..Len(html),
             unread' \in Seq(Piece) /\ Len(events') + Len(unread') <= MaxEvents
      PROVE  TypeOK'
  BY <1>1, <1>3 DEF TypeOK
<1>a. unread = <<>> /\ unread' = unread =>
          unread' \in Seq(Piece) /\ Len(events') + Len(unread') <= MaxEvents
  <2>1. Len(events') \in Nat /\ Len(events') <= MaxEvents
    BY <1>1 DEF HtmlTypeOK
  <2> QED
    BY <2>1
<1>b. /\ Len(events) \in Nat /\ Len(html) \in Nat /\ parsing \in 0..Len(html)
      /\ unread \in Seq(Piece) /\ Len(unread) \in Nat /\ MaxEvents \in Nat
  BY MessageAssumption DEF TypeOK, HtmlTypeOK
<1>c. ASSUME NEW piece \in Piece, unread' = Append(unread, piece), events' = events,
             Len(events) + Len(unread) < MaxEvents
      PROVE  unread' \in Seq(Piece) /\ Len(events') + Len(unread') <= MaxEvents
  <2>1. unread' \in Seq(Piece) /\ Len(unread') = Len(unread) + 1
    BY <1>b, <1>c, AppendProperties
  <2> QED
    BY <1>b, <1>c, <2>1
<1>4. CASE \E mime \in Mimes, named \in BOOLEAN : Visit(mime, named)
  BY <1>4, VisitTypes
<1>5. CASE UsePlain
  <2>1. plain \in Seq(Seq(Characters))
    <3>1. \A k \in 1..Len(plain) : plain[k] \in Seq(Characters)
      BY ElementOfSeq DEF TypeOK
    <3> QED
      BY <3>1, SeqOfThese DEF TypeOK
  <2>2. NormalizePlainText(Join(plain)) \in Seq(Lined)
    BY <2>1, JoinIsText, NormalizeTidies DEF Tidy
  <2> QED
    BY <1>2, <1>5, <2>2 DEF UsePlain
<1>6. CASE UseHtml
  <2>1. 1 \in 0..Len(html)
    BY <1>6 DEF UseHtml, TypeOK
  <2>2. UNCHANGED <<events, unread>>
    BY <1>6 DEF UseHtml, htmlVars
  <2> QED
    BY <1>3, <1>6, <2>1, <2>2 DEF UseHtml, TypeOK
<1>7. CASE UseNothing
  <2>1. <<>> \in Seq(Lined)
    OBVIOUS
  <2> QED
    BY <1>2, <1>7, <2>1 DEF UseNothing
<1>8. CASE Feed
  BY <1>3, <1>8, <1>a DEF Feed, messageVars, TypeOK
<1>9. CASE FeedNextPart
  <2>1. /\ UNCHANGED <<phase, parts, plain, html, body, snippet, hashed>>
        /\ phase = "html" /\ parsing' \in 0..Len(html) /\ parsing < Len(html)
    BY <1>9, <1>b DEF FeedNextPart
  <2>2. CASE unread = <<>>
    BY <1>3, <1>9, <1>a, <2>1, <2>2 DEF FeedNextPart, TypeOK
  <2>3. CASE unread # <<>>
    <3> DEFINE break == [kind |-> "data", tag |-> NoTag, data |-> ParagraphBreak]
    <3>1. break \in Piece
      BY MessageAssumption DEF Piece, Event
    <3>2. unread' = Append(unread, break) /\ events' = events
      BY <1>9, <2>3 DEF FeedNextPart, htmlVars
    <3>3. Len(events) + Len(unread) < MaxEvents
      BY <1>b, <2>1, <2>3 DEF RoomInv
    <3> HIDE DEF break
    <3> QED
      BY <1>3, <1>c, <2>1, <3>1, <3>2, <3>3 DEF TypeOK
  <2> QED
    BY <2>2, <2>3
<1>10. CASE CloseParser
  <2>1. NormalizePlainText(ShownText) \in Seq(Lined)
    BY ShownIsText, NormalizeTidies DEF Tidy, TypeOK
  <2> QED
    BY <1>2, <1>10, <2>1 DEF CloseParser
<1>11. CASE UNCHANGED vars
  BY <1>3, <1>11 DEF vars, htmlVars, messageVars, TypeOK
<1>12. CASE Raise
  <2>1. Len(events) + Len(unread) < MaxEvents /\ events' = events
    BY <1>12, <1>b DEF Raise, HasMore, htmlVars
  <2>2. Broken \in Piece /\ unread' = Append(unread, Broken)
    BY <1>12 DEF Raise, Piece
  <2> QED
    BY <1>3, <1>12, <1>c, <2>1, <2>2 DEF Raise, TypeOK
<1>13. CASE LeaveUnread
  <2>1. Len(events) + Len(unread) < MaxEvents /\ events' = events
    BY <1>13, <1>b DEF LeaveUnread, HasMore, htmlVars
  <2>2. PICK piece \in Piece : unread' = Append(unread, piece)
    BY <1>13 DEF LeaveUnread, Piece
  <2> QED
    BY <1>3, <1>13, <1>c, <2>1, <2>2 DEF LeaveUnread, TypeOK
<1>14. CASE FallBack
  <2>1. NormalizePlainText(Stripped) \in Seq(Lined)
    BY StrippedIsText, NormalizeTidies DEF Tidy
  <2> QED
    BY <1>2, <1>14, <2>1 DEF FallBack
<1> QED
  BY <1>4, <1>5, <1>6, <1>7, <1>8, <1>9, <1>10, <1>11, <1>12, <1>13, <1>14
     DEF Next, Quiescent

\* Each piece is met while there is room for it, and each break takes its own.
LEMMA RoomStep == TypeOK /\ PhaseInv /\ RoomInv /\ [Next]_vars => RoomInv'
<1> SUFFICES ASSUME TypeOK, PhaseInv, RoomInv, [Next]_vars PROVE RoomInv'
  OBVIOUS
<1>1. /\ Len(events) \in Nat /\ Len(html) \in Nat /\ parsing \in 0..Len(html)
      /\ unread \in Seq(Piece) /\ Len(unread) \in Nat /\ MaxEvents \in Nat
  BY MessageAssumption DEF TypeOK, HtmlTypeOK
<1>2. \A piece : Len(Append(unread, piece)) = Len(unread) + 1
  BY <1>1
<1>3. CASE Raise \/ LeaveUnread
  <2>1. /\ Len(events) + Len(unread) + Len(html) - parsing < MaxEvents
        /\ UNCHANGED <<events, html, parsing>>
    BY <1>3 DEF Raise, LeaveUnread, HasMore, htmlVars
  <2>2. Len(unread') = Len(unread) + 1
    <3>1. ASSUME Raise PROVE Len(unread') = Len(unread) + 1
      BY <3>1 DEF Raise
    <3> QED
      BY <1>2, <1>3, <3>1 DEF LeaveUnread
  <2> QED
    BY <1>1, <2>1, <2>2 DEF RoomInv
<1>4. CASE FeedNextPart
  <2>1. CASE unread = <<>>
    BY <1>4, <2>1 DEF FeedNextPart, RoomInv
  <2>2. CASE unread # <<>>
    <3>1. /\ phase = "html" /\ events' = events /\ html' = html /\ parsing' = parsing + 1
          /\ Len(unread') = Len(unread) + 1
      BY <1>2, <1>4, <2>2 DEF FeedNextPart, htmlVars
    <3> QED
      BY <1>1, <2>2, <3>1 DEF RoomInv
  <2> QED
    BY <2>1, <2>2
<1>5. CASE UsePlain \/ UseNothing \/ CloseParser \/ FallBack
  BY <1>5 DEF UsePlain, UseNothing, CloseParser, FallBack, Finish, RoomInv
<1>6. CASE UNCHANGED vars
  BY <1>6 DEF vars, htmlVars, messageVars, RoomInv
<1>7. CASE Feed
  BY <1>7 DEF Feed, messageVars, RoomInv
<1>8. CASE UseHtml
  BY <1>8 DEF UseHtml, PhaseInv, RoomInv
<1>9. CASE \E mime \in Mimes, named \in BOOLEAN : Visit(mime, named)
  BY <1>9 DEF Visit, RoomInv
<1> QED
  BY <1>3, <1>4, <1>5, <1>6, <1>7, <1>8, <1>9 DEF Next, Quiescent

-------------------------------------------------------------------------------
(* The plain text, and the fingerprint. *)

\* The texts of the plain parts, in the order of the visits.
PlainInv == plain = [k \in DOMAIN PlainParts |-> parts[PlainParts[k]].text]

\* A visit adds a text exactly when it adds a plain part.
LEMMA PlainStep ==
    ASSUME TypeOK, RoomInv, PlainInv, [Next]_vars
    PROVE  PlainInv'
<1>1. CASE UNCHANGED <<parts, plain>>
  BY <1>1 DEF PlainInv, PlainParts
<1>2. ASSUME NEW mime \in Mimes, NEW named \in BOOLEAN, Visit(mime, named) PROVE PlainInv'
  <2>0. PICK n \in Nat : n = Len(parts)
    BY DEF TypeOK
  <2>1. PICK text \in TextsOf(mime, named, n + 1) :
            /\ parts' = Append(parts, [mime |-> mime, named |-> named, text |-> text])
            /\ plain' = IF Collected([mime |-> mime, named |-> named, text |-> text], "plain")
                        THEN Append(plain, text) ELSE plain
    BY <1>2, <2>0 DEF Visit
  <2> DEFINE part == [mime |-> mime, named |-> named, text |-> text]
             I == {i \in DOMAIN parts : Collected(parts[i], "plain")}
             J == {i \in DOMAIN parts' : Collected(parts'[i], "plain")}
             a == Ascending(I, n)
             F == [i \in 1..n |-> parts[i].text]
             G == [i \in 1..(n + 1) |-> parts'[i].text]
  <2>2. /\ parts \in Seq(Part) /\ DOMAIN parts = 1..n
        /\ DOMAIN parts' = 1..(n + 1) /\ Len(parts') = n + 1
        /\ parts'[n + 1] = part /\ \A i \in 1..n : parts'[i] = parts[i]
    BY <2>0, <2>1 DEF TypeOK
  <2>3. I \cap 1..n = J \cap 1..n /\ (n + 1 \in J <=> Collected(part, "plain"))
    <3>1. \A i \in 1..n : i \in 1..(n + 1)
      OBVIOUS
    <3>2. n + 1 \in 1..(n + 1)
      OBVIOUS
    <3> HIDE DEF part
    <3> QED
      BY <2>2, <3>1, <3>2
  <2>4. I \subseteq 1..n
    BY <2>2
  <2> HIDE DEF I, J
  <2>5. Ascending(J, n + 1) = IF n + 1 \in J THEN Append(a, n + 1) ELSE a
    BY <2>3, AscendingGrows
  <2>6. a \in Seq(Nat) /\ \A k \in DOMAIN a : a[k] \in 1..n
    <3>1. Lists(a, I \cap 1..n)
      BY AscendingLists
    <3> HIDE DEF a
    <3> QED
      BY <2>4, <3>1, ListsFacts DEF Lists
  <2>7. plain = [k \in DOMAIN a |-> F[a[k]]]
    <3>1. plain = [k \in DOMAIN a |-> parts[a[k]].text]
      BY <2>0 DEF PlainInv, PlainParts, I
    <3>2. \A k \in DOMAIN a : F[a[k]] = parts[a[k]].text
      BY <2>6
    <3> HIDE DEF a, F
    <3> QED
      BY <3>1, <3>2
  <2>8. PlainInv' <=> plain' = [k \in DOMAIN Ascending(J, n + 1) |->
                                    parts'[Ascending(J, n + 1)[k]].text]
    BY <2>2 DEF PlainInv, PlainParts, J
  <2>9. CASE Collected(part, "plain")
    <3>1. Ascending(J, n + 1) = Append(a, n + 1) /\ plain' = Append(plain, text)
      BY <2>1, <2>3, <2>5, <2>9
    <3>2. /\ \A k \in DOMAIN a : F[a[k]] \in Seq(Characters) /\ G[a[k]] = F[a[k]]
          /\ G[n + 1] \in Seq(Characters) /\ G[n + 1] = text
      <4>1. \A i \in 1..n : parts[i].text \in Seq(Characters) /\ i \in 1..(n + 1)
        <5>1. \A i \in 1..n : parts[i] \in Part
          BY <2>0, <2>2, ElementOfSeq
        <5> QED
          BY <5>1 DEF Part
      <4>2. parts' \in Seq(Part) /\ n + 1 \in 1..(n + 1)
        <5>1. TypeOK'
          BY TypeStep
        <5> QED
          BY <5>1 DEF TypeOK
      <4>3. parts'[n + 1] \in Part
        BY <2>2, <4>2, ElementOfSeq
      <4>4. G[n + 1] = text /\ text \in Seq(Characters)
        BY <2>2, <4>2, <4>3 DEF Part
      <4> HIDE DEF a
      <4> QED
        BY <2>2, <2>6, <4>1, <4>4
    <3>3. [k \in DOMAIN Append(a, n + 1) |-> G[Append(a, n + 1)[k]]] =
              Append([k \in DOMAIN a |-> F[a[k]]], G[n + 1])
      <4>1. n + 1 \in Nat
        OBVIOUS
      <4> HIDE DEF a, F, G
      <4> QED
        BY <2>6, <3>2, <4>1, MapGrows
    <3>4. \A k \in DOMAIN Append(a, n + 1) :
              G[Append(a, n + 1)[k]] = parts'[Append(a, n + 1)[k]].text
      <4>1. \A k \in DOMAIN Append(a, n + 1) : Append(a, n + 1)[k] \in 1..(n + 1)
        <5> HIDE DEF a
        <5>1. \A k \in DOMAIN a : a[k] \in 1..(n + 1)
          BY <2>6
        <5>2. n + 1 \in 1..(n + 1) /\ n + 1 \in Nat
          OBVIOUS
        <5>3. /\ DOMAIN Append(a, n + 1) = 1..(Len(a) + 1) /\ DOMAIN a = 1..Len(a)
              /\ Len(a) \in Nat
              /\ Append(a, n + 1)[Len(a) + 1] = n + 1
              /\ \A k \in 1..Len(a) : Append(a, n + 1)[k] = a[k]
          BY <2>6, <5>2, AppendProperties
        <5>4. \A k \in 1..(Len(a) + 1) : k \in 1..Len(a) \/ k = Len(a) + 1
          BY <5>3
        <5> QED
          BY <5>1, <5>2, <5>3, <5>4
      <4> HIDE DEF a
      <4> QED
        BY <4>1
    <3> HIDE DEF a, F, G
    <3> QED
      BY <2>7, <2>8, <3>1, <3>2, <3>3, <3>4
  <2>10. CASE ~Collected(part, "plain")
    <3>1. Ascending(J, n + 1) = a /\ plain' = plain
      BY <2>1, <2>3, <2>5, <2>10
    <3>2. \A k \in DOMAIN a : F[a[k]] = parts'[a[k]].text
      BY <2>2, <2>6
    <3> HIDE DEF a, F
    <3> QED
      BY <2>7, <2>8, <3>1, <3>2
  <2> QED
    BY <2>9, <2>10
<1> QED
  BY <1>1, <1>2 DEF Next, vars, messageVars, UsePlain, UseHtml, UseNothing, Finish, Feed,
                    Raise, LeaveUnread, FeedNextPart, CloseParser, FallBack, Quiescent

\* The parse ends in one of four ways; each normalizes a text.
LEMMA FinishSteps ==
    ASSUME TypeOK, [Next]_vars
    PROVE  \/ phase' # "done"
           \/ UNCHANGED vars
           \/ /\ phase = "walk" /\ plain # <<>>
              /\ Join(plain) \in Seq(Characters)
              /\ Finish(NormalizePlainText(Join(plain)))
           \/ /\ phase = "walk" /\ plain = <<>> /\ html = <<>>
              /\ <<>> \in Seq(Characters)
              /\ Finish(NormalizePlainText(<<>>)) /\ NormalizePlainText(<<>>) = <<>>
           \/ /\ phase = "html" /\ unread = <<>>
              /\ ShownText \in Seq(Characters)
              /\ Finish(NormalizePlainText(ShownText))
           \/ /\ phase = "html" /\ unread # <<>>
              /\ Stripped \in Seq(Characters)
              /\ Finish(NormalizePlainText(Stripped))
<1>1. CASE UsePlain
  <2>1. plain \in Seq(Seq(Characters))
    <3>1. \A k \in 1..Len(plain) : plain[k] \in Seq(Characters)
      BY ElementOfSeq DEF TypeOK
    <3> QED
      BY <3>1, SeqOfThese DEF TypeOK
  <2> QED
    BY <1>1, <2>1, JoinIsText DEF UsePlain
<1>2. CASE UseNothing
  <2>1. <<>> \in Seq(Characters)
    OBVIOUS
  <2>2. NormalizePlainText(<<>>) = <<>>
    <3>1. Tidy(NormalizePlainText(<<>>)) /\ WordsOf(NormalizePlainText(<<>>)) = WordsOf(<<>>)
      BY <2>1, NormalizeTidies
    <3>2. Tidy(<<>>)
      BY DEF Tidy, SingleSpaces, WideInside, FewBreaks
    <3> QED
      BY <3>1, <3>2, TidyHasWords
  <2> QED
    BY <1>2, <2>1, <2>2 DEF UseNothing
<1>3. CASE CloseParser
  BY <1>3, ShownIsText DEF CloseParser, TypeOK
<1>4. CASE UNCHANGED vars
  BY <1>4
<1>5. CASE \E mime \in Mimes, named \in BOOLEAN : Visit(mime, named)
  BY <1>5 DEF Visit
<1>6. CASE UseHtml \/ Feed \/ Raise \/ LeaveUnread \/ FeedNextPart
  BY <1>6 DEF UseHtml, Feed, Raise, LeaveUnread, HasMore, FeedNextPart, messageVars
<1>7. CASE FallBack
  BY <1>7, StrippedIsText DEF FallBack
<1> QED
  BY <1>1, <1>2, <1>3, <1>4, <1>5, <1>6, <1>7 DEF Next, Quiescent

\* What is hashed is the body, when it has words, or what becomes of the snippet.
LEMMA FingerprintStep ==
    ASSUME TypeOK, FingerprintIsOfWords, [Next]_vars
    PROVE  FingerprintIsOfWords'
<1>1. ASSUME NEW s, s \in Seq(Characters), Finish(NormalizePlainText(s))
      PROVE  FingerprintIsOfWords'
  <2> DEFINE text == NormalizePlainText(s)
  <2>1. Tidy(text)
    BY <1>1, NormalizeTidies
  <2> HIDE DEF text
  <2>2. /\ body' = text /\ snippet' \in Seq(Characters)
        /\ hashed' = IF text # <<>> THEN text ELSE NormalizePlainText(snippet')
    BY <1>1, <2>1, FinishTypes, MessageAssumption DEF Tidy, text
  <2>3. CASE text # <<>>
    <3>1. WordsOf(body') # <<>> /\ hashed' = body'
      BY <2>1, <2>2, <2>3, TidyHasWords
    <3>2. IsReadingOf(hashed', body')
      BY <2>1, <2>2, <3>1, TidyReadsItself
    <3> QED
      BY <3>1, <3>2 DEF FingerprintIsOfWords
  <2>4. CASE text = <<>>
    <3>1. WordsOf(body') = <<>> /\ hashed' = NormalizePlainText(snippet')
      BY <2>1, <2>2, <2>4, TidyHasWords
    <3>2. IsReadingOf(hashed', snippet')
      BY <2>2, <3>1, NormalizeIsReading
    <3> QED
      BY <3>1, <3>2 DEF FingerprintIsOfWords
  <2> QED
    BY <2>3, <2>4
<1>2. CASE phase' # "done"
  BY <1>2 DEF FingerprintIsOfWords
<1>3. CASE UNCHANGED vars
  BY <1>3 DEF vars, messageVars, FingerprintIsOfWords
<1> QED
  BY <1>1, <1>2, <1>3, FinishSteps

-------------------------------------------------------------------------------
(* Under proper ends, something is counted exactly while something is open.  *)

\* Since no event has the element started more often than ended by more than v.
AtMostOpen(evs, n, tag, v) ==
    \A j \in 1..(n + 1) :
        Cardinality(StartsOf(evs, j, n, tag)) <= Cardinality(EndsOf(evs, j, n, tag)) + v

BalanceInv ==
    \E open \in [Ignored -> Nat] :
        /\ \A tag \in Ignored : AtMostOpen(events, Len(events), tag, open[tag])
        /\ Proper => depth = Sum(open)

\* An element is open before an event that is inside it.
LEMMA InsideIsCounted ==
    ASSUME NEW evs, NEW n \in Nat, NEW tag, NEW v \in Nat, AtMostOpen(evs, n, tag, v),
           InsideOf(evs, n + 1, tag)
    PROVE  v > 0
<1>1. PICK j \in 1..n : Opens(evs[j], tag) /\ StaysOpen(evs, j, n, tag)
  <2>1. (n + 1) - 1 = n
    OBVIOUS
  <2> QED
    BY <2>1 DEF InsideOf
<1> DEFINE s == Cardinality(StartsOf(evs, j + 1, n, tag))
           t == Cardinality(EndsOf(evs, j + 1, n, tag))
<1>2. s \in Nat /\ t \in Nat
  <2>1. j + 1 \in 1..(n + 1)
    OBVIOUS
  <2> QED
    BY <2>1, CountsGrow
<1>3. t <= s
  <2>1. CASE j < n
    <3>1. n \in (j + 1)..n
      BY <2>1
    <3> QED
      BY <1>1, <3>1 DEF StaysOpen
  <2>2. CASE j = n
    <3>1. (j + 1)..n = {}
      BY <2>2
    <3>2. StartsOf(evs, j + 1, n, tag) = {} /\ EndsOf(evs, j + 1, n, tag) = {}
      BY <3>1 DEF StartsOf, EndsOf
    <3> QED
      BY <3>2, FS_EmptySet
  <2> QED
    BY <2>1, <2>2
<1>4. /\ StartsOf(evs, j, n, tag) = StartsOf(evs, j + 1, n, tag) \cup {j}
      /\ EndsOf(evs, j, n, tag) = EndsOf(evs, j + 1, n, tag)
      /\ j \notin StartsOf(evs, j + 1, n, tag)
      /\ IsFiniteSet(StartsOf(evs, j + 1, n, tag))
  <2>1. j..n = ((j + 1)..n) \cup {j} /\ j \notin (j + 1)..n
    OBVIOUS
  <2>2. Opens(evs[j], tag) /\ ~Closes(evs[j], tag)
    BY <1>1 DEF Opens, Closes
  <2>3. IsFiniteSet((j + 1)..n) /\ StartsOf(evs, j + 1, n, tag) \subseteq (j + 1)..n
    <3>1. j + 1 \in Int /\ n \in Int
      OBVIOUS
    <3>2. IsFiniteSet((j + 1)..n)
      BY <3>1, FS_Interval
    <3> QED
      BY <3>2 DEF StartsOf
  <2>4. IsFiniteSet(StartsOf(evs, j + 1, n, tag))
    BY <2>3, FS_Subset
  <2> QED
    BY <2>1, <2>2, <2>4 DEF StartsOf, EndsOf
<1>5. Cardinality(StartsOf(evs, j, n, tag)) = s + 1
  BY <1>4, FS_AddElement
<1>6. Cardinality(StartsOf(evs, j, n, tag)) <= Cardinality(EndsOf(evs, j, n, tag)) + v
  BY DEF AtMostOpen
<1>7. s + 1 <= t + v
  BY <1>4, <1>5, <1>6
<1> HIDE DEF s, t
<1> QED
  BY <1>2, <1>3, <1>7

\* One event more.
LEMMA AtMostOpenGrows ==
    ASSUME NEW evs, NEW longer, NEW n \in Nat, \A k \in 1..n : longer[k] = evs[k],
           NEW tag, NEW v \in Nat, AtMostOpen(evs, n, tag, v), NEW w \in Nat,
           w = IF Opens(longer[n + 1], tag) THEN v + 1
               ELSE IF Closes(longer[n + 1], tag) /\ v > 0 THEN v - 1 ELSE v
    PROVE  AtMostOpen(longer, n + 1, tag, w)
<1> SUFFICES ASSUME NEW j \in 1..(n + 2)
             PROVE  Cardinality(StartsOf(longer, j, n + 1, tag))
                        <= Cardinality(EndsOf(longer, j, n + 1, tag)) + w
  <2>1. (n + 1) + 1 = n + 2
    OBVIOUS
  <2> QED
    BY <2>1 DEF AtMostOpen
<1>1. CASE j \in 1..(n + 1)
  <2> DEFINE s == Cardinality(StartsOf(evs, j, n, tag))
             t == Cardinality(EndsOf(evs, j, n, tag))
             s2 == Cardinality(StartsOf(longer, j, n + 1, tag))
             t2 == Cardinality(EndsOf(longer, j, n + 1, tag))
  <2>1. /\ s \in Nat /\ t \in Nat
        /\ s2 = (IF Opens(longer[n + 1], tag) THEN s + 1 ELSE s)
        /\ t2 = (IF Closes(longer[n + 1], tag) THEN t + 1 ELSE t)
    BY <1>1, CountsGrow
  <2>2. s <= t + v
    BY <1>1 DEF AtMostOpen
  <2>3. ~(Opens(longer[n + 1], tag) /\ Closes(longer[n + 1], tag))
    BY DEF Opens, Closes
  <2> HIDE DEF s, t, s2, t2
  <2>4. s2 <= t2 + w
    BY <2>1, <2>2, <2>3
  <2> QED
    BY <2>4 DEF s2, t2
<1>2. CASE j = n + 2
  <2>1. j..(n + 1) = {}
    BY <1>2
  <2>2. StartsOf(longer, j, n + 1, tag) = {} /\ EndsOf(longer, j, n + 1, tag) = {}
    BY <2>1 DEF StartsOf, EndsOf
  <2> QED
    BY <2>2, FS_EmptySet
<1> QED
  BY <1>1, <1>2

\* A document is proper only if its beginning is, and its last event.
LEMMA ProperBefore ==
    ASSUME DocumentInv, NEW e, NEW n, Handles(e, n), Proper'
    PROVE  /\ Proper
           /\ \A tag \in Ignored :
                  Closes(e, tag) => InsideOf(events, Len(events) + 1, tag)
<1> DEFINE l == Len(events)
<1>1. /\ events \in Seq(Calls) /\ e \in Calls /\ events' = Append(events, e) /\ l \in Nat
      /\ \A k \in 1..l : events'[k] = events[k]
      /\ events'[l + 1] = e /\ DOMAIN events' = 1..(l + 1) /\ DOMAIN events = 1..l
  BY DocumentGrows DEF DocumentInv, Handles
<1>2. \A i \in 1..(l + 1), tag \in Ignored :
          Closes(events'[i], tag) => InsideOf(events', i, tag)
  BY <1>1, InsideIsNext DEF Proper
<1>3. \A tag : \A i \in 1..(l + 1) : InsideOf(events', i, tag) <=> InsideOf(events, i, tag)
  BY <1>1, PastIsKept
<1>4. \A i \in 1..l : i \in 1..(l + 1)
  BY <1>1
<1>5. Proper
  BY <1>1, <1>2, <1>3, <1>4, InsideIs DEF Proper
<1>6. l + 1 \in 1..(l + 1)
  BY <1>1
<1> QED
  BY <1>1, <1>2, <1>3, <1>5, <1>6

\* Each call changes the counter by what it changes of what is open.
LEMMA BalanceStep ==
    ASSUME DocumentInv, BalanceInv, [Next]_vars
    PROVE  BalanceInv'
<1>0. PICK n \in Nat : n = Len(events)
  BY DEF DocumentInv
<1>1. PICK open \in [Ignored -> Nat] :
          /\ \A tag \in Ignored : AtMostOpen(events, n, tag, open[tag])
          /\ Proper => depth = Sum(open)
  BY <1>0 DEF BalanceInv
<1> DEFINE After(e, tag) ==
               IF Opens(e, tag) THEN open[tag] + 1
               ELSE IF Closes(e, tag) /\ open[tag] > 0 THEN open[tag] - 1
               ELSE open[tag]
<1>2. ASSUME NEW e, NEW c, Handles(e, c),
             Proper /\ (\A tag \in Ignored : Closes(e, tag) => open[tag] > 0)
                 => depth' = After(e, "script") + After(e, "style")
                             + After(e, "noscript") + After(e, "svg")
      PROVE  BalanceInv'
  <2> DEFINE after == [tag \in Ignored |-> After(e, tag)]
  <2>1. events'[n + 1] = e /\ Len(events') = n + 1 /\ \A k \in 1..n : events'[k] = events[k]
    BY <1>0, <1>2, DocumentGrows
  <2>2. after \in [Ignored -> Nat]
    OBVIOUS
  <2>3. ASSUME NEW tag \in Ignored
        PROVE  AtMostOpen(events', n + 1, tag, after[tag])
    <3>1. /\ open[tag] \in Nat /\ after[tag] \in Nat
          /\ after[tag] = IF Opens(events'[n + 1], tag) THEN open[tag] + 1
                          ELSE IF Closes(events'[n + 1], tag) /\ open[tag] > 0
                               THEN open[tag] - 1 ELSE open[tag]
      BY <2>1, <2>2
    <3>2. AtMostOpen(events, n, tag, open[tag])
      BY <1>1
    <3> HIDE DEF after
    <3> QED
      BY <2>1, <3>1, <3>2, AtMostOpenGrows
  <2>4. Proper' => depth' = Sum(after)
    <3> SUFFICES ASSUME Proper' PROVE depth' = Sum(after)
      OBVIOUS
    <3>1. Proper /\ \A tag \in Ignored : Closes(e, tag) => InsideOf(events, n + 1, tag)
      BY <1>0, <1>2, ProperBefore
    <3>2. \A tag \in Ignored : Closes(e, tag) => open[tag] > 0
      BY <1>1, <3>1, InsideIsCounted
    <3>3. Sum(after) = After(e, "script") + After(e, "style")
                           + After(e, "noscript") + After(e, "svg")
      BY DEF Sum, Ignored
    <3> HIDE DEF after, After
    <3> QED
      BY <1>2, <3>1, <3>2, <3>3
  <2> HIDE DEF after
  <2> QED
    BY <2>1, <2>2, <2>3, <2>4 DEF BalanceInv
<1>3. /\ open["script"] \in Nat /\ open["style"] \in Nat
      /\ open["noscript"] \in Nat /\ open["svg"] \in Nat
  BY DEF Ignored
<1>4. ASSUME NEW t \in Tags, StartTag(t) PROVE BalanceInv'
  <2> DEFINE e == [kind |-> "start", tag |-> t, data |-> <<>>]
  <2>1. Handles(e, IF StartsLine(t) THEN 1 ELSE 0)
    BY <1>4, Handlers
  <2>2. \A tag : After(e, tag) = IF tag = t THEN open[tag] + 1 ELSE open[tag]
    BY DEF Opens, Closes
  <2>3. depth' = IF t \in Ignored THEN depth + 1 ELSE depth
    BY <1>4 DEF StartTag, Opened
  <2>4. Proper => depth' = After(e, "script") + After(e, "style")
                           + After(e, "noscript") + After(e, "svg")
    <3> HIDE DEF After, e
    <3> QED
      BY <1>1, <1>3, <2>2, <2>3 DEF Sum, Ignored
  <2> QED
    BY <1>2, <2>1, <2>4
<1>5. ASSUME NEW t \in Tags, EndTag(t) PROVE BalanceInv'
  <2> DEFINE e == [kind |-> "end", tag |-> t, data |-> <<>>]
  <2>1. Handles(e, IF StartsLine(t) THEN 1 ELSE 0)
    BY <1>5, Handlers
  <2>2. \A tag : After(e, tag) =
            IF tag = t /\ open[tag] > 0 THEN open[tag] - 1 ELSE open[tag]
    BY DEF Opens, Closes
  <2>3. depth' = IF t \in Ignored /\ depth > 0 THEN depth - 1 ELSE depth
    BY <1>5 DEF EndTag, Closed
  <2>4. Closes(e, t)
    BY DEF Closes
  <2>5. Proper /\ (\A tag \in Ignored : Closes(e, tag) => open[tag] > 0)
            => depth' = After(e, "script") + After(e, "style")
                        + After(e, "noscript") + After(e, "svg")
    <3> HIDE DEF After, e
    <3> QED
      BY <1>1, <1>3, <2>2, <2>3, <2>4 DEF Sum, Ignored
  <2> QED
    BY <1>2, <2>1, <2>5
<1>6. ASSUME NEW e, NEW c, Handles(e, c), depth' = depth,
             \A tag : ~Opens(e, tag) /\ ~Closes(e, tag)
      PROVE  BalanceInv'
  <2>1. \A tag : After(e, tag) = open[tag]
    BY <1>6
  <2>2. Proper => depth' = After(e, "script") + After(e, "style")
                           + After(e, "noscript") + After(e, "svg")
    BY <1>1, <1>6, <2>1 DEF Sum
  <2> QED
    BY <1>2, <1>6, <2>2
<1>7. ASSUME NEW t \in Tags, EmptyTag(t) PROVE BalanceInv'
  <2> DEFINE e == [kind |-> "empty", tag |-> t, data |-> <<>>]
  <2>1. Handles(e, IF StartsLine(t) THEN 2 ELSE 0) /\ depth' = depth
    BY <1>7, Handlers DEF EmptyTag
  <2>2. \A tag : ~Opens(e, tag) /\ ~Closes(e, tag)
    BY DEF Opens, Closes
  <2> QED
    BY <1>6, <2>1, <2>2
<1>8. ASSUME NEW data \in Data \cup {ParagraphBreak}, Text(data) PROVE BalanceInv'
  <2> DEFINE e == [kind |-> "data", tag |-> NoTag, data |-> data]
  <2>1. Handles(e, IF depth = 0 THEN 1 ELSE 0) /\ depth' = depth
    BY <1>8, Handlers DEF Text
  <2>2. \A tag : ~Opens(e, tag) /\ ~Closes(e, tag)
    BY DEF Opens, Closes
  <2> QED
    BY <1>6, <2>1, <2>2
<1>9. CASE UNCHANGED htmlVars
  <2>1. events' = events /\ depth' = depth
    BY <1>9 DEF htmlVars
  <2>2. Proper' <=> Proper
    BY <2>1, InsideIs, InsideIsNext DEF Proper
  <2> QED
    BY <2>1, <2>2 DEF BalanceInv
<1> QED
  BY <1>4, <1>5, <1>7, <1>8, <1>9, DocumentSteps

\* While nothing is counted in a proper document, what follows is outside.
LEMMA OutsideIsUncounted ==
    ASSUME DocumentInv, DepthInv, BalanceInv, Proper
    PROVE  depth = 0 <=> \A tag \in Ignored : ~InsideOf(events, Len(events) + 1, tag)
<1>1. PICK open \in [Ignored -> Nat] :
          /\ \A tag \in Ignored : AtMostOpen(events, Len(events), tag, open[tag])
          /\ Proper => depth = Sum(open)
  BY DEF BalanceInv
<1>2. depth = 0 => \A tag \in Ignored : open[tag] = 0
  BY <1>1 DEF Sum, Ignored
<1>3. Len(events) \in Nat /\ depth \in Nat
  BY DEF DocumentInv
<1>4. ASSUME depth = 0, NEW tag \in Ignored, InsideOf(events, Len(events) + 1, tag)
      PROVE  FALSE
  <2>1. open[tag] > 0
    BY <1>1, <1>3, <1>4, InsideIsCounted
  <2> QED
    BY <1>2, <1>4, <2>1
<1>5. depth > 0 => \E tag \in Ignored : InsideOf(events, Len(events) + 1, tag)
  BY CountedIsInside
<1> QED
  BY <1>3, <1>4, <1>5

-------------------------------------------------------------------------------
(* The HTML text: under proper ends, a call appends chunks exactly when it is *)
(* one a reader sees, and what it appends is what the reader sees.            *)

\* What a reader sees of a call.
Seen(e) == IF e.kind = "empty" THEN <<"lf", "lf">> ELSE Content(e)

\* The text that is shown is the one that is readable, so far.
ReadInv ==
    Proper => ShownText = FlattenSeq([k \in DOMAIN ReadableEvents |->
                                          Seen(events[ReadableEvents[k]])])

\* How the readable events go on.
LEMMA ReadableGrows ==
    ASSUME DocumentInv, NEW e, NEW c, Handles(e, c), NEW n \in Nat, n = Len(events)
    PROVE  /\ ReadableEvents \in Seq(Nat)
           /\ \A k \in DOMAIN ReadableEvents : ReadableEvents[k] \in 1..n
           /\ ReadableEvents' =
                  IF /\ \A tag \in Ignored : ~InsideOf(events, n + 1, tag)
                     /\ e.kind = "data" \/ e.tag \in Block
                  THEN Append(ReadableEvents, n + 1) ELSE ReadableEvents
<1> DEFINE I == {i \in DOMAIN events :
                    Outside(i) /\ (events[i].kind = "data" \/ events[i].tag \in Block)}
           J == {i \in DOMAIN events' :
                    Outside(i)' /\ (events'[i].kind = "data" \/ events'[i].tag \in Block)}
<1>1. /\ events \in Seq(Calls) /\ e \in Calls /\ events' = Append(events, e)
      /\ \A k \in 1..n : events'[k] = events[k]
      /\ events'[n + 1] = e /\ Len(events') = n + 1
      /\ DOMAIN events' = 1..(n + 1) /\ DOMAIN events = 1..n
  BY DocumentGrows DEF DocumentInv, Handles
<1>2. \A tag : \A i \in 1..(n + 1) : InsideOf(events', i, tag) <=> InsideOf(events, i, tag)
  BY <1>1, PastIsKept
<1>3. \A i \in 1..(n + 1) :
          Outside(i)' <=> \A tag \in Ignored : ~InsideOf(events, i, tag)
  BY <1>2, InsideIsNext DEF Outside
<1>4. \A i : Outside(i) <=> \A tag \in Ignored : ~InsideOf(events, i, tag)
  BY InsideIs DEF Outside
<1>5. ReadableEvents = Ascending(I, n) /\ ReadableEvents' = Ascending(J, n + 1)
  BY <1>1 DEF ReadableEvents
<1>6. I \cap 1..n = J \cap 1..n
  <2>1. \A i \in 1..n : i \in 1..(n + 1)
    OBVIOUS
  <2> QED
    BY <1>1, <1>3, <1>4, <2>1
<1>7. n + 1 \in J <=> /\ \A tag \in Ignored : ~InsideOf(events, n + 1, tag)
                      /\ e.kind = "data" \/ e.tag \in Block
  <2>1. n + 1 \in 1..(n + 1)
    OBVIOUS
  <2> QED
    BY <1>1, <1>3, <2>1
<1> HIDE DEF I, J
<1>8. Ascending(J, n + 1) = IF n + 1 \in J THEN Append(Ascending(I, n), n + 1)
                            ELSE Ascending(I, n)
  BY <1>6, AscendingGrows
<1>9. /\ Ascending(I, n) \in Seq(Nat)
      /\ \A k \in DOMAIN Ascending(I, n) : Ascending(I, n)[k] \in 1..n
  <2>1. Lists(Ascending(I, n), I \cap 1..n)
    BY AscendingLists
  <2> QED
    BY <2>1, ListsFacts DEF Lists
<1> QED
  BY <1>5, <1>7, <1>8, <1>9

\* A character twice.
LEMMA PairIsConcat ==
    ASSUME NEW S, NEW x \in S
    PROVE  <<x>> \in Seq(S) /\ <<x>> \o <<x>> = <<x, x>>
<1>1. <<x>> \in Seq(S) /\ Append(<<x>>, x) = <<x, x>>
  <2>1. <<x>> \in Seq(S) /\ Len(<<x>>) = 1 /\ <<x>>[1] = x
    OBVIOUS
  <2>2. /\ Append(<<x>>, x) \in Seq(S) /\ Len(Append(<<x>>, x)) = 2
        /\ Append(<<x>>, x)[1] = x /\ Append(<<x>>, x)[2] = x
    BY <2>1, AppendProperties
  <2>3. <<x, x>> \in Seq(S) /\ Len(<<x, x>>) = 2 /\ <<x, x>>[1] = x /\ <<x, x>>[2] = x
    OBVIOUS
  <2>4. \A k \in 1..2 : Append(<<x>>, x)[k] = <<x, x>>[k]
    BY <2>2, <2>3
  <2> QED
    BY <2>1, <2>2, <2>3, <2>4, SeqEqual
<1>2. Append(<<x>>, x) = <<x>> \o <<x>>
  BY <1>1, AppendIsConcat
<1> QED
  BY <1>1, <1>2

\* The texts F[i] of the numbers in a list.
TextsAt(F, a) == [k \in DOMAIN a |-> F[a[k]]]

\* F and G give the numbers in a list the same texts.
SameTexts(F, G, a) == \A k \in DOMAIN a : F[a[k]] \in Seq(Characters) /\ G[a[k]] = F[a[k]]

\* The texts of a list of numbers, joined, when the list gets one number more.
LEMMA JoinedGrows ==
    ASSUME NEW a \in Seq(Nat), NEW x \in Nat, NEW F, NEW G,
           SameTexts(F, G, a), G[x] \in Seq(Characters)
    PROVE  /\ FlattenSeq(TextsAt(F, a)) \in Seq(Characters)
           /\ FlattenSeq(TextsAt(G, Append(a, x))) = FlattenSeq(TextsAt(F, a)) \o G[x]
<1>1. TextsAt(F, a) \in Seq(Seq(Characters))
  <2>1. DOMAIN a = 1..Len(a) /\ Len(a) \in Nat
    OBVIOUS
  <2> QED
    BY <2>1 DEF TextsAt, SameTexts
<1>2. TextsAt(G, Append(a, x)) = Append(TextsAt(F, a), G[x])
  BY MapGrows DEF TextsAt, SameTexts
<1>3. FlattenSeq(Append(TextsAt(F, a), G[x])) = FlattenSeq(TextsAt(F, a)) \o G[x]
      /\ FlattenSeq(TextsAt(F, a)) \in Seq(Characters)
  BY <1>1, FlattenGrows, FlattenType
<1> QED
  BY <1>2, <1>3

\* Each call appends to what is shown what it adds to what is readable.
LEMMA ReadGrows ==
    ASSUME HtmlTypeOK, DocumentInv, DepthInv, BalanceInv, ReadInv, NEW e, NEW c, Handles(e, c),
           c = IF depth = 0 /\ (e.kind = "data" \/ e.tag \in Block)
               THEN IF e.kind = "empty" THEN 2 ELSE 1
               ELSE 0
    PROVE  ReadInv'
<1>0. PICK n \in Nat : n = Len(events)
  BY DEF DocumentInv
<1> SUFFICES ASSUME Proper'
             PROVE  ShownText' = FlattenSeq([k \in DOMAIN ReadableEvents' |->
                                                 Seen(events'[ReadableEvents'[k]])])
  BY DEF ReadInv
<1> DEFINE F == [i \in 1..n |-> Content(events[i])]
           G == [i \in 1..(n + 1) |-> Content(events'[i])]
           P == [i \in 1..n |-> Seen(events[i])]
           Q == [i \in 1..(n + 1) |-> Seen(events'[i])]
           r == ReadableEvents
           text == FlattenSeq(TextsAt(F, chunks))
<1>1. /\ e \in Calls /\ events' = Append(events, e)
      /\ events'[n + 1] = e /\ \A i \in 1..n : events'[i] = events[i]
  BY <1>0, DocumentGrows DEF Handles
<1>2. \A d \in Event : Content(d) \in Seq(Characters) /\ Seen(d) \in Seq(Characters)
  <2>1. <<"lf", "lf">> \in Seq(Characters)
    BY DEF Characters, White
  <2> QED
    BY <2>1, DataAreTexts DEF Seen
<1>3. /\ \A i \in 1..n : /\ F[i] \in Seq(Characters) /\ G[i] = F[i]
                         /\ P[i] \in Seq(Characters) /\ Q[i] = P[i]
      /\ G[n + 1] = Content(e) /\ G[n + 1] \in Seq(Characters)
      /\ Q[n + 1] = Seen(e) /\ Q[n + 1] \in Seq(Characters)
  <2>1. \A i \in 1..n : events[i] \in Event /\ i \in 1..(n + 1)
    BY <1>0, ElementOfSeq DEF HtmlTypeOK
  <2>2. n + 1 \in 1..(n + 1) /\ e \in Event
    BY <1>1, DataAreTexts
  <2> QED
    BY <1>1, <1>2, <2>1, <2>2
<1>4. /\ chunks \in Seq(Nat) /\ \A k \in DOMAIN chunks : chunks[k] \in 1..n
      /\ chunks' = chunks \o [i \in 1..c |-> n + 1]
  BY <1>0 DEF DocumentInv, Handles, AppendChunks
<1>5. /\ r \in Seq(Nat) /\ \A k \in DOMAIN r : r[k] \in 1..n
      /\ ReadableEvents' =
             IF /\ \A tag \in Ignored : ~InsideOf(events, n + 1, tag)
                /\ e.kind = "data" \/ e.tag \in Block
             THEN Append(r, n + 1) ELSE r
  BY <1>0, ReadableGrows
<1>6. Proper /\ (depth = 0 <=> \A tag \in Ignored : ~InsideOf(events, n + 1, tag))
  BY <1>0, ProperBefore, OutsideIsUncounted
<1>7. text = FlattenSeq(TextsAt(P, r))
  <2>1. TextsAt(F, chunks) =
            [k \in DOMAIN chunks |-> Content(events[chunks[k]])]
    BY <1>4 DEF TextsAt
  <2>2. TextsAt(P, r) = [k \in DOMAIN r |-> Seen(events[r[k]])]
    BY <1>5 DEF TextsAt
  <2>3. ShownText = FlattenSeq([k \in DOMAIN r |-> Seen(events[r[k]])])
    BY <1>6 DEF ReadInv
  <2> QED
    BY <2>1, <2>2, <2>3 DEF ShownText
<1>8. ASSUME NEW a \in Seq(Nat), \A k \in DOMAIN a : a[k] \in 1..(n + 1)
      PROVE  [k \in DOMAIN a |-> Content(events'[a[k]])] = TextsAt(G, a)
  BY <1>8 DEF TextsAt
<1>9. ASSUME NEW a \in Seq(Nat), \A k \in DOMAIN a : a[k] \in 1..(n + 1)
      PROVE  [k \in DOMAIN a |-> Seen(events'[a[k]])] = TextsAt(Q, a)
  BY <1>9 DEF TextsAt
<1>10. ASSUME NEW a \in Seq(Nat), \A k \in DOMAIN a : a[k] \in 1..(n + 1)
       PROVE  /\ Append(a, n + 1) \in Seq(Nat)
              /\ \A k \in DOMAIN Append(a, n + 1) : Append(a, n + 1)[k] \in 1..(n + 1)
  <2>1. n + 1 \in 1..(n + 1) /\ n + 1 \in Nat
    OBVIOUS
  <2>2. /\ Append(a, n + 1) \in Seq(Nat) /\ Len(a) \in Nat /\ DOMAIN a = 1..Len(a)
        /\ DOMAIN Append(a, n + 1) = 1..(Len(a) + 1)
        /\ Append(a, n + 1)[Len(a) + 1] = n + 1
        /\ \A k \in 1..Len(a) : Append(a, n + 1)[k] = a[k]
    BY <2>1, AppendProperties
  <2>3. \A k \in 1..(Len(a) + 1) : k \in 1..Len(a) \/ k = Len(a) + 1
    BY <2>2
  <2> QED
    BY <1>10, <2>1, <2>2, <2>3
<1>11. /\ \A k \in DOMAIN chunks : chunks[k] \in 1..(n + 1)
       /\ \A k \in DOMAIN r : r[k] \in 1..(n + 1)
  BY <1>4, <1>5
<1>12. text \in Seq(Characters) /\ n + 1 \in Nat
       /\ FlattenSeq(TextsAt(G, Append(chunks, n + 1))) =
              text \o Content(e)
       /\ FlattenSeq(TextsAt(Q, Append(r, n + 1))) =
              text \o Seen(e)
  <2>1. n + 1 \in Nat
    OBVIOUS
  <2>2. SameTexts(F, G, chunks) /\ SameTexts(P, Q, r)
    BY <1>3, <1>4, <1>5 DEF SameTexts
  <2> HIDE DEF F, G, P, Q, r
  <2>3. FlattenSeq(TextsAt(F, chunks)) \in Seq(Characters)
        /\ FlattenSeq(TextsAt(G, Append(chunks, n + 1))) =
              FlattenSeq(TextsAt(F, chunks)) \o G[n + 1]
    BY <1>3, <1>4, <2>1, <2>2, JoinedGrows
  <2>4. FlattenSeq(TextsAt(Q, Append(r, n + 1))) =
              FlattenSeq(TextsAt(P, r)) \o Q[n + 1]
    BY <1>3, <1>5, <2>1, <2>2, JoinedGrows
  <2> HIDE DEF text
  <2>5. text = FlattenSeq(TextsAt(F, chunks))
    BY DEF text
  <2> QED
    BY <1>3, <1>7, <2>1, <2>3, <2>4, <2>5
<1> HIDE DEF F, G, P, Q, text
<1>13. CASE c = 0
  <2>1. chunks' = chunks
    <3>1. [i \in 1..c |-> n + 1] = <<>>
      BY <1>13
    <3> QED
      BY <1>4, <3>1, ConcatEmptySeq
  <2>2. ReadableEvents' = r
    BY <1>5, <1>6, <1>13
  <2>3. ShownText' = FlattenSeq(TextsAt(G, chunks))
    BY <1>4, <1>8, <1>11, <2>1 DEF ShownText
  <2>4. FlattenSeq([k \in DOMAIN r |-> Seen(events'[r[k]])]) =
            FlattenSeq(TextsAt(Q, r))
    BY <1>5, <1>9, <1>11
  <2>5. /\ TextsAt(G, chunks) = TextsAt(F, chunks)
        /\ TextsAt(Q, r) = TextsAt(P, r)
    BY <1>3, <1>4, <1>5 DEF TextsAt
  <2> QED
    BY <1>7, <2>2, <2>3, <2>4, <2>5 DEF text
<1>14. CASE c # 0
  <2> DEFINE once == Append(chunks, n + 1)
  <2>1. depth = 0 /\ (e.kind = "data" \/ e.tag \in Block)
        /\ c = IF e.kind = "empty" THEN 2 ELSE 1
    BY <1>14
  <2>2. ReadableEvents' = Append(r, n + 1)
    BY <1>5, <1>6, <2>1
  <2>3. FlattenSeq([k \in DOMAIN Append(r, n + 1) |-> Seen(events'[Append(r, n + 1)[k]])]) =
            text \o Seen(e)
    BY <1>5, <1>9, <1>10, <1>11, <1>12
  <2>4. once \in Seq(Nat) /\ \A k \in DOMAIN once : once[k] \in 1..(n + 1)
    BY <1>4, <1>10, <1>11
  <2>5. ShownText' = text \o Seen(e)
    <3>1. CASE c = 1
      <4>1. chunks' = once
        <5>1. [i \in 1..c |-> n + 1] = <<n + 1>>
          BY <3>1
        <5>2. Append(chunks, n + 1) = chunks \o <<n + 1>>
          BY <1>4, <1>12, AppendIsConcat
        <5> QED
          BY <1>4, <5>1, <5>2
      <4>2. ShownText' = FlattenSeq(TextsAt(G, once))
        BY <1>8, <2>4, <4>1 DEF ShownText
      <4>3. Seen(e) = Content(e)
        BY <2>1, <3>1 DEF Seen
      <4> QED
        BY <1>12, <4>2, <4>3
    <3>2. CASE c = 2
      <4>1. chunks' = Append(once, n + 1)
        <5>1. [i \in 1..c |-> n + 1] = <<n + 1, n + 1>>
          BY <3>2
        <5>2. Append(chunks, n + 1) = chunks \o <<n + 1>>
              /\ Append(once, n + 1) = once \o <<n + 1>>
          <6>1. Append(chunks, n + 1) = chunks \o <<n + 1>>
            BY <1>4, <1>12, AppendIsConcat
          <6> HIDE DEF once
          <6>2. Append(once, n + 1) = once \o <<n + 1>>
            BY <1>12, <2>4, AppendIsConcat
          <6> QED
            BY <6>1, <6>2
        <5>3. (chunks \o <<n + 1>>) \o <<n + 1>> = chunks \o (<<n + 1>> \o <<n + 1>>)
          <6>1. <<n + 1>> \in Seq(Nat)
            BY <1>12
          <6> QED
            BY <1>4, <6>1, ConcatAssociative
        <5>4. <<n + 1>> \o <<n + 1>> = <<n + 1, n + 1>>
          BY <1>12, PairIsConcat
        <5> QED
          BY <1>4, <5>1, <5>2, <5>3, <5>4
      <4>2. Append(once, n + 1) \in Seq(Nat)
            /\ \A k \in DOMAIN Append(once, n + 1) : Append(once, n + 1)[k] \in 1..(n + 1)
        BY <1>10, <2>4
      <4>3. ShownText' = FlattenSeq(TextsAt(G, Append(once, n + 1)))
        BY <1>8, <4>1, <4>2 DEF ShownText
      <4>4. \A i \in 1..(n + 1) : G[i] \in Seq(Characters)
        <5>1. \A i \in 1..(n + 1) : i \in 1..n \/ i = n + 1
          OBVIOUS
        <5> QED
          BY <1>3, <5>1
      <4>5. FlattenSeq(TextsAt(G, Append(once, n + 1))) =
                FlattenSeq(TextsAt(G, once)) \o G[n + 1]
        <5> HIDE DEF once
        <5>1. SameTexts(G, G, once)
          BY <2>4, <4>4 DEF SameTexts
        <5> QED
          BY <1>3, <1>12, <2>4, <5>1, JoinedGrows
      <4>6. e.kind = "empty" /\ Content(e) = <<"lf">> /\ Seen(e) = <<"lf", "lf">>
        BY <2>1, <3>2 DEF Seen, Content
      <4>7. ShownText' = (text \o <<"lf">>) \o <<"lf">>
        <5>1. FlattenSeq(TextsAt(G, once)) = text \o <<"lf">>
          BY <1>12, <4>6
        <5> HIDE DEF once
        <5> QED
          BY <1>3, <4>3, <4>5, <4>6, <5>1
      <4>8. (text \o <<"lf">>) \o <<"lf">> = text \o <<"lf", "lf">>
        <5>1. <<"lf">> \in Seq(Characters) /\ <<"lf">> \o <<"lf">> = <<"lf", "lf">>
          <6>1. "lf" \in Characters
            BY DEF Characters, White
          <6> QED
            BY <6>1, PairIsConcat
        <5>2. (text \o <<"lf">>) \o <<"lf">> = text \o (<<"lf">> \o <<"lf">>)
          BY <1>12, <5>1, ConcatAssociative
        <5> QED
          BY <5>1, <5>2
      <4> QED
        BY <4>6, <4>7, <4>8
    <3> QED
      BY <2>1, <3>1, <3>2
  <2> QED
    BY <2>2, <2>3, <2>5
<1> QED
  BY <1>13, <1>14

\* Each handler appends as many chunks as ReadGrows asks for.
LEMMA ReadStep ==
    ASSUME HtmlTypeOK, DocumentInv, DepthInv, BalanceInv, ReadInv, [Next]_vars
    PROVE  ReadInv'
<1>1. ASSUME NEW t \in Tags, StartTag(t) PROVE ReadInv'
  <2> DEFINE e == [kind |-> "start", tag |-> t, data |-> <<>>]
  <2>1. Handles(e, IF StartsLine(t) THEN 1 ELSE 0)
    BY <1>1, Handlers
  <2> QED
    BY <2>1, ReadGrows DEF StartsLine
<1>2. ASSUME NEW t \in Tags, EndTag(t) PROVE ReadInv'
  <2> DEFINE e == [kind |-> "end", tag |-> t, data |-> <<>>]
  <2>1. Handles(e, IF StartsLine(t) THEN 1 ELSE 0)
    BY <1>2, Handlers
  <2> QED
    BY <2>1, ReadGrows DEF StartsLine
<1>3. ASSUME NEW t \in Tags, EmptyTag(t) PROVE ReadInv'
  <2> DEFINE e == [kind |-> "empty", tag |-> t, data |-> <<>>]
  <2>1. Handles(e, IF StartsLine(t) THEN 2 ELSE 0)
    BY <1>3, Handlers
  <2> QED
    BY <2>1, ReadGrows DEF StartsLine
<1>4. ASSUME NEW data \in Data \cup {ParagraphBreak}, Text(data) PROVE ReadInv'
  <2> DEFINE e == [kind |-> "data", tag |-> NoTag, data |-> data]
  <2>1. Handles(e, IF depth = 0 THEN 1 ELSE 0)
    BY <1>4, Handlers
  <2> QED
    BY <2>1, ReadGrows
<1>5. CASE UNCHANGED htmlVars
  <2>1. events' = events /\ chunks' = chunks
    BY <1>5 DEF htmlVars
  <2>2. Proper' <=> Proper
    BY <2>1, InsideIs, InsideIsNext DEF Proper
  <2>3. \A i : Outside(i)' <=> Outside(i)
    BY <2>1, InsideIs, InsideIsNext DEF Outside
  <2>4. ReadableEvents' = ReadableEvents
    BY <2>1, <2>3 DEF ReadableEvents
  <2>5. ShownText' = ShownText
    BY <2>1 DEF ShownText
  <2> QED
    BY <2>1, <2>2, <2>4, <2>5 DEF ReadInv
<1> QED
  BY <1>1, <1>2, <1>3, <1>4, <1>5, DocumentSteps

-------------------------------------------------------------------------------
(* The body. *)

\* A parse ends with the reading of what is readable, however it ends: of the
\* plain parts, of the document, or of nothing.
LEMMA BodyStep ==
    ASSUME TypeOK, PlainInv, PhaseInv, ReadInv, BodyIsReadableText, [Next]_vars
    PROVE  BodyIsReadableText'
<1>1. ASSUME NEW s, s \in Seq(Characters), Finish(NormalizePlainText(s)),
             unread = <<>> /\ Proper => Readable = s
      PROVE  BodyIsReadableText'
  <2>1. NormalizePlainText(s) \in Seq(Lined)
    BY <1>1, NormalizeTidies DEF Tidy
  <2>2. /\ body' = NormalizePlainText(s)
        /\ events' = events /\ parts' = parts /\ unread' = unread
    BY <1>1, <2>1, FinishTypes DEF htmlVars
  <2>3. (Proper' <=> Proper) /\ \A i : Outside(i)' <=> Outside(i)
    BY <2>2, InsideIs, InsideIsNext DEF Proper, Outside
  <2>4. Readable' = Readable
    <3>1. ReadableEvents' = ReadableEvents /\ PlainParts' = PlainParts
      BY <2>2, <2>3 DEF ReadableEvents, PlainParts
    <3> QED
      BY <2>2, <3>1 DEF Readable
  <2>5. IsReadingOf(NormalizePlainText(s), s)
    BY <1>1, NormalizeIsReading
  <2> QED
    BY <1>1, <2>2, <2>3, <2>4, <2>5 DEF BodyIsReadableText
<1>2. PlainParts \in Seq(Nat) /\ (plain = <<>> <=> PlainParts = <<>>)
  <2>0. PICK n \in Nat : n = Len(parts)
    BY DEF TypeOK
  <2>1. PlainParts \in Seq(Nat)
    <3> DEFINE I == {i \in DOMAIN parts : Collected(parts[i], "plain")}
    <3>1. PlainParts = Ascending(I, n)
      BY <2>0 DEF PlainParts
    <3> HIDE DEF I
    <3> QED
      BY <3>1, AscendingLists DEF Lists
  <2>2. DOMAIN plain = DOMAIN PlainParts
    BY DEF PlainInv
  <2>3. plain = <<>> <=> DOMAIN plain = {}
    BY EmptySeq DEF TypeOK
  <2>4. PlainParts = <<>> <=> DOMAIN PlainParts = {}
    BY <2>1, EmptySeq
  <2> QED
    BY <2>1, <2>2, <2>3, <2>4
<1>3. ASSUME plain # <<>>, Join(plain) \in Seq(Characters),
             Finish(NormalizePlainText(Join(plain)))
      PROVE  BodyIsReadableText'
  <2>1. Readable = Join(plain)
    BY <1>2, <1>3 DEF Readable, PlainInv
  <2> QED
    BY <1>1, <1>3, <2>1
<1>4. ASSUME phase = "walk", plain = <<>>, <<>> \in Seq(Characters),
             Finish(NormalizePlainText(<<>>))
      PROVE  BodyIsReadableText'
  <2>1. ReadableEvents = <<>>
    <3>1. events = <<>>
      BY <1>4 DEF PhaseInv
    <3> DEFINE I == {i \in DOMAIN events :
                        Outside(i) /\ (events[i].kind = "data" \/ events[i].tag \in Block)}
    <3>2. ReadableEvents = Ascending(I, 0)
      BY <3>1 DEF ReadableEvents
    <3> HIDE DEF I
    <3>3. Lists(Ascending(I, 0), I \cap 1..0)
      BY AscendingLists
    <3>4. I \cap 1..0 = {}
      OBVIOUS
    <3> QED
      BY <3>2, <3>3, <3>4, EmptyLists, ListsAreUnique
  <2>2. Readable = FlattenSeq([k \in DOMAIN ReadableEvents |->
                                   Seen(events[ReadableEvents[k]])])
    BY <1>2, <1>4 DEF Readable, Seen
  <2>3. Readable = <<>>
    <3>1. [k \in DOMAIN ReadableEvents |-> Seen(events[ReadableEvents[k]])] = <<>>
      BY <2>1
    <3> QED
      BY <2>2, <3>1, FlattenEmpty
  <2> QED
    BY <1>1, <1>4, <2>3
<1>5. ASSUME phase = "html", ShownText \in Seq(Characters),
             Finish(NormalizePlainText(ShownText))
      PROVE  BodyIsReadableText'
  <2>1. PlainParts = <<>>
    BY <1>2, <1>5 DEF PhaseInv
  <2>2. Readable = FlattenSeq([k \in DOMAIN ReadableEvents |->
                                   Seen(events[ReadableEvents[k]])])
    BY <2>1 DEF Readable, Seen
  <2>3. Proper => Readable = ShownText
    BY <2>2 DEF ReadInv
  <2> QED
    BY <1>1, <1>5, <2>3
<1>6. CASE phase' # "done"
  BY <1>6 DEF BodyIsReadableText
<1>8. ASSUME unread # <<>>, Stripped \in Seq(Characters),
             Finish(NormalizePlainText(Stripped))
      PROVE  BodyIsReadableText'
  BY <1>1, <1>8
<1>7. CASE UNCHANGED vars
  <2>1. /\ events' = events /\ parts' = parts /\ body' = body
        /\ phase' = phase /\ unread' = unread
    BY <1>7 DEF vars, htmlVars, messageVars
  <2>2. (Proper' <=> Proper) /\ \A i : Outside(i)' <=> Outside(i)
    BY <2>1, InsideIs, InsideIsNext DEF Proper, Outside
  <2>3. ReadableEvents' = ReadableEvents /\ PlainParts' = PlainParts
    BY <2>1, <2>2 DEF ReadableEvents, PlainParts
  <2>4. Readable' = Readable
    BY <2>1, <2>3 DEF Readable
  <2> QED
    BY <2>1, <2>2, <2>4 DEF BodyIsReadableText
<1> QED
  BY <1>3, <1>4, <1>5, <1>6, <1>7, <1>8, FinishSteps

\* What the fallback leaves of a document is normalized, and what was not left to
\* it has no reading to keep.
LEMMA FallbackStep ==
    ASSUME TypeOK, PhaseInv, FallbackRemovesTags, [Next]_vars
    PROVE  FallbackRemovesTags'
<1>1. ASSUME phase = "html", Stripped \in Seq(Characters),
             Finish(NormalizePlainText(Stripped))
      PROVE  FallbackRemovesTags'
  <2>1. NormalizePlainText(Stripped) \in Seq(Lined)
    BY <1>1, NormalizeTidies DEF Tidy
  <2>2. body' = NormalizePlainText(Stripped) /\ events' = events /\ unread' = unread
    BY <1>1, <2>1, FinishTypes DEF htmlVars
  <2>3. Document' = Document
    BY <2>2 DEF Document
  <2>4. Untagged' = Untagged
    BY <2>3 DEF Untagged
  <2>5. ASSUME \A k \in DOMAIN Document : Document[k].data \notin Angles
        PROVE  IsReadingOf(body', Untagged)
    BY <1>1, <2>2, <2>5, StrippedIsText, TagsAreStripped, NormalizeIsReading
  <2> QED
    BY <2>3, <2>4, <2>5 DEF FallbackRemovesTags
<1>2. ASSUME phase = "html", unread = <<>>, NEW s, s \in Seq(Characters),
             Finish(NormalizePlainText(s))
      PROVE  FallbackRemovesTags'
  BY <1>2 DEF Finish, FallbackRemovesTags
<1>3. ASSUME phase = "walk", NEW s, Finish(NormalizePlainText(s))
      PROVE  FallbackRemovesTags'
  BY <1>3 DEF Finish, PhaseInv, FallbackRemovesTags
<1>4. CASE phase' # "done"
  BY <1>4 DEF FallbackRemovesTags
<1>5. CASE UNCHANGED vars
  <2>1. events' = events /\ unread' = unread /\ body' = body /\ phase' = phase
    BY <1>5 DEF vars, htmlVars, messageVars
  <2>2. Document' = Document
    BY <2>1 DEF Document
  <2>3. Untagged' = Untagged
    BY <2>2 DEF Untagged
  <2> QED
    BY <2>1, <2>2, <2>3 DEF FallbackRemovesTags
<1> QED
  BY <1>1, <1>2, <1>3, <1>4, <1>5, FinishSteps

\* A message starts with nothing visited, shown or read.
LEMMA InitText == Init => /\ PhaseInv /\ RoomInv /\ PlainInv /\ BalanceInv /\ ReadInv
                          /\ BodyIsReadableText /\ FallbackRemovesTags
                          /\ FingerprintIsOfWords
<1> SUFFICES ASSUME Init
             PROVE  /\ PhaseInv /\ RoomInv /\ PlainInv /\ BalanceInv /\ ReadInv
                    /\ BodyIsReadableText /\ FallbackRemovesTags
                    /\ FingerprintIsOfWords
  OBVIOUS
<1>1. /\ events = <<>> /\ chunks = <<>> /\ depth = 0
      /\ phase = "walk" /\ parts = <<>> /\ plain = <<>> /\ unread = <<>>
  BY DEF Init, HtmlInit
<1>2. PhaseInv /\ RoomInv /\ BodyIsReadableText /\ FallbackRemovesTags /\ FingerprintIsOfWords
  BY <1>1 DEF PhaseInv, RoomInv, BodyIsReadableText, FallbackRemovesTags, FingerprintIsOfWords
<1>3. \A I : Ascending(I, 0) = <<>>
  <2> TAKE I
  <2>1. Lists(Ascending(I, 0), I \cap 1..0)
    BY AscendingLists
  <2>2. I \cap 1..0 = {}
    OBVIOUS
  <2> QED
    BY <2>1, <2>2, EmptyLists, ListsAreUnique
<1>4. PlainParts = <<>> /\ ReadableEvents = <<>>
  BY <1>1, <1>3 DEF PlainParts, ReadableEvents
<1>5. PlainInv
  BY <1>1, <1>4 DEF PlainInv
<1>6. ReadInv
  <2>1. /\ [k \in DOMAIN ReadableEvents |-> Seen(events[ReadableEvents[k]])] = <<>>
        /\ [k \in DOMAIN chunks |-> Content(events[chunks[k]])] = <<>>
    BY <1>1, <1>4
  <2> QED
    BY <2>1 DEF ReadInv, ShownText
<1>7. BalanceInv
  <2> DEFINE none == [tag \in Ignored |-> 0]
  <2>1. none \in [Ignored -> Nat] /\ depth = Sum(none) /\ \A tag \in Ignored : none[tag] = 0
    BY <1>1 DEF Sum, Ignored
  <2>2. \A tag : AtMostOpen(<<>>, 0, tag, 0)
    <3> SUFFICES ASSUME NEW tag, NEW j \in 1..(0 + 1)
                 PROVE  Cardinality(StartsOf(<<>>, j, 0, tag))
                            <= Cardinality(EndsOf(<<>>, j, 0, tag)) + 0
      BY DEF AtMostOpen
    <3>1. StartsOf(<<>>, j, 0, tag) = {} /\ EndsOf(<<>>, j, 0, tag) = {}
      BY DEF StartsOf, EndsOf
    <3>2. Cardinality({}) = 0
      BY FS_EmptySet
    <3>3. Cardinality(StartsOf(<<>>, j, 0, tag)) = 0 /\ Cardinality(EndsOf(<<>>, j, 0, tag)) = 0
      BY <3>1, <3>2
    <3> QED
      BY <3>3
  <2>3. Len(events) = 0
    BY <1>1
  <2> HIDE DEF none
  <2>4. \A tag \in Ignored : AtMostOpen(events, Len(events), tag, none[tag])
    BY <1>1, <2>1, <2>2, <2>3
  <2> QED
    BY <2>1, <2>4 DEF BalanceInv
<1> QED
  BY <1>2, <1>5, <1>6, <1>7

-------------------------------------------------------------------------------
(* The theorems. *)

IInv ==
    /\ TypeOK
    /\ DocumentInv
    /\ RawInv
    /\ DepthInv
    /\ HiddenInv
    /\ ShownInv
    /\ PhaseInv
    /\ RoomInv
    /\ PlainInv
    /\ BalanceInv
    /\ ReadInv
    /\ BodyIsReadableText
    /\ FallbackRemovesTags
    /\ FingerprintIsOfWords

\* A message starts with no document.
LEMMA InitInv == Init => IInv
<1> SUFFICES ASSUME Init PROVE IInv
  OBVIOUS
<1>1. events = <<>> /\ raw = NoTag /\ depth = 0 /\ chunks = <<>>
  BY DEF Init, HtmlInit
<1>2. DocumentInv /\ RawInv /\ HiddenInv /\ ShownInv
  BY <1>1 DEF DocumentInv, RawInv, HiddenInv, ShownInv
<1>3. DepthInv
  <2> DEFINE none == [tag \in Ignored |-> 0]
  <2>1. none \in [Ignored -> Nat] /\ 0 <= Sum(none) /\ \A tag \in Ignored : none[tag] = 0
    BY DEF Sum, Ignored
  <2> QED
    BY <1>1, <2>1 DEF DepthInv
<1>4. /\ PhaseInv /\ RoomInv /\ PlainInv /\ BalanceInv /\ ReadInv
      /\ BodyIsReadableText /\ FallbackRemovesTags /\ FingerprintIsOfWords
  BY InitText
<1> QED
  BY <1>2, <1>3, <1>4, InitTypes DEF IInv

\* The invariant behind the theorems holds along every message.
THEOREM Invariance == Spec => []IInv
<1>1. ASSUME IInv, [Next]_vars PROVE IInv'
  <2>1. TypeOK' /\ PhaseInv' /\ RoomInv' /\ PlainInv'
    BY <1>1, TypeStep, PhaseStep, RoomStep, PlainStep DEF IInv
  <2>2. DocumentInv' /\ RawInv' /\ DepthInv' /\ HiddenInv' /\ ShownInv'
    BY <1>1, DocumentStep, RawStep, DepthStep, HiddenStep, ShownStep DEF IInv
  <2>3. BalanceInv' /\ ReadInv'
    BY <1>1, BalanceStep, ReadStep DEF IInv, TypeOK
  <2>4. BodyIsReadableText' /\ FallbackRemovesTags' /\ FingerprintIsOfWords'
    BY <1>1, BodyStep, FallbackStep, FingerprintStep DEF IInv
  <2> QED
    BY <2>1, <2>2, <2>3, <2>4 DEF IInv
<1> QED
  BY <1>1, InitInv, PTL DEF Spec

\* Every variable keeps its type, for any bounds on parts and events: the counter
\* of the ignored elements never goes below zero and never exceeds the events.
THEOREM TypeCorrect == Spec => []TypeOK
<1>1. IInv => TypeOK
  BY DEF IInv
<1> QED
  BY <1>1, Invariance, PTL

\* No text within <script> or <style> is shown by the handlers, whatever the
\* markup around it: as long as HTMLParser does not raise, the promise of
\* _HTMLTextExtractor about active content holds.
THEOREM ActiveTextStaysHidden == Spec => []ActiveTextIsHidden
<1>1. IInv => ActiveTextIsHidden
  BY DEF IInv, HiddenInv, ActiveTextIsHidden
<1> QED
  BY <1>1, Invariance, PTL

\* As long as HTMLParser does not raise, text outside every ignored element is
\* shown: counting all the ignored elements with one _ignored_depth hides nothing
\* that follows them.
THEOREM OutsideTextAppears == Spec => []OutsideTextIsShown
<1>1. IInv => OutsideTextIsShown
  BY DEF IInv, ShownInv, OutsideTextIsShown
<1> QED
  BY <1>1, Invariance, PTL

\* When HTMLParser does not raise and every end of an ignored element ends one that
\* was started, the body that parse_gmail_message stores is the reading of the
\* plain parts, or else of the HTML parts without their ignored elements: no word
\* is lost, added or moved, and lines and paragraphs stay where they were, for
\* texts of any length.
THEOREM BodyIsRead == Spec => []BodyIsReadableText
<1>1. IInv => BodyIsReadableText
  BY DEF IInv
<1> QED
  BY <1>1, Invariance, PTL

\* When HTMLParser raises, the body that html_to_text falls back to is the reading
\* of the document with a space for each tag, whatever was read before: tags go,
\* text stays, for documents of any length without "<" and ">" in their text.
THEOREM FallbackKeepsText == Spec => []FallbackRemovesTags
<1>1. IInv => FallbackRemovesTags
  BY DEF IInv
<1> QED
  BY <1>1, Invariance, PTL

\* The text behind body_hash is the body when it has words, and the reading of
\* the snippet when it has none: white space alone never decides.
THEOREM FingerprintOfWords == Spec => []FingerprintIsOfWords
<1>1. IInv => FingerprintIsOfWords
  BY DEF IInv
<1> QED
  BY <1>1, Invariance, PTL
===============================================================================
