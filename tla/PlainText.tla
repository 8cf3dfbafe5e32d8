-------------------------------- MODULE PlainText --------------------------------
(***************************************************************************)
(* normalize_plain_text: what becomes of the white space of a text, and    *)
(* what a reader may expect of the result.                                 *)
(*                                                                         *)
(* A character is a word (a run of characters that are not white space) or *)
(* one kind of white space.  "space" is what [\t\f\v ] matches, "nbsp" is   *)
(* U+00A0 and "ref" the six characters of a reference to it, which unescape *)
(* turns into U+00A0.  "wide" is what str.strip() takes for white space and *)
(* the expression does not match: U+2003, U+2028, U+3000 and the like.  It *)
(* goes at the ends of a line and stays within it.                         *)
(***************************************************************************)
EXTENDS Naturals, Sequences

CONSTANT Words   \* the words a text may contain

White == {"space", "nbsp", "ref", "wide", "lf", "cr"}
Characters == Words \cup White

ASSUME WordsAreNotWhite == Words \cap White = {}

\* The numbers up to n that are in I, in order.
Ascending(I, n) ==
    LET upTo[k \in 0..n] ==
            IF k = 0 THEN <<>>
            ELSE LET before == upTo[k - 1] IN IF k \in I THEN Append(before, k) ELSE before
    IN  upTo[n]

\* The characters of s at the positions in I, in order.
Pick(s, I) == LET at == Ascending(I, Len(s)) IN [k \in DOMAIN at |-> s[at[k]]]

Replace(s, old, new) == [i \in DOMAIN s |-> IF s[i] = old THEN new ELSE s[i]]

-------------------------------------------------------------------------------
(* The pipeline of normalize_plain_text. *)

\* unescape(value).replace("\xa0", " ")
Unescape(s) == Replace(Replace(s, "ref", "nbsp"), "nbsp", "space")

\* Mutant of LineBreaks: the carriage returns are replaced first.
LineBreaksOneByOne(s) == Replace(s, "cr", "lf")

\* replace("\r\n", "\n").replace("\r", "\n")
LineBreaks(s) ==
    Replace(Pick(s, {i \in DOMAIN s : ~(s[i] = "cr" /\ i < Len(s) /\ s[i + 1] = "lf")}),
            "cr", "lf")

\* There is a word before position i and one after it on the line.
WithinLine(s, i) ==
    /\ \E k \in 1..(i - 1) : s[k] \in Words /\ \A j \in k..i : s[j] # "lf"
    /\ \E k \in (i + 1)..Len(s) : s[k] \in Words /\ \A j \in i..k : s[j] # "lf"

\* line.strip(), for the white space that is not collapsed.
StripWide(s) == Pick(s, {i \in DOMAIN s : s[i] = "wide" => WithinLine(s, i)})

\* Each line: runs of spaces become one, none is left at either end.
TrimLines(s) ==
    Pick(s, {i \in DOMAIN s :
        s[i] = "space" =>
            /\ i > 1 /\ s[i - 1] \notin {"space", "lf"}
            /\ \E k \in (i + 1)..Len(s) :
                  s[k] \notin {"space", "lf"} /\ \A j \in i..(k - 1) : s[j] = "space"})

\* Three line feeds and more become two.
CompactBreaks(s) ==
    Pick(s, {i \in DOMAIN s : ~(i > 2 /\ \A j \in (i - 2)..i : s[j] = "lf")})

\* compact.strip()
Strip(s) ==
    Pick(s, {i \in DOMAIN s :
        /\ \E j \in 1..i : s[j] \in Words
        /\ \E j \in i..Len(s) : s[j] \in Words})

NormalizePlainText(s) ==
    Strip(CompactBreaks(TrimLines(StripWide(LineBreaks(Unescape(s))))))

-------------------------------------------------------------------------------
(* What the result means, said without the pipeline. *)

WordsAt(s) == {i \in DOMAIN s : s[i] \in Words}

WordPositions(s) == Ascending(WordsAt(s), Len(s))

WordsOf(s) == Pick(s, WordsAt(s))

\* What stands between the k-th word and the next one.
Gap(s, k) == LET at == WordPositions(s) IN SubSeq(s, at[k] + 1, at[k + 1] - 1)

\* A line ends with LF, CR or CR LF.
LineEnds(gap) ==
    {i \in DOMAIN gap :
        \/ gap[i] = "lf"
        \/ gap[i] = "cr" /\ (i = Len(gap) \/ gap[i + 1] # "lf")}

\* Two words are separated by a blank line when at least two lines end between
\* them, by a line feed when one does, by a space when they are apart at all.
Separator(gap) ==
    IF \E i, j \in LineEnds(gap) : i # j THEN <<"lf", "lf">>
    ELSE IF LineEnds(gap) # {} THEN <<"lf">>
    ELSE IF gap # <<>> THEN <<"space">>
    ELSE <<>>

HasWide(gap) == \E i \in DOMAIN gap : gap[i] = "wide"

\* text is what a reader of raw should get: the same words, separated as they
\* were, and nothing before or after them.  Words on one line with wide white
\* space between them keep it.
IsReadingOf(text, raw) ==
    /\ WordsOf(text) = WordsOf(raw)
    /\ text # <<>> => text[1] \in Words /\ text[Len(text)] \in Words
    /\ \A k \in 1..(Len(WordsOf(text)) - 1) :
          LET new == Gap(text, k)
              old == Gap(raw, k)
          IN  \/ new = Separator(old)
              \/ HasWide(new) /\ HasWide(old) /\ LineEnds(new) = {} /\ LineEnds(old) = {}
===============================================================================
