------------------------------ MODULE MessageParser ------------------------------
(***************************************************************************)
(* parse_gmail_message: which parts of a MIME message make its body, what  *)
(* becomes of their text, and what is hashed.                              *)
(*                                                                         *)
(* _collect_text_parts visits a part, then its children, and treats every  *)
(* part alike wherever it stands, so the tree is given by the order of the *)
(* visits.  Each part has words of its own, and so does the snippet.  The  *)
(* markup of an HTML part is chosen while it is parsed.  A message without *)
(* id or threadId is refused before any of this.                           *)
(*                                                                         *)
(* HTMLParser may raise, on a declaration such as <![x]>.  What the        *)
(* handlers have collected is lost then, and html_to_text strips the tags  *)
(* of the whole document with a regular expression.  For that expression a *)
(* "<" or ">" in the text is a piece of data of its own.                   *)
(***************************************************************************)
EXTENDS PlainText, HtmlText, SequencesExt

CONSTANTS
    WordOf,      \* WordOf[i]: the word of the i-th part
    PlainTexts,  \* PlainTexts[i]: what a plain i-th part may contain
    Snippets,    \* snippets of the message
    MaxParts     \* bound: the parts of one message

Mimes == {"plain", "html", "other"}

ParagraphBreak == <<"lf", "lf">>

\* "<" and ">" that are not part of a tag.
Angles == {<<"<">>, <<">">>}

\* Every text is a string; the parser may be fed the break between two parts.
ASSUME MessageAssumption ==
    /\ MaxParts \in Nat /\ MaxEvents \in Nat
    /\ \A i \in 1..MaxParts : WordOf[i] \in Words /\ PlainTexts[i] \subseteq Seq(Characters)
    /\ Snippets \subseteq Seq(Characters)
    /\ Data \subseteq Seq(Characters) /\ ParagraphBreak \in Data
    /\ \A text \in Data : text \in Angles \/ ToSet(text) \cap {"<", ">"} = {}

\* A visited part: its type, whether it has a file name, and its decoded body; of
\* an HTML part, whether there is one.
Part == [mime : Mimes, named : BOOLEAN, text : Seq(Characters)]

\* A declaration that HTMLParser raises on, and what else it does not come to read.
Broken == [kind |-> "broken", tag |-> NoTag, data |-> <<>>]
Piece == Event \cup {Broken}

VARIABLES
    phase,     \* "walk" over the parts, "html" parsing, "done"
    parts,     \* the parts visited
    plain,     \* plain_parts
    html,      \* html_parts: the numbers of the parts
    parsing,   \* the html part that is being fed
    unread,    \* the document from the piece on which HTMLParser raised
    body,      \* normalized_body
    snippet,   \* the snippet as Gmail gives it, once it is looked at
    hashed     \* hash_source

messageVars == <<phase, parts, plain, html, parsing, unread, body, snippet, hashed>>
vars == <<htmlVars, messageVars>>

TypeOK ==
    /\ HtmlTypeOK
    /\ phase \in {"walk", "html", "done"}
    /\ parts \in Seq(Part) /\ Len(parts) <= MaxParts
    /\ plain \in Seq(Seq(Characters) \ {<<>>})
    /\ html \in Seq(DOMAIN parts)
    /\ parsing \in 0..Len(html)
    /\ unread \in Seq(Piece) /\ Len(events) + Len(unread) <= MaxEvents
    /\ body \in Seq(Words \cup {"space", "wide", "lf"})
    /\ snippet \in Snippets \cup {<<>>}
    /\ hashed \in Seq(Words \cup {"space", "wide", "lf"})

Init ==
    /\ HtmlInit
    /\ phase = "walk"
    /\ parts = <<>>
    /\ plain = <<>>
    /\ html = <<>>
    /\ parsing = 0
    /\ unread = <<>>
    /\ body = <<>>
    /\ snippet = <<>>
    /\ hashed = <<>>

-------------------------------------------------------------------------------

\* What part number i may contain.
TextsOf(mime, named, i) ==
    IF named \/ mime = "other" THEN {<<WordOf[i]>>}
    ELSE IF mime = "plain" THEN PlainTexts[i]
    ELSE {<<>>, <<WordOf[i]>>}

\* The part adds its text to the list of its type.
Collected(part, mime) == ~part.named /\ part.mime = mime /\ part.text # <<>>

\* One call of _collect_text_parts.
Visit(mime, named) ==
    LET number == Len(parts) + 1 IN
    /\ phase = "walk" /\ number <= MaxParts
    /\ \E text \in TextsOf(mime, named, number) :
          LET part == [mime |-> mime, named |-> named, text |-> text] IN
          /\ parts' = Append(parts, part)
          /\ plain' = IF Collected(part, "plain") THEN Append(plain, text) ELSE plain
          /\ html' = IF Collected(part, "html") THEN Append(html, number) ELSE html
    /\ UNCHANGED <<htmlVars, phase, parsing, unread, body, snippet, hashed>>

\* "\n\n".join(texts)
Join(texts) ==
    FlattenSeq([i \in DOMAIN texts |-> IF i = 1 THEN texts[i] ELSE ParagraphBreak \o texts[i]])

\* Mutant of HashSource: the snippet is hashed as Gmail gives it.
HashSourceRaw(text) == IF text # <<>> THEN text ELSE snippet'

\* body if body else normalize_plain_text(snippet)
HashSource(text) == IF text # <<>> THEN text ELSE NormalizePlainText(snippet')

\* The entity is built around its body; the snippet is looked at here.
Finish(text) ==
    /\ body' = text
    /\ snippet' \in Snippets
    /\ hashed' = HashSource(text)
    /\ phase' = "done"
    /\ UNCHANGED <<htmlVars, parts, plain, html, parsing, unread>>

UsePlain ==
    /\ phase = "walk" /\ plain # <<>>
    /\ Finish(NormalizePlainText(Join(plain)))

UseHtml ==
    /\ phase = "walk" /\ plain = <<>> /\ html # <<>>
    /\ phase' = "html"
    /\ parsing' = 1
    /\ UNCHANGED <<htmlVars, parts, plain, html, unread, body, snippet, hashed>>

UseNothing ==
    /\ phase = "walk" /\ plain = <<>> /\ html = <<>>
    /\ Finish(<<>>)

\* The part that is fed goes on; the bound leaves room for the breaks after it.
HasMore ==
    phase = "html" /\ Len(events) + Len(unread) + Len(html) - parsing < MaxEvents

\* Words of other parts do not occur in it.
OfThisPart(text) == \A i \in 1..MaxParts : i # html[parsing] => WordOf[i] \notin ToSet(text)

\* The parser meets the next piece of the part it is fed.
Feed ==
    /\ HasMore /\ unread = <<>>
    /\ HtmlEvent
    /\ OfThisPart(Last(events').data)
    /\ UNCHANGED messageVars

\* The next piece makes the parser raise; within raw text it would be data.
Raise ==
    /\ HasMore /\ unread = <<>> /\ raw = NoTag
    /\ unread' = <<Broken>>
    /\ UNCHANGED <<htmlVars, phase, parts, plain, html, parsing, body, snippet, hashed>>

\* The document goes on, and no handler is called any more.
LeaveUnread ==
    /\ HasMore /\ unread # <<>>
    /\ \E piece \in Event : OfThisPart(piece.data) /\ unread' = Append(unread, piece)
    /\ UNCHANGED <<htmlVars, phase, parts, plain, html, parsing, body, snippet, hashed>>

\* html_to_text gets one document: the parts joined by "\n\n".
FeedNextPart ==
    /\ phase = "html" /\ parsing < Len(html)
    /\ IF unread = <<>>
       THEN Text(ParagraphBreak) /\ UNCHANGED unread
       ELSE /\ unread' = Append(unread, [kind |-> "data", tag |-> NoTag, data |-> ParagraphBreak])
            /\ UNCHANGED htmlVars
    /\ parsing' = parsing + 1
    /\ UNCHANGED <<phase, parts, plain, html, body, snippet, hashed>>

\* "".join(self._chunks)
ShownText == FlattenSeq([k \in DOMAIN chunks |-> Content(events[chunks[k]])])

CloseParser ==
    /\ phase = "html" /\ parsing = Len(html) /\ unread = <<>>
    /\ Finish(NormalizePlainText(ShownText))

\* What html_to_text was given.
Document == events \o unread

IsMarkup(piece) == piece.kind # "data"
IsOpener(piece) == IsMarkup(piece) \/ piece.data = <<"<">>
IsCloser(piece) == IsMarkup(piece) \/ piece.data = <<">">>

\* "<[^>]+>" matches from piece i to piece j: up to the first ">", and never "<>".
Matches(i, j) ==
    /\ IsOpener(Document[i]) /\ IsCloser(Document[j])
    /\ \A k \in i..(j - 1) : ~IsCloser(Document[k])
    /\ j = i + 1 => IsMarkup(Document[j])

\* What the pieces become when each match becomes replacement.
Substituted(replacement) ==
    FlattenSeq([k \in DOMAIN Document |->
        IF ~\E i \in 1..k, j \in k..Len(Document) : Matches(i, j) THEN Document[k].data
        ELSE IF IsCloser(Document[k]) THEN replacement ELSE <<>>])

\* Mutant of Stripped: nothing is put where a tag was.
StrippedBare == Substituted(<<>>)

\* re.sub(r"<[^>]+>", " ", value)
Stripped == Substituted(<<"space">>)

\* except Exception: the handlers' work is dropped.
FallBack ==
    /\ phase = "html" /\ parsing = Len(html) /\ unread # <<>>
    /\ Finish(NormalizePlainText(Stripped))

Quiescent == phase = "done" /\ UNCHANGED vars

Next ==
    \/ \E mime \in Mimes, named \in BOOLEAN : Visit(mime, named)
    \/ UsePlain \/ UseHtml \/ UseNothing
    \/ Feed \/ Raise \/ LeaveUnread \/ FeedNextPart
    \/ CloseParser \/ FallBack
    \/ Quiescent

Spec == Init /\ [][Next]_vars

-------------------------------------------------------------------------------
(* What must hold. *)

\* As long as HTMLParser does not raise, no text of a script or a style sheet is
\* shown ("inclusive malformado, em texto sem conteudo ativo"): stray and missing
\* end tags of other elements never open one.  The fallback shows that text.
ActiveTextIsHidden ==
    unread = <<>> =>
        \A k \in DOMAIN chunks : \A tag \in RawText : ~Inside(chunks[k], tag)

\* As long as HTMLParser does not raise, text outside every ignored element is
\* shown: a stray end tag, or the end of a nested element, never hides what
\* follows.  The fallback may lose text between a "<" and the next ">".
OutsideTextIsShown ==
    unread = <<>> =>
        \A i \in DOMAIN events :
            events[i].kind = "data" /\ Outside(i) => \E k \in DOMAIN chunks : chunks[k] = i

\* The text a reader would see, and the one that is hashed: the plain parts when
\* one has text, else the HTML parts without their ignored elements, where block
\* elements start and end lines; never the text of a part with a file name.
ReadableEvents ==
    Ascending({i \in DOMAIN events :
                  Outside(i) /\ (events[i].kind = "data" \/ events[i].tag \in Block)},
              Len(events))

PlainParts ==
    Ascending({i \in DOMAIN parts : Collected(parts[i], "plain")}, Len(parts))

Readable ==
    IF PlainParts # <<>>
    THEN LET at == PlainParts IN Join([k \in DOMAIN at |-> parts[at[k]].text])
    ELSE LET at == ReadableEvents IN
         FlattenSeq([k \in DOMAIN at |->
             LET e == events[at[k]] IN
             IF e.kind = "empty" THEN <<"lf", "lf">> ELSE Content(e)])

\* When HTMLParser does not raise and every end of an ignored element ends one
\* that was started, the body is the readable text, with its words in order, and
\* lines and paragraphs where they were.
BodyIsReadableText ==
    phase = "done" /\ unread = <<>> /\ Proper => IsReadingOf(body, Readable)

\* The document without its tags, a space for each.
Untagged ==
    FlattenSeq([k \in DOMAIN Document |->
        IF IsMarkup(Document[k]) THEN <<"space">> ELSE Document[k].data])

\* When HTMLParser raises, the document loses its tags and nothing else ("o
\* fallback ainda remove tags de forma conservadora"): what was read before and
\* what was not read, the text of ignored elements as well, and no two words are
\* joined where a tag was.  It takes a text without "<" and ">".
FallbackRemovesTags ==
    phase = "done" /\ unread # <<>>
        /\ (\A k \in DOMAIN Document : Document[k].data \notin Angles) =>
    IsReadingOf(body, Untagged)

\* The fingerprint of a message is that of its words: of the body when it has
\* any, else of the snippet.
FingerprintIsOfWords ==
    phase = "done" => IsReadingOf(hashed, IF WordsOf(body) # <<>> THEN body ELSE snippet)
===============================================================================
