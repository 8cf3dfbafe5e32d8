-------------------------------- MODULE HtmlText --------------------------------
(***************************************************************************)
(* _HTMLTextExtractor: which text of an HTML document is shown.  The       *)
(* document arrives as the calls html.parser.HTMLParser makes, well formed *)
(* or not: start tags, end tags, self-closing tags and data.  HTMLParser   *)
(* itself (external) is here only in that nothing but data comes between   *)
(* <script> or <style> and its end tag.                                    *)
(***************************************************************************)
EXTENDS Naturals, Sequences, FiniteSets

CONSTANTS
    Tags,        \* the tags of the documents
    Data,        \* the texts handle_data is called with
    MaxEvents    \* bound: the calls of one document

\* _IGNORED_TAGS and _BLOCK_TAGS.
Ignored == {"script", "style", "noscript", "svg"}

Block ==
    {"address", "article", "aside", "blockquote", "br", "div", "footer", "h1", "h2", "h3",
     "h4", "h5", "h6", "header", "hr", "li", "main", "ol", "p", "pre", "section", "table",
     "td", "th", "tr", "ul"}

\* HTMLParser.CDATA_CONTENT_ELEMENTS.
RawText == {"script", "style"}

NoTag == "none"

\* One call: its kind, and the tag or the text.
Event ==
    [kind : {"start", "end", "empty"}, tag : Tags, data : {<<>>}]
        \cup [kind : {"data"}, tag : {NoTag}, data : Data]

VARIABLES
    events, \* the calls so far
    raw,    \* the raw text element HTMLParser is in, or NoTag
    depth,  \* _ignored_depth
    chunks  \* _chunks: the events that appended one, in order

htmlVars == <<events, raw, depth, chunks>>

HtmlTypeOK ==
    /\ events \in Seq(Event) /\ Len(events) <= MaxEvents
    /\ raw \in RawText \cup {NoTag}
    /\ depth \in 0..Len(events)
    /\ chunks \in Seq(1..Len(events))

HtmlInit ==
    /\ events = <<>>
    /\ raw = NoTag
    /\ depth = 0
    /\ chunks = <<>>

-------------------------------------------------------------------------------

Call(kind, tag, data) ==
    /\ Len(events) < MaxEvents
    /\ events' = Append(events, [kind |-> kind, tag |-> tag, data |-> data])

\* The event that is being handled appends n chunks.
AppendChunks(n) == chunks' = chunks \o [i \in 1..n |-> Len(events) + 1]

\* Mutant of Opened: style is not ignored.
OpenedExceptStyle(tag) == IF tag \in Ignored \ {"style"} THEN depth + 1 ELSE depth

Opened(tag) == IF tag \in Ignored THEN depth + 1 ELSE depth

\* Mutant of Closed: only the elements with raw text are closed.
ClosedRawOnly(tag) == IF tag \in RawText /\ depth > 0 THEN depth - 1 ELSE depth

\* Mutant of Closed: a stray end tag is counted.
ClosedBelowZero(tag) == IF tag \in Ignored THEN depth - 1 ELSE depth

Closed(tag) == IF tag \in Ignored /\ depth > 0 THEN depth - 1 ELSE depth

StartsLine(tag) == tag \in Block /\ depth = 0

\* handle_starttag.
StartTag(tag) ==
    /\ raw = NoTag
    /\ Call("start", tag, <<>>)
    /\ depth' = Opened(tag)
    /\ AppendChunks(IF StartsLine(tag) THEN 1 ELSE 0)
    /\ raw' = IF tag \in RawText THEN tag ELSE NoTag

\* handle_endtag.
EndTag(tag) ==
    /\ raw \in {NoTag, tag}
    /\ Call("end", tag, <<>>)
    /\ depth' = Closed(tag)
    /\ AppendChunks(IF StartsLine(tag) THEN 1 ELSE 0)
    /\ raw' = NoTag

\* handle_startendtag: handle_starttag, then handle_endtag.
EmptyTag(tag) ==
    /\ raw = NoTag
    /\ Call("empty", tag, <<>>)
    /\ AppendChunks(IF StartsLine(tag) THEN 2 ELSE 0)
    /\ UNCHANGED <<raw, depth>>

\* handle_data.
Text(data) ==
    /\ Call("data", NoTag, data)
    /\ AppendChunks(IF depth = 0 THEN 1 ELSE 0)
    /\ UNCHANGED <<raw, depth>>

HtmlEvent ==
    \/ \E tag \in Tags : StartTag(tag) \/ EndTag(tag) \/ EmptyTag(tag)
    \/ \E data \in Data : Text(data)

-------------------------------------------------------------------------------
(* Which text is inside an element, said without the counter. *)

Opens(e, tag) == e.kind = "start" /\ e.tag = tag
Closes(e, tag) == e.kind = "end" /\ e.tag = tag

\* How often the element starts and ends among the events from i to j.
Starts(i, j, tag) == Cardinality({k \in i..j : Opens(events[k], tag)})
Ends(i, j, tag) == Cardinality({k \in i..j : Closes(events[k], tag)})

\* Some start of tag before event i has no end of its own before i.
Inside(i, tag) ==
    \E j \in 1..(i - 1) :
        /\ Opens(events[j], tag)
        /\ \A m \in (j + 1)..(i - 1) : Ends(j + 1, m, tag) <= Starts(j + 1, m, tag)

Outside(i) == \A tag \in Ignored : ~Inside(i, tag)

\* Every end of an ignored element ends one that was started.
Proper ==
    \A i \in DOMAIN events, tag \in Ignored : Closes(events[i], tag) => Inside(i, tag)

\* What a chunk of event i says.
Content(e) == IF e.kind = "data" THEN e.data ELSE <<"lf">>
===============================================================================
