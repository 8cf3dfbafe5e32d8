---------------------------- MODULE MCMessageParser ----------------------------
(***************************************************************************)
(* Messages of two parts.  Plain texts are all short strings of words,     *)
(* white space, references and line ends; HTML documents are all short     *)
(* sequences of pieces with an ignored element that holds markup, one that *)
(* holds raw text, a block element, text, and a "<" or ">" of their own.   *)
(***************************************************************************)
EXTENDS MessageParser

MCWords == {"w1", "w2", "ws", "<", ">"}
MCWordOf == <<"w1", "w2">>
MCPlainTexts == <<SeqOf({"w1", "space", "ref", "wide", "lf", "cr"}, 4), SeqOf({"w2", "space", "lf"}, 2)>>
MCSnippets == {<<>>, <<"space", "ws", "nbsp">>}
MCTags == {"svg", "style", "p"}
MCData == {<<"w1">>, <<"w2", "ref">>, <<"<">>, <<">">>, ParagraphBreak}

\* A constraint: documents are long only in messages of HTML parts, not next to
\* parts the parser does not get.
LongOnlyOfHtml ==
    Len(html) < Len(parts) /\ phase = "html" => Len(events) + Len(unread) <= 3
===============================================================================
