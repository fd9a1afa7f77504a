------------------------------- MODULE MCText -------------------------------
(***************************************************************************)
(* The two parsers and the views of a message, checked side by side: they  *)
(* share no state, so a behaviour is about one of them, its "subject", and *)
(* the behaviours are put in one run and not interleaved.  A parser reads  *)
(* a word of fragments, well formed or not, or what an unparser wrote for  *)
(* a document, which "doc" then remembers.  The subject "view" reads what  *)
(* ParsedText wrote, "media" and "buttons" look at one message, "msg", and *)
(* "memory" downloads doc.text to memory.                                  *)
(***************************************************************************)
EXTENDS TextParts, HtmlTokens

vars == textVars

Address == <<"u">>
User    == <<"1">>
Users   == {User}

NoDoc == [text |-> <<>>, ents |-> <<>>]
Words(Fragments, n) ==
    {FlattenSeq(w) : w \in UNION {[1 .. k -> Fragments] : k \in 0 .. n}}

(* The documents: a text, and one or two entities over it in the order in which
   a parser reports them, of which the second is inside or after the first. *)
Boundaries(s) == {UTF16Len(SubSeq(s, 1, i)) : i \in 0 .. Len(s)}
Spans(s) == {<<a, b>> \in Boundaries(s) \X Boundaries(s) : a < b}
Inside(a, b)   == EntityEnd(b) <= EntityEnd(a)
Disjoint(a, b) == EntityEnd(a) <= b.off
Ordered(a, b) == a.off < b.off \/ (a.off = b.off /\ b.len <= a.len)
Docs(Texts, Kinds(_), Together(_, _)) ==
    UNION { LET Ents == {[type |-> k[1], off |-> sp[1], len |-> sp[2] - sp[1], arg |-> k[2]] :
                             k \in Kinds(s), sp \in Spans(s)}
            IN  {[text |-> s, ents |-> <<a>>] : a \in Ents}
                \cup {[text |-> s, ents |-> p] : p \in
                          {q \in Ents \X Ents : Ordered(q[1], q[2]) /\ Together(q[1], q[2])}}
          : s \in Texts}

-----------------------------------------------------------------------------
(* Markdown: nothing is parsed inside code or a link. *)
MdKinds(s) == {"Bold", "Italic", "Code", "Pre"} \X {""} \cup {<<"TextURL", Address>>, <<"MentionName", User>>}
MdOpaque == {"Code", "Pre", "TextURL", "MentionName"}
MdTogether(a, b) == Disjoint(a, b) \/ (Inside(a, b) /\ a.type \notin MdOpaque /\ a.type # b.type)
MdDocs == Docs({<<"x", WIDE, "x">>}, MdKinds, MdTogether)
Crossed == <<"x", "x", "*", "*", "_", "*", "*", "_", "x", "_", "_">>   \* gives a negative length
MdFragments == {<<"x">>, <<"*", "*">>, <<"_", "_">>, <<"tick">>, <<NBSP>>, <<WIDE>>, <<"[">>, <<"]", "(", "u", ")">>}
MdWords == Words(MdFragments, 4) \cup {Crossed}

(* HTML: tags of one name do not overlap, and there is no code inside code.
   An address that is the text itself is written as a URL, and read as one. *)
HtmlKinds(s) == {<<"Bold", <<>>>>, <<"Code", <<>>>>, <<"Pre", <<>>>>, <<"Pre", <<"go">>>>, <<"TextURL", Address>>,
                 <<"MentionName", User>>, <<"URL", <<>>>>, <<"CustomEmoji", User>>}
Family(e) == CASE e.type \in {"Code", "Pre"} -> "code"
               [] e.type \in {"TextURL", "MentionName", "URL"} -> "a"
               [] OTHER -> e.type
HtmlTogether(a, b) == Disjoint(a, b) \/ Family(a) # Family(b)
HtmlDocs == Docs({<<"x", WIDE>>, <<"x", "<", "x">>}, HtmlKinds, HtmlTogether)
HtmlFragments == {<<"x">>, <<NBSP>>, <<"<", "b", ">">>, <<"<", "/", "b", ">">>, <<"<", "pre", ">">>,
                  <<"<", "/", "pre", ">">>, <<"<", "code", ">">>, <<"<", "/", "code", ">">>,
                  <<"<", "q", ">">>, <<"<", "/", "q", ">">>, <<"<", "a", NBSP, "href", "=", "u", ">">>,
                  <<"<", "a", ">">>, <<"<", "/", "a", ">">>, <<"<", "1", ">">>, <<"&", "lt;">>}
HtmlWords == Words(HtmlFragments, 3)

-----------------------------------------------------------------------------
(* ParsedText escapes nothing and nests nothing: disjoint entities, no "<". *)
ViewKinds(s) == {"Bold", "Italic", "Code", "Pre", "Underline", "Strike"} \X {<<>>}
ViewDocs == Docs({<<"x", WIDE, "x">>}, ViewKinds, Disjoint)

(* Media: the attributes of a document in any order, at most one of a kind,
   and the other kinds of media.  Buttons: the grids of two short rows. *)
Attributes == {Attr("video", TRUE), Attr("video", FALSE), Attr("audio", TRUE), Attr("audio", FALSE),
          Attr("sticker", FALSE), Attr("animated", FALSE), Attr("imagesize", FALSE),
          [kind |-> "filename", flag |-> FALSE, val |-> "n"]}
Sizes == {[kind |-> k, flag |-> FALSE, val |-> v] : k \in {"size", "progressive"}, v \in 1 .. 2}
Lists == {l \in UNION {[1 .. k -> Attributes] : k \in 0 .. 3} : OneOfAKind(l)}
Medias == {[kind |-> k, inner |-> i, attrs |-> l, mime |-> "video/mp4", size |-> 3, id |-> 7] :
              k \in {"document"}, i \in BOOLEAN, l \in Lists}
          \cup {[kind |-> "photo", inner |-> i, attrs |-> l, mime |-> "", size |-> 0, id |-> 7] :
              i \in BOOLEAN, l \in UNION {[1 .. k -> Sizes] : k \in 0 .. 3}}
          \cup {[kind |-> k, inner |-> TRUE, attrs |-> <<>>, mime |-> "", size |-> 0, id |-> 7] :
              k \in {"none", "contact", "geo", "geolive", "dice", "poll", "empty"}}
Button(data, url, query, style) == [text |-> <<"t">>, style |-> style, data |-> data, url |-> url, query |-> query]
Samples == {Button("d", "", View!NoQuery, "danger"), Button("e", "", View!NoQuery, "default"),
            Button("e", "u", View!NoQuery, "primary"), Button("", "", "q", "success")}
Grids == [1 .. 2 -> UNION {[1 .. k -> Samples] : k \in 0 .. 2}]
NoMsg == [media |-> [kind |-> "none"], sent |-> <<>>]

-----------------------------------------------------------------------------
NoHtml == htmlInit({<<>>})
NoMd   == mdInit({<<>>})
Idle == NoHtml /\ NoMd /\ msg = NoMsg /\ doc = NoDoc

Sources ==
    \/ /\ subject = "markdown" /\ NoHtml /\ msg = NoMsg
       /\ \/ doc = NoDoc /\ mdInit(MdWords)
          \/ doc \in MdDocs /\ mdInit({UnparseMarkdown(doc.text, doc.ents)})
    \/ /\ subject = "html" /\ NoMd /\ msg = NoMsg
       /\ \/ doc = NoDoc /\ htmlInit({Tokens(s) : s \in HtmlWords})
          \/ doc \in HtmlDocs /\ htmlInit({Tokens(UnparseHTML(doc.text, doc.ents))})
    \/ /\ subject = "view" /\ NoMd /\ msg = NoMsg
       /\ doc \in ViewDocs /\ htmlInit({Tokens(View!ParsedText(doc.text, doc.ents))})
    \/ /\ subject \in {"media", "buttons"} /\ NoHtml /\ NoMd /\ doc = NoDoc
       /\ msg \in IF subject = "media" THEN {[media |-> x, sent |-> <<>>] : x \in Medias}
                  ELSE {[media |-> NoMsg.media, sent |-> g] : g \in Grids}
    \/ /\ subject = "memory" /\ NoHtml /\ NoMd /\ msg = NoMsg
       /\ doc \in {[text |-> [i \in 1 .. n |-> i], ents |-> <<>>] : n \in 0 .. 7}

(* Each of these is among the beginnings that TextParts speaks of. *)
Init == Sources /\ TextInit
Next == TextNext

(* The sources of html_attributes: one start tag with one or two fragments
   after its name. *)
TagWords == {<<"<", "b">> \o w \o <<">", "x">> : w \in Words({<<NBSP>>, <<"k">>, <<"=">>, <<"/">>}, 3)}
TagInit == subject = "html" /\ NoMd /\ msg = NoMsg /\ doc = NoDoc /\ htmlInit({Tokens(s) : s \in TagWords})
TagSpec == TagInit /\ [][Next]_vars /\ WF_vars(Next)

-----------------------------------------------------------------------------
(* What the unparsers write, the parsers read back: the same text and the same
   entities, of which HTML reports the inner one of two that start together
   first. *)
MarkdownRoundTrip == MdDone /\ doc # NoDoc => final = doc
SameEntities(r, d) == r.text = d.text /\ Len(r.ents) = Len(d.ents) /\ ToSet(r.ents) = ToSet(d.ents)
HtmlRoundTrip == HtmlDone /\ doc # NoDoc => SameEntities(parsed, doc)

(* ParsedText is HTML in the sense of ParseHTML: what it marks is read back. *)
ParsedTextReads == subject = "view" /\ parsed # Unparsed => SameEntities(parsed, doc)

(* The parsers invert the unparsers. *)
RoundTrips == MarkdownRoundTrip /\ HtmlRoundTrip /\ ParsedTextReads

(* Every call of a parser returns. *)
Returns == <>(MdDone \/ HtmlDone)
=============================================================================
