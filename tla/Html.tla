-------------------------------- MODULE Html --------------------------------
(***************************************************************************)
(* ParseHTML and UnparseHTML (client/extensions/html.go) but for the       *)
(* tokenizer, which is HtmlTokens.  A source text is a sequence of         *)
(* symbols: the characters that the tokenizer looks at, and words          *)
(* ("strong", "href", "language-", "mailto:", "&" followed by the name of  *)
(* a character) that it only compares as a whole and that count as one     *)
(* character of width one when they are written literally.                 *)
(* The state is that of htmlParser, with the tokens still to be handled.   *)
(***************************************************************************)
EXTENDS EntityText, FiniteSetsExt

CONSTANTS Numerals,     \* the values that strconv.ParseInt accepts
          Odd           \* the symbols that may not occur in the name of a tag

VARIABLES toks,         \* the tokens that are not handled yet
          parser,       \* htmlParser
          parsed        \* what ParseHTML returns, or Unparsed before the return

Unparsed == [text |-> <<"none">>, ents |-> <<>>]

StartsWith(s, c) == s # <<>> /\ s[1] = c

(* The attributes of a tag on which the tokenizer never ends. *)
Endless == [x \in {<<"endless">>} |-> <<>>]

-----------------------------------------------------------------------------
(* htmlParser: the text so far and its width, the finished entities, the one
   under construction for each tag with its depth, and the stack of the open
   tags, where a tag without an entity of its own is marked "literal". *)
EntityOfTag ==
    [tag \in {"strong", "b", "em", "i", "u", "del", "s", "pre", "tg-spoiler", "blockquote", "code", "mono"} |->
        CASE tag \in {"strong", "b"} -> "Bold"
          [] tag \in {"em", "i"}     -> "Italic"
          [] tag = "u"               -> "Underline"
          [] tag \in {"del", "s"}    -> "Strike"
          [] tag = "pre"             -> "Pre"
          [] tag = "tg-spoiler"      -> "Spoiler"
          [] tag = "blockquote"      -> "Blockquote"
          [] tag \in {"code", "mono"} -> "Code"]
SupportedTags == DOMAIN EntityOfTag \cup {"a", "tg-emoji", "emoji"}

NewParser == [text |-> <<>>, utf16Pos |-> 0, entities |-> <<>>, building |-> <<>>, open |-> <<>>]

(* A variant that counts characters for the entities and units for the text. *)
AppendRunes(p, data) ==
    LET Grown(b) == [b EXCEPT !.ent = SetEntityLength(@, GetEntityLength(@) + Len(data))]
    IN  [p EXCEPT !.text = @ \o data,
                  !.utf16Pos = @ + UTF16Len(data),
                  !.building = [tag \in DOMAIN @ |-> Grown(@[tag])]]
AppendText(p, data) ==
    LET delta == UTF16Len(data)
        Grown(b) == [b EXCEPT !.ent = SetEntityLength(@, GetEntityLength(@) + delta)]
    IN  [p EXCEPT !.text = @ \o data,
                  !.utf16Pos = @ + delta,
                  !.building = [tag \in DOMAIN @ |-> Grown(@[tag])]]

Push(p, tag, meta) == [p EXCEPT !.open = Append(@, [name |-> tag, meta |-> meta])]

(* The number after "tg://user?id=", or a failure. *)
parseTGMention(url) == IF StartsWith(url, "tg:user") /\ Tail(url) \in Numerals THEN {Tail(url)} ELSE {}

AttrOf(attrs, name) == IF <<name>> \in DOMAIN attrs THEN attrs[<<name>>] ELSE <<>>

(* The type and the address of the entity that a start tag asks for. *)
Asked(tag, attrs) ==
    LET href == AttrOf(attrs, "href")
        id   == AttrOf(attrs, IF tag = "emoji" THEN "document_id" ELSE "emoji-id")
    IN  CASE tag \in DOMAIN EntityOfTag -> {<<EntityOfTag[tag], <<>>>>}
          [] tag = "a" -> IF href = <<>> THEN {}
                          ELSE IF StartsWith(href, "mailto:") THEN {<<"Email", <<>>>>}
                          ELSE IF parseTGMention(href) # {} THEN {<<"MentionName", Tail(href)>>}
                          ELSE {<<"TextURL", href>>}
          [] tag \in {"tg-emoji", "emoji"} -> IF id \in Numerals THEN {<<"CustomEmoji", id>>} ELSE {}
          [] OTHER -> {}

HandleStart(p, t) ==
    LET cls == AttrOf(t.attrs, "class")
        building == p.building
        lang == IF StartsWith(cls, "language-") THEN Tail(cls) ELSE building["pre"].ent.arg
        ask == CHOOSE a \in Asked(t.tag, t.attrs) : TRUE
        new == [ent |-> [type |-> ask[1], off |-> p.utf16Pos, len |-> 0, arg |-> ask[2]], depth |-> 1]
        begun == [tag \in DOMAIN building \cup {t.tag} |-> IF tag = t.tag THEN new ELSE building[tag]]
    IN  CASE Asked(t.tag, t.attrs) = {} -> AppendText(Push(p, t.tag, "literal"), t.raw)
          [] t.tag \in {"code", "mono"} /\ "pre" \in DOMAIN building ->
                [Push(p, t.tag, "none") EXCEPT !.building["pre"].ent.arg = lang]
          [] OTHER ->
                [Push(p, t.tag, "none") EXCEPT
                    !.building = IF t.tag \in DOMAIN building THEN [building EXCEPT ![t.tag].depth = @ + 1]
                                 ELSE begun]

utf16Substring(s, start, end) == FromUTF16(Units(ToUTF16(s), start, end))

(* An address that is the text of its link needs no entity with an address. *)
KeepAddress(p, ent) == ent
Finished(p, ent) ==
    IF ent.type = "TextURL" /\ utf16Substring(p.text, ent.off, EntityEnd(ent)) = ent.arg
    THEN [ent EXCEPT !.type = "URL", !.arg = <<>>] ELSE ent

(* The innermost open tag of that name is closed, wherever it is in the stack;
   its entity is finished with the last of the tags that it counts. *)
HandleEnd(p, tag) ==
    LET Matching == {i \in DOMAIN p.open : p.open[i].name = tag}
        literal  == IF Matching = {} THEN tag \notin SupportedTags
                    ELSE p.open[Max(Matching)].meta = "literal"
        popped   == IF Matching = {} THEN p ELSE [p EXCEPT !.open = RemoveAt(@, Max(Matching))]
        q        == IF literal THEN AppendText(popped, <<"<", "/", tag, ">">>) ELSE popped
    IN  IF tag \notin DOMAIN q.building THEN q
        ELSE IF q.building[tag].depth > 1 THEN [q EXCEPT !.building[tag].depth = @ - 1]
        ELSE [q EXCEPT !.entities = Append(@, Finished(q, q.building[tag].ent)),
                       !.building = [other \in DOMAIN @ \ {tag} |-> @[other]]]

-----------------------------------------------------------------------------
(* ParseHTML: one action per kind of token, and the return.  The tokenizer
   runs before: while one of its iterations is endless, nothing is handled. *)
Tokenized == \A i \in DOMAIN toks : toks[i].attrs # Endless

Token(kind) == Tokenized /\ toks # <<>> /\ Head(toks).kind = kind /\ toks' = Tail(toks)

Data     == Token("text")  /\ parser' = AppendText(parser, Head(toks).raw)     /\ UNCHANGED parsed
StartTag == Token("start") /\ parser' = HandleStart(parser, Head(toks))        /\ UNCHANGED parsed
EndTag   == Token("end")   /\ parser' = HandleEnd(parser, Head(toks).tag)      /\ UNCHANGED parsed

(* Sorted by the offset.  Few entities are sorted by insertion, which keeps the
   order of equal ones; nothing that is said of the result depends on it. *)
ByOffset(ents) ==
    LET Before(i, j) == \/ GetEntityOffset(ents[i]) < GetEntityOffset(ents[j])
                        \/ GetEntityOffset(ents[i]) = GetEntityOffset(ents[j]) /\ i < j
        Rank(i) == 1 + Cardinality({j \in DOMAIN ents : Before(j, i)})
    IN  [k \in DOMAIN ents |-> ents[CHOOSE i \in DOMAIN ents : Rank(i) = k]]

ReturnHTML ==
    /\ toks = <<>> /\ parsed = Unparsed
    /\ LET stripped == StripText(parser.text, parser.entities)
       IN  parsed' = [text |-> stripped.text, ents |-> ByOffset(stripped.ents)]
    /\ UNCHANGED <<toks, parser>>

(* The texts are given by their lists of tokens. *)
htmlInit(lists) ==
    /\ toks \in lists
    /\ parser = NewParser
    /\ parsed = Unparsed

htmlNext == Data \/ StartTag \/ EndTag \/ ReturnHTML

-----------------------------------------------------------------------------
(* UnparseHTML: the text is escaped. *)
Rewrite(s, c, by) == FlattenSeq([i \in DOMAIN s |-> IF s[i] = c THEN by ELSE <<s[i]>>])
htmlEscape(s) ==
    Rewrite(Rewrite(Rewrite(s, "&", <<"&", "amp;">>), "<", <<"&", "lt;">>), ">", <<"&", "gt;">>)
htmlEscapeQ(s) == Rewrite(htmlEscape(s), "quote", <<"&", "#34;">>)

(* The tags around an entity whose text is s. *)
Tagged(tag, attrs) == <<"<", tag>> \o attrs \o <<">">>
Assign(name, q, value) == <<NBSP, name, "=", q>> \o value \o <<q>>
SimpleTag == "Bold" :> "strong" @@ "Italic" :> "em" @@ "Code" :> "code" @@ "Underline" :> "u" @@
             "Strike" :> "del" @@ "Spoiler" :> "tg-spoiler" @@ "Blockquote" :> "blockquote"
OpenTag(e, s) ==
    LET Link(address) == Tagged("a", Assign("href", "quote", address))
    IN  CASE e.type \in DOMAIN SimpleTag -> Tagged(SimpleTag[e.type], <<>>)
          [] e.type = "Pre" -> Tagged("pre", <<>>) \o
                Tagged("code", IF e.arg = <<>> THEN <<>>
                               ELSE Assign("class", "apostrophe", <<"language-">> \o htmlEscapeQ(e.arg)))
          [] e.type = "Email"       -> Link(<<"mailto:">> \o htmlEscapeQ(s))
          [] e.type = "URL"         -> Link(htmlEscapeQ(s))
          [] e.type = "TextURL"     -> Link(htmlEscapeQ(e.arg))
          [] e.type = "MentionName" -> Link(<<"tg:user">> \o e.arg)
          [] e.type = "CustomEmoji" -> Tagged("tg-emoji", Assign("emoji-id", "quote", e.arg))
          [] OTHER -> <<>>
CloseTag(e) ==
    LET End(tag) == <<"<", "/", tag, ">">>
    IN  CASE e.type \in DOMAIN SimpleTag -> End(SimpleTag[e.type])
          [] e.type = "Pre"         -> End("code") \o End("pre")
          [] e.type = "CustomEmoji" -> End("tg-emoji")
          [] OTHER -> End("a")

UnparseHTML(s, ents) ==
    LET Covered(e) == IF EntityEnd(e) <= UTF16Len(s)
                      THEN utf16Substring(s, GetEntityOffset(e), EntityEnd(e)) ELSE <<>>
        pieces == Pieces(ToUTF16(s), Inserts(ents, [i \in DOMAIN ents |-> OpenTag(ents[i], Covered(ents[i]))],
                                                   [i \in DOMAIN ents |-> CloseTag(ents[i])]))
    IN  FlattenSeq([k \in DOMAIN pieces |-> htmlEscape(pieces[k].plain) \o pieces[k].content])
=============================================================================
