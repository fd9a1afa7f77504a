----------------------------- MODULE HtmlTokens -----------------------------
(***************************************************************************)
(* The tokenizer of ParseHTML (client/extensions/html.go): a source text,  *)
(* a sequence of symbols as in Html, becomes the list of tokens that its   *)
(* parser handles.                                                         *)
(***************************************************************************)
EXTENDS Html

Quotes == {"quote", "apostrophe"}
Blank  == {NBSP}

First(s, Test(_)) == SelectInSeq(s, Test)       \* 0 when there is none
From(s, i) == SubSeq(s, i, Len(s))
EndsWith(s, c) == s # <<>> /\ s[Len(s)] = c

-----------------------------------------------------------------------------
(* gohtml.UnescapeString. *)
CharNames == "amp;" :> "&" @@ "lt;" :> "<" @@ "gt;" :> ">" @@ "#34;" :> "quote"
Unescape(s) ==
    LET Named(i) == i \in DOMAIN s /\ i + 1 \in DOMAIN s /\ s[i] = "&" /\ s[i + 1] \in DOMAIN CharNames
    IN  FlattenSeq([i \in DOMAIN s |-> IF Named(i) THEN <<CharNames[s[i + 1]]>>
                                       ELSE IF Named(i - 1) THEN <<>> ELSE <<s[i]>>])

(* What angleTagRE matches, "<", a name and anything up to the next ">", is
   escaped when the name is not one of a tag. *)
TagName(body) ==
    LET s == TrimSpace(body)
        named == TrimSpace(IF StartsWith(s, "/") THEN From(s, 2) ELSE s)
        end == First(named \o <<"/">>, LAMBDA c : c \in Blank \cup {"/"})
        rest == From(named, end)
    IN  IF rest = <<>> \/ rest[1] \in Blank \/ TrimSpace(rest) = <<"/">>
        THEN SubSeq(named, 1, end - 1) ELSE <<>>
InvalidName(name) == name # <<>> /\ (name \in Numerals \/ \E i \in DOMAIN name : name[i] \in Odd)

RECURSIVE escapeInvalidTagSyntax(_)
escapeInvalidTagSyntax(s) ==
    LET close == First(From(s, 2), LAMBDA c : c \in {"<", ">"}) + 1
        IsTag == close > 1 /\ s[close] = ">" /\ TagName(SubSeq(s, 2, close - 1)) # <<>>
    IN  IF s = <<>> THEN <<>>
        ELSE IF s[1] = "<" /\ IsTag
        THEN LET match == SubSeq(s, 1, close)
             IN  (IF InvalidName(TagName(SubSeq(s, 2, close - 1))) THEN htmlEscape(match) ELSE match)
                 \o escapeInvalidTagSyntax(From(s, close + 1))
        ELSE <<s[1]>> \o escapeInvalidTagSyntax(Tail(s))

-----------------------------------------------------------------------------
(* parseTagAttrs: the attributes by name.  An iteration that consumes nothing
   is repeated for ever: the result is then Endless. *)
WithAttr(m, key, val) == IF key = <<>> THEN m ELSE (key :> val) @@ m

RECURSIVE Attrs(_, _)
Attrs(untrimmed, m) ==
    LET s   == TrimSpace(untrimmed)
        eq  == First(s, LAMBDA c : c \in Blank \cup {"=", "/", ">"})
        key == SubSeq(s, 1, eq - 1)
        v   == TrimSpace(From(s, eq + 1))
        Value(c) == First(From(v, 2), LAMBDA x : x = c)
        bare == First(v, LAMBDA c : c \in Blank \cup {">"})
    IN  CASE s \in {<<>>, <<"/">>} -> m
          [] s \notin {<<>>, <<"/">>} /\ eq = 0 -> WithAttr(m, s, <<>>)
          [] eq > 0 /\ s # <<"/">> /\ s[eq] # "=" ->
                IF key = <<>> THEN Endless ELSE Attrs(From(s, eq), WithAttr(m, key, <<>>))
          [] eq > 0 /\ s[eq] = "=" ->
                IF v # <<>> /\ v[1] \in Quotes
                THEN IF Value(v[1]) = 0 THEN WithAttr(m, key, Unescape(From(v, 2)))
                     ELSE Attrs(From(v, Value(v[1]) + 2),
                                WithAttr(m, key, Unescape(SubSeq(v, 2, Value(v[1])))))
                ELSE IF bare = 0 THEN WithAttr(m, key, Unescape(v))
                     ELSE Attrs(From(v, bare), WithAttr(m, key, Unescape(SubSeq(v, 1, bare - 1))))
parseTagAttrs(s) == Attrs(s, <<>>)

TextToken(data) == [kind |-> "text", tag |-> "", attrs |-> <<>>, raw |-> data]

(* The token of <...>: none for a comment, text when nothing is inside. *)
TagToken(raw) ==
    LET inner == SubSeq(raw, 2, Len(raw) - 1)
        isEnd == StartsWith(inner, "/")
        trimmed == TrimSpace(IF isEnd THEN Tail(inner) ELSE inner)
        body  == IF EndsWith(trimmed, "/") THEN TrimSpace(Front(trimmed)) ELSE trimmed
        end   == First(body \o <<NBSP>>, LAMBDA c : c \in Blank)
        name  == SubSeq(body, 1, end - 1)
        tag   == IF Len(name) = 1 THEN name[1] ELSE "unknown"
    IN  IF inner # <<>> /\ inner[1] \in {"!", "?"} THEN <<>>
        ELSE IF body = <<>> THEN <<TextToken(raw)>>
        ELSE << [kind |-> IF isEnd THEN "end" ELSE "start", tag |-> tag, raw |-> raw,
                 attrs |-> IF isEnd THEN <<>> ELSE parseTagAttrs(From(body, end))] >>

(* The ">" that closes a tag is the first one outside quotes; 0 if none. *)
RECURSIVE findTagClose(_, _)
findTagClose(s, i) ==
    CASE i > Len(s) -> 0
      [] i <= Len(s) /\ s[i] = ">" -> i
      [] i <= Len(s) /\ s[i] \in Quotes ->
            LET k == First(From(s, i + 1), LAMBDA c : c = s[i])
            IN  IF k = 0 THEN 0 ELSE findTagClose(s, i + k + 1)
      [] OTHER -> findTagClose(s, i + 1)

RECURSIVE tokenizeHTML(_)
tokenizeHTML(s) ==
    LET lt  == First(s \o <<"<">>, LAMBDA c : c = "<")
        close == findTagClose(s, 2)
    IN  CASE s = <<>> -> <<>>
          [] lt > 1 -> <<TextToken(Unescape(SubSeq(s, 1, lt - 1)))>> \o tokenizeHTML(From(s, lt))
          [] s # <<>> /\ lt = 1 /\ close = 0 -> <<TextToken(Unescape(s))>>
          [] s # <<>> /\ lt = 1 /\ close > 0 ->
                TagToken(SubSeq(s, 1, close)) \o tokenizeHTML(From(s, close + 1))

(* What ParseHTML tokenizes is its input with the names that are none escaped. *)
Tokens(s) == tokenizeHTML(escapeInvalidTagSyntax(s))
=============================================================================
