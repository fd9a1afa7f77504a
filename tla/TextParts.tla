------------------------------ MODULE TextParts ------------------------------
(***************************************************************************)
(* The parsers of Markdown and of HTML, side by side with what must hold   *)
(* of one message (MessageParts): the "subject" of a behaviour says which  *)
(* of them reads a text, any text, or that a message is looked at.  What   *)
(* is said here of the entities does not depend on where the text is from. *)
(***************************************************************************)
EXTENDS MessageParts, Markdown, Html

mdState   == <<u16, pos, result, final>>
htmlState == <<toks, parser, parsed>>
msgState  == <<subject, doc, msg>>

(* What the tokenizer hands over, and the state of a parser that has not begun. *)
IsToken(t) == DOMAIN t = {"kind", "tag", "attrs", "raw"} /\ IsList(t.raw)
TextInit ==
    /\ Received
    /\ IsList(u16) /\ pos = 0 /\ result = <<>> /\ final = NoText
    /\ IsList(toks) /\ \A i \in DOMAIN toks : IsToken(toks[i])
    /\ parser = NewParser /\ parsed = Unparsed

MarkdownStep == subject = "markdown" /\ mdNext /\ UNCHANGED <<msgState, htmlState>>
HtmlStep     == subject \in {"html", "view"} /\ htmlNext /\ UNCHANGED <<msgState, mdState>>
TextNext == MarkdownStep \/ HtmlStep

textVars == <<msgState, mdState, htmlState>>
TextSpec == TextInit /\ [][TextNext]_textVars

-----------------------------------------------------------------------------
MdDone   == subject = "markdown" /\ final # NoText
HtmlDone == subject = "html" /\ parsed # Unparsed

(* helpers.go says of StripText that it removes zero-length and out-of-bounds
   entities.  Every entity starts inside the text returned, ends in it and is
   not empty, and they come in the order of their offsets.  Of HTML each covers
   something; what Markdown removes around one between delimiters may be more
   than it covered, so that its length can become negative. *)
Ascending(ents) == \A i, j \in DOMAIN ents : i < j => ents[i].off <= ents[j].off
Within(e, text) == e.off \in 0 .. UTF16Len(text) - 1 /\ EntityEnd(e) \in 1 .. UTF16Len(text) /\ e.len # 0
MarkdownInBounds ==
    MdDone => /\ Ascending(final.ents)
              /\ \A i \in DOMAIN final.ents :
                    /\ Within(final.ents[i], final.text)
                    /\ final.ents[i].len < 0 => final.ents[i].type \in {"Bold", "Italic", "Strike"}
HtmlInBounds ==
    HtmlDone => /\ Ascending(parsed.ents)
                /\ \A i \in DOMAIN parsed.ents : Within(parsed.ents[i], parsed.text) /\ parsed.ents[i].len > 0

(* An entity under construction always reaches the end of the text so far, also
   when the text of a tag is kept literally or another entity ends. *)
BuildingReachesEnd ==
    /\ parser.utf16Pos = UTF16Len(parser.text)
    /\ \A tag \in DOMAIN parser.building : EntityEnd(parser.building[tag].ent) = parser.utf16Pos

(* The parser of markdown does not look inside code: no entity found after one
   of code starts in it, whatever delimiters were removed around it. *)
CodeIsOpaque ==
    \A i, j \in DOMAIN result :
        i < j /\ result[i].type \in {"Code", "Pre"} =>
            ~(result[i].off < result[j].off /\ result[j].off < EntityEnd(result[i]))

(* Whatever the text, the entities that a parser reports cover it as they should. *)
EntitiesSound == MarkdownInBounds /\ HtmlInBounds /\ BuildingReachesEnd /\ CodeIsOpaque
=============================================================================
