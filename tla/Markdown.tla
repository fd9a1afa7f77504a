------------------------------ MODULE Markdown ------------------------------
(***************************************************************************)
(* ParseMarkdown and UnparseMarkdown (client/extensions/markdown.go).      *)
(* The parser is a loop over the units of the message: each iteration      *)
(* removes a pair of delimiters, replaces a link by its text, or moves one *)
(* unit on.  Its locals are the state.  "tick" is the back quote, and an   *)
(* address of Mentions stands for one that names a user.                   *)
(***************************************************************************)
EXTENDS EntityText, FiniteSetsExt

CONSTANT Mentions   \* the addresses that parseTGMention reads an identifier in

VARIABLES u16,      \* the units of the working message
          pos,      \* i, the position of the loop, from zero
          result,   \* the entities found so far
          final     \* what is returned, or NoText before the return

NoText == [text |-> <<"none">>, ents |-> <<>>]

(* Longest first, so that the three back quotes win over one. *)
Delims == << [str |-> <<"tick", "tick", "tick">>, type |-> "Pre"],
             [str |-> <<"*", "*">>,      type |-> "Bold"],
             [str |-> <<"_", "_">>,      type |-> "Italic"],
             [str |-> <<"~", "~">>,      type |-> "Strike"],
             [str |-> <<"tick">>,        type |-> "Code"] >>

HasPrefixAt(u, prefix, i) ==
    i + Len(prefix) <= Len(u) /\ Units(u, i, i + Len(prefix)) = prefix

(* The first place of needle from a position on, -1 when there is none. *)
u16IndexFrom(u, needle, from) ==
    LET Places == {i \in from .. Len(u) : HasPrefixAt(u, needle, i)}
    IN  IF Places = {} THEN -1 ELSE Min(Places)

(* One more unit is skipped after the opening delimiter: "****" is no bold. *)
Closing(d) == u16IndexFrom(u16, d.str, pos + Len(d.str) + 1)

Matching == {k \in DOMAIN Delims : HasPrefixAt(u16, Delims[k].str, pos) /\ Closing(Delims[k]) >= 0}

(* An entity found before, once the two delimiters of length dl are gone. *)
ShrinkForDelims(e, i, end, dl) ==
    LET both == GetEntityOffset(e) <= i /\ EntityEnd(e) >= end + dl
    IN  IF EntityEnd(e) > i
        THEN SetEntityLength(e, GetEntityLength(e) - (IF both THEN 2 * dl ELSE dl))
        ELSE e

(* The scan goes on behind code, and inside everything else. *)
NextPos(d, end) == IF d.type \in {"Code", "Pre"} THEN end - Len(d.str) ELSE pos

Delimited ==
    /\ final = NoText /\ pos < Len(u16)
    /\ Matching # {}
    /\ LET d   == Delims[Min(Matching)]
           dl  == Len(d.str)
           end == Closing(d)
           new == [type |-> d.type, off |-> pos, len |-> end - pos - dl, arg |-> ""]
       IN  /\ u16' = Units(u16, 0, pos) \o Units(u16, pos + dl, end) \o Units(u16, end + dl, Len(u16))
           /\ result' = Append([k \in DOMAIN result |-> ShrinkForDelims(result[k], pos, end, dl)], new)
           /\ pos' = NextPos(d, end)
    /\ UNCHANGED final

(* The expression [text](address) at the position: where its text and its
   address end, or {} when it does not match there.  Neither repetition is
   greedy, and the text holds no "]". *)
LinkAt(u, i) ==
    LET mid == u16IndexFrom(u, <<"]">>, i)
        end == u16IndexFrom(u, <<")">>, mid + 2)
    IN  IF HasPrefixAt(u, <<"[">>, i) /\ mid >= 0 /\ HasPrefixAt(u, <<"]", "(">>, mid) /\ end >= 0
        THEN {[mid |-> mid, end |-> end]}
        ELSE {}

(* A position inside a surrogate pair has no byte offset: no link there. *)
Link ==
    /\ final = NoText /\ pos < Len(u16)
    /\ Matching = {}
    /\ ~WithinSurrogate(u16, pos)
    /\ \E m \in LinkAt(u16, pos) :
        LET inside  == Units(u16, pos + 1, m.mid)
            address == FromUTF16(Units(u16, m.mid + 2, m.end))
            removed == m.end + 1 - pos - Len(inside)
            Shrink(e) == IF EntityEnd(e) > pos
                         THEN SetEntityLength(e, GetEntityLength(e) - removed) ELSE e
        IN  /\ u16' = Units(u16, 0, pos) \o inside \o Units(u16, m.end + 1, Len(u16))
            /\ result' = Append([k \in DOMAIN result |-> Shrink(result[k])],
                                [type |-> IF address \in Mentions THEN "MentionName" ELSE "TextURL",
                                 off |-> pos, len |-> Len(inside), arg |-> address])
            /\ pos' = pos + Len(inside)
    /\ UNCHANGED final

Advance ==
    /\ final = NoText /\ pos < Len(u16)
    /\ Matching = {}
    /\ WithinSurrogate(u16, pos) \/ LinkAt(u16, pos) = {}
    /\ pos' = pos + 1
    /\ UNCHANGED <<u16, result, final>>

ReturnMarkdown ==
    /\ final = NoText /\ pos >= Len(u16)
    /\ final' = StripText(FromUTF16(u16), result)
    /\ UNCHANGED <<u16, pos, result>>

mdInit(messages) ==
    /\ u16 \in {ToUTF16(m) : m \in messages}
    /\ pos = 0
    /\ result = <<>>
    /\ final = NoText

mdNext == Delimited \/ Link \/ Advance \/ ReturnMarkdown

-----------------------------------------------------------------------------
(* UnparseMarkdown: what is written before and after the text of an entity. *)
Opening(e) == IF e.type \in {"TextURL", "MentionName"} THEN <<"[">>
              ELSE FlattenSeq([k \in DOMAIN Delims |->
                                  IF Delims[k].type = e.type THEN Delims[k].str ELSE <<>>])
Closer(e) == IF e.type \in {"TextURL", "MentionName"} THEN <<"]", "(">> \o e.arg \o <<")">>
             ELSE Opening(e)

UnparseMarkdown(s, ents) ==
    LET pieces == Pieces(ToUTF16(s), Inserts(ents, [i \in DOMAIN ents |-> Opening(ents[i])],
                                                   [i \in DOMAIN ents |-> Closer(ents[i])]))
    IN  FlattenSeq([k \in DOMAIN pieces |-> pieces[k].plain \o pieces[k].content])
=============================================================================
