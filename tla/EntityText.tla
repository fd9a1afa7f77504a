----------------------------- MODULE EntityText -----------------------------
(***************************************************************************)
(* Text and its formatting entities (helpers/helpers.go).  A string is a   *)
(* sequence of characters.  All that the code distinguishes of a character *)
(* is its width in UTF-16 and whether the two notions of white space of    *)
(* StripText hold it: WIDE stands for any character beyond the BMP, NBSP   *)
(* for those that both count, ZWSP for U+200B (counted in the leading      *)
(* white space but not trimmed) and IDSP for the Unicode spaces such as    *)
(* U+3000 (trimmed but not counted).  Every other string is a character    *)
(* of width one that is not a space.                                       *)
(*                                                                         *)
(* An entity is a record [type, off, len] with, for links and mentions,    *)
(* the address in "arg"; offsets and lengths are in UTF-16 units, offsets  *)
(* from zero as in the code.                                               *)
(***************************************************************************)
EXTENDS Integers, Sequences, SequencesExt

WIDE == "wide"
NBSP == " "
ZWSP == "zwsp"
IDSP == "idsp"
High == "high"          \* a high surrogate
Low  == "low"           \* a low surrogate
Replacement == "U+FFFD"

UTF16Len(s) == Len(s) + Cardinality({i \in DOMAIN s : s[i] = WIDE})

ToUTF16(s) ==
    FlattenSeq([i \in DOMAIN s |-> IF s[i] = WIDE THEN <<High, Low>> ELSE <<s[i]>>])

(* A pair becomes its character, a lone surrogate the replacement one. *)
FromUTF16(u) ==
    LET Starts == {i \in DOMAIN u : ~(u[i] = Low /\ i > 1 /\ u[i - 1] = High)}
        Decode(i) ==
            CASE u[i] = High /\ i < Len(u) /\ u[i + 1] = Low -> WIDE
              [] u[i] \in {High, Low} /\ ~(i < Len(u) /\ u[i] = High /\ u[i + 1] = Low) -> Replacement
              [] OTHER -> u[i]
    IN  FlattenSeq([i \in DOMAIN u |-> IF i \in Starts THEN <<Decode(i)>> ELSE <<>>])

WithinSurrogate(u, i) == i > 0 /\ i < Len(u) /\ u[i] = High /\ u[i + 1] = Low

(* The units from "from" (inclusive, from zero) to "to" (exclusive). *)
Units(u, from, to) == SubSeq(u, from + 1, to)

-----------------------------------------------------------------------------
EntityTypes ==
    {"Unknown", "Mention", "Hashtag", "BotCommand", "URL", "Email", "Bold", "Italic",
     "Code", "Pre", "TextURL", "MentionName", "InputMentionName", "Phone", "Cashtag",
     "Underline", "Strike", "BankCard", "Spoiler", "CustomEmoji", "Blockquote"}

(* A type that the switches do not list has offset and length zero. *)
GetEntityOffset(e) == IF e.type \in EntityTypes THEN e.off ELSE 0
GetEntityLength(e) == IF e.type \in EntityTypes THEN e.len ELSE 0
SetEntityOffset(e, offset) == IF e.type \in EntityTypes THEN [e EXCEPT !.off = offset] ELSE e
SetEntityLength(e, length) == IF e.type \in EntityTypes THEN [e EXCEPT !.len = length] ELSE e
EntityEnd(e) == GetEntityOffset(e) + GetEntityLength(e)

-----------------------------------------------------------------------------
Leading(s, Space) == SelectInSeq(s \o <<"end">>, LAMBDA r : r \notin Space) - 1
TrimmedSpaces == {NBSP, IDSP}
CountedSpaces == {NBSP, ZWSP}
TrimSpace(s) ==
    LET left  == Leading(s, TrimmedSpaces)
        right == Leading(Reverse(s), TrimmedSpaces)
    IN  SubSeq(s, left + 1, Len(s) - right)

(* What becomes of one entity when "left" units are cut in front and "final"
   units remain: a sequence of one entity, or of none when it is dropped. *)
StripEntity(e, left, final) ==
    LET off    == IF GetEntityOffset(e) >= left THEN GetEntityOffset(e) - left ELSE 0
        length == IF GetEntityOffset(e) >= left THEN GetEntityLength(e) ELSE EntityEnd(e) - left
        kept   == IF off + length > final THEN final - off ELSE length
    IN  IF GetEntityLength(e) = 0 \/ EntityEnd(e) <= left \/ off >= final \/ kept = 0
        THEN <<>>
        ELSE <<SetEntityLength(SetEntityOffset(e, off), kept)>>

StripText(s, entities) ==
    LET stripped == TrimSpace(s)
        left     == Leading(s, CountedSpaces)
    IN  [text |-> stripped,
         ents |-> FlattenSeq([i \in DOMAIN entities |->
                                 StripEntity(entities[i], left, UTF16Len(stripped))])]

-----------------------------------------------------------------------------
(* The insertions of an unparser: what is written before and after each
   entity, sorted by position, then by the index of the entity, negated for
   what is written after.  Few insertions are sorted by insertion, which
   keeps the order of equal keys. *)
Inserts(ents, opening, closing) ==
    LET Pair(i) == << [pos |-> GetEntityOffset(ents[i]), order |-> i - 1, content |-> opening[i]],
                      [pos |-> EntityEnd(ents[i]), order |-> 1 - i, content |-> closing[i]] >>
        all == FlattenSeq([i \in DOMAIN ents |-> IF opening[i] = <<>> THEN <<>> ELSE Pair(i)])
        Before(a, b) == \/ all[a].pos < all[b].pos
                        \/ /\ all[a].pos = all[b].pos
                           /\ \/ all[a].order < all[b].order
                              \/ all[a].order = all[b].order /\ a < b
        sorted == SetToSortSeq(DOMAIN all, Before)
    IN  [k \in DOMAIN sorted |-> all[sorted[k]]]

(* The pieces of what is written: the text up to an insertion, decoded, and the
   insertion.  One inside a surrogate pair moves on, and none moves back. *)
Pieces(u, inserts) ==
    LET Place(at, prev) ==
            LET nudged == IF WithinSurrogate(u, at) THEN at + 1 ELSE at
                inside == IF nudged > Len(u) THEN Len(u) ELSE nudged
            IN  IF inside < prev THEN prev ELSE inside
        Cut(w, ins) ==
            LET at == Place(ins.pos, w.prev)
            IN  [prev |-> at,
                 out |-> Append(w.out, [plain |-> FromUTF16(Units(u, w.prev, at)), content |-> ins.content])]
        cut == FoldLeft(Cut, [out |-> <<>>, prev |-> 0], inserts)
    IN  Append(cut.out, [plain |-> FromUTF16(Units(u, cut.prev, Len(u))), content |-> <<>>])
=============================================================================
