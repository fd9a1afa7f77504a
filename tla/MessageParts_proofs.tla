-------------------------- MODULE MessageParts_proofs --------------------------
(***************************************************************************)
(* Proofs about what is said of one message, for every message that can be *)
(* received, every grid of buttons and every file, and of the entities of  *)
(* its text, for every text that Markdown or HTML is parsed from.          *)
(***************************************************************************)
EXTENDS TextParts, WellFoundedInduction, SequenceTheorems, FiniteSetTheorems, TLAPS

\* A set of numbers has a least one.
LEMMA Least ==
  ASSUME NEW I \in SUBSET Nat, I # {}
  PROVE  \E x \in I : \A y \in I : x <= y
<1> DEFINE R == OpToRel(<, Nat)
<1> HIDE DEF R
<1>1. IsWellFoundedOn(R, Nat)
  BY NatLessThanWellFounded DEF R
<1>2. PICK x \in I : \A y \in I : ~ (<<y, x>> \in R)
  BY <1>1, WFMin
<1>3. ASSUME NEW y \in I PROVE x <= y
  <2>1. x \in Nat /\ y \in Nat
    OBVIOUS
  <2>2. ~ (y < x)
    BY <1>2, <2>1 DEF R, OpToRel
  <2> QED BY <2>1, <2>2
<1> QED BY <1>3

\* Induction from 1 up to a bound, over a set.
LEMMA UpTo ==
  ASSUME NEW n \in Nat, NEW S, 1 \in S, \A i \in 1 .. n : i < n /\ i \in S => i + 1 \in S
  PROVE  \A i \in 1 .. n : i \in S
<1> DEFINE T == (1 .. n) \ S
<1> SUFFICES ASSUME T # {} PROVE FALSE
  OBVIOUS
<1>1. T \in SUBSET Nat
  OBVIOUS
<1>2. T \subseteq 1 .. n /\ \A i \in T : i \notin S
  OBVIOUS
<1>3. \A i \in 1 .. n : i \notin T => i \in S
  OBVIOUS
<1> HIDE DEF T
<1>4. PICK x \in T : \A y \in T : x <= y
  BY <1>1, Least
<1>5. x \in 1 .. n /\ x \notin S /\ x # 1
  BY <1>2
<1>6. x - 1 \in 1 .. n /\ x - 1 < n /\ ~ (x <= x - 1) /\ (x - 1) + 1 = x
  BY <1>5
<1>7. x - 1 \in S
  BY <1>3, <1>4, <1>6
<1>8. (x - 1) + 1 \in S
  BY <1>6, <1>7
<1> QED BY <1>5, <1>6, <1>8

\* A function from the numbers up to n is a list of that length.
LEMMA IsAList ==
  ASSUME NEW S, NEW n \in Nat, NEW x \in [1 .. n -> S]
  PROVE  x \in Seq(S) /\ Len(x) = n
<1>1. x \in Seq(S)
  BY SeqDef
<1>2. DOMAIN x = 1 .. Len(x) /\ Len(x) \in Nat /\ DOMAIN x = 1 .. n
  BY <1>1, LenProperties
<1> QED BY <1>1, <1>2

\* A position in a list has a first one among those that are chosen.
LEMMA FirstOf ==
  ASSUME NEW n \in Nat, NEW I \in SUBSET (1 .. n), I # {}
  PROVE  View!Min(I) \in I /\ \A j \in I : View!Min(I) <= j
<1>1. \E x \in I : \A y \in I : x <= y
  BY Least
<1> QED BY <1>1 DEF View!Min

\* What the search for a position returns: the first one, or 0.
LEMMA Chosen ==
  ASSUME NEW n \in Nat, NEW I \in SUBSET (1 .. n)
  PROVE  LET at == IF I # {} THEN View!Min(I) ELSE 0
         IN  /\ at \in 0 .. n
             /\ at # 0 <=> I # {}
             /\ at > 0 <=> I # {}
             /\ at # 0 => at \in I /\ \A j \in I : at <= j
<1>1. CASE I = {}
  BY <1>1
<1>2. CASE I # {}
  <2>1. View!Min(I) \in I /\ \A j \in I : View!Min(I) <= j
    BY <1>2, FirstOf
  <2>2. View!Min(I) \in 1 .. n
    BY <2>1
  <2>3. (IF I # {} THEN View!Min(I) ELSE 0) = View!Min(I)
    BY <1>2
  <2>4. View!Min(I) \in 0 .. n /\ View!Min(I) # 0 /\ View!Min(I) > 0
    BY <2>2
  <2> QED BY <1>2, <2>1, <2>3, <2>4
<1> QED BY <1>1, <1>2

-----------------------------------------------------------------------------
(* The media of a message. *)

\* The document of a message, its attributes and the photo or document of it.
LEMMA MediaFacts ==
  ASSUME Received, subject = "media"
  PROVE  /\ msg # View!Nil /\ msg.media # View!Nil
         /\ IsMedia(msg.media)
         /\ DOMAIN msg.media.attrs = 1 .. Len(msg.media.attrs) /\ Len(msg.media.attrs) \in Nat
         /\ \A i \in 1 .. Len(msg.media.attrs) : msg.media.attrs[i] # View!Nil
         /\ View!document(msg) = IF msg.media.kind = "document" /\ msg.media.inner THEN msg.media ELSE View!Nil
         /\ View!NewFile(msg) = IF msg.media.kind \in {"photo", "document"} /\ msg.media.inner
                                THEN msg.media ELSE View!Nil
<1> DEFINE media == msg.media
<1>1. IsMedia(media) /\ DOMAIN msg = {"media", "sent"}
  BY DEF Received
<1>2. msg # View!Nil
  <2>1. DOMAIN View!Nil = {"kind"}
    BY DEF View!Nil
  <2> QED BY <1>1, <2>1
<1>3. media # View!Nil
  <2>1. DOMAIN View!Nil = {"kind"}
    BY DEF View!Nil
  <2> QED BY <1>1, <2>1 DEF IsMedia
<1>4. DOMAIN media.attrs = 1 .. Len(media.attrs) /\ Len(media.attrs) \in Nat
  BY <1>1 DEF IsMedia, IsList
<1>5. ASSUME NEW i \in 1 .. Len(media.attrs) PROVE media.attrs[i] # View!Nil
  <2>1. DOMAIN View!Nil = {"kind"}
    BY DEF View!Nil
  <2>2. DOMAIN media.attrs[i] = {"kind", "flag", "val"}
    <3>1. media.attrs = <<>> => FALSE
      BY <1>4
    <3> QED BY <1>1, <1>4, <3>1 DEF IsMedia, IsAttribute
  <2> QED BY <2>1, <2>2
<1> QED
  BY <1>1, <1>2, <1>3, <1>4, <1>5 DEF View!document, View!IsDocument, View!NewFile

\* A document shows a kind if one of its attributes does, whoever looks for it.
LEMMA ShownBy ==
  ASSUME Received, subject = "media", NEW k \in View!Kinds
  PROVE  LET is == View!hasDocumentAttr(msg, k)
         IN  /\ is <=> /\ msg.media.kind = "document" /\ msg.media.inner
                       /\ \E i \in 1 .. Len(msg.media.attrs) : View!Shows(msg.media.attrs[i], k)
             /\ is <=> View!documentByAttr(msg, k) # View!Nil
             /\ is <=> View!FileIs(View!NewFile(msg), k)
             /\ k \notin {"video", "audio"} => (is <=> View!UtilIs(msg.media, k))
<1> DEFINE media == msg.media
           attrs == media.attrs
           n == Len(attrs)
           is == View!hasDocumentAttr(msg, k)
           doc1 == media.kind = "document" /\ media.inner
           I == {i \in 1 .. n : View!Shows(attrs[i], k)}
<1>1. /\ media # View!Nil /\ IsMedia(media) /\ DOMAIN attrs = 1 .. n /\ n \in Nat
      /\ \A i \in 1 .. n : attrs[i] # View!Nil
      /\ View!document(msg) = IF doc1 THEN media ELSE View!Nil
  BY MediaFacts
<1>2. is <=> doc1 /\ I # {}
  BY <1>1 DEF View!hasDocumentAttr
<1>3. is <=> View!documentByAttr(msg, k) # View!Nil
  <2>1. View!SelectInSeq(attrs, LAMBDA a : View!Shows(a, k)) = IF I # {} THEN View!Min(I) ELSE 0
    BY DEF View!SelectInSeq
  <2>2. I # {} => View!Min(I) \in I
    BY <1>1, FirstOf
  <2>3. View!SelectInSeq(attrs, LAMBDA a : View!Shows(a, k)) > 0 <=> I # {}
    BY <2>1, <2>2, <1>1
  <2> QED BY <1>1, <1>2, <2>3 DEF View!documentByAttr
<1>4. is <=> View!FileIs(View!NewFile(msg), k)
  <2> DEFINE f == View!NewFile(msg)
             wanted == {a \in View!ToSet(f.attrs) : View!Shows(a, k)}
             J == {i \in 1 .. Len(f.attrs) : f.attrs[i] \in wanted}
             at == IF J # {} THEN View!Min(J) ELSE 0
  <2>1. f = IF media.kind \in {"photo", "document"} /\ media.inner THEN media ELSE View!Nil
    BY MediaFacts
  <2>2. View!docAttr(f, wanted) = IF f = View!Nil \/ f.kind # "document" \/ at = 0 THEN View!Nil ELSE f.attrs[at]
    BY DEF View!docAttr, View!SelectInSeq
  <2>3. View!FileIs(f, k) <=> f # View!Nil /\ View!docAttr(f, wanted) # View!Nil
    BY DEF View!FileIs
  <2>4. CASE doc1
    <3>1. f = media
      BY <2>1, <2>4
    <3>2. J = I
      <4>1. J = {i \in 1 .. n : attrs[i] \in {a \in View!ToSet(attrs) : View!Shows(a, k)}}
        BY <3>1
      <4>2. View!ToSet(attrs) = {attrs[i] : i \in 1 .. n}
        BY <1>1 DEF View!ToSet
      <4> QED BY <4>1, <4>2
    <3>3. (at # 0 <=> I # {}) /\ (at # 0 => at \in I)
      <4>1. at = IF I # {} THEN View!Min(I) ELSE 0
        BY <3>2
      <4> HIDE DEF at, J
      <4> QED BY <4>1, <1>1, Chosen
    <3>4. I \subseteq 1 .. n
      OBVIOUS
    <3> HIDE DEF J, I, at, wanted
    <3>5. at # 0 => f.attrs[at] # View!Nil
      BY <3>1, <3>3, <3>4, <1>1
    <3>6. f # View!Nil /\ f.kind = "document"
      BY <3>1, <1>1, <2>4
    <3> HIDE DEF f
    <3>7. View!FileIs(f, k) <=> I # {}
      BY <2>2, <2>3, <3>3, <3>5, <3>6
    <3> QED BY <1>2, <2>4, <3>7 DEF f
  <2>5. CASE ~doc1
    <3>1. f = View!Nil \/ f.kind # "document"
      BY <2>1, <2>5
    <3> HIDE DEF J, I, f, at, wanted
    <3>2. ~ View!FileIs(f, k)
      BY <2>2, <2>3, <3>1
    <3> QED BY <1>2, <2>5, <3>2 DEF f
  <2> QED BY <2>4, <2>5
<1>5. k \notin {"video", "audio"} => (is <=> View!UtilIs(media, k))
  <2> SUFFICES ASSUME k \notin {"video", "audio"} PROVE is <=> View!UtilIs(media, k)
    OBVIOUS
  <2> DEFINE list == View!documentAttrs(media)
             kind == CASE k \in {"audio", "voice"} -> "audio" [] k \in {"video", "video_note"} -> "video"
                       [] k = "gif" -> "animated" [] OTHER -> k
             J == {i \in 1 .. Len(list) : list[i].kind = kind}
             at == IF J # {} THEN View!Min(J) ELSE 0
  <2>1. View!UtilIs(media, k) <=> at > 0 /\ (k \in {"voice", "video_note"} => list[at].flag)
    BY DEF View!UtilIs, View!SelectInSeq
  <2>2. CASE ~doc1
    <3>1. Len(list) = 0
      BY <2>2 DEF View!documentAttrs
    <3>2. J = {}
      BY <3>1
    <3> HIDE DEF J, I, list, kind
    <3> QED BY <1>2, <2>1, <2>2, <3>2
  <2>3. CASE doc1
    <3>1. list = attrs
      BY <2>3 DEF View!documentAttrs
    <3>2. k \in {"video_note", "voice", "sticker", "gif"}
      BY DEF View!Kinds
    <3>3. ASSUME NEW i \in 1 .. n
          PROVE  View!Shows(attrs[i], k) <=> attrs[i].kind = kind /\ (k \in {"voice", "video_note"} => attrs[i].flag)
      BY <3>2 DEF View!Shows
    <3>4. J = {i \in 1 .. n : attrs[i].kind = kind}
      BY <3>1
    <3> HIDE DEF kind
    <3>5. \A i, j \in J : i = j
      <4>1. OneOfAKind(attrs)
        BY <1>1, <2>3 DEF IsMedia, OtherKinds
      <4> QED BY <4>1, <3>4, <1>1 DEF OneOfAKind
    <3>6. I = {i \in J : k \in {"voice", "video_note"} => attrs[i].flag}
      BY <3>3, <3>4
    <3>7. (at > 0 <=> J # {}) /\ (at # 0 <=> J # {}) /\ (at # 0 => at \in J)
      BY <3>4, <1>1, Chosen
    <3> HIDE DEF J, I, list, at
    <3> QED BY <1>2, <2>1, <2>3, <3>1, <3>5, <3>6, <3>7
  <2> QED BY <2>2, <2>3
<1> QED BY <1>1, <1>2, <1>3, <1>4, <1>5

\* MediaType names a kind that is shown, and "photo" for photos alone.
LEMMA MediaTypeFacts ==
  ASSUME Received, subject = "media"
  PROVE  /\ \A k \in View!Kinds : View!MediaType(msg) = k => View!hasDocumentAttr(msg, k)
         /\ View!MediaType(msg) = "photo" <=> View!IsPhoto(msg)
<1> DEFINE media == msg.media
           attrs == media.attrs
           n == Len(attrs)
           type == View!MediaType(msg)
           I == {i \in 1 .. n : \E k \in View!Kinds : View!Shows(attrs[i], k)}
           telling == IF I # {} THEN View!Min(I) ELSE 0
           shown == CHOOSE k \in View!Kinds : View!Shows(attrs[telling], k)
<1>1. /\ msg # View!Nil /\ IsMedia(media) /\ n \in Nat
      /\ View!document(msg) = IF media.kind = "document" /\ media.inner THEN media ELSE View!Nil
      /\ media # View!Nil
  BY MediaFacts
<1>2. type = CASE msg = View!Nil -> ""
               [] msg # View!Nil /\ media.kind \in DOMAIN View!OtherTypes -> View!OtherTypes[media.kind]
               [] View!IsDocument(msg) -> IF View!document(msg) = View!Nil \/ telling = 0 THEN "document" ELSE shown
               [] OTHER -> ""
  BY DEF View!MediaType, View!SelectInSeq
<1>3. "document" \notin View!Kinds /\ "photo" \notin View!Kinds /\ "" \notin View!Kinds
  BY DEF View!Kinds
<1>4. CASE media.kind \in DOMAIN View!OtherTypes
  <2>1. type = View!OtherTypes[media.kind]
    BY <1>1, <1>2, <1>4 DEF View!IsDocument, View!OtherTypes
  <2>2. View!OtherTypes[media.kind] \notin View!Kinds
    BY <1>4 DEF View!OtherTypes, View!Kinds
  <2>3. View!OtherTypes[media.kind] = "photo" <=> media.kind = "photo"
    BY <1>4 DEF View!OtherTypes
  <2> HIDE DEF type
  <2> QED BY <1>1, <2>1, <2>2, <2>3 DEF View!IsPhoto, type
<1>5. CASE media.kind = "document"
  <2>1. type = IF View!document(msg) = View!Nil \/ telling = 0 THEN "document" ELSE shown
    <3>1. View!IsDocument(msg) /\ media.kind \notin DOMAIN View!OtherTypes
      BY <1>1, <1>5 DEF View!IsDocument, View!OtherTypes
    <3> HIDE DEF type, telling, shown
    <3> QED BY <1>1, <1>2, <3>1
  <2>2. (telling # 0 => telling \in I) /\ I \subseteq 1 .. n
    BY <1>1, Chosen
  <2>3. ASSUME telling # 0 PROVE shown \in View!Kinds /\ View!Shows(attrs[telling], shown) /\ telling \in 1 .. n
    <3>1. \E k \in View!Kinds : View!Shows(attrs[telling], k)
      BY <2>2, <2>3
    <3> HIDE DEF telling
    <3> QED BY <2>2, <2>3, <3>1
  <2>4. ASSUME type \in View!Kinds PROVE View!hasDocumentAttr(msg, type)
    <3>1. View!document(msg) # View!Nil /\ telling # 0 /\ type = shown
      BY <1>3, <2>1, <2>4
    <3>2. DOMAIN attrs = 1 .. n
      BY MediaFacts
    <3> HIDE DEF type, telling, shown
    <3> QED BY <2>3, <3>1, <3>2 DEF View!hasDocumentAttr
  <2>5. type # "photo"
    <3> HIDE DEF type, telling, shown
    <3> QED BY <1>3, <2>1, <2>3
  <2>6. ~ View!IsPhoto(msg)
    BY <1>5 DEF View!IsPhoto
  <2> QED BY <2>4, <2>5, <2>6
<1>6. CASE media.kind \notin DOMAIN View!OtherTypes \cup {"document"}
  <2>1. type = ""
    BY <1>1, <1>2, <1>6 DEF View!IsDocument
  <2>2. media.kind # "photo"
    BY <1>6 DEF View!OtherTypes
  <2> QED BY <1>3, <2>1, <2>2 DEF View!IsPhoto
<1> QED BY <1>4, <1>5, <1>6

\* The name, the size and the MIME type are one, whoever is asked.
LEMMA NameFacts ==
  ASSUME Received, subject = "media"
  PROVE  /\ View!FileSize(msg) = View!GetFileSize(msg.media)
         /\ View!FileName(msg) = View!GetFileName(msg.media)
         /\ View!FileName(msg) = View!Attribute(View!NewFile(msg), {"filename"}, "")
         /\ View!NewFile(msg) # View!Nil => View!FileMimeType(View!NewFile(msg)) = View!GetMimeType(msg.media)
<1> DEFINE media == msg.media
           attrs == media.attrs
           n == Len(attrs)
           doc1 == media.kind = "document" /\ media.inner
           I == {i \in 1 .. n : attrs[i].kind = "filename"}
           named == IF I # {} THEN View!Min(I) ELSE 0
           name == IF doc1 /\ named # 0 THEN attrs[named].val ELSE ""
           f == View!NewFile(msg)
<1>1. /\ media # View!Nil /\ n \in Nat /\ DOMAIN attrs = 1 .. n
      /\ \A i \in 1 .. n : attrs[i] # View!Nil
      /\ View!document(msg) = IF doc1 THEN media ELSE View!Nil
      /\ f = IF media.kind \in {"photo", "document"} /\ media.inner THEN media ELSE View!Nil
  BY MediaFacts
<1>2. View!FileName(msg) = name
  <2>1. View!FileName(msg) = IF View!document(msg) = View!Nil \/ named = 0 THEN "" ELSE attrs[named].val
    BY DEF View!FileName, View!SelectInSeq
  <2> HIDE DEF named
  <2> QED BY <1>1, <2>1
<1>3. View!GetFileName(media) = name
  <2> DEFINE list == View!documentAttrs(media)
             J == {i \in 1 .. Len(list) : list[i].kind = "filename"}
             at == IF J # {} THEN View!Min(J) ELSE 0
  <2>1. View!GetFileName(media) = IF at = 0 THEN "" ELSE attrs[at].val
    BY DEF View!GetFileName, View!SelectInSeq
  <2>2. CASE doc1
    <3>1. list = attrs
      BY <2>2 DEF View!documentAttrs
    <3>2. at = named
      BY <3>1
    <3> HIDE DEF at, named
    <3> QED BY <2>1, <2>2, <3>2
  <2>3. CASE ~doc1
    <3>1. list = <<>>
      BY <2>3 DEF View!documentAttrs
    <3>2. J = {}
      BY <3>1
    <3> HIDE DEF J, named
    <3> QED BY <2>1, <2>3, <3>2
  <2> QED BY <2>2, <2>3
<1>4. View!Attribute(f, {"filename"}, "") = name
  <2> DEFINE wanted == {a \in View!ToSet(f.attrs) : a.kind \in {"filename"}}
             J == {i \in 1 .. Len(f.attrs) : f.attrs[i] \in wanted}
             at == IF J # {} THEN View!Min(J) ELSE 0
  <2>1. View!docAttr(f, wanted) = IF f = View!Nil \/ f.kind # "document" \/ at = 0 THEN View!Nil ELSE f.attrs[at]
    BY DEF View!docAttr, View!SelectInSeq
  <2>2. View!Attribute(f, {"filename"}, "")
          = IF f = View!Nil \/ View!docAttr(f, wanted) = View!Nil THEN "" ELSE View!docAttr(f, wanted).val
    BY DEF View!Attribute
  <2>3. CASE doc1
    <3>1. f = media
      BY <1>1, <2>3
    <3>2. J = I
      <4>1. J = {i \in 1 .. n : attrs[i] \in {a \in View!ToSet(attrs) : a.kind \in {"filename"}}}
        BY <3>1
      <4>2. View!ToSet(attrs) = {attrs[i] : i \in 1 .. n}
        BY <1>1 DEF View!ToSet
      <4> QED BY <4>1, <4>2
    <3>3. at = named
      BY <3>2
    <3>4. named # 0 => named \in 1 .. n
      BY <1>1, Chosen
    <3> HIDE DEF f, J, at, named, wanted
    <3> QED BY <1>1, <2>1, <2>2, <2>3, <3>1, <3>3, <3>4
  <2>4. CASE ~doc1
    <3>1. f = View!Nil \/ f.kind # "document"
      BY <1>1, <2>4
    <3> HIDE DEF f, J, at, named, wanted
    <3> QED BY <2>1, <2>2, <2>4, <3>1
  <2> QED BY <2>3, <2>4
<1>5. View!FileSize(msg) = View!GetFileSize(media)
  BY <1>1 DEF View!FileSize, View!GetFileSize
<1>6. f # View!Nil => View!FileMimeType(f) = View!GetMimeType(media)
  BY <1>1 DEF View!FileMimeType, View!GetMimeType
<1> HIDE DEF name
<1>7. View!FileName(msg) = View!GetFileName(media) /\ View!FileName(msg) = View!Attribute(f, {"filename"}, "")
  BY <1>2, <1>3, <1>4
<1> QED BY <1>5, <1>6, <1>7

\* The first conjunct of ViewsAgree: a kind, a name, a size or a MIME type is
\* one, whether the message, its file or the helpers of utils.go say it.
LEMMA MediaViews == Received => MediaViewsAgree
<1> SUFFICES ASSUME Received, subject = "media" PROVE MediaViewsAgree
  BY DEF MediaViewsAgree
<1>1. View!GetInputMedia(msg.media) # View!Nil /\ msg.media.inner /\ msg.media.kind \notin {"empty", "unsupported"}
        => View!GetInputMedia(msg.media).id = msg.media.id
  BY DEF View!GetInputMedia
<1>2. \A k \in View!Kinds :
        LET is == View!hasDocumentAttr(msg, k)
        IN  /\ is <=> View!documentByAttr(msg, k) # View!Nil
            /\ is <=> View!FileIs(View!NewFile(msg), k)
            /\ k \notin {"video", "audio"} => (is <=> View!UtilIs(msg.media, k))
            /\ View!MediaType(msg) = k => is
  BY ShownBy, MediaTypeFacts
<1> QED BY <1>1, <1>2, MediaTypeFacts, NameFacts DEF MediaViewsAgree

-----------------------------------------------------------------------------
(* Lists that are joined. *)

\* What joins the lists exists: it is extended by one list at a time.
LEMMA JoinExists ==
  ASSUME NEW S, NEW seqs \in Seq(Seq(S)), Len(seqs) # 0
  PROVE  \E f : f = [i \in 1 .. Len(seqs) |-> IF i = 1 THEN seqs[i] ELSE f[i - 1] \o seqs[i]]
<1> DEFINE n == Len(seqs)
           Joins(f, m) == /\ f \in [1 .. m -> Seq(S)]
                          /\ \A i \in 1 .. m : f[i] = IF i = 1 THEN seqs[i] ELSE f[i - 1] \o seqs[i]
           G == {m \in 1 .. n : \E f : Joins(f, m)}
<1>1. n \in Nat /\ n >= 1 /\ \A i \in 1 .. n : seqs[i] \in Seq(S)
  BY LenProperties, ElementOfSeq
<1>2. 1 \in G
  <2> DEFINE f == [i \in 1 .. 1 |-> seqs[i]]
  <2>1. f \in [1 .. 1 -> Seq(S)]
    BY <1>1
  <2>2. f[1] = seqs[1]
    OBVIOUS
  <2> HIDE DEF f
  <2>3. Joins(f, 1)
    BY <2>1, <2>2
  <2> HIDE DEF Joins
  <2> QED BY <1>1, <2>3
<1>3. ASSUME NEW m \in 1 .. n, m < n, m \in G PROVE m + 1 \in G
  <2>1. PICK f : Joins(f, m)
    BY <1>3
  <2> DEFINE g == [i \in 1 .. m + 1 |-> IF i <= m THEN f[i] ELSE f[m] \o seqs[i]]
  <2>2. m \in 1 .. m /\ m + 1 \in 1 .. n
    BY <1>1, <1>3
  <2>3. f \in [1 .. m -> Seq(S)] /\ f[m] \in Seq(S)
    BY <2>1, <2>2
  <2>4. f[m] \o seqs[m + 1] \in Seq(S)
    BY <1>1, <2>2, <2>3, ConcatProperties
  <2>5. g \in [1 .. m + 1 -> Seq(S)]
    BY <2>2, <2>3, <2>4
  <2>6. ASSUME NEW i \in 1 .. m + 1 PROVE g[i] = IF i = 1 THEN seqs[i] ELSE g[i - 1] \o seqs[i]
    <3>1. CASE i <= m
      <4>1. i \in 1 .. m
        BY <3>1, <2>2
      <4>2. g[i] = f[i] /\ (i # 1 => g[i - 1] = f[i - 1])
        BY <4>1
      <4>3. f[i] = IF i = 1 THEN seqs[i] ELSE f[i - 1] \o seqs[i]
        BY <2>1, <4>1
      <4> HIDE DEF g
      <4> QED BY <4>2, <4>3
    <3>2. CASE i = m + 1
      <4>1. i - 1 = m /\ m \in 1 .. m + 1 /\ m <= m /\ ~ (i <= m) /\ i # 1
        BY <3>2, <2>2
      <4>2. g[i] = f[m] \o seqs[i]
        BY <4>1
      <4>3. g[i - 1] = f[m]
        BY <4>1
      <4> HIDE DEF g
      <4> QED BY <4>1, <4>2, <4>3
    <3> QED BY <3>1, <3>2, <2>2
  <2> HIDE DEF g
  <2>7. Joins(g, m + 1)
    BY <2>5, <2>6
  <2> HIDE DEF Joins
  <2> QED BY <2>2, <2>7
<1>4. n \in G
  <2> HIDE DEF G
  <2>1. \A i \in 1 .. n : i \in G
    BY <1>1, <1>2, <1>3, UpTo
  <2> QED BY <1>1, <2>1
<1>5. PICK f : Joins(f, n)
  BY <1>4
<1>6. f = [i \in 1 .. n |-> IF i = 1 THEN seqs[i] ELSE f[i - 1] \o seqs[i]]
  BY <1>5
<1> QED BY <1>6

\* FlattenSeq is the last of the joins.
LEMMA Joined ==
  ASSUME NEW S, NEW seqs \in Seq(Seq(S)), Len(seqs) # 0
  PROVE  \E f \in [1 .. Len(seqs) -> Seq(S)] :
            /\ f[1] = seqs[1]
            /\ \A i \in 2 .. Len(seqs) : f[i] = f[i - 1] \o seqs[i]
            /\ View!FlattenSeq(seqs) = f[Len(seqs)]
<1> DEFINE n == Len(seqs)
           Joins(f) == f = [i \in 1 .. n |-> IF i = 1 THEN seqs[i] ELSE f[i - 1] \o seqs[i]]
           flatten == CHOOSE f : Joins(f)
<1>1. n \in Nat /\ n >= 1 /\ \A i \in 1 .. n : seqs[i] \in Seq(S)
  BY LenProperties, ElementOfSeq
<1>2. View!FlattenSeq(seqs) = flatten[n]
  BY DEF View!FlattenSeq
<1>3. Joins(flatten)
  <2>1. \E f : Joins(f)
    BY JoinExists
  <2> HIDE DEF Joins
  <2> QED BY <2>1
<1> HIDE DEF flatten
<1>4. \A i \in 1 .. n : flatten[i] = IF i = 1 THEN seqs[i] ELSE flatten[i - 1] \o seqs[i]
  BY <1>3
<1>5. flatten[1] = seqs[1] /\ \A i \in 2 .. n : flatten[i] = flatten[i - 1] \o seqs[i]
  <2>1. ASSUME NEW i \in 2 .. n PROVE flatten[i] = flatten[i - 1] \o seqs[i]
    <3>1. i \in 1 .. n /\ i # 1
      BY <1>1
    <3> QED BY <1>4, <3>1
  <2>2. 1 \in 1 .. n
    BY <1>1
  <2>3. flatten[1] = seqs[1]
    BY <1>4, <2>2
  <2> QED BY <2>1, <2>3
<1>6. \A i \in 1 .. n : flatten[i] \in Seq(S)
  <2> DEFINE T == {i \in 1 .. n : flatten[i] \in Seq(S)}
  <2>1. 1 \in T
    BY <1>1, <1>5
  <2>2. ASSUME NEW i \in 1 .. n, i < n, i \in T PROVE i + 1 \in T
    <3>1. i + 1 \in 2 .. n /\ (i + 1) - 1 = i
      BY <1>1, <2>2
    <3>2. flatten[i + 1] = flatten[i] \o seqs[i + 1]
      BY <1>5, <3>1
    <3>3. flatten[i] \in Seq(S) /\ seqs[i + 1] \in Seq(S)
      BY <1>1, <2>2, <3>1
    <3>4. flatten[i + 1] \in Seq(S)
      BY <3>2, <3>3, ConcatProperties
    <3> QED BY <1>1, <3>1, <3>4
  <2> HIDE DEF T
  <2>3. \A i \in 1 .. n : i \in T
    BY <1>1, <2>1, <2>2, UpTo
  <2> QED BY <2>3 DEF T
<1>7. flatten \in [1 .. n -> Seq(S)]
  <2>1. DOMAIN flatten = 1 .. n /\ flatten = [i \in 1 .. n |-> flatten[i]]
    BY <1>3
  <2> QED BY <1>6, <2>1
<1> HIDE DEF n
<1> QED BY <1>2, <1>5, <1>7 DEF n

\* Lists of one element each are joined to the list of their elements.
LEMMA JoinedSingles ==
  ASSUME NEW S, NEW n \in Nat, NEW x \in [1 .. n -> S], NEW seqs,
         seqs = [i \in 1 .. n |-> << x[i] >>]
  PROVE  View!FlattenSeq(seqs) = x
<1>1. seqs \in [1 .. n -> Seq(S)]
  OBVIOUS
<1>2. seqs \in Seq(Seq(S))
  BY <1>1, SeqDef
<1>3. Len(seqs) = n
  <2>1. DOMAIN seqs = 1 .. Len(seqs) /\ Len(seqs) \in Nat /\ DOMAIN seqs = 1 .. n
    BY <1>1, <1>2, LenProperties
  <2> QED BY <2>1
<1>4. CASE n = 0
  <2>1. View!FlattenSeq(seqs) = seqs
    BY <1>3, <1>4 DEF View!FlattenSeq
  <2>2. DOMAIN seqs = {} /\ DOMAIN x = {}
    BY <1>1, <1>4
  <2>3. seqs = [i \in {} |-> seqs[i]] /\ x = [i \in {} |-> x[i]]
    BY <1>1, <2>2
  <2>4. seqs = x
    BY <2>3
  <2> QED BY <2>1, <2>4
<1>5. CASE n # 0
  <2>0. \E f \in [1 .. Len(seqs) -> Seq(S)] :
               /\ f[1] = seqs[1]
               /\ \A i \in 2 .. Len(seqs) : f[i] = f[i - 1] \o seqs[i]
               /\ View!FlattenSeq(seqs) = f[Len(seqs)]
    <3>1. Len(seqs) # 0
      BY <1>3, <1>5
    <3> QED BY <1>2, <3>1, Joined
  <2>1. PICK f \in [1 .. n -> Seq(S)] :
               /\ f[1] = seqs[1]
               /\ \A i \in 2 .. n : f[i] = f[i - 1] \o seqs[i]
               /\ View!FlattenSeq(seqs) = f[n]
    BY <2>0, <1>3
  <2> DEFINE T == {i \in 1 .. n : Len(f[i]) = i /\ \A j \in 1 .. i : f[i][j] = x[j]}
  <2>2. 1 \in T
    <3>1. f[1] = << x[1] >> /\ 1 \in 1 .. n
      BY <1>5, <2>1
    <3>2. Len(<< x[1] >>) = 1 /\ << x[1] >>[1] = x[1]
      OBVIOUS
    <3>3. Len(f[1]) = 1 /\ f[1][1] = x[1]
      BY <3>1, <3>2
    <3> QED BY <3>1, <3>3
  <2>3. ASSUME NEW i \in 1 .. n, i < n, i \in T PROVE i + 1 \in T
    <3>1. i + 1 \in 2 .. n /\ i + 1 \in 1 .. n /\ (i + 1) - 1 = i /\ i \in Nat
      BY <2>3
    <3>2. f[i + 1] = f[i] \o << x[i + 1] >> /\ f[i] \in Seq(S) /\ x[i + 1] \in S
      BY <2>1, <3>1
    <3>3. << x[i + 1] >> \in Seq(S) /\ Len(<< x[i + 1] >>) = 1 /\ << x[i + 1] >>[1] = x[i + 1]
      BY <3>2
    <3>4. Len(f[i]) = i /\ \A j \in 1 .. i : f[i][j] = x[j]
      BY <2>3
    <3>5. /\ Len(f[i + 1]) = i + 1
          /\ \A j \in 1 .. i + 1 : f[i + 1][j] = IF j <= i THEN f[i][j] ELSE << x[i + 1] >>[j - i]
      BY <3>1, <3>2, <3>3, <3>4, ConcatProperties
    <3>6. ASSUME NEW j \in 1 .. i + 1 PROVE f[i + 1][j] = x[j]
      <4>1. CASE j <= i
        BY <3>1, <3>4, <3>5, <4>1
      <4>2. CASE j = i + 1
        <5>1. j - i = 1 /\ ~ (j <= i)
          BY <3>1, <4>2
        <5> QED BY <3>3, <3>5, <4>2, <5>1
      <4> QED BY <3>1, <4>1, <4>2
    <3> QED BY <3>1, <3>5, <3>6
  <2>4. n \in T
    <3> HIDE DEF T
    <3>1. \A i \in 1 .. n : i \in T
      BY <2>2, <2>3, UpTo
    <3> QED BY <1>5, <3>1
  <2>5. f[n] \in Seq(S) /\ Len(f[n]) = n /\ \A j \in 1 .. n : f[n][j] = x[j]
    BY <1>5, <2>4
  <2>6. PICK g : g = f[n]
    OBVIOUS
  <2>7. g \in [1 .. n -> S] /\ \A j \in 1 .. n : g[j] = x[j]
    BY <2>5, <2>6, LenProperties
  <2>8. f[n] = x
    BY <2>6, <2>7
  <2> QED BY <2>1, <2>8
<1> QED BY <1>4, <1>5

\* Every element of a list that is joined is in the join, at some place.
LEMMA JoinedHas ==
  ASSUME NEW S, NEW seqs \in Seq(Seq(S)), NEW r \in 1 .. Len(seqs), NEW c \in 1 .. Len(seqs[r])
  PROVE  /\ View!FlattenSeq(seqs) \in Seq(S)
         /\ \E k \in 1 .. Len(View!FlattenSeq(seqs)) : View!FlattenSeq(seqs)[k] = seqs[r][c]
<1> DEFINE n == Len(seqs)
<1>1. n \in Nat /\ n # 0 /\ r \in Nat /\ r <= n
  BY LenProperties
<1>2. PICK f \in [1 .. n -> Seq(S)] :
             /\ f[1] = seqs[1]
             /\ \A i \in 2 .. n : f[i] = f[i - 1] \o seqs[i]
             /\ View!FlattenSeq(seqs) = f[n]
  BY <1>1, Joined
<1> DEFINE T == {i \in 1 .. n : r <= i => \E k \in 1 .. Len(f[i]) : f[i][k] = seqs[r][c]}
<1>3. 1 \in T
  <2>1. r <= 1 => r = 1
    BY <1>1
  <2> QED BY <1>1, <1>2, <2>1
<1>4. ASSUME NEW i \in 1 .. n, i < n, i \in T PROVE i + 1 \in T
  <2>1. i + 1 \in 2 .. n /\ i + 1 \in 1 .. n /\ (i + 1) - 1 = i /\ i \in Nat
    BY <1>1, <1>4
  <2>2. f[i + 1] = f[i] \o seqs[i + 1] /\ f[i] \in Seq(S) /\ seqs[i + 1] \in Seq(S)
    BY <1>2, <2>1, ElementOfSeq
  <2> DEFINE a == Len(f[i])
             b == Len(seqs[i + 1])
  <2>3. /\ a \in Nat /\ b \in Nat /\ Len(f[i + 1]) = a + b
        /\ \A k \in 1 .. a + b : f[i + 1][k] = IF k <= a THEN f[i][k] ELSE seqs[i + 1][k - a]
    BY <2>2, LenProperties, ConcatProperties
  <2>4. CASE r <= i
    <3>1. PICK k \in 1 .. a : f[i][k] = seqs[r][c]
      BY <1>4, <2>4
    <3>2. k \in 1 .. a + b /\ k <= a
      BY <2>3
    <3>3. f[i + 1][k] = seqs[r][c]
      BY <2>3, <3>1, <3>2
    <3> QED BY <2>1, <2>3, <3>2, <3>3
  <2>5. CASE r = i + 1
    <3>1. c \in 1 .. b /\ c \in Nat
      BY <2>5
    <3> HIDE DEF a, b
    <3>2. a + c \in 1 .. a + b /\ ~ (a + c <= a) /\ (a + c) - a = c
      BY <2>3, <3>1
    <3>3. f[i + 1][a + c] = seqs[r][c]
      BY <2>3, <2>5, <3>2
    <3> QED BY <2>1, <2>3, <3>2, <3>3 DEF a, b
  <2>6. CASE i + 1 < r
    <3>1. ~ (r <= i + 1)
      BY <1>1, <2>1, <2>6
    <3> QED BY <2>1, <3>1
  <2> QED BY <1>1, <2>1, <2>4, <2>5, <2>6
<1>5. n \in T
  <2> HIDE DEF T
  <2>1. \A i \in 1 .. n : i \in T
    BY <1>1, <1>3, <1>4, UpTo
  <2> QED BY <1>1, <2>1
<1>6. f[n] \in Seq(S) /\ \E k \in 1 .. Len(f[n]) : f[n][k] = seqs[r][c]
  BY <1>1, <1>2, <1>5
<1> QED BY <1>2, <1>6

-----------------------------------------------------------------------------
(* The buttons of a message. *)

\* What is appended to a list is a suffix of the whole.
LEMMA AppendedIsSuffix ==
  ASSUME NEW S, NEW p \in Seq(S), NEW s \in Seq(S)
  PROVE  IsSuffix(s, p \o s)
<1> DEFINE a == Len(p)
           b == Len(s)
           t == p \o s
           u == [i \in 1 .. b |-> s[(b - i) + 1]]
           v == [i \in 1 .. Len(t) |-> t[(Len(t) - i) + 1]]
<1>1. /\ a \in Nat /\ b \in Nat /\ Len(t) = a + b /\ t \in Seq(S)
      /\ \A i \in 1 .. a + b : t[i] = IF i <= a THEN p[i] ELSE s[i - a]
  BY LenProperties, ConcatProperties
<1>2. Reverse(s) = u /\ Reverse(t) = v
  BY DEF Reverse
<1>3. u \in [1 .. b -> S] /\ v \in [1 .. Len(t) -> S]
  <2>1. \A i \in 1 .. b : (b - i) + 1 \in 1 .. b
    BY <1>1
  <2>2. \A i \in 1 .. Len(t) : (Len(t) - i) + 1 \in 1 .. Len(t)
    BY <1>1
  <2>3. (\A i \in 1 .. b : s[i] \in S) /\ (\A i \in 1 .. Len(t) : t[i] \in S)
    BY <1>1, ElementOfSeq
  <2> HIDE DEF t, b
  <2> QED BY <2>1, <2>2, <2>3
<1>4. /\ u \in Seq(S) /\ v \in Seq(S) /\ Len(u) = b /\ Len(v) = a + b
  <2>1. u \in Seq(S) /\ v \in Seq(S)
    BY <1>1, <1>3, SeqDef
  <2>2. DOMAIN u = 1 .. b /\ DOMAIN v = 1 .. Len(t)
    OBVIOUS
  <2> HIDE DEF u, v
  <2>3. DOMAIN u = 1 .. Len(u) /\ DOMAIN v = 1 .. Len(v) /\ Len(u) \in Nat /\ Len(v) \in Nat
    BY <2>1, LenProperties
  <2> QED BY <1>1, <2>1, <2>2, <2>3
<1>5. ASSUME NEW i \in 1 .. b PROVE u[i] = v[i]
  <2>1. (Len(t) - i) + 1 \in 1 .. a + b /\ i \in 1 .. Len(t)
    BY <1>1
  <2>2. v[i] = t[(Len(t) - i) + 1]
    BY <2>1
  <2>3. ~ ((Len(t) - i) + 1 <= a) /\ ((Len(t) - i) + 1) - a = (b - i) + 1
    BY <1>1
  <2>4. t[(Len(t) - i) + 1] = s[(b - i) + 1]
    BY <1>1, <2>1, <2>3
  <2>5. u[i] = s[(b - i) + 1]
    OBVIOUS
  <2> QED BY <2>2, <2>4, <2>5
<1> HIDE DEF u, v, t, a, b
<1>6. (\A i \in 1 .. b : u[i] \in S) /\ (\A i \in 1 .. b : v[i] \in S)
  BY <1>1, <1>3
<1>7. /\ SubSeq(u, 1, b) \in Seq(S) /\ SubSeq(v, 1, b) \in Seq(S)
      /\ Len(SubSeq(u, 1, b)) = b /\ Len(SubSeq(v, 1, b)) = b
      /\ \A i \in 1 .. b : SubSeq(u, 1, b)[i] = u[i] /\ SubSeq(v, 1, b)[i] = v[i]
  <2>1. 1 \in Int /\ b \in Int /\ (b - 1) + 1 = b /\ (IF 1 <= b THEN (b - 1) + 1 ELSE 0) = b
    BY <1>1
  <2>2. \A i \in 1 .. b : (1 + i) - 1 = i
    OBVIOUS
  <2> QED BY <1>6, <2>1, <2>2, SubSeqProperties
<1>8. SubSeq(u, 1, b) = SubSeq(v, 1, b)
  BY <1>5, <1>7, SeqEqual
<1> QED BY <1>1, <1>2, <1>4, <1>8 DEF IsSuffix, IsPrefix, t

\* What is read of a button that was sent.
Read(b) ==
  [text |-> View!Prefix[b.style] \o b.text,
   data |-> IF b.url = "" /\ b.query = View!NoQuery THEN b.data ELSE "",
   url |-> b.url]

\* The keyboard button that a button is sent as is read as one button.
LEMMA ButtonRead ==
  ASSUME NEW b
  PROVE  View!parseButton(View!ToTL(b)) = << Read(b) >>
<1>0. PICK text : text = View!Prefix[b.style] \o b.text
  OBVIOUS
<1>1. CASE b.url # ""
  <2>1. View!ToTL(b) = [kind |-> "url", text |-> text, url |-> b.url, data |-> ""]
    BY <1>0, <1>1 DEF View!ToTL
  <2>2. View!parseButton(View!ToTL(b)) = << [text |-> text, data |-> "", url |-> b.url] >>
    <3>1. PICK k : k = View!ToTL(b)
      OBVIOUS
    <3>0. k = [kind |-> "url", text |-> text, url |-> b.url, data |-> ""]
      BY <2>1, <3>1
    <3>2. k.kind = "url" /\ k.text = text /\ k.url = b.url /\ k.data = ""
      BY <3>0
    <3>3. View!parseButton(k) = << [text |-> k.text, data |-> "", url |-> k.url] >>
      BY <3>2 DEF View!parseButton
    <3> QED BY <3>1, <3>2, <3>3
  <2>3. Read(b) = [text |-> text, data |-> "", url |-> b.url]
    BY <1>0, <1>1 DEF Read
  <2> QED BY <2>2, <2>3
<1>2. CASE b.url = "" /\ b.query # View!NoQuery
  <2>1. View!ToTL(b) = [kind |-> "switch", text |-> text, url |-> "", data |-> ""]
    BY <1>0, <1>2 DEF View!ToTL
  <2>2. View!parseButton(View!ToTL(b)) = << [text |-> text, data |-> "", url |-> ""] >>
    <3>1. PICK k : k = View!ToTL(b)
      OBVIOUS
    <3>0. k = [kind |-> "switch", text |-> text, url |-> "", data |-> ""]
      BY <2>1, <3>1
    <3>2. k.kind = "switch" /\ k.text = text /\ k.url = "" /\ k.data = ""
      BY <3>0
    <3>3. View!parseButton(k) = << [text |-> k.text, data |-> "", url |-> ""] >>
      BY <3>2 DEF View!parseButton
    <3> QED BY <3>1, <3>2, <3>3
  <2>3. Read(b) = [text |-> text, data |-> "", url |-> ""]
    BY <1>0, <1>2 DEF Read
  <2> QED BY <2>2, <2>3
<1>3. CASE b.url = "" /\ b.query = View!NoQuery
  <2>1. View!ToTL(b) = [kind |-> "callback", text |-> text, url |-> "", data |-> b.data]
    BY <1>0, <1>3 DEF View!ToTL
  <2>2. View!parseButton(View!ToTL(b)) = << [text |-> text, data |-> b.data, url |-> ""] >>
    <3>1. PICK k : k = View!ToTL(b)
      OBVIOUS
    <3>0. k = [kind |-> "callback", text |-> text, url |-> "", data |-> b.data]
      BY <2>1, <3>1
    <3>2. k.kind = "callback" /\ k.text = text /\ k.url = "" /\ k.data = b.data
      BY <3>0
    <3>3. View!parseButton(k) = << [text |-> k.text, data |-> k.data, url |-> ""] >>
      BY <3>2 DEF View!parseButton
    <3> QED BY <3>1, <3>2, <3>3
  <2>3. Read(b) = [text |-> text, data |-> b.data, url |-> ""]
    BY <1>0, <1>3 DEF Read
  <2> QED BY <2>2, <2>3
<1> QED BY <1>1, <1>2, <1>3

\* The grid that is read has a button for every button that was sent.
LEMMA GridRead ==
  ASSUME Received, subject = "buttons"
  PROVE  View!Buttons([markup |-> View!BuildMarkup(msg.sent)])
           = [r \in DOMAIN msg.sent |-> [c \in DOMAIN msg.sent[r] |-> Read(msg.sent[r][c])]]
<1> DEFINE sent == msg.sent
           received == [markup |-> View!BuildMarkup(sent)]
           rows == [r \in DOMAIN sent |-> [c \in DOMAIN sent[r] |-> View!ToTL(sent[r][c])]]
<1>1. received # View!Nil
  BY DEF View!Nil
<1>2. View!BuildMarkup(sent) = [kind |-> "inline", rows |-> rows]
  BY DEF View!BuildMarkup
<1>3. View!Buttons(received) = View!ParseMarkup([kind |-> "inline", rows |-> rows])
  BY <1>1, <1>2 DEF View!Buttons
<1>4. View!ParseMarkup([kind |-> "inline", rows |-> rows])
        = [r \in DOMAIN rows |-> View!FlattenSeq([c \in DOMAIN rows[r] |-> View!parseButton(rows[r][c])])]
  <2> HIDE DEF rows
  <2> QED BY DEF View!ParseMarkup
<1>5. ASSUME NEW r \in DOMAIN sent
      PROVE  View!FlattenSeq([c \in DOMAIN rows[r] |-> View!parseButton(rows[r][c])])
               = [c \in DOMAIN sent[r] |-> Read(sent[r][c])]
  <2> DEFINE n == Len(sent[r])
             x == [c \in 1 .. n |-> Read(sent[r][c])]
             S == {Read(sent[r][c]) : c \in 1 .. n}
             seqs == [c \in 1 .. n |-> << x[c] >>]
  <2>1. IsList(sent[r])
    BY DEF Received, IsGrid
  <2>2. n \in Nat /\ DOMAIN sent[r] = 1 .. n
    BY <2>1 DEF IsList
  <2>3. x \in [1 .. n -> S]
    OBVIOUS
  <2>4. [c \in DOMAIN rows[r] |-> View!parseButton(rows[r][c])] = seqs
    <3>1. rows[r] = [c \in 1 .. n |-> View!ToTL(sent[r][c])]
      BY <2>2
    <3>2. DOMAIN rows[r] = 1 .. n /\ \A c \in 1 .. n : View!parseButton(rows[r][c]) = << x[c] >>
      BY <3>1, ButtonRead
    <3> HIDE DEF rows, x
    <3> QED BY <3>2
  <2>5. View!FlattenSeq(seqs) = x
    <3> HIDE DEF x, S, n
    <3> QED BY <2>2, <2>3, JoinedSingles
  <2>6. x = [c \in DOMAIN sent[r] |-> Read(sent[r][c])]
    BY <2>2
  <2> QED BY <2>4, <2>5, <2>6
<1>6. DOMAIN rows = DOMAIN sent
  OBVIOUS
<1> HIDE DEF rows
<1> QED BY <1>3, <1>4, <1>5, <1>6

\* The second conjunct of ViewsAgree: a button is read where it was written, and
\* a search for the data of a callback finds one that carries it.
LEMMA ButtonsStay == Received => ButtonsStayInPlace
<1> SUFFICES ASSUME Received, subject = "buttons" PROVE ButtonsStayInPlace
  BY DEF ButtonsStayInPlace
<1> DEFINE sent == msg.sent
           received == [markup |-> View!BuildMarkup(sent)]
           grid == View!Buttons(received)
           S == UNION {{Read(sent[r][c]) : c \in DOMAIN sent[r]} : r \in DOMAIN sent}
<1>1. grid = [r \in DOMAIN sent |-> [c \in DOMAIN sent[r] |-> Read(sent[r][c])]]
  BY GridRead
<1>2. /\ Len(sent) \in Nat /\ DOMAIN sent = 1 .. Len(sent)
      /\ \A r \in DOMAIN sent : Len(sent[r]) \in Nat /\ DOMAIN sent[r] = 1 .. Len(sent[r])
      /\ \A r \in DOMAIN sent : \A c \in DOMAIN sent[r] : IsButton(sent[r][c])
  <2>1. IsGrid(sent)
    BY DEF Received
  <2> HIDE DEF sent
  <2>2. IsList(sent) /\ \A r \in DOMAIN sent : IsList(sent[r]) /\ \A c \in DOMAIN sent[r] : IsButton(sent[r][c])
    BY <2>1 DEF IsGrid
  <2> QED BY <2>2 DEF IsList
<1>3. /\ DOMAIN grid = DOMAIN sent
      /\ \A r \in DOMAIN sent : DOMAIN grid[r] = DOMAIN sent[r] /\ \A c \in DOMAIN sent[r] : grid[r][c] = Read(sent[r][c])
  BY <1>1
<1>4. \A b : Read(b) # View!Nil
  <2>1. "url" \in DOMAIN Read(0) /\ DOMAIN View!Nil = {"kind"}
    BY DEF Read, View!Nil
  <2>2. \A b : DOMAIN Read(b) = {"text", "data", "url"}
    BY DEF Read
  <2> QED BY <2>1, <2>2
<1>f. /\ \A b : Read(b).text = View!Prefix[b.style] \o b.text /\ Read(b).url = b.url
      /\ \A b : b.url = "" /\ b.query = View!NoQuery => Read(b).data = b.data
  BY DEF Read
<1>5. ASSUME NEW r \in 0 .. Len(sent),
             NEW c \in 0 .. (IF r = Len(sent) THEN 0 ELSE Len(sent[r + 1]))
      PROVE  LET b == View!GetButton(received, r, c)
                 written == r + 1 \in DOMAIN sent /\ c + 1 \in 1 .. Len(sent[r + 1])
             IN  /\ written <=> b # View!Nil
                 /\ written => IsSuffix(sent[r + 1][c + 1].text, b.text) /\ b.url = sent[r + 1][c + 1].url
  <2> DEFINE b == View!GetButton(received, r, c)
             written == r + 1 \in DOMAIN sent /\ c + 1 \in 1 .. Len(sent[r + 1])
  <2>1. b = IF r + 1 \in DOMAIN grid THEN IF c + 1 \in DOMAIN grid[r + 1] THEN grid[r + 1][c + 1] ELSE View!Nil
            ELSE View!Nil
    BY DEF View!GetButton
  <2> HIDE DEF b, grid
  <2>2. written => b = Read(sent[r + 1][c + 1])
    BY <1>2, <1>3, <2>1
  <2>3. ~ written => b = View!Nil
    BY <1>2, <1>3, <2>1
  <2>4. ASSUME written PROVE IsSuffix(sent[r + 1][c + 1].text, b.text) /\ b.url = sent[r + 1][c + 1].url
    <3>1. PICK w : w = sent[r + 1][c + 1]
      OBVIOUS
    <3>2. IsButton(w)
      BY <1>2, <2>4, <3>1
    <3>3. b.text = View!Prefix[w.style] \o w.text /\ b.url = w.url
      BY <1>f, <2>2, <2>4, <3>1
    <3>4. IsList(w.text) /\ w.style \in {"primary", "success", "danger", "default"}
      BY <3>2 DEF IsButton, View!Prefix
    <3> DEFINE E == {"blue", "check", "red"} \cup {w.text[i] : i \in 1 .. Len(w.text)}
    <3>5. View!Prefix[w.style] \in Seq(E)
      <4>1. View!Prefix[w.style] \in {<<"blue">>, <<"check">>, <<"red">>, <<>>}
        BY <3>4 DEF View!Prefix
      <4>2. {"blue", "check", "red"} \subseteq E
        OBVIOUS
      <4> HIDE DEF E
      <4>3. <<"blue">> \in Seq(E) /\ <<"check">> \in Seq(E) /\ <<"red">> \in Seq(E) /\ <<>> \in Seq(E)
        BY <4>2
      <4> QED BY <4>1, <4>3
    <3>6. w.text \in Seq(E)
      <4>1. Len(w.text) \in Nat /\ w.text = [i \in 1 .. Len(w.text) |-> w.text[i]]
        BY <3>4 DEF IsList
      <4>2. w.text \in [1 .. Len(w.text) -> E]
        BY <4>1
      <4> HIDE DEF E
      <4> QED BY <4>1, <4>2, SeqDef
    <3>7. IsSuffix(w.text, View!Prefix[w.style] \o w.text)
      <4> HIDE DEF E
      <4> QED BY <3>5, <3>6, AppendedIsSuffix
    <3> HIDE DEF written
    <3> QED BY <3>1, <3>3, <3>7
  <2> HIDE DEF written
  <2>5. (written <=> b # View!Nil) /\ (written => IsSuffix(sent[r + 1][c + 1].text, b.text) /\ b.url = sent[r + 1][c + 1].url)
    BY <1>4, <2>2, <2>3, <2>4
  <2> QED BY <2>5 DEF b, written
<1>6. ASSUME NEW r \in DOMAIN sent, NEW c \in DOMAIN sent[r],
             sent[r][c].url = "", sent[r][c].query = View!NoQuery, sent[r][c].data # ""
      PROVE  LET found == View!GetButtonByData(received, sent[r][c].data)
             IN  found # View!Nil /\ found.url = "" /\ found.data = sent[r][c].data
  <2> DEFINE data == sent[r][c].data
             all == View!FlattenSeq(grid)
             I == {i \in 1 .. Len(all) : all[i].data = data}
             at == IF I # {} THEN View!Min(I) ELSE 0
             found == View!GetButtonByData(received, data)
  <2>1. found = IF at = 0 THEN View!Nil ELSE all[at]
    BY DEF View!GetButtonByData, View!SelectInSeq
  <2>2. grid \in Seq(Seq(S)) /\ Len(grid) = Len(sent)
    <3>1. ASSUME NEW q \in DOMAIN sent PROVE grid[q] \in Seq(S)
      <4>1. grid[q] = [k \in DOMAIN sent[q] |-> Read(sent[q][k])]
        BY <1>1
      <4>2. \A k \in DOMAIN sent[q] : Read(sent[q][k]) \in S
        OBVIOUS
      <4> HIDE DEF S, grid
      <4>3. grid[q] \in [1 .. Len(sent[q]) -> S] /\ Len(sent[q]) \in Nat
        BY <1>2, <4>1, <4>2
      <4> QED BY <4>3, IsAList
    <3> HIDE DEF S
    <3>2. grid \in [1 .. Len(sent) -> Seq(S)]
      <4>1. grid = [q \in DOMAIN sent |-> grid[q]]
        BY <1>1
      <4> HIDE DEF grid
      <4> QED BY <1>2, <3>1, <4>1
    <3> HIDE DEF grid
    <3> QED BY <1>2, <3>2, IsAList
  <2>3. ASSUME NEW b \in S PROVE b # View!Nil /\ (b.data # "" => b.url = "")
    <3>1. PICK w : b = Read(w)
      OBVIOUS
    <3> QED BY <1>4, <3>1 DEF Read
  <2>4. r \in 1 .. Len(grid) /\ c \in 1 .. Len(grid[r])
    <3>1. r \in 1 .. Len(grid)
      BY <1>2, <2>2
    <3>2. grid[r] \in Seq(S) /\ DOMAIN grid[r] = DOMAIN sent[r]
      BY <1>3, <2>2, <3>1, ElementOfSeq
    <3> HIDE DEF grid, S
    <3> QED BY <3>1, <3>2, LenProperties
  <2>5. grid[r][c].data = data
    <3>1. grid[r][c] = Read(sent[r][c])
      BY <1>3
    <3> HIDE DEF grid
    <3> QED BY <1>6, <1>f, <3>1
  <2> HIDE DEF grid, S, sent
  <2>6. all \in Seq(S) /\ \E k \in 1 .. Len(all) : all[k] = grid[r][c]
    BY <2>2, <2>4, JoinedHas
  <2> HIDE DEF all
  <2>7. I # {}
    BY <2>5, <2>6
  <2>8. at \in I
    <3>1. Len(all) \in Nat
      BY <2>6, LenProperties
    <3> QED BY <2>7, <3>1, Chosen
  <2>9. at \in 1 .. Len(all) /\ all[at].data = data
    BY <2>8
  <2> HIDE DEF at
  <2>10. found = all[at] /\ all[at] \in S
    <3>1. at # 0
      BY <2>9
    <3> QED BY <2>1, <2>6, <2>9, <3>1, ElementOfSeq
  <2>11. found # View!Nil /\ found.url = "" /\ found.data = data
    <3> HIDE DEF found
    <3> QED BY <1>6, <2>3, <2>9, <2>10
  <2> QED BY <2>11
<1> HIDE DEF received, sent
<1> QED BY <1>5, <1>6 DEF ButtonsStayInPlace, received, sent

-----------------------------------------------------------------------------
(* The download to memory. *)

\* The chunk at an offset, and what is left after it.
LEMMA ChunkFacts ==
  ASSUME NEW S, NEW file \in Seq(S), NEW limit \in Nat \ {0}, NEW o \in 0 .. Len(file)
  PROVE  LET chunk == Media!UploadGetFile(file, o, limit)
             rest(p) == SubSeq(file, p + 1, Len(file))
         IN  /\ Len(chunk) \in 0 .. limit
             /\ Len(chunk) < limit => chunk = rest(o)
             /\ ~ (Len(chunk) < limit) => /\ o + Len(chunk) \in 0 .. Len(file) /\ o < o + Len(chunk)
                                          /\ chunk \o rest(o + Len(chunk)) = rest(o)
<1> DEFINE n == Len(file)
           end == IF o + limit < n THEN o + limit ELSE n
           chunk == Media!UploadGetFile(file, o, limit)
<1>1. n \in Nat /\ o \in Nat /\ o <= n /\ limit \in Nat /\ limit >= 1
  BY LenProperties
<1>2. end \in Nat /\ o <= end /\ end <= n /\ end - o <= limit /\ (end - o < limit => end = n)
      /\ (~ (end - o < limit) => end = o + limit)
  BY <1>1
<1>3. chunk = SubSeq(file, o + 1, end)
  BY DEF Media!UploadGetFile
<1> HIDE DEF end, chunk
<1>4. Len(chunk) = end - o
  <2>1. \A i \in o + 1 .. end : file[i] \in S
    BY <1>1, <1>2, ElementOfSeq
  <2>2. Len(chunk) = IF o + 1 <= end THEN (end - (o + 1)) + 1 ELSE 0
    BY <1>1, <1>2, <1>3, <2>1, SubSeqProperties
  <2> QED BY <1>1, <1>2, <2>2
<1>5. ASSUME ~ (Len(chunk) < limit) PROVE chunk \o SubSeq(file, (o + Len(chunk)) + 1, n) = SubSeq(file, o + 1, n)
  <2>1. o + Len(chunk) = end /\ end = o + limit
    BY <1>1, <1>2, <1>4, <1>5
  <2>2. o + 1 \in 1 .. n + 1 /\ end \in o .. n
    BY <1>1, <1>2
  <2> QED BY <1>1, <1>2, <1>3, <2>1, <2>2, ConcatAdjacentSubSeq
<1>6. Len(chunk) < limit => chunk = SubSeq(file, o + 1, n)
  BY <1>1, <1>2, <1>3, <1>4
<1> QED BY <1>1, <1>2, <1>4, <1>5, <1>6 DEF chunk

\* The last conjunct of MediaMovesWhole: the chunks, from any offset, are the
\* rest of the file, and from the start all of it.
LEMMA MemoryWhole == Received => MemoryIsWhole
<1> SUFFICES ASSUME Received, subject = "memory", NEW limit \in 1 .. Len(doc.text) + 1
             PROVE  Media!downloadToMemory(doc.text, limit) = doc.text
  BY DEF MemoryIsWhole
<1>0. PICK file : file = doc.text
  OBVIOUS
<1> DEFINE n == Len(file)
           chunk(o) == Media!UploadGetFile(file, o, limit)
           rest(o) == SubSeq(file, o + 1, n)
           Reads(g) == g = [o \in 0 .. n |-> IF Len(chunk(o)) < limit THEN chunk(o) ELSE chunk(o) \o g[o + Len(chunk(o))]]
           From == CHOOSE g : Reads(g)
           S == {file[i] : i \in 1 .. n}
<1>1. n \in Nat /\ file \in Seq(S)
  <2>1. IsList(file)
    BY <1>0 DEF Received
  <2>2. n \in Nat /\ file = [i \in 1 .. n |-> file[i]]
    BY <2>1 DEF IsList
  <2>3. file \in [1 .. n -> S]
    BY <2>2
  <2> HIDE DEF S
  <2> QED BY <2>2, <2>3, SeqDef
<1>2. Media!downloadToMemory(file, limit) = From[0]
  BY DEF Media!downloadToMemory
<1> HIDE DEF S
<1>3. ASSUME NEW o \in 0 .. n
      PROVE  /\ Len(chunk(o)) \in 0 .. limit
             /\ Len(chunk(o)) < limit => chunk(o) = rest(o)
             /\ ~ (Len(chunk(o)) < limit) => /\ o + Len(chunk(o)) \in 0 .. n /\ o < o + Len(chunk(o))
                                             /\ chunk(o) \o rest(o + Len(chunk(o))) = rest(o)
  BY <1>1, ChunkFacts
<1> HIDE DEF chunk, rest
<1>4. \E g : Reads(g)
  <2> DEFINE g == [o \in 0 .. n |-> rest(o)]
  <2>1. \A o \in 0 .. n : g[o] = rest(o)
    OBVIOUS
  <2>2. DOMAIN g = 0 .. n /\ g = [o \in 0 .. n |-> g[o]]
    OBVIOUS
  <2> HIDE DEF g
  <2>3. ASSUME NEW o \in 0 .. n
        PROVE  g[o] = IF Len(chunk(o)) < limit THEN chunk(o) ELSE chunk(o) \o g[o + Len(chunk(o))]
    <3>1. CASE Len(chunk(o)) < limit
      BY <1>3, <2>1, <3>1
    <3>2. CASE ~ (Len(chunk(o)) < limit)
      <4>1. g[o + Len(chunk(o))] = rest(o + Len(chunk(o)))
        BY <1>3, <2>1, <3>2
      <4> QED BY <1>3, <2>1, <3>2, <4>1
    <3> QED BY <3>1, <3>2
  <2>4. Reads(g)
    BY <2>2, <2>3
  <2> HIDE DEF Reads
  <2> QED BY <2>4
<1>5. Reads(From)
  <2> HIDE DEF Reads
  <2> QED BY <1>4
<1> HIDE DEF From
<1>6. \A o \in 0 .. n : From[o] = IF Len(chunk(o)) < limit THEN chunk(o) ELSE chunk(o) \o From[o + Len(chunk(o))]
  BY <1>5
<1> DEFINE Bad == {k \in 0 .. n : From[n - k] # rest(n - k)}
<1>7. ASSUME Bad # {} PROVE FALSE
  <2>1. PICK k \in Bad : \A j \in Bad : k <= j
    <3>1. Bad \in SUBSET Nat
      OBVIOUS
    <3> HIDE DEF Bad
    <3> QED BY <1>7, <3>1, Least
  <2>2. PICK o : o = n - k
    OBVIOUS
  <2>3. o \in 0 .. n /\ From[o] # rest(o) /\ k = n - o
    BY <1>1, <2>1, <2>2
  <2>4. PICK l : l = Len(chunk(o))
    OBVIOUS
  <2>5. ~ (l < limit) /\ o + l \in 0 .. n /\ o < o + l /\ chunk(o) \o rest(o + l) = rest(o)
        /\ From[o] = chunk(o) \o From[o + l]
    BY <1>3, <1>6, <2>3, <2>4
  <2>6. n - (o + l) \in 0 .. n /\ ~ (k <= n - (o + l)) /\ n - (n - (o + l)) = o + l
    BY <1>1, <2>3, <2>5
  <2>7. From[o + l] = rest(o + l)
    BY <2>1, <2>6
  <2> QED BY <2>3, <2>5, <2>7
<1>8. From[0] = rest(0)
  <2>1. n \in 0 .. n /\ n - n = 0
    BY <1>1
  <2>2. n \notin Bad
    BY <1>7
  <2> QED BY <2>1, <2>2
<1>9. rest(0) = file
  <2>1. 0 + 1 = 1
    OBVIOUS
  <2> QED BY <1>1, <2>1, SubSeqFull DEF rest
<1> QED BY <1>0, <1>2, <1>8, <1>9

-----------------------------------------------------------------------------
(* What is downloaded and what is sent. *)

\* A location without its thumbnail and its size names the object alone.
LEMMA Unsized ==
  ASSUME NEW loc, DOMAIN loc = {"of", "id", "thumb", "size"}
  PROVE  [loc EXCEPT !.thumb = 0, !.size = 0] = [of |-> loc.of, id |-> loc.id, thumb |-> 0, size |-> 0]
<1>1. PICK h : h = [loc EXCEPT !.thumb = 0]
  OBVIOUS
<1>2. DOMAIN h = {"of", "id", "thumb", "size"} /\ h.of = loc.of /\ h.id = loc.id /\ h.thumb = 0
  BY <1>1
<1>3. [loc EXCEPT !.thumb = 0, !.size = 0] = [h EXCEPT !.size = 0]
  BY <1>1
<1> QED BY <1>2, <1>3

\* The middle conjunct of MediaMovesWhole: every download names the object of
\* the message, and announces the size that it asks for.
LEMMA Downloads == Received => DownloadsAgree
<1> SUFFICES ASSUME Received, subject = "media" PROVE DownloadsAgree
  BY DEF DownloadsAgree
<1>0. PICK media : media = msg.media
  OBVIOUS
<1>1. PICK f : f = View!NewFile(msg)
  OBVIOUS
<1> DEFINE n == Len(media.attrs)
           Loc(thumb) == Media!MediaLocation(media, thumb)
           pick(thumb) == Media!pickPhotoThumb(media.attrs, thumb)
           got == Media!GetDocumentInputLocation(media)
           No == Media!NoLocation
           doc1 == media.kind = "document" /\ media.inner
           photo1 == media.kind = "photo" /\ media.inner
           Of(of, id, thumb, size) == [of |-> of, id |-> id, thumb |-> thumb, size |-> size]
<1>2. /\ media # View!Nil /\ n \in Nat /\ DOMAIN media.attrs = 1 .. n
      /\ f = IF doc1 \/ photo1 THEN media ELSE View!Nil
      /\ View!document(msg) = IF doc1 THEN media ELSE View!Nil
  BY <1>0, <1>1, MediaFacts
<1>3. \A thumb : Loc(thumb) = IF photo1 THEN Of("photo", media.id, pick(thumb), pick(thumb))
                              ELSE IF doc1 THEN Of("document", media.id, 0, media.size) ELSE No
  BY DEF Media!MediaLocation, Media!Location
<1>4. No = Of("none", 0, 0, 0)
  BY DEF Media!NoLocation
<1>5. ASSUME NEW thumb \in -1 .. n
      PROVE  /\ Loc(thumb) # No <=> f # View!Nil
             /\ f # View!Nil => Loc(thumb).id = f.id
             /\ IsPhotoFile(f) => /\ thumb + 1 \in DOMAIN media.attrs /\ media.attrs[thumb + 1].kind \in {"size", "progressive"}
                                       => Loc(thumb).thumb = f.attrs[thumb + 1].val
                                  /\ Loc(thumb).size = Loc(thumb).thumb
  <2>1. CASE photo1
    <3>1. PICK l : l = Loc(thumb)
      OBVIOUS
    <3>2. PICK p : p = pick(thumb)
      OBVIOUS
    <3>3. l = Of("photo", media.id, p, p)
      BY <1>3, <2>1, <3>1, <3>2
    <3>4. l # No /\ l.id = media.id /\ l.thumb = p /\ l.size = p
      BY <3>3, <1>4
    <3>5. f = media
      BY <1>2, <2>1
    <3>6. ASSUME thumb + 1 \in DOMAIN media.attrs, media.attrs[thumb + 1].kind \in {"size", "progressive"}
          PROVE  p = media.attrs[thumb + 1].val
      <4>1. media.attrs # <<>> /\ ~ (thumb < 0) /\ ~ (thumb >= n)
        <5>1. n # 0 /\ thumb + 1 \in 1 .. n
          BY <1>2, <3>6
        <5> QED BY <1>2, <5>1
      <4> QED BY <3>2, <3>6, <4>1 DEF Media!pickPhotoThumb
    <3> QED BY <1>2, <3>1, <3>4, <3>5, <3>6
  <2>2. CASE doc1
    <3>1. PICK l : l = Loc(thumb)
      OBVIOUS
    <3>2. l = Of("document", media.id, 0, media.size)
      BY <1>3, <2>2, <3>1
    <3>3. l # No /\ l.id = media.id
      BY <3>2, <1>4
    <3>4. f = media /\ ~ IsPhotoFile(f)
      BY <1>2, <2>2 DEF IsPhotoFile
    <3> QED BY <1>2, <3>1, <3>3, <3>4
  <2>3. CASE ~ photo1 /\ ~ doc1
    <3>1. Loc(thumb) = No /\ f = View!Nil
      BY <1>2, <1>3, <2>3
    <3> HIDE DEF Loc, No
    <3> QED BY <3>1 DEF IsPhotoFile
  <2> QED BY <2>1, <2>2, <2>3
<1>6. doc1 => got = Of("document", media.id, 0, media.size)
  BY DEF Media!GetDocumentInputLocation, Media!Location
<1>7. photo1 /\ media.attrs # <<>> =>
        got = Of("photo", media.id, -1, IF media.attrs[n].kind = "size" THEN media.attrs[n].val ELSE 0)
  BY DEF Media!GetDocumentInputLocation, Media!Location
<1>8. ~ doc1 /\ ~ (photo1 /\ media.attrs # <<>>) => got = No
  BY DEF Media!GetDocumentInputLocation
<1> HIDE DEF got, Loc, pick
<1>9. got # No => [got EXCEPT !.thumb = 0, !.size = 0] = [Loc(-1) EXCEPT !.thumb = 0, !.size = 0]
  <2>1. CASE doc1
    <3>1. Loc(-1) = got
      BY <1>3, <1>6, <2>1
    <3> QED BY <3>1
  <2>2. CASE photo1 /\ media.attrs # <<>>
    <3>1. PICK g, l, p, s : g = got /\ l = Loc(-1) /\ p = pick(-1) /\ s = IF media.attrs[n].kind = "size" THEN media.attrs[n].val ELSE 0
      OBVIOUS
    <3>2. g = Of("photo", media.id, -1, s) /\ l = Of("photo", media.id, p, p)
      BY <1>3, <1>7, <2>2, <3>1
    <3>3. DOMAIN g = {"of", "id", "thumb", "size"} /\ DOMAIN l = {"of", "id", "thumb", "size"}
          /\ g.of = l.of /\ g.id = l.id
      BY <3>2
    <3>4. [g EXCEPT !.thumb = 0, !.size = 0] = [l EXCEPT !.thumb = 0, !.size = 0]
      <4>1. [g EXCEPT !.thumb = 0, !.size = 0] = [of |-> g.of, id |-> g.id, thumb |-> 0, size |-> 0]
        BY <3>3, Unsized
      <4>2. [l EXCEPT !.thumb = 0, !.size = 0] = [of |-> l.of, id |-> l.id, thumb |-> 0, size |-> 0]
        BY <3>3, Unsized
      <4> QED BY <3>3, <4>1, <4>2
    <3> QED BY <3>1, <3>4
  <2> QED BY <1>8, <2>1, <2>2
<1>10. media.kind = "document" => got = Loc(-1) /\ got.size = View!FileSize(msg)
  <2>1. CASE doc1
    <3>1. Loc(-1) = got
      BY <1>3, <1>6, <2>1
    <3>2. View!FileSize(msg) = media.size
      BY <1>0, <1>2, <2>1 DEF View!FileSize
    <3>3. PICK g : g = got
      OBVIOUS
    <3>4. g = Of("document", media.id, 0, media.size)
      BY <1>6, <2>1, <3>3
    <3>5. g.size = media.size
      BY <3>4
    <3> QED BY <3>1, <3>2, <3>3, <3>5
  <2>2. CASE media.kind = "document" /\ ~ doc1
    <3>1. got = No /\ Loc(-1) = No
      BY <1>3, <1>8, <2>2
    <3>2. View!FileSize(msg) = 0
      BY <1>2, <2>2 DEF View!FileSize
    <3>3. No.size = 0
      BY <1>4
    <3> QED BY <3>1, <3>2, <3>3
  <2> QED BY <2>1, <2>2
<1>11. ASSUME IsPhotoFile(f), f.attrs # <<>>, Last(f.attrs).kind = "size"
       PROVE  Loc(-1).thumb = View!InputFile(f).thumb /\ got.size = Loc(-1).size
  <2>1. f = media /\ photo1
    BY <1>2, <1>11 DEF IsPhotoFile
  <2>2. PICK s : s = media.attrs[n]
    OBVIOUS
  <2>3. s.kind = "size"
    BY <1>11, <2>1, <2>2 DEF Last
  <2>4. pick(-1) = s.val
    BY <1>11, <2>1, <2>2, <2>3 DEF pick, Media!pickPhotoThumb
  <2>5. PICK l : l = Loc(-1)
    OBVIOUS
  <2>6. l = Of("photo", media.id, s.val, s.val)
    BY <1>3, <2>1, <2>4, <2>5
  <2>7. PICK g : g = got
    OBVIOUS
  <2>8. g = Of("photo", media.id, -1, s.val)
    BY <1>7, <1>11, <2>1, <2>2, <2>3, <2>7
  <2>9. l.thumb = s.val /\ l.size = s.val
    BY <2>6
  <2>10. g.size = s.val
    BY <2>8
  <2>11. PICK i : i = View!InputFile(f)
    OBVIOUS
  <2>12. i = [id |-> f.id, thumb |-> s.val]
    <3>1. View!Last(f.attrs) = s
      BY <2>1, <2>2 DEF View!Last
    <3>2. f.attrs # <<>> /\ f.kind = "photo" /\ f # View!Nil
      BY <1>2, <1>11, <2>1
    <3> QED BY <2>3, <2>11, <3>1, <3>2 DEF View!InputFile
  <2>13. i.thumb = s.val
    BY <2>12
  <2> QED BY <2>5, <2>7, <2>9, <2>10, <2>11, <2>13
<1>12. media.kind = "photo" => Media!ProfilePhotoLocation(1, <<media>>).thumb = Loc(-1).thumb
  <2>1. ASSUME photo1 PROVE Media!ProfilePhotoLocation(1, <<media>>).thumb = Loc(-1).thumb
    <3>1. Media!ProfilePhotoLocation(1, <<media>>) = Of("photo", media.id, pick(-1), 0)
      BY <2>1 DEF Media!ProfilePhotoLocation, Media!Location, pick
    <3>2. Loc(-1) = Of("photo", media.id, pick(-1), pick(-1))
      BY <1>3, <2>1
    <3>3. PICK a, l : a = Media!ProfilePhotoLocation(1, <<media>>) /\ l = Loc(-1)
      OBVIOUS
    <3>4. a = Of("photo", media.id, pick(-1), 0) /\ l = Of("photo", media.id, pick(-1), pick(-1))
      BY <3>1, <3>2, <3>3
    <3>5. a.thumb = l.thumb
      BY <3>4
    <3> QED BY <3>3, <3>5
  <2>2. ASSUME media.kind = "photo", ~ photo1 PROVE Media!ProfilePhotoLocation(1, <<media>>).thumb = Loc(-1).thumb
    <3>1. Media!ProfilePhotoLocation(1, <<media>>) = No
      BY <2>2 DEF Media!ProfilePhotoLocation
    <3>2. Loc(-1) = No
      BY <1>3, <2>2
    <3> HIDE DEF No
    <3> QED BY <3>1, <3>2
  <2> QED BY <2>1, <2>2
<1> HIDE DEF No
<1> QED BY <1>0, <1>1, <1>5, <1>9, <1>10, <1>11, <1>12 DEF DownloadsAgree, Loc, got, No

\* The attributes of a file that is sent: its name first, then what was asked for.
AsAsked(attrs, audio, voice, video, round) ==
  /\ Len(attrs) \in Nat /\ DOMAIN attrs = 1 .. Len(attrs) /\ 1 \in DOMAIN attrs
  /\ attrs[1].kind = "filename" /\ attrs[1].val = "n"
  /\ (\E i \in DOMAIN attrs : View!Shows(attrs[i], "voice")) <=> voice
  /\ (\E i \in DOMAIN attrs : View!Shows(attrs[i], "audio")) <=> audio /\ ~ voice
  /\ (\E i \in DOMAIN attrs : View!Shows(attrs[i], "video")) <=> video /\ ~ round
  /\ (\E i \in DOMAIN attrs : View!Shows(attrs[i], "video_note")) <=> video /\ round

\* GetAttributes lists what was asked for.
LEMMA AskedFor ==
  ASSUME NEW audio \in BOOLEAN, NEW voice \in BOOLEAN, NEW video \in BOOLEAN, NEW round \in BOOLEAN
  PROVE  AsAsked(View!GetAttributes("n", audio, voice, video, round), audio, voice, video, round)
<1>0. PICK attrs : attrs = View!GetAttributes("n", audio, voice, video, round)
  OBVIOUS
<1>1. PICK a, b, c : /\ a = [kind |-> "filename", flag |-> FALSE, val |-> "n"]
                     /\ b = [kind |-> "audio", flag |-> voice, val |-> 0]
                     /\ c = [kind |-> "video", flag |-> round, val |-> 0]
  OBVIOUS
<1>2. PICK s2, s3 : /\ s2 = (IF audio \/ voice THEN <<b>> ELSE <<>>)
                    /\ s3 = (IF video THEN <<c>> ELSE <<>>)
  OBVIOUS
<1>3. attrs = (<<a>> \o s2) \o s3
  BY <1>0, <1>1, <1>2 DEF View!GetAttributes
<1> DEFINE S == {a, b, c}
<1>4. <<a>> \in Seq(S) /\ s2 \in Seq(S) /\ s3 \in Seq(S)
  <2>1. <<a>> \in Seq(S) /\ <<b>> \in Seq(S) /\ <<c>> \in Seq(S) /\ <<>> \in Seq(S)
    OBVIOUS
  <2> HIDE DEF S
  <2> QED BY <1>2, <2>1
<1>5. Len(<<a>>) = 1 /\ <<a>>[1] = a
  OBVIOUS
<1>6. PICK s1 : s1 = <<a>>
  OBVIOUS
<1>7. /\ s2 = <<b>> => Len(s2) = 1 /\ s2[1] = b
      /\ s3 = <<c>> => Len(s3) = 1 /\ s3[1] = c
      /\ s2 = <<>> => Len(s2) = 0
      /\ s3 = <<>> => Len(s3) = 0
  OBVIOUS
<1>8. /\ audio \/ voice => Len(s2) = 1 /\ s2[1] = b
      /\ ~ (audio \/ voice) => Len(s2) = 0
      /\ video => Len(s3) = 1 /\ s3[1] = c
      /\ ~ video => Len(s3) = 0
  BY <1>2, <1>7
<1> HIDE DEF S
<1>9. PICK u : u = s1 \o s2
  OBVIOUS
<1>10. /\ u \in Seq(S) /\ Len(u) = 1 + Len(s2)
       /\ \A i \in 1 .. 1 + Len(s2) : u[i] = IF i <= 1 THEN s1[i] ELSE s2[i - 1]
  BY <1>4, <1>5, <1>6, <1>9, ConcatProperties
<1>11. /\ attrs \in Seq(S) /\ Len(attrs) = Len(u) + Len(s3)
       /\ \A i \in 1 .. Len(u) + Len(s3) : attrs[i] = IF i <= Len(u) THEN u[i] ELSE s3[i - Len(u)]
  <2>1. attrs = u \o s3
    BY <1>3, <1>6, <1>9
  <2> QED BY <1>4, <1>10, <2>1, ConcatProperties
<1>12. DOMAIN attrs = 1 .. Len(attrs) /\ Len(attrs) \in Nat
  BY <1>11, LenProperties
<1>13. u[1] = a /\ attrs[1] = a /\ 1 \in DOMAIN attrs
  <2>1. Len(s2) \in Nat /\ Len(s3) \in Nat
    BY <1>8
  <2>2. 1 \in 1 .. 1 + Len(s2) /\ 1 <= 1 /\ 1 \in 1 .. Len(u) + Len(s3) /\ 1 <= Len(u)
    BY <1>10, <2>1
  <2>3. u[1] = a
    BY <1>5, <1>6, <1>10, <2>2
  <2> QED BY <1>11, <1>12, <2>2, <2>3
<1>14. ASSUME NEW i \in DOMAIN attrs PROVE attrs[i] = a \/ (attrs[i] = b /\ (audio \/ voice)) \/ (attrs[i] = c /\ video)
  <2>1. i \in 1 .. Len(u) + Len(s3)
    BY <1>11, <1>12
  <2>2. CASE i <= Len(u)
    <3>1. i \in 1 .. 1 + Len(s2) /\ attrs[i] = u[i]
      BY <1>8, <1>10, <1>11, <2>1, <2>2
    <3>2. CASE i = 1
      BY <1>13, <3>1, <3>2
    <3>3. CASE i # 1
      <4>0. audio \/ voice
        <5>1. Len(s2) # 0
          BY <3>1, <3>3
        <5> QED BY <1>8, <5>1
      <4>1. Len(s2) = 1
        BY <1>8, <4>0
      <4>b. i = 2
        BY <3>1, <3>3, <4>1
      <4>2. u[i] = s2[1] /\ s2[1] = b
        BY <1>8, <1>10, <3>1, <4>0, <4>1, <4>b
      <4> QED BY <3>1, <4>0, <4>2
    <3> QED BY <3>2, <3>3
  <2>3. CASE ~ (i <= Len(u))
    <3>a. Len(u) \in Nat
      BY <1>10, LenProperties
    <3>b. video
      <4>1. Len(s3) # 0
        BY <2>1, <2>3, <3>a
      <4> QED BY <1>8, <4>1
    <3>c. Len(s3) = 1
      BY <1>8, <3>b
    <3>d. i - Len(u) = 1
      BY <2>1, <2>3, <3>a, <3>c
    <3>1. Len(s3) = 1 /\ video /\ i - Len(u) = 1
      BY <3>b, <3>c, <3>d
    <3>2. attrs[i] = s3[1] /\ s3[1] = c
      BY <1>8, <1>11, <2>1, <2>3, <3>1
    <3> QED BY <3>1, <3>2
  <2> QED BY <2>2, <2>3
<1>15. ASSUME audio \/ voice PROVE \E i \in DOMAIN attrs : attrs[i] = b
  <2>1. Len(s2) = 1 /\ s2[1] = b /\ Len(s3) \in Nat /\ Len(u) = 2
    BY <1>8, <1>10, <1>15
  <2>2. 2 \in 1 .. 1 + Len(s2) /\ 2 \in 1 .. Len(u) + Len(s3) /\ 2 <= Len(u) /\ ~ (2 <= 1) /\ 2 - 1 = 1
    BY <2>1
  <2>3. u[2] = b
    BY <1>10, <2>1, <2>2
  <2>4. attrs[2] = b /\ 2 \in DOMAIN attrs
    BY <1>11, <1>12, <2>2, <2>3
  <2> QED BY <2>4
<1>16. ASSUME video PROVE \E i \in DOMAIN attrs : attrs[i] = c
  <2>1. Len(s3) = 1 /\ s3[1] = c /\ Len(u) \in Nat
    BY <1>8, <1>10, <1>16
  <2> DEFINE i == Len(u) + 1
  <2>2. i \in 1 .. Len(u) + Len(s3) /\ ~ (i <= Len(u)) /\ i - Len(u) = 1
    BY <2>1
  <2>3. attrs[i] = c /\ i \in DOMAIN attrs
    BY <1>11, <1>12, <2>1, <2>2
  <2> QED BY <2>3
<1>17. /\ a.kind = "filename" /\ a.val = "n"
       /\ b.kind = "audio" /\ b.flag = voice
       /\ c.kind = "video" /\ c.flag = round
  BY <1>1
<1>18. /\ ~ View!Shows(a, "voice") /\ ~ View!Shows(a, "audio") /\ ~ View!Shows(a, "video") /\ ~ View!Shows(a, "video_note")
       /\ View!Shows(b, "voice") <=> voice
       /\ View!Shows(b, "audio") <=> ~ voice
       /\ ~ View!Shows(b, "video") /\ ~ View!Shows(b, "video_note")
       /\ View!Shows(c, "video") <=> ~ round
       /\ View!Shows(c, "video_note") <=> round
       /\ ~ View!Shows(c, "voice") /\ ~ View!Shows(c, "audio")
  BY <1>17 DEF View!Shows
<1>19. /\ (\E i \in DOMAIN attrs : View!Shows(attrs[i], "voice")) <=> voice
       /\ (\E i \in DOMAIN attrs : View!Shows(attrs[i], "audio")) <=> audio /\ ~ voice
       /\ (\E i \in DOMAIN attrs : View!Shows(attrs[i], "video")) <=> video /\ ~ round
       /\ (\E i \in DOMAIN attrs : View!Shows(attrs[i], "video_note")) <=> video /\ round
  BY <1>14, <1>15, <1>16, <1>18
<1>20. AsAsked(attrs, audio, voice, video, round)
  BY <1>12, <1>13, <1>17, <1>19 DEF AsAsked
<1> QED BY <1>0, <1>20

\* The first conjunct of SentAsAsked: a file is sent as what was asked for, with its name.
LEMMA SentAs == AttributesAsAsked
<1> SUFFICES ASSUME NEW audio \in BOOLEAN, NEW voice \in BOOLEAN, NEW video \in BOOLEAN, NEW round \in BOOLEAN
             PROVE  LET sent == [media |-> [kind |-> "document", inner |-> TRUE, size |-> 1, mime |-> "", id |-> 1,
                                            attrs |-> View!GetAttributes("n", audio, voice, video, round)]]
                        Is(k) == View!hasDocumentAttr(sent, k)
                    IN  /\ Is("voice") <=> voice
                        /\ Is("audio") <=> audio /\ ~voice
                        /\ Is("video") <=> video /\ ~round
                        /\ Is("video_note") <=> video /\ round
                        /\ View!FileName(sent) = "n"
  BY DEF AttributesAsAsked
<1>1. PICK attrs : attrs = View!GetAttributes("n", audio, voice, video, round)
  OBVIOUS
<1>a. AsAsked(attrs, audio, voice, video, round)
  BY <1>1, AskedFor
<1>2. PICK media : media = [kind |-> "document", inner |-> TRUE, size |-> 1, mime |-> "", id |-> 1, attrs |-> attrs]
  OBVIOUS
<1>3. PICK sent : sent = [media |-> media]
  OBVIOUS
<1>4. sent.media = media /\ media.attrs = attrs /\ media.kind = "document" /\ media.inner = TRUE
  BY <1>2, <1>3
<1>5. sent # View!Nil /\ media # View!Nil
  <2>1. DOMAIN View!Nil = {"kind"}
    BY DEF View!Nil
  <2>2. DOMAIN sent = {"media"} /\ "inner" \in DOMAIN media
    BY <1>2, <1>3
  <2> QED BY <2>1, <2>2
<1>6. View!document(sent) = media /\ View!document(sent) # View!Nil
  BY <1>4, <1>5 DEF View!document, View!IsDocument
<1>7. \A k : View!hasDocumentAttr(sent, k) <=> \E i \in DOMAIN attrs : View!Shows(attrs[i], k)
  BY <1>4, <1>6 DEF View!hasDocumentAttr
<1>8. View!FileName(sent) = "n"
  <2> DEFINE I == {i \in 1 .. Len(attrs) : attrs[i].kind = "filename"}
             named == IF I # {} THEN View!Min(I) ELSE 0
  <2>1. Len(attrs) \in Nat /\ 1 \in 1 .. Len(attrs) /\ attrs[1].kind = "filename" /\ attrs[1].val = "n"
    BY <1>a DEF AsAsked
  <2>2. 1 \in I
    BY <2>1
  <2>3. named \in I /\ named <= 1
    BY <2>1, <2>2, Chosen
  <2>4. named = 1
    BY <2>3
  <2>5. View!FileName(sent) = IF View!document(sent) = View!Nil \/ named = 0 THEN "" ELSE attrs[named].val
    BY <1>4 DEF View!FileName, View!SelectInSeq
  <2> HIDE DEF named
  <2> QED BY <1>6, <2>1, <2>4, <2>5
<1>9. /\ View!hasDocumentAttr(sent, "voice") <=> voice
      /\ View!hasDocumentAttr(sent, "audio") <=> audio /\ ~voice
      /\ View!hasDocumentAttr(sent, "video") <=> video /\ ~round
      /\ View!hasDocumentAttr(sent, "video_note") <=> video /\ round
  BY <1>7, <1>a DEF AsAsked
<1> QED BY <1>1, <1>2, <1>3, <1>8, <1>9

\* The second conjunct of SentAsAsked: where the full sizes ascend, the last one,
\* which is asked for, is the largest.
LEMMA Thumbnail ==
  ASSUME Received, subject = "media"
  PROVE  ThumbnailIsLargest
<1>1. PICK f : f = View!NewFile(msg)
  OBVIOUS
<1>2. PICK attrs : attrs = f.attrs
  OBVIOUS
<1> DEFINE n == Len(attrs)
<1>3. SUFFICES ASSUME IsPhotoFile(f),
                      \A i \in DOMAIN attrs : attrs[i].kind = "size" /\ (i > 1 => attrs[i - 1].val <= attrs[i].val)
               PROVE  View!InputFile(f).thumb = View!Extent(f)
  BY <1>1, <1>2 DEF ThumbnailIsLargest
<1>4. f = msg.media /\ f # View!Nil /\ f.kind = "photo" /\ n \in Nat /\ DOMAIN attrs = 1 .. n
  BY <1>1, <1>2, <1>3, MediaFacts DEF IsPhotoFile
<1>5. \A i \in 1 .. n : attrs[i].val \in Nat
  <2>1. IsMedia(f)
    BY <1>4, MediaFacts
  <2>2. "photo" \notin OtherKinds
    BY DEF OtherKinds
  <2> QED BY <1>2, <1>4, <2>1, <2>2 DEF IsMedia
<1> DEFINE V == {0} \cup {attrs[i].val : i \in {j \in DOMAIN attrs : attrs[j].kind = "size"}}
<1>6. View!Extent(f) = View!Max(V)
  BY <1>2, <1>4 DEF View!Extent
<1>7. V = {0} \cup {attrs[i].val : i \in 1 .. n}
  BY <1>3, <1>4
<1> HIDE DEF V
<1>8. ASSUME NEW x \in V, \A y \in V : x >= y PROVE View!Max(V) = x
  <2>1. View!Max(V) = CHOOSE z \in V : \A y \in V : z >= y
    BY DEF View!Max
  <2>2. View!Max(V) \in V /\ \A y \in V : View!Max(V) >= y
    BY <1>8, <2>1
  <2>3. V \subseteq Nat
    BY <1>5, <1>7
  <2>4. View!Max(V) >= x /\ x >= View!Max(V) /\ x \in Nat /\ View!Max(V) \in Nat
    BY <1>8, <2>2, <2>3
  <2> QED BY <2>4
<1>9. PICK thumb : thumb = IF attrs # <<>> THEN attrs[n].val ELSE 0
  OBVIOUS
<1>10. View!InputFile(f).thumb = thumb
  <2>1. attrs # <<>> => attrs[n].kind = "size"
    <3>1. attrs # <<>> => n \in 1 .. n
      BY <1>4
    <3> QED BY <1>3, <1>4, <3>1
  <2>2. View!Last(f.attrs) = attrs[n]
    BY <1>2 DEF View!Last
  <2>3. PICK i : i = View!InputFile(f)
    OBVIOUS
  <2>4. i = [id |-> f.id, thumb |-> thumb]
    BY <1>2, <1>4, <1>9, <2>1, <2>2, <2>3 DEF View!InputFile
  <2>5. i.thumb = thumb
    BY <2>4
  <2> QED BY <2>3, <2>5
<1>11. CASE n = 0
  <2>1. attrs = <<>>
    BY <1>4, <1>11
  <2>2. V = {0} /\ thumb = 0
    BY <1>7, <1>9, <1>11, <2>1
  <2>3. View!Max(V) = 0
    BY <1>8, <2>2
  <2> QED BY <1>6, <1>10, <2>2, <2>3
<1>12. CASE n # 0
  <2>1. attrs # <<>> /\ n \in 1 .. n
    BY <1>4, <1>12
  <2> DEFINE T == {j \in 1 .. n : \A i \in 1 .. j : attrs[i].val <= attrs[j].val}
  <2>2. 1 \in T
    <3>1. 1 \in 1 .. n /\ attrs[1].val \in Nat
      BY <1>4, <1>5, <1>12
    <3>2. \A i \in 1 .. 1 : i = 1
      OBVIOUS
    <3>3. \A i \in 1 .. 1 : attrs[i].val <= attrs[1].val
      BY <3>1, <3>2
    <3> QED BY <3>1, <3>3
  <2>3. ASSUME NEW j \in 1 .. n, j < n, j \in T PROVE j + 1 \in T
    <3>1. j + 1 \in 1 .. n /\ j + 1 > 1 /\ (j + 1) - 1 = j
      BY <1>4, <2>3
    <3>2. attrs[j].val <= attrs[j + 1].val
      BY <1>3, <1>4, <3>1
    <3>3. ASSUME NEW i \in 1 .. j + 1 PROVE attrs[i].val <= attrs[j + 1].val
      <4>1. CASE i = j + 1
        BY <1>5, <3>1, <4>1
      <4>2. CASE i \in 1 .. j
        <5>1. attrs[i].val <= attrs[j].val
          BY <2>3, <4>2
        <5>2. i \in 1 .. n
          BY <1>4, <4>2
        <5>3. attrs[i].val \in Nat /\ attrs[j].val \in Nat /\ attrs[j + 1].val \in Nat
          BY <1>5, <3>1, <5>2
        <5> QED BY <3>2, <5>1, <5>3
      <4> QED BY <4>1, <4>2
    <3> QED BY <3>1, <3>3
  <2>4. n \in T
    <3> HIDE DEF T
    <3>1. \A j \in 1 .. n : j \in T
      BY <1>4, <2>2, <2>3, UpTo
    <3> QED BY <2>1, <3>1
  <2>5. thumb = attrs[n].val /\ thumb \in Nat
    BY <1>5, <1>9, <2>1
  <2>6. thumb \in V
    BY <1>7, <2>1, <2>5
  <2>7. ASSUME NEW y \in V PROVE thumb >= y
    <3>1. CASE y = 0
      BY <2>5, <3>1
    <3>2. CASE y # 0
      <4>1. PICK i \in 1 .. n : y = attrs[i].val
        BY <1>7, <3>2
      <4>2. attrs[i].val <= attrs[n].val /\ attrs[i].val \in Nat
        BY <1>5, <2>4
      <4> QED BY <2>5, <4>1, <4>2
    <3> QED BY <3>1, <3>2
  <2>8. View!Max(V) = thumb
    BY <1>8, <2>6, <2>7
  <2> QED BY <1>6, <1>10, <2>8
<1> QED BY <1>11, <1>12

\* What lists of two, of one and of no element hold.
LEMMA ShortLists ==
  ASSUME NEW s
  PROVE  /\ \A a, b : s = <<a, b>> => DOMAIN s = {1, 2} /\ s[1] = a /\ s[2] = b
         /\ \A a : s = <<a>> => DOMAIN s = {1} /\ s[1] = a
         /\ s = <<>> => DOMAIN s = {}
<1>1. ASSUME NEW a, NEW b, s = <<a, b>> PROVE DOMAIN s = {1, 2} /\ s[1] = a /\ s[2] = b
  BY <1>1
<1>2. ASSUME NEW a, s = <<a>> PROVE DOMAIN s = {1} /\ s[1] = a
  BY <1>2
<1>3. ASSUME s = <<>> PROVE DOMAIN s = {}
  BY <1>3
<1> QED BY <1>1, <1>2, <1>3

\* The last conjunct of SentAsAsked: a call that sends a file names it and marks it
\* as audio or video if that is what the call is for; only a photo that was asked
\* for is sent as one.
LEMMA UploadedAs == UploadsAsAsked
<1> SUFFICES ASSUME NEW op \in {"file", "advanced", "audio", "video"}, NEW mime \in {<<>>, <<"image", "png">>, <<"text", "plain">>},
                    NEW asPhoto \in BOOLEAN, NEW asDocument \in BOOLEAN
             PROVE  LET media == Media!UploadedMedia(op, mime, asPhoto, asDocument)
                        Is(k) == \E i \in DOMAIN media.attrs : View!Shows(Attr(media.attrs[i], FALSE), k)
                    IN  /\ Is("audio") <=> op = "audio"
                        /\ Is("video") <=> op = "video"
                        /\ media.kind = "photo" => asPhoto /\ ~asDocument /\ op = "advanced"
                        /\ media.kind = "document" => \E i \in DOMAIN media.attrs : media.attrs[i] = "filename"
  BY DEF UploadsAsAsked
<1>1. PICK media : media = Media!UploadedMedia(op, mime, asPhoto, asDocument)
  OBVIOUS
<1>3. /\ \A kind : View!Shows(Attr(kind, FALSE), "audio") <=> kind = "audio"
      /\ \A kind : View!Shows(Attr(kind, FALSE), "video") <=> kind = "video"
  BY DEF View!Shows, Attr
<1>4. \/ op = "audio" /\ media.kind = "document" /\ media.attrs = <<"audio", "filename">>
      \/ op = "video" /\ media.kind = "document" /\ media.attrs = <<"video", "filename">>
      \/ op = "advanced" /\ asPhoto /\ ~asDocument /\ media.kind = "photo" /\ media.attrs = <<>>
      \/ op \in {"file", "advanced"} /\ media.kind = "document" /\ media.attrs = <<"filename">>
  BY <1>1 DEF Media!UploadedMedia
<1>5. PICK attrs : attrs = media.attrs
  OBVIOUS
<1>6. \/ op = "audio" /\ media.kind = "document" /\ DOMAIN attrs = {1, 2} /\ attrs[1] = "audio" /\ attrs[2] = "filename"
      \/ op = "video" /\ media.kind = "document" /\ DOMAIN attrs = {1, 2} /\ attrs[1] = "video" /\ attrs[2] = "filename"
      \/ op = "advanced" /\ media.kind = "photo" /\ DOMAIN attrs = {}
      \/ op \in {"file", "advanced"} /\ media.kind = "document" /\ DOMAIN attrs = {1} /\ attrs[1] = "filename"
  <2>1. CASE op = "audio" /\ media.kind = "document" /\ attrs = <<"audio", "filename">>
    BY <2>1, ShortLists, Zenon
  <2>2. CASE op = "video" /\ media.kind = "document" /\ attrs = <<"video", "filename">>
    BY <2>2, ShortLists, Zenon
  <2>3. CASE op = "advanced" /\ media.kind = "photo" /\ attrs = <<>>
    BY <2>3, ShortLists, Zenon
  <2>4. CASE op \in {"file", "advanced"} /\ media.kind = "document" /\ attrs = <<"filename">>
    BY <2>4, ShortLists, Zenon
  <2> QED BY <1>4, <1>5, <2>1, <2>2, <2>3, <2>4, Zenon
<1>7. /\ (\E i \in DOMAIN attrs : attrs[i] = "audio") <=> op = "audio"
      /\ (\E i \in DOMAIN attrs : attrs[i] = "video") <=> op = "video"
      /\ media.kind = "document" => \E i \in DOMAIN attrs : attrs[i] = "filename"
  BY <1>6
<1>8. /\ (\E i \in DOMAIN media.attrs : View!Shows(Attr(media.attrs[i], FALSE), "audio")) <=> op = "audio"
      /\ (\E i \in DOMAIN media.attrs : View!Shows(Attr(media.attrs[i], FALSE), "video")) <=> op = "video"
      /\ media.kind = "document" => \E i \in DOMAIN media.attrs : media.attrs[i] = "filename"
  BY <1>3, <1>5, <1>7
<1>9. media.kind = "photo" => asPhoto /\ ~asDocument /\ op = "advanced"
  BY <1>4
<1> QED BY <1>1, <1>8, <1>9

-----------------------------------------------------------------------------
(* Lists, whatever they hold. *)

\* A list is a sequence over some set.
LEMMA ListIsSeq ==
  ASSUME NEW s, IsList(s)
  PROVE  /\ \E S : s \in Seq(S)
         /\ Len(s) \in Nat /\ DOMAIN s = 1 .. Len(s)
<1> DEFINE n == Len(s)
           S == {s[i] : i \in 1 .. n}
<1>1. n \in Nat /\ s = [i \in 1 .. n |-> s[i]]
  BY DEF IsList
<1>2. s \in [1 .. n -> S]
  <2>1. \A i \in 1 .. n : s[i] \in S
    OBVIOUS
  <2> HIDE DEF S, n
  <2> QED BY <1>1, <2>1
<1> HIDE DEF n, S
<1>3. s \in Seq(S)
  BY <1>1, <1>2, SeqDef
<1> QED BY <1>1, <1>2, <1>3 DEF n

\* A sequence is a list.
LEMMA SeqIsList ==
  ASSUME NEW S, NEW s \in Seq(S)
  PROVE  IsList(s) /\ Len(s) \in Nat /\ DOMAIN s = 1 .. Len(s)
<1>1. Len(s) \in Nat /\ DOMAIN s = 1 .. Len(s) /\ s \in [1 .. Len(s) -> S]
  BY LenProperties
<1>2. s = [i \in 1 .. Len(s) |-> s[i]]
  BY <1>1
<1> QED BY <1>1, <1>2 DEF IsList

\* A function from the numbers up to n is a list.
LEMMA FunctionIsList ==
  ASSUME NEW n \in Nat, NEW x, x = [i \in 1 .. n |-> x[i]]
  PROVE  IsList(x) /\ Len(x) = n
<1> DEFINE S == {x[i] : i \in 1 .. n}
<1>1. \A i \in 1 .. n : x[i] \in S
  OBVIOUS
<1> HIDE DEF S
<1>2. x \in [1 .. n -> S]
  BY <1>1
<1>3. x \in Seq(S) /\ Len(x) = n
  BY <1>2, IsAList
<1> QED BY <1>3, SeqIsList

\* Two lists are sequences over one set.
LEMMA TwoLists ==
  ASSUME NEW a, NEW b, IsList(a), IsList(b)
  PROVE  \E S : a \in Seq(S) /\ b \in Seq(S)
<1>1. PICK A : a \in Seq(A)
  BY ListIsSeq
<1>2. PICK B : b \in Seq(B)
  BY ListIsSeq
<1>3. a \in Seq(A \cup B) /\ b \in Seq(A \cup B)
  BY <1>1, <1>2, SeqMonotonic
<1> QED BY <1>3

\* One list after the other.
LEMMA ListConcat ==
  ASSUME NEW a, NEW b, IsList(a), IsList(b)
  PROVE  /\ IsList(a \o b) /\ Len(a \o b) = Len(a) + Len(b)
         /\ \A i \in 1 .. Len(a) + Len(b) : (a \o b)[i] = IF i <= Len(a) THEN a[i] ELSE b[i - Len(a)]
<1>1. PICK S : a \in Seq(S) /\ b \in Seq(S)
  BY TwoLists
<1>2. /\ a \o b \in Seq(S)
      /\ Len(a \o b) = Len(a) + Len(b)
      /\ \A i \in 1 .. Len(a) + Len(b) : (a \o b)[i] = IF i <= Len(a) THEN a[i] ELSE b[i - Len(a)]
  BY <1>1, ConcatProperties
<1> QED BY <1>2, SeqIsList

\* A part of a list.
LEMMA ListPart ==
  ASSUME NEW s, IsList(s), NEW m \in Nat, NEW n \in Int, m >= 1, n <= Len(s)
  PROVE  /\ IsList(SubSeq(s, m, n))
         /\ Len(SubSeq(s, m, n)) = IF m <= n THEN n - m + 1 ELSE 0
         /\ \A i \in 1 .. n - m + 1 : SubSeq(s, m, n)[i] = s[m + i - 1]
<1>1. PICK S : s \in Seq(S)
  BY ListIsSeq
<1>2. Len(s) \in Nat
  BY ListIsSeq
<1>3. \A i \in m .. n : s[i] \in S
  <2> SUFFICES ASSUME NEW i \in m .. n PROVE s[i] \in S
    OBVIOUS
  <2>1. i \in 1 .. Len(s)
    BY <1>2
  <2> QED BY <1>1, <2>1, ElementOfSeq
<1>4. SubSeq(s, m, n) \in Seq(S) /\ Len(SubSeq(s, m, n)) = (IF m <= n THEN n - m + 1 ELSE 0)
      /\ \A i \in 1 .. n - m + 1 : SubSeq(s, m, n)[i] = s[m + i - 1]
  BY <1>3, SubSeqProperties
<1> QED BY <1>4, SeqIsList

\* One element more.
LEMMA ListAppend ==
  ASSUME NEW s, IsList(s), NEW e
  PROVE  /\ IsList(Append(s, e)) /\ Len(Append(s, e)) = Len(s) + 1
         /\ \A i \in 1 .. Len(s) : Append(s, e)[i] = s[i]
         /\ Append(s, e)[Len(s) + 1] = e
<1>1. PICK S : s \in Seq(S)
  BY ListIsSeq
<1>2. s \in Seq(S \cup {e})
  BY <1>1, SeqMonotonic
<1>3. /\ Append(s, e) \in Seq(S \cup {e}) /\ Len(Append(s, e)) = Len(s) + 1
      /\ \A i \in 1 .. Len(s) : Append(s, e)[i] = s[i]
      /\ Append(s, e)[Len(s) + 1] = e
  BY <1>2, AppendProperties
<1> QED BY <1>3, SeqIsList

\* Without the first element.
LEMMA ListTail ==
  ASSUME NEW s, IsList(s), s # <<>>
  PROVE  /\ IsList(Tail(s)) /\ Len(Tail(s)) = Len(s) - 1
         /\ \A i \in 1 .. Len(Tail(s)) : Tail(s)[i] = s[i + 1]
         /\ Head(s) = s[1] /\ 1 \in 1 .. Len(s) /\ Len(s) \in Nat
<1>1. PICK S : s \in Seq(S)
  BY ListIsSeq
<1>2. Tail(s) \in Seq(S) /\ Len(Tail(s)) = Len(s) - 1 /\ \A i \in 1 .. Len(Tail(s)) : Tail(s)[i] = s[i + 1]
  BY <1>1, HeadTailProperties
<1>3. Len(s) \in Nat \ {0}
  BY <1>1, EmptySeq
<1>4. Head(s) = s[1]
  OBVIOUS
<1>5. IsList(Tail(s))
  BY <1>2, SeqIsList
<1>6. 1 \in 1 .. Len(s) /\ Len(s) \in Nat
  BY <1>3
<1> QED BY <1>2, <1>4, <1>5, <1>6

\* Lists of lists are sequences of sequences over one set.
LEMMA RowsOver ==
  ASSUME NEW rows, IsList(rows), \A i \in 1 .. Len(rows) : IsList(rows[i])
  PROVE  \E S : rows \in Seq(Seq(S))
<1> DEFINE n == Len(rows)
           R(i) == {rows[i][j] : j \in 1 .. Len(rows[i])}
           S == UNION {R(i) : i \in 1 .. n}
<1>1. n \in Nat /\ DOMAIN rows = 1 .. n /\ rows = [i \in 1 .. n |-> rows[i]]
  BY ListIsSeq DEF IsList
<1>2. ASSUME NEW i \in 1 .. n PROVE rows[i] \in Seq(S)
  <2> DEFINE row == rows[i]
             k == Len(row)
  <2>1. IsList(row)
    OBVIOUS
  <2>2. k \in Nat /\ row = [j \in 1 .. k |-> row[j]]
    BY <2>1 DEF IsList
  <2>3. \A j \in 1 .. k : row[j] \in R(i)
    OBVIOUS
  <2>4. R(i) \subseteq S
    OBVIOUS
  <2>5. \A j \in 1 .. k : row[j] \in S
    BY <2>3, <2>4
  <2> HIDE DEF S, row, k
  <2>6. row \in [1 .. k -> S]
    BY <2>2, <2>5
  <2>7. row \in Seq(S)
    BY <2>2, <2>6, IsAList
  <2> QED BY <2>7 DEF row
<1> HIDE DEF S, n
<1>3. rows \in [1 .. n -> Seq(S)]
  BY <1>1, <1>2
<1>4. rows \in Seq(Seq(S))
  BY <1>1, <1>3, IsAList
<1> QED BY <1>4

\* The two names of the operator that joins.
LEMMA OneJoin ==
  ASSUME NEW rows
  PROVE  FlattenSeq(rows) = View!FlattenSeq(rows)
BY DEF FlattenSeq, View!FlattenSeq

\* Lists are joined to a list.
LEMMA JoinIsList ==
  ASSUME NEW rows, IsList(rows), \A i \in 1 .. Len(rows) : IsList(rows[i])
  PROVE  IsList(FlattenSeq(rows))
<1>1. PICK S : rows \in Seq(Seq(S))
  BY RowsOver
<1>2. CASE Len(rows) = 0
  BY <1>2, OneJoin DEF View!FlattenSeq
<1>3. CASE Len(rows) # 0
  <2>1. PICK f \in [1 .. Len(rows) -> Seq(S)] : View!FlattenSeq(rows) = f[Len(rows)]
    BY <1>1, <1>3, Joined
  <2>2. Len(rows) \in 1 .. Len(rows)
    BY <1>1, <1>3, LenProperties
  <2> QED BY <2>1, <2>2, OneJoin, SeqIsList
<1> QED BY <1>2, <1>3

\* A list holds the elements of rows, each in a row of its own, in their order.
InOrder(x, rows) ==
  /\ IsList(x)
  /\ \A p \in 1 .. Len(x) : \E i \in 1 .. Len(rows) : rows[i] = <<x[p]>>
  /\ \A p, q \in 1 .. Len(x) : p < q =>
        \E i, j \in 1 .. Len(rows) : i < j /\ rows[i] = <<x[p]>> /\ rows[j] = <<x[q]>>

\* So does what is joined from rows of at most one element each.
LEMMA ShortJoin ==
  ASSUME NEW rows, IsList(rows), \A i \in 1 .. Len(rows) : rows[i] = <<>> \/ \E x : rows[i] = <<x>>
  PROVE  InOrder(FlattenSeq(rows), rows)
<1> DEFINE n == Len(rows)
           Holds(x, k) == /\ \A p \in 1 .. Len(x) : \E i \in 1 .. k : rows[i] = <<x[p]>>
                          /\ \A p, q \in 1 .. Len(x) : p < q =>
                               \E i, j \in 1 .. k : i < j /\ rows[i] = <<x[p]>> /\ rows[j] = <<x[q]>>
<1>1. n \in Nat
  BY ListIsSeq
<1>2. ASSUME NEW i \in 1 .. n PROVE IsList(rows[i])
  <2>1. CASE rows[i] = <<>>
    <3>1. <<>> \in Seq({})
      BY EmptySeq
    <3> QED BY <2>1, <3>1, SeqIsList
  <2>2. CASE \E x : rows[i] = <<x>>
    <3>1. PICK x : rows[i] = <<x>>
      BY <2>2
    <3>2. <<x>> \in Seq({x})
      OBVIOUS
    <3> QED BY <3>1, <3>2, SeqIsList
  <2> QED BY <2>1, <2>2
<1>3. IsList(FlattenSeq(rows))
  BY <1>2, JoinIsList
<1>4. Holds(FlattenSeq(rows), n)
  <2>1. CASE n = 0
    <3>1. FlattenSeq(rows) = rows
      BY <2>1, OneJoin DEF View!FlattenSeq
    <3> QED BY <2>1, <3>1
  <2>2. CASE n # 0
    <3>1. PICK S : rows \in Seq(Seq(S))
      BY <1>2, RowsOver
    <3>2. PICK f \in [1 .. n -> Seq(S)] :
             /\ f[1] = rows[1]
             /\ \A i \in 2 .. n : f[i] = f[i - 1] \o rows[i]
             /\ View!FlattenSeq(rows) = f[n]
      BY <2>2, <3>1, Joined
    <3> DEFINE T == {k \in 1 .. n : Holds(f[k], k)}
    <3>3. 1 \in T
      <4>1. 1 \in 1 .. n
        BY <1>1, <2>2
      <4>2. CASE rows[1] = <<>>
        <5>1. Len(f[1]) = 0
          BY <3>2, <4>2
        <5> QED BY <4>1, <5>1
      <4>3. CASE \E x : rows[1] = <<x>>
        <5>1. PICK x : rows[1] = <<x>>
          BY <4>3
        <5>2. Len(f[1]) = 1 /\ f[1][1] = x
          BY <3>2, <5>1
        <5>3. \A p \in 1 .. Len(f[1]) : p = 1 /\ rows[1] = <<f[1][p]>>
          BY <5>1, <5>2
        <5>4. Holds(f[1], 1)
          BY <5>3
        <5> QED BY <4>1, <5>4
      <4> QED BY <4>1, <4>2, <4>3
    <3>4. ASSUME NEW k \in 1 .. n, k < n, k \in T PROVE k + 1 \in T
      <4>1. k + 1 \in 2 .. n /\ k + 1 \in 1 .. n /\ (k + 1) - 1 = k /\ k \in Nat
        BY <1>1, <3>4
      <4>2. f[k + 1] = f[k] \o rows[k + 1] /\ Holds(f[k], k) /\ f[k] \in Seq(S) /\ rows[k + 1] \in Seq(S)
        <5>1. f[k + 1] = f[k] \o rows[k + 1]
          BY <3>2, <4>1
        <5>2. rows[k + 1] \in Seq(S)
          BY <3>1, <4>1, ElementOfSeq
        <5>3. f[k] \in Seq(S)
          BY <3>2
        <5>4. Holds(f[k], k)
          BY <3>4
        <5> QED BY <5>1, <5>2, <5>3, <5>4
      <4> DEFINE a == f[k]
                 b == f[k + 1]
      <4>3. CASE rows[k + 1] = <<>>
        <5>1. b = a
          BY <4>2, <4>3, ConcatEmptySeq
        <5>2. 1 .. k \subseteq 1 .. k + 1
          BY <4>1
        <5>3. Holds(a, k)
          BY <4>2
        <5> HIDE DEF a, b
        <5>4. Holds(a, k + 1)
          <6>1. \A p \in 1 .. Len(a) : \E i \in 1 .. k + 1 : rows[i] = <<a[p]>>
            BY <5>2, <5>3
          <6>2. ASSUME NEW p \in 1 .. Len(a), NEW q \in 1 .. Len(a), p < q
                PROVE  \E i, j \in 1 .. k + 1 : i < j /\ rows[i] = <<a[p]>> /\ rows[j] = <<a[q]>>
            <7>1. PICK i \in 1 .. k, j \in 1 .. k : i < j /\ rows[i] = <<a[p]>> /\ rows[j] = <<a[q]>>
              BY <5>3, <6>2
            <7> QED BY <5>2, <7>1
          <6> QED BY <6>1, <6>2
        <5> HIDE DEF Holds
        <5>5. Holds(b, k + 1)
          BY <5>1, <5>4
        <5> QED BY <4>1, <5>5 DEF b
      <4>4. CASE \E x : rows[k + 1] = <<x>>
        <5>1. PICK x : rows[k + 1] = <<x>>
          BY <4>4
        <5>2. Len(<<x>>) = 1 /\ <<x>>[1] = x
          OBVIOUS
        <5>3. Len(a) \in Nat /\ Len(b) = Len(a) + 1
              /\ \A p \in 1 .. Len(a) + 1 : b[p] = IF p <= Len(a) THEN a[p] ELSE <<x>>[p - Len(a)]
          BY <4>2, <5>1, <5>2, LenProperties, ConcatProperties
        <5>4. Holds(a, k)
          BY <4>2
        <5> HIDE DEF a, b
        <5>5. ASSUME NEW p \in 1 .. Len(b), p <= Len(a) PROVE p \in 1 .. Len(a) /\ b[p] = a[p]
          BY <5>3, <5>5
        <5>6. ASSUME NEW p \in 1 .. Len(b), ~ (p <= Len(a)) PROVE b[p] = x /\ rows[k + 1] = <<b[p]>> /\ p = Len(a) + 1
          <6>1. p = Len(a) + 1
            BY <5>3, <5>6
          <6>2. b[p] = <<x>>[p - Len(a)] /\ p - Len(a) = 1
            BY <5>3, <6>1
          <6> QED BY <5>1, <5>2, <6>1, <6>2
        <5>7. ASSUME NEW p \in 1 .. Len(b) PROVE \E i \in 1 .. k + 1 : rows[i] = <<b[p]>>
          <6>1. CASE p <= Len(a)
            <7>1. PICK i \in 1 .. k : rows[i] = <<a[p]>>
              BY <5>4, <5>5, <6>1
            <7>2. i \in 1 .. k + 1
              BY <4>1
            <7> QED BY <5>5, <6>1, <7>1, <7>2
          <6>2. CASE ~ (p <= Len(a))
            <7>1. k + 1 \in 1 .. k + 1
              BY <4>1
            <7> QED BY <5>6, <6>2, <7>1
          <6> QED BY <6>1, <6>2
        <5>8. ASSUME NEW p \in 1 .. Len(b), NEW q \in 1 .. Len(b), p < q
              PROVE  \E i, j \in 1 .. k + 1 : i < j /\ rows[i] = <<b[p]>> /\ rows[j] = <<b[q]>>
          <6>1. p <= Len(a) /\ p \in 1 .. Len(a) /\ b[p] = a[p]
            BY <5>3, <5>5, <5>8
          <6>2. CASE q <= Len(a)
            <7>1. q \in 1 .. Len(a) /\ b[q] = a[q]
              BY <5>5, <6>2
            <7>2. PICK i \in 1 .. k, j \in 1 .. k : i < j /\ rows[i] = <<a[p]>> /\ rows[j] = <<a[q]>>
              BY <5>4, <5>8, <6>1, <7>1
            <7>3. i \in 1 .. k + 1 /\ j \in 1 .. k + 1
              BY <4>1
            <7> QED BY <6>1, <7>1, <7>2, <7>3
          <6>3. CASE ~ (q <= Len(a))
            <7>1. PICK i \in 1 .. k : rows[i] = <<a[p]>>
              BY <5>4, <6>1
            <7>2. i \in 1 .. k + 1 /\ i < k + 1 /\ k + 1 \in 1 .. k + 1
              BY <4>1
            <7>3. rows[k + 1] = <<b[q]>>
              BY <5>6, <6>3
            <7> QED BY <6>1, <7>1, <7>2, <7>3
          <6> QED BY <6>2, <6>3
        <5>9. Holds(b, k + 1)
          BY <5>7, <5>8
        <5> QED BY <4>1, <5>9 DEF b
      <4> QED BY <4>1, <4>3, <4>4
    <3>5. n \in T
      <4> HIDE DEF T
      <4>1. \A k \in 1 .. n : k \in T
        BY <1>1, <3>3, <3>4, UpTo
      <4> QED BY <1>1, <2>2, <4>1
    <3>6. Holds(f[n], n)
      BY <3>5
    <3>7. FlattenSeq(rows) = f[n]
      BY <3>2, OneJoin
    <3> HIDE DEF Holds
    <3> QED BY <3>6, <3>7
  <2> QED BY <2>1, <2>2
<1> HIDE DEF n
<1>5. PICK x : x = FlattenSeq(rows)
  OBVIOUS
<1>6. Holds(x, n) /\ IsList(x)
  <2> HIDE DEF Holds
  <2> QED BY <1>3, <1>4, <1>5
<1>7. InOrder(x, rows)
  BY <1>6, Zenon DEF InOrder, n
<1> QED BY <1>5, <1>7

-----------------------------------------------------------------------------
(* The width of a text. *)

\* It is a number.
LEMMA WidthIsNat ==
  ASSUME NEW s, IsList(s)
  PROVE  /\ UTF16Len(s) \in Nat /\ Len(s) \in Nat
         /\ IsFiniteSet({i \in DOMAIN s : s[i] = WIDE})
         /\ Cardinality({i \in DOMAIN s : s[i] = WIDE}) \in Nat
<1> DEFINE W == {i \in DOMAIN s : s[i] = WIDE}
<1>1. Len(s) \in Nat /\ DOMAIN s = 1 .. Len(s)
  BY ListIsSeq
<1>2. IsFiniteSet(1 .. Len(s))
  BY <1>1, FS_Interval
<1>3. W \in SUBSET (1 .. Len(s))
  BY <1>1
<1> HIDE DEF W
<1>4. IsFiniteSet(W)
  BY <1>2, <1>3, FS_Subset
<1>5. Cardinality(W) \in Nat
  BY <1>4, FS_CardinalityType
<1> QED BY <1>1, <1>4, <1>5 DEF UTF16Len, W

\* A set of numbers that is moved keeps its size.
LEMMA MovedSize ==
  ASSUME NEW W \in SUBSET Nat, IsFiniteSet(W), NEW n \in Nat
  PROVE  /\ IsFiniteSet({i + n : i \in W})
         /\ Cardinality({i + n : i \in W}) = Cardinality(W)
<1> DEFINE V == {i + n : i \in W}
           f == [i \in W |-> i + n]
<1>1. f \in [W -> V]
  OBVIOUS
<1>2. \A a, b \in W : f[a] = f[b] => a = b
  <2> SUFFICES ASSUME NEW a \in W, NEW b \in W, a + n = b + n PROVE a = b
    OBVIOUS
  <2>1. a \in Nat /\ b \in Nat
    OBVIOUS
  <2> QED BY <2>1
<1>3. \A v \in V : \E a \in W : f[a] = v
  OBVIOUS
<1> HIDE DEF V, f
<1>4. f \in Bijection(W, V)
  BY <1>1, <1>2, <1>3 DEF Bijection, Injection, Surjection, IsInjective
<1>5. ExistsBijection(W, V)
  BY <1>4 DEF ExistsBijection
<1>6. IsFiniteSet(V) /\ Cardinality(V) = Cardinality(W)
  BY <1>5, FS_Bijection
<1> QED BY <1>6 DEF V

\* The width of one text after the other is the sum of their widths.
LEMMA WidthsAdd ==
  ASSUME NEW a, NEW b, IsList(a), IsList(b)
  PROVE  UTF16Len(a \o b) = UTF16Len(a) + UTF16Len(b)
<1> DEFINE n == Len(a)
           m == Len(b)
           c == a \o b
           A == {i \in DOMAIN a : a[i] = WIDE}
           B == {i \in DOMAIN b : b[i] = WIDE}
           C == {i \in DOMAIN c : c[i] = WIDE}
           M == {i + n : i \in B}
<1>1. /\ n \in Nat /\ m \in Nat /\ Len(c) = n + m
      /\ DOMAIN a = 1 .. n /\ DOMAIN b = 1 .. m /\ DOMAIN c = 1 .. n + m
      /\ \A i \in 1 .. n + m : c[i] = IF i <= n THEN a[i] ELSE b[i - n]
  BY ListIsSeq, ListConcat
<1>2. IsFiniteSet(A) /\ IsFiniteSet(B) /\ Cardinality(A) \in Nat /\ Cardinality(B) \in Nat
  BY WidthIsNat
<1>3. A \subseteq 1 .. n /\ B \subseteq 1 .. m
  BY <1>1
<1>4. C = A \cup M
  <2>1. ASSUME NEW i \in C PROVE i \in A \cup M
    <3>1. i \in 1 .. n + m /\ c[i] = WIDE
      BY <1>1
    <3>2. CASE i <= n
      <4>1. i \in 1 .. n /\ a[i] = WIDE
        BY <1>1, <3>1, <3>2
      <4> QED BY <1>1, <4>1
    <3>3. CASE ~ (i <= n)
      <4>1. i - n \in 1 .. m /\ b[i - n] = WIDE /\ i = (i - n) + n
        BY <1>1, <3>1, <3>3
      <4>2. i - n \in B
        BY <1>1, <4>1
      <4> QED BY <4>1, <4>2
    <3> QED BY <3>2, <3>3
  <2>2. ASSUME NEW i \in A PROVE i \in C
    <3>1. i \in 1 .. n /\ i \in 1 .. n + m /\ i <= n /\ a[i] = WIDE
      BY <1>1
    <3> QED BY <1>1, <3>1
  <2>3. ASSUME NEW j \in B PROVE j + n \in C
    <3>1. j \in 1 .. m /\ j + n \in 1 .. n + m /\ ~ (j + n <= n) /\ (j + n) - n = j /\ b[j] = WIDE
      BY <1>1
    <3> QED BY <1>1, <3>1
  <2> QED BY <2>1, <2>2, <2>3
<1>5. A \cap M = {}
  <2>1. ASSUME NEW j \in B PROVE j + n \notin A
    <3>1. j \in 1 .. m /\ ~ (j + n \in 1 .. n)
      BY <1>1
    <3> QED BY <1>1, <3>1
  <2> QED BY <2>1
<1>6. IsFiniteSet(M) /\ Cardinality(M) = Cardinality(B)
  <2>1. B \in SUBSET Nat
    BY <1>1
  <2> HIDE DEF A, B, C, M
  <2> QED BY <1>1, <1>2, <2>1, MovedSize DEF M
<1>7. Cardinality(C) = Cardinality(A) + Cardinality(B)
  <2> HIDE DEF A, B, C, M
  <2>1. Cardinality(A \cup M) = Cardinality(A) + Cardinality(M) - Cardinality(A \cap M)
    BY <1>2, <1>6, FS_Union
  <2>2. Cardinality({}) = 0
    BY FS_EmptySet
  <2>3. Cardinality(A \cap M) = 0
    BY <1>5, <2>2
  <2>4. Cardinality(C) = Cardinality(A) + Cardinality(M) - 0
    BY <1>4, <2>1, <2>3
  <2>5. Cardinality(A) \in Nat /\ Cardinality(M) \in Nat
    BY <1>2, <1>6
  <2> QED BY <1>6, <2>4, <2>5
<1>8. UTF16Len(a) = n + Cardinality(A) /\ UTF16Len(b) = m + Cardinality(B) /\ UTF16Len(c) = (n + m) + Cardinality(C)
  BY <1>1 DEF UTF16Len
<1> HIDE DEF A, B, C, M, c, n, m
<1> QED BY <1>1, <1>2, <1>7, <1>8 DEF c

\* Nothing has no width.
LEMMA WidthOfNothing == UTF16Len(<<>>) = 0 /\ IsList(<<>>)
<1>1. IsList(<<>>)
  <2>1. <<>> \in Seq({})
    BY EmptySeq
  <2> QED BY <2>1, SeqIsList
<1>2. {i \in DOMAIN <<>> : <<>>[i] = WIDE} = {} /\ Len(<<>>) = 0
  OBVIOUS
<1>3. Cardinality({}) = 0
  BY FS_EmptySet
<1> QED BY <1>1, <1>2, <1>3 DEF UTF16Len

-----------------------------------------------------------------------------
(* What StripText does. *)

\* The leading characters of a kind are counted.
LEMMA LeadingIsNat ==
  ASSUME NEW s, IsList(s), NEW Space, "end" \notin Space
  PROVE  Leading(s, Space) \in 0 .. Len(s)
<1> DEFINE t == s \o <<"end">>
           I == {i \in 1 .. Len(t) : t[i] \notin Space}
<1>1. IsList(<<"end">>) /\ Len(<<"end">>) = 1 /\ <<"end">>[1] = "end"
  <2>1. <<"end">> \in Seq({"end"}) /\ Len(<<"end">>) = 1
    OBVIOUS
  <2> QED BY <2>1, SeqIsList
<1>2. Len(t) = Len(s) + 1 /\ Len(s) \in Nat
  BY <1>1, ListConcat, ListIsSeq
<1>3. Leading(s, Space) = (IF I # {} THEN Min(I) ELSE 0) - 1
  BY DEF Leading, SelectInSeq
<1>4. Len(s) + 1 \in I
  <2>1. Len(s) + 1 \in 1 .. Len(s) + 1 /\ ~ (Len(s) + 1 <= Len(s)) /\ (Len(s) + 1) - Len(s) = 1
    BY <1>2
  <2>2. t[Len(s) + 1] = <<"end">>[(Len(s) + 1) - Len(s)]
    BY <1>1, <2>1, ListConcat
  <2>3. t[Len(s) + 1] = "end"
    BY <1>1, <2>1, <2>2
  <2> HIDE DEF t
  <2> QED BY <1>2, <2>1, <2>3
<1> HIDE DEF t
<1>5. Min(I) \in I
  <2>1. I \in SUBSET Nat
    BY <1>2
  <2> HIDE DEF I
  <2>2. \E x \in I : \A y \in I : x <= y
    BY <1>4, <2>1, Least
  <2> QED BY <2>2 DEF Min
<1>6. Min(I) \in 1 .. Len(s) + 1
  BY <1>2, <1>5
<1> HIDE DEF I
<1> QED BY <1>2, <1>3, <1>4, <1>6

\* A text that is trimmed is a list.
LEMMA TrimmedIsList ==
  ASSUME NEW s, IsList(s)
  PROVE  IsList(TrimSpace(s))
<1> DEFINE r == Reverse(s)
           left == Leading(s, TrimmedSpaces)
           right == Leading(r, TrimmedSpaces)
<1>1. Len(s) \in Nat /\ "end" \notin TrimmedSpaces
  BY ListIsSeq DEF TrimmedSpaces, NBSP, IDSP
<1>2. IsList(r) /\ Len(r) = Len(s)
  <2>1. r = [i \in 1 .. Len(s) |-> r[i]]
    BY DEF Reverse
  <2> HIDE DEF r
  <2> QED BY <1>1, <2>1, FunctionIsList
<1>3. left \in 0 .. Len(s)
  BY <1>1, LeadingIsNat
<1>4. right \in 0 .. Len(s)
  <2> HIDE DEF r
  <2> QED BY <1>1, <1>2, LeadingIsNat
<1>5. TrimSpace(s) = SubSeq(s, left + 1, Len(s) - right)
  BY DEF TrimSpace
<1> HIDE DEF r, left, right
<1>6. left + 1 \in Nat /\ left + 1 >= 1 /\ Len(s) - right \in Int /\ Len(s) - right <= Len(s)
  BY <1>1, <1>3, <1>4
<1> QED BY <1>5, <1>6, ListPart

\* A text is decoded to a list.
LEMMA DecodedIsList ==
  ASSUME NEW u, IsList(u)
  PROVE  IsList(FromUTF16(u))
<1>1. PICK rows : /\ rows = [i \in DOMAIN u |-> rows[i]] /\ FromUTF16(u) = FlattenSeq(rows)
                  /\ \A i \in DOMAIN u : rows[i] = <<>> \/ \E x : rows[i] = <<x>>
  <2> DEFINE Starts == {i \in DOMAIN u : ~(u[i] = Low /\ i > 1 /\ u[i - 1] = High)}
             Decode(i) ==
               CASE u[i] = High /\ i < Len(u) /\ u[i + 1] = Low -> WIDE
                 [] u[i] \in {High, Low} /\ ~(i < Len(u) /\ u[i] = High /\ u[i + 1] = Low) -> Replacement
                 [] OTHER -> u[i]
             rows == [i \in DOMAIN u |-> IF i \in Starts THEN <<Decode(i)>> ELSE <<>>]
  <2>1. FromUTF16(u) = FlattenSeq(rows)
    BY DEF FromUTF16
  <2> HIDE DEF Starts, Decode
  <2>2. \A i \in DOMAIN u : rows[i] = <<>> \/ \E x : rows[i] = <<x>>
    OBVIOUS
  <2>3. rows = [i \in DOMAIN u |-> rows[i]]
    OBVIOUS
  <2> QED BY <2>1, <2>2, <2>3
<1>2. Len(u) \in Nat /\ DOMAIN u = 1 .. Len(u)
  BY ListIsSeq
<1>3. IsList(rows) /\ Len(rows) = Len(u)
  BY <1>1, <1>2, FunctionIsList
<1>4. \A i \in 1 .. Len(rows) : rows[i] = <<>> \/ \E x : rows[i] = <<x>>
  BY <1>1, <1>2, <1>3
<1> QED BY <1>1, <1>3, <1>4, ShortJoin DEF InOrder

\* An entity of a type that is known, and a list of such entities.
IsEntity(e) ==
  DOMAIN e = {"type", "off", "len", "arg"} /\ e.type \in EntityTypes /\ e.off \in Nat /\ e.len \in Int
AreEntities(l) == IsList(l) /\ \A i \in 1 .. Len(l) : IsEntity(l[i])

\* What the switches over the type give and take.
LEMMA EntityFacts ==
  ASSUME NEW e, IsEntity(e)
  PROVE  /\ GetEntityOffset(e) = e.off /\ GetEntityLength(e) = e.len /\ EntityEnd(e) = e.off + e.len
         /\ \A length \in Int :
               LET x == SetEntityLength(e, length)
               IN  /\ IsEntity(x) /\ x.type = e.type /\ x.off = e.off /\ x.len = length /\ x.arg = e.arg
         /\ \A offset \in Nat :
               LET x == SetEntityOffset(e, offset)
               IN  /\ IsEntity(x) /\ x.type = e.type /\ x.off = offset /\ x.len = e.len /\ x.arg = e.arg
<1>1. GetEntityOffset(e) = e.off /\ GetEntityLength(e) = e.len
  BY DEF IsEntity, GetEntityOffset, GetEntityLength
<1>2. ASSUME NEW length \in Int, NEW x, x = SetEntityLength(e, length)
      PROVE  IsEntity(x) /\ x.type = e.type /\ x.off = e.off /\ x.len = length /\ x.arg = e.arg
  <2>1. x = [e EXCEPT !.len = length]
    BY <1>2 DEF SetEntityLength, IsEntity
  <2>2. DOMAIN e = {"type", "off", "len", "arg"}
    BY DEF IsEntity
  <2>3. DOMAIN x = DOMAIN e /\ x.type = e.type /\ x.off = e.off /\ x.len = length /\ x.arg = e.arg
    BY <2>1, <2>2
  <2> QED BY <2>2, <2>3 DEF IsEntity
<1>3. ASSUME NEW offset \in Nat, NEW x, x = SetEntityOffset(e, offset)
      PROVE  IsEntity(x) /\ x.type = e.type /\ x.off = offset /\ x.len = e.len /\ x.arg = e.arg
  <2>1. x = [e EXCEPT !.off = offset]
    BY <1>3 DEF SetEntityOffset, IsEntity
  <2>2. DOMAIN e = {"type", "off", "len", "arg"}
    BY DEF IsEntity
  <2>3. DOMAIN x = DOMAIN e /\ x.type = e.type /\ x.off = offset /\ x.len = e.len /\ x.arg = e.arg
    BY <2>1, <2>2
  <2> QED BY <2>2, <2>3 DEF IsEntity
<1>4. EntityEnd(e) = e.off + e.len
  BY <1>1 DEF EntityEnd
<1> QED BY <1>1, <1>2, <1>3, <1>4

\* What is kept of an entity when "left" units are cut and "width" units remain.
KeptOf(x, e, left, width) ==
  /\ IsEntity(x) /\ x.type = e.type
  /\ x.off = IF e.off >= left THEN e.off - left ELSE 0
  /\ x.off \in 0 .. width - 1 /\ x.off + x.len \in 1 .. width /\ x.len # 0
  /\ x.len < 0 => e.len < 0

\* StripEntity keeps that, or nothing.
LEMMA StripsOne ==
  ASSUME NEW e, IsEntity(e), NEW left \in Nat, NEW width \in Nat
  PROVE  \/ StripEntity(e, left, width) = <<>>
         \/ \E x : StripEntity(e, left, width) = <<x>> /\ KeptOf(x, e, left, width)
<1>1. PICK off : off = IF e.off >= left THEN e.off - left ELSE 0
  OBVIOUS
<1>2. PICK length : length = IF e.off >= left THEN e.len ELSE (e.off + e.len) - left
  OBVIOUS
<1>3. PICK kept : kept = IF off + length > width THEN width - off ELSE length
  OBVIOUS
<1>4. e.off \in Nat /\ e.len \in Int /\ off \in Nat /\ length \in Int /\ kept \in Int
  BY <1>1, <1>2, <1>3 DEF IsEntity
<1>5. PICK x : x = SetEntityLength(SetEntityOffset(e, off), kept)
  OBVIOUS
<1>6. StripEntity(e, left, width) = IF e.len = 0 \/ e.off + e.len <= left \/ off >= width \/ kept = 0 THEN <<>> ELSE <<x>>
  BY <1>1, <1>2, <1>3, <1>5, EntityFacts DEF StripEntity
<1>7. IsEntity(x) /\ x.type = e.type /\ x.off = off /\ x.len = kept
  <2>1. PICK y : y = SetEntityOffset(e, off)
    OBVIOUS
  <2>2. IsEntity(y) /\ y.type = e.type /\ y.off = off
    BY <1>4, <2>1, EntityFacts
  <2>3. x = SetEntityLength(y, kept)
    BY <1>5, <2>1
  <2> QED BY <1>4, <2>2, <2>3, EntityFacts
<1>8. ASSUME ~ (e.len = 0 \/ e.off + e.len <= left \/ off >= width \/ kept = 0)
      PROVE  KeptOf(x, e, left, width)
  <2>1. off \in 0 .. width - 1
    BY <1>4, <1>8
  <2>2. off + kept \in 1 .. width
    <3>1. CASE off + length > width
      <4>1. kept = width - off
        BY <1>3, <3>1
      <4> QED BY <1>4, <1>8, <4>1
    <3>2. CASE ~ (off + length > width)
      <4>1. kept = length
        BY <1>3, <3>2
      <4>2. off + length = (e.off + e.len) - left
        BY <1>1, <1>2, <1>4
      <4> QED BY <1>4, <1>8, <3>2, <4>1, <4>2
    <3> QED BY <3>1, <3>2
  <2>3. kept < 0 => e.len < 0
    BY <1>1, <1>2, <1>3, <1>4, <1>8
  <2> QED BY <1>1, <1>7, <1>8, <2>1, <2>2, <2>3 DEF KeptOf
<1> QED BY <1>6, <1>8

\* What is returned with a text: every entity starts and ends inside it and is not
\* empty, those in the order of their offsets stay so, and one with a negative length
\* was found with one.
GoodText(r, l) ==
  /\ AreEntities(r.ents)
  /\ Ascending(l) => Ascending(r.ents)
  /\ \A p \in 1 .. Len(r.ents) :
        /\ Within(r.ents[p], r.text)
        /\ r.ents[p].len < 0 => \E i \in 1 .. Len(l) : l[i].len < 0 /\ l[i].type = r.ents[p].type

\* StripText returns such a text, whatever the text and the entities it is given.
LEMMA StripsText ==
  ASSUME NEW s, IsList(s), NEW l, AreEntities(l)
  PROVE  GoodText(StripText(s, l), l)
<1>1. PICK r : r = StripText(s, l)
  OBVIOUS
<1>2. PICK t : t = TrimSpace(s)
  OBVIOUS
<1>3. PICK left : left = Leading(s, CountedSpaces)
  OBVIOUS
<1>4. PICK width : width = UTF16Len(t)
  OBVIOUS
<1>5. PICK rows : rows = [i \in DOMAIN l |-> StripEntity(l[i], left, width)]
  OBVIOUS
<1>6. r.text = t /\ r.ents = FlattenSeq(rows)
  BY <1>1, <1>2, <1>3, <1>4, <1>5 DEF StripText
<1>7. IsList(t) /\ width \in Nat
  BY <1>2, <1>4, TrimmedIsList, WidthIsNat
<1>8. left \in Nat
  <2>1. "end" \notin CountedSpaces
    BY DEF CountedSpaces, NBSP, ZWSP
  <2>2. left \in 0 .. Len(s)
    BY <1>3, <2>1, LeadingIsNat
  <2> QED BY <2>2
<1>9. /\ Len(l) \in Nat /\ DOMAIN l = 1 .. Len(l) /\ \A i \in 1 .. Len(l) : IsEntity(l[i])
  BY ListIsSeq DEF AreEntities
<1>10. IsList(rows) /\ Len(rows) = Len(l)
  <2>1. rows = [i \in 1 .. Len(l) |-> rows[i]]
    BY <1>5, <1>9
  <2> QED BY <1>9, <2>1, FunctionIsList
<1>11. ASSUME NEW i \in 1 .. Len(l)
       PROVE  rows[i] = <<>> \/ \E x : rows[i] = <<x>> /\ KeptOf(x, l[i], left, width)
  <2>1. rows[i] = StripEntity(l[i], left, width)
    BY <1>5, <1>9
  <2> QED BY <1>7, <1>8, <1>9, <2>1, StripsOne
<1>12. ASSUME NEW i \in 1 .. Len(l), NEW x, rows[i] = <<x>> PROVE KeptOf(x, l[i], left, width)
  <2>1. <<x>> # <<>> /\ \A y : <<x>> = <<y>> => x = y
    OBVIOUS
  <2> QED BY <1>11, <1>12, <2>1
<1>13. /\ IsList(r.ents)
       /\ \A p \in 1 .. Len(r.ents) : \E i \in 1 .. Len(l) : rows[i] = <<r.ents[p]>>
       /\ \A p, q \in 1 .. Len(r.ents) : p < q =>
             \E i, j \in 1 .. Len(l) : i < j /\ rows[i] = <<r.ents[p]>> /\ rows[j] = <<r.ents[q]>>
  <2>1. \A i \in 1 .. Len(rows) : rows[i] = <<>> \/ \E x : rows[i] = <<x>>
    BY <1>10, <1>11
  <2>2. InOrder(FlattenSeq(rows), rows)
    BY <1>10, <2>1, ShortJoin
  <2>3. InOrder(r.ents, rows)
    BY <1>6, <2>2
  <2>4. ASSUME NEW p \in 1 .. Len(r.ents), NEW q \in 1 .. Len(r.ents), p < q
        PROVE  \E i, j \in 1 .. Len(l) : i < j /\ rows[i] = <<r.ents[p]>> /\ rows[j] = <<r.ents[q]>>
    <3>1. \E i, j \in 1 .. Len(rows) : i < j /\ rows[i] = <<r.ents[p]>> /\ rows[j] = <<r.ents[q]>>
      BY <2>3, <2>4, Zenon DEF InOrder
    <3> QED BY <1>10, <3>1
  <2>5. ASSUME NEW p \in 1 .. Len(r.ents) PROVE \E i \in 1 .. Len(l) : rows[i] = <<r.ents[p]>>
    BY <1>10, <2>3 DEF InOrder
  <2> QED BY <2>3, <2>4, <2>5 DEF InOrder
<1>14. Len(r.ents) \in Nat /\ DOMAIN r.ents = 1 .. Len(r.ents)
  BY <1>13, ListIsSeq
<1>15. ASSUME NEW p \in 1 .. Len(r.ents)
       PROVE  /\ IsEntity(r.ents[p])
              /\ Within(r.ents[p], r.text)
              /\ r.ents[p].len < 0 => \E i \in 1 .. Len(l) : l[i].len < 0 /\ l[i].type = r.ents[p].type
  <2>1. PICK i \in 1 .. Len(l) : rows[i] = <<r.ents[p]>>
    BY <1>13
  <2>2. PICK x : x = r.ents[p]
    OBVIOUS
  <2>3. KeptOf(x, l[i], left, width)
    BY <1>12, <2>1, <2>2
  <2>4. IsEntity(x) /\ EntityEnd(x) = x.off + x.len
    BY <2>3, EntityFacts DEF KeptOf
  <2>5. Within(x, r.text)
    BY <1>4, <1>6, <2>3, <2>4 DEF KeptOf, Within
  <2>6. x.len < 0 => l[i].len < 0 /\ l[i].type = x.type
    BY <2>3 DEF KeptOf
  <2> QED BY <2>2, <2>4, <2>5, <2>6
<1>16. ASSUME Ascending(l), NEW p \in 1 .. Len(r.ents), NEW q \in 1 .. Len(r.ents), p < q
       PROVE  r.ents[p].off <= r.ents[q].off
  <2>1. PICK i \in 1 .. Len(l), j \in 1 .. Len(l) : i < j /\ rows[i] = <<r.ents[p]>> /\ rows[j] = <<r.ents[q]>>
    BY <1>13, <1>16
  <2>2. KeptOf(r.ents[p], l[i], left, width) /\ KeptOf(r.ents[q], l[j], left, width)
    BY <1>12, <2>1
  <2>3. l[i].off <= l[j].off /\ l[i].off \in Nat /\ l[j].off \in Nat
    BY <1>9, <1>16, <2>1 DEF Ascending, IsEntity
  <2> QED BY <1>8, <2>2, <2>3 DEF KeptOf
<1> QED BY <1>1, <1>13, <1>14, <1>15, <1>16 DEF GoodText, AreEntities, Ascending

-----------------------------------------------------------------------------
(* What the sort of ParseHTML does. *)

\* An order of the places of a list in which every two of them are related, and the
\* rank of each place in it.
Orders(P, n) ==
  /\ P \subseteq (1 .. n) \X (1 .. n)
  /\ \A i \in 1 .. n : <<i, i>> \notin P
  /\ \A i, j \in 1 .. n : i # j => <<i, j>> \in P \/ <<j, i>> \in P
  /\ \A i, j, k \in 1 .. n : <<i, j>> \in P /\ <<j, k>> \in P => <<i, k>> \in P
RankIn(P, n) == [i \in 1 .. n |-> 1 + Cardinality({j \in 1 .. n : <<j, i>> \in P})]

\* Every number up to the length is the rank of a place, and what is before another
\* has a smaller one.
LEMMA Ranks ==
  ASSUME NEW n \in Nat, NEW P, Orders(P, n)
  PROVE  /\ \A k \in 1 .. n : \E i \in 1 .. n : RankIn(P, n)[i] = k
         /\ \A i, j \in 1 .. n : RankIn(P, n)[i] \in 1 .. n /\ (<<i, j>> \in P => RankIn(P, n)[i] < RankIn(P, n)[j])
<1> DEFINE I == 1 .. n
           B(i) == {j \in I : <<j, i>> \in P}
<1>0. PICK rank : rank = RankIn(P, n)
  OBVIOUS
<1>1. IsFiniteSet(I) /\ Cardinality(I) = n
  <2>1. n \in Int /\ 1 \in Int /\ (IF 1 > n THEN 0 ELSE n - 1 + 1) = n
    OBVIOUS
  <2>2. Cardinality(1 .. n) = IF 1 > n THEN 0 ELSE n - 1 + 1
    BY <2>1, FS_Interval
  <2> QED BY <2>1, <2>2, FS_Interval
<1>2. ASSUME NEW i \in I
      PROVE  /\ IsFiniteSet(B(i)) /\ Cardinality(B(i)) \in Nat /\ Cardinality(B(i)) <= n - 1
             /\ rank[i] = 1 + Cardinality(B(i))
  <2>1. B(i) \in SUBSET (I \ {i})
    BY DEF Orders
  <2>2. IsFiniteSet(I \ {i}) /\ Cardinality(I \ {i}) = n - 1
    BY <1>1, FS_RemoveElement
  <2>3. rank[i] = 1 + Cardinality(B(i))
    BY <1>0 DEF RankIn
  <2> HIDE DEF I, B
  <2>4. IsFiniteSet(B(i)) /\ Cardinality(B(i)) <= Cardinality(I \ {i})
    BY <2>1, <2>2, FS_Subset
  <2>5. Cardinality(B(i)) \in Nat
    BY <2>4, FS_CardinalityType
  <2> QED BY <2>2, <2>3, <2>4, <2>5
<1>3. ASSUME NEW i \in I, NEW j \in I, <<i, j>> \in P PROVE Cardinality(B(i)) < Cardinality(B(j))
  <2>1. B(i) \in SUBSET B(j)
    <3> SUFFICES ASSUME NEW k \in I, <<k, i>> \in P PROVE <<k, j>> \in P
      OBVIOUS
    <3> QED BY <1>3 DEF Orders
  <2>2. i \in B(j) /\ i \notin B(i)
    BY <1>3 DEF Orders
  <2>3. /\ IsFiniteSet(B(j)) /\ Cardinality(B(j)) \in Nat
        /\ Cardinality(B(i)) \in Nat
    BY <1>2
  <2> HIDE DEF I, B
  <2>4. Cardinality(B(i)) <= Cardinality(B(j)) /\ (Cardinality(B(j)) = Cardinality(B(i)) => B(j) = B(i))
    BY <2>1, <2>3, FS_Subset
  <2> QED BY <2>2, <2>3, <2>4
<1> HIDE DEF B
<1>4. ASSUME NEW i \in I PROVE rank[i] \in 1 .. n
  <2>1. n \in Nat /\ Cardinality(B(i)) \in Nat /\ Cardinality(B(i)) <= n - 1 /\ rank[i] = 1 + Cardinality(B(i))
    BY <1>2
  <2> QED BY <2>1
<1>5. ASSUME NEW i \in I, NEW j \in I, <<i, j>> \in P PROVE rank[i] < rank[j]
  <2>1. /\ Cardinality(B(i)) \in Nat /\ rank[i] = 1 + Cardinality(B(i))
        /\ Cardinality(B(j)) \in Nat /\ rank[j] = 1 + Cardinality(B(j))
    BY <1>2
  <2>2. Cardinality(B(i)) < Cardinality(B(j))
    BY <1>3, <1>5
  <2> QED BY <2>1, <2>2
<1>6. rank \in Injection(I, I)
  <2>1. rank \in [I -> I]
    BY <1>0, <1>4 DEF RankIn
  <2>2. ASSUME NEW i \in I, NEW j \in I, rank[i] = rank[j] PROVE i = j
    <3>1. rank[i] \in 1 .. n /\ ~ (rank[i] < rank[i])
      BY <1>4
    <3>2. ~ (<<i, j>> \in P) /\ ~ (<<j, i>> \in P)
      BY <1>5, <2>2, <3>1
    <3> QED BY <3>2 DEF Orders
  <2> HIDE DEF I
  <2>3. DOMAIN rank = I
    BY <2>1
  <2> QED BY <2>1, <2>2, <2>3 DEF Injection, IsInjective
<1>7. rank \in Surjection(I, I)
  <2> HIDE DEF I
  <2> QED BY <1>1, <1>6, FS_Injection
<1>8. \A k \in I : \E i \in I : rank[i] = k
  <2> HIDE DEF I
  <2> QED BY <1>7 DEF Surjection
<1> QED BY <1>0, <1>4, <1>5, <1>8

\* The sort keeps the entities and puts them in the order of their offsets.
LEMMA SortsByOffset ==
  ASSUME NEW l, AreEntities(l)
  PROVE  /\ IsList(ByOffset(l)) /\ Ascending(ByOffset(l)) /\ Len(ByOffset(l)) = Len(l)
         /\ \A k \in 1 .. Len(l) : \E i \in 1 .. Len(l) : ByOffset(l)[k] = l[i]
<1> DEFINE n == Len(l)
           Before(i, j) == \/ l[i].off < l[j].off
                           \/ l[i].off = l[j].off /\ i < j
           P == {p \in (1 .. n) \X (1 .. n) : Before(p[1], p[2])}
           rank == RankIn(P, n)
           at(k) == CHOOSE i \in 1 .. n : rank[i] = k
<1>1. n \in Nat /\ DOMAIN l = 1 .. n /\ \A i \in 1 .. n : IsEntity(l[i]) /\ l[i].off \in Nat
  BY ListIsSeq DEF AreEntities, IsEntity
<1>2. \A i, j \in 1 .. n : <<i, j>> \in P <=> Before(i, j)
  OBVIOUS
<1>3. /\ \A k \in 1 .. n : \E i \in 1 .. n : rank[i] = k
      /\ \A i, j \in 1 .. n : rank[i] \in 1 .. n /\ (<<i, j>> \in P => rank[i] < rank[j])
  <2>1. P \subseteq (1 .. n) \X (1 .. n)
    OBVIOUS
  <2> HIDE DEF P
  <2>2. \A i \in 1 .. n : <<i, i>> \notin P
    BY <1>1, <1>2
  <2>3. ASSUME NEW i \in 1 .. n, NEW j \in 1 .. n, i # j PROVE <<i, j>> \in P \/ <<j, i>> \in P
    <3>1. l[i].off \in Nat /\ l[j].off \in Nat
      BY <1>1
    <3>2. Before(i, j) \/ Before(j, i)
      BY <2>3, <3>1
    <3> HIDE DEF Before
    <3> QED BY <1>2, <3>2
  <2>4. ASSUME NEW i \in 1 .. n, NEW j \in 1 .. n, NEW k \in 1 .. n, <<i, j>> \in P, <<j, k>> \in P
        PROVE  <<i, k>> \in P
    <3>1. l[i].off \in Nat /\ l[j].off \in Nat /\ l[k].off \in Nat
      BY <1>1
    <3>2. Before(i, j) /\ Before(j, k)
      BY <1>2, <2>4
    <3>3. Before(i, k)
      BY <3>1, <3>2
    <3> HIDE DEF Before
    <3> QED BY <1>2, <3>3
  <2>5. Orders(P, n)
    BY <2>1, <2>2, <2>3, <2>4 DEF Orders
  <2> HIDE DEF n
  <2> QED BY <1>1, <2>5, Ranks
<1>4. ByOffset(l) = [k \in 1 .. n |-> l[at(k)]]
  <2> DEFINE Q(i, j) == \/ GetEntityOffset(l[i]) < GetEntityOffset(l[j])
                        \/ GetEntityOffset(l[i]) = GetEntityOffset(l[j]) /\ i < j
  <2>1. \A i \in 1 .. n : GetEntityOffset(l[i]) = l[i].off
    BY <1>1, EntityFacts
  <2>2. ASSUME NEW i \in 1 .. n, NEW j \in 1 .. n PROVE <<i, j>> \in P <=> Q(i, j)
    <3>1. Before(i, j) <=> Q(i, j)
      BY <2>1
    <3> HIDE DEF Before, Q, P
    <3> QED BY <1>2, <3>1
  <2>3. ASSUME NEW i \in 1 .. n PROVE rank[i] = 1 + Cardinality({j \in 1 .. n : Q(j, i)})
    <3>1. rank[i] = 1 + Cardinality({j \in 1 .. n : <<j, i>> \in P})
      BY DEF RankIn
    <3> HIDE DEF P, Q, rank
    <3>2. {j \in 1 .. n : <<j, i>> \in P} = {j \in 1 .. n : Q(j, i)}
      BY <2>2
    <3> QED BY <3>1, <3>2
  <2>4. ByOffset(l) = [k \in 1 .. n |-> l[CHOOSE i \in 1 .. n : 1 + Cardinality({j \in 1 .. n : Q(j, i)}) = k]]
    BY <1>1 DEF ByOffset
  <2> HIDE DEF Q, rank
  <2>5. ASSUME NEW k \in 1 .. n
        PROVE  (CHOOSE i \in 1 .. n : 1 + Cardinality({j \in 1 .. n : Q(j, i)}) = k) = at(k)
    BY <2>3
  <2> HIDE DEF at
  <2> QED BY <2>4, <2>5
<1>5. \A k \in 1 .. n : at(k) \in 1 .. n /\ rank[at(k)] = k
  <2> HIDE DEF rank, n
  <2> QED BY <1>3
<1> HIDE DEF at
<1>6. IsList(ByOffset(l)) /\ Len(ByOffset(l)) = n
  <2>1. PICK x : x = ByOffset(l)
    OBVIOUS
  <2>2. x = [k \in 1 .. n |-> x[k]]
    BY <1>4, <2>1
  <2>3. IsList(x) /\ Len(x) = n
    BY <1>1, <2>2, FunctionIsList
  <2> QED BY <2>1, <2>3
<1>7. \A k \in 1 .. n : ByOffset(l)[k] = l[at(k)]
  BY <1>4
<1>8. ASSUME NEW k \in 1 .. n, NEW m \in 1 .. n, k < m PROVE l[at(k)].off <= l[at(m)].off
  <2>1. /\ at(k) \in 1 .. n /\ rank[at(k)] = k
        /\ at(m) \in 1 .. n /\ rank[at(m)] = m
    BY <1>5
  <2> HIDE DEF rank, P
  <2>2. ASSUME <<at(m), at(k)>> \in P PROVE FALSE
    <3>1. rank[at(m)] < rank[at(k)]
      BY <1>3, <2>1, <2>2
    <3>2. m < k /\ k \in Nat /\ m \in Nat
      BY <2>1, <3>1
    <3> QED BY <1>8, <3>2
  <2>3. ~ (l[at(m)].off < l[at(k)].off)
    BY <1>2, <2>1, <2>2
  <2>4. l[at(m)].off \in Nat /\ l[at(k)].off \in Nat
    BY <1>1, <2>1
  <2> QED BY <2>3, <2>4
<1>9. DOMAIN ByOffset(l) = 1 .. n
  BY <1>4
<1>10. Ascending(ByOffset(l))
  BY <1>7, <1>8, <1>9 DEF Ascending
<1> QED BY <1>5, <1>6, <1>7, <1>10

-----------------------------------------------------------------------------
(* The parser of Markdown. *)

\* The types that it finds, and those on whose text it does not look again.
MdTypes  == {"Bold", "Italic", "Strike", "Code", "Pre", "TextURL", "MentionName"}
MdClosed == {"Code", "Pre", "TextURL", "MentionName"}

\* The entities found when the loop is at p: they start at or before p, those that
\* are closed end there too, they come in the order of their offsets, and what comes
\* after one of code starts behind it.
MdEntity(e, p) ==
  /\ IsEntity(e) /\ e.type \in MdTypes /\ e.off <= p
  /\ e.type \in MdClosed => e.len >= 0 /\ e.off + e.len <= p
Found(l, p) ==
  /\ IsList(l)
  /\ \A k \in 1 .. Len(l) : MdEntity(l[k], p)
  /\ \A i, j \in 1 .. Len(l) : i < j => l[i].off <= l[j].off
  /\ \A i, j \in 1 .. Len(l) : i < j /\ l[i].type \in {"Code", "Pre"} => l[i].off + l[i].len <= l[j].off

\* What Markdown returns.
MdGood(r) ==
  /\ Ascending(r.ents)
  /\ \A i \in DOMAIN r.ents :
        Within(r.ents[i], r.text) /\ (r.ents[i].len < 0 => r.ents[i].type \in {"Bold", "Italic", "Strike"})

\* The inductive invariant of the parser of Markdown.
MdInv ==
  /\ IsList(u16) /\ pos \in Nat
  /\ Found(result, pos)
  /\ final = NoText \/ MdGood(final)

\* What becomes of an entity when something is removed at p, and one that is new.
Shrunk(x, e, p) == IsEntity(x) /\ x.type = e.type /\ x.off = e.off /\ (e.off + e.len <= p => x = e)
NewAt(e, p, q) ==
  /\ IsEntity(e) /\ e.type \in MdTypes /\ e.off = p
  /\ e.type \in MdClosed => e.len >= 0 /\ e.off + e.len <= q

\* The loop moves on.
LEMMA FoundMoves ==
  ASSUME NEW l, NEW p \in Nat, NEW q \in Nat, p <= q, Found(l, p)
  PROVE  Found(l, q)
<1>1. ASSUME NEW k \in 1 .. Len(l) PROVE MdEntity(l[k], q)
  BY DEF Found, MdEntity, IsEntity
<1> QED BY <1>1 DEF Found

\* An entity is found at p and the loop goes on at q.
LEMMA FoundGrows ==
  ASSUME NEW l, NEW p \in Nat, Found(l, p), NEW q \in Nat, p <= q,
         NEW m, IsList(m), Len(m) = Len(l), \A k \in 1 .. Len(l) : Shrunk(m[k], l[k], p),
         NEW e, NewAt(e, p, q)
  PROVE  Found(Append(m, e), q)
<1>1. PICK n : n = Append(m, e)
  OBVIOUS
<1>2. /\ IsList(n) /\ Len(n) = Len(m) + 1 /\ Len(m) \in Nat
      /\ \A k \in 1 .. Len(m) : n[k] = m[k]
      /\ n[Len(m) + 1] = e
  BY <1>1, ListAppend, ListIsSeq
<1>3. ASSUME NEW k \in 1 .. Len(m)
      PROVE  MdEntity(n[k], q) /\ n[k].off = l[k].off /\ n[k].type = l[k].type /\ n[k].off \in Nat /\ n[k].off <= p
             /\ (n[k].type \in MdClosed => n[k] = l[k])
  <2>1. Shrunk(m[k], l[k], p) /\ MdEntity(l[k], p) /\ n[k] = m[k]
    BY <1>2 DEF Found
  <2>2. n[k].type \in MdClosed => n[k] = l[k]
    BY <2>1 DEF Shrunk, MdEntity
  <2> QED BY <2>1, <2>2 DEF Shrunk, MdEntity, IsEntity
<1>4. MdEntity(e, q) /\ e.off = p
  BY DEF NewAt, MdEntity, IsEntity
<1>5. \A k \in 1 .. Len(n) : k \in 1 .. Len(m) \/ k = Len(m) + 1
  BY <1>2
<1>6. \A k \in 1 .. Len(n) : MdEntity(n[k], q)
  BY <1>2, <1>3, <1>4, <1>5
<1>7. ASSUME NEW i \in 1 .. Len(n), NEW j \in 1 .. Len(n), i < j
      PROVE  n[i].off <= n[j].off /\ (n[i].type \in {"Code", "Pre"} => n[i].off + n[i].len <= n[j].off)
  <2>1. i \in 1 .. Len(m)
    BY <1>2, <1>7
  <2>2. CASE j \in 1 .. Len(m)
    <3>1. l[i].off <= l[j].off /\ (l[i].type \in {"Code", "Pre"} => l[i].off + l[i].len <= l[j].off)
      BY <1>7, <2>1, <2>2 DEF Found
    <3>2. n[i].type \in {"Code", "Pre"} => n[i] = l[i]
      BY <1>3, <2>1 DEF MdClosed
    <3> QED BY <1>3, <2>1, <2>2, <3>1, <3>2
  <2>3. CASE j = Len(m) + 1
    <3>1. n[j].off = p
      BY <1>2, <1>4, <2>3
    <3>2. n[i].type \in {"Code", "Pre"} => n[i] = l[i] /\ MdEntity(l[i], p)
      BY <1>3, <2>1 DEF MdClosed, Found
    <3> QED BY <1>3, <2>1, <3>1, <3>2 DEF MdEntity, MdClosed
  <2> QED BY <1>5, <2>2, <2>3
<1> QED BY <1>1, <1>2, <1>6, <1>7 DEF Found

\* Where a delimiter or a bracket is found.
LEMMA IndexFrom ==
  ASSUME NEW u, IsList(u), NEW needle, NEW from \in Nat, u16IndexFrom(u, needle, from) >= 0
  PROVE  LET at == u16IndexFrom(u, needle, from)
         IN  at \in Nat /\ from <= at /\ at <= Len(u) /\ HasPrefixAt(u, needle, at) /\ at + Len(needle) <= Len(u)
<1> DEFINE Places == {i \in from .. Len(u) : HasPrefixAt(u, needle, i)}
<1>1. Len(u) \in Nat
  BY ListIsSeq
<1>2. u16IndexFrom(u, needle, from) = IF Places = {} THEN -1 ELSE Min(Places)
  BY DEF u16IndexFrom
<1>3. Places # {}
  <2> HIDE DEF Places
  <2> QED BY <1>2
<1>4. Min(Places) \in Places
  <2>1. Places \in SUBSET Nat
    BY <1>1
  <2> HIDE DEF Places
  <2>2. \E x \in Places : \A y \in Places : x <= y
    BY <1>3, <2>1, Least
  <2> QED BY <2>2 DEF Min
<1>5. PICK at : at = Min(Places)
  OBVIOUS
<1>6. at \in from .. Len(u) /\ HasPrefixAt(u, needle, at)
  BY <1>4, <1>5
<1>7. u16IndexFrom(u, needle, from) = at
  <2> HIDE DEF Places
  <2> QED BY <1>2, <1>3, <1>5
<1>8. at + Len(needle) <= Len(u)
  BY <1>6 DEF HasPrefixAt
<1> HIDE DEF Places
<1> QED BY <1>1, <1>6, <1>7, <1>8

\* The delimiters.
LEMMA DelimFacts ==
  ASSUME NEW k \in DOMAIN Delims
  PROVE  Len(Delims[k].str) \in 1 .. 3 /\ Delims[k].type \in {"Pre", "Bold", "Italic", "Strike", "Code"}
<1>1. DOMAIN Delims = 1 .. 5
  BY DEF Delims
<1>2. k = 1 \/ k = 2 \/ k = 3 \/ k = 4 \/ k = 5
  BY <1>1
<1>3. /\ Delims[1].type = "Pre" /\ Len(Delims[1].str) = 3
      /\ Delims[2].type = "Bold" /\ Len(Delims[2].str) = 2
      /\ Delims[3].type = "Italic" /\ Len(Delims[3].str) = 2
      /\ Delims[4].type = "Strike" /\ Len(Delims[4].str) = 2
      /\ Delims[5].type = "Code" /\ Len(Delims[5].str) = 1
  BY DEF Delims
<1> QED BY <1>2, <1>3

\* A pair of delimiters is removed.
LEMMA DelimitedKeeps ==
  ASSUME MdInv, Delimited
  PROVE  MdInv'
<1>1. IsList(u16) /\ pos \in Nat /\ Found(result, pos) /\ Len(u16) \in Nat /\ IsList(result)
  BY ListIsSeq DEF MdInv, Found
<1>2. Min(Matching) \in Matching
  <2>1. Matching \in SUBSET Nat /\ Matching # {}
    <3>1. DOMAIN Delims = 1 .. 5
      BY DEF Delims
    <3>2. Matching # {}
      BY DEF Delimited
    <3>3. Matching \in SUBSET Nat
      BY <3>1 DEF Matching
    <3> QED BY <3>2, <3>3
  <2>2. \E x \in Matching : \A y \in Matching : x <= y
    BY <2>1, Least
  <2> QED BY <2>2 DEF Min
<1>3. PICK d : d = Delims[Min(Matching)]
  OBVIOUS
<1>4. PICK dl : dl = Len(d.str)
  OBVIOUS
<1>5. PICK end : end = Closing(d)
  OBVIOUS
<1>6. PICK new : new = [type |-> d.type, off |-> pos, len |-> end - pos - dl, arg |-> ""]
  OBVIOUS
<1>7. PICK m : m = [k \in DOMAIN result |-> ShrinkForDelims(result[k], pos, end, dl)]
  OBVIOUS
<1>8. /\ u16' = Units(u16, 0, pos) \o Units(u16, pos + dl, end) \o Units(u16, end + dl, Len(u16))
      /\ result' = Append(m, new) /\ pos' = NextPos(d, end) /\ final' = final
  BY <1>3, <1>4, <1>5, <1>6, <1>7 DEF Delimited
<1>9. dl \in 1 .. 3 /\ d.type \in {"Pre", "Bold", "Italic", "Strike", "Code"} /\ end >= 0
      /\ HasPrefixAt(u16, d.str, pos)
  BY <1>2, <1>3, <1>4, <1>5, DelimFacts DEF Matching
<1>10. end \in Nat /\ pos + dl + 1 <= end /\ end + dl <= Len(u16)
  <2>1. pos + dl + 1 \in Nat /\ end = u16IndexFrom(u16, d.str, pos + dl + 1)
    BY <1>1, <1>4, <1>5, <1>9 DEF Closing
  <2> QED BY <1>1, <1>4, <1>9, <2>1, IndexFrom
<1>11. IsList(u16')
  <2>1. IsList(Units(u16, 0, pos))
    <3>1. 0 + 1 \in Nat /\ 0 + 1 >= 1 /\ pos \in Int /\ pos <= Len(u16)
      BY <1>1, <1>9, <1>10
    <3> QED BY <1>1, <3>1, ListPart DEF Units
  <2>2. IsList(Units(u16, pos + dl, end))
    <3>1. (pos + dl) + 1 \in Nat /\ (pos + dl) + 1 >= 1 /\ end \in Int /\ end <= Len(u16)
      BY <1>1, <1>9, <1>10
    <3> QED BY <1>1, <3>1, ListPart DEF Units
  <2>3. IsList(Units(u16, end + dl, Len(u16)))
    <3>1. (end + dl) + 1 \in Nat /\ (end + dl) + 1 >= 1 /\ Len(u16) \in Int /\ Len(u16) <= Len(u16)
      BY <1>1, <1>9, <1>10
    <3> QED BY <1>1, <3>1, ListPart DEF Units
  <2>4. IsList(Units(u16, 0, pos) \o Units(u16, pos + dl, end))
    BY <2>1, <2>2, ListConcat
  <2>5. IsList((Units(u16, 0, pos) \o Units(u16, pos + dl, end)) \o Units(u16, end + dl, Len(u16)))
    BY <2>3, <2>4, ListConcat
  <2> QED BY <1>8, <2>5
<1>12. IsList(m) /\ Len(m) = Len(result) /\ \A k \in 1 .. Len(result) : Shrunk(m[k], result[k], pos)
  <2>1. DOMAIN result = 1 .. Len(result) /\ Len(result) \in Nat
    BY <1>1, ListIsSeq
  <2>2. m = [k \in 1 .. Len(result) |-> m[k]]
    BY <1>7, <2>1
  <2>3. ASSUME NEW k \in 1 .. Len(result) PROVE Shrunk(m[k], result[k], pos)
    <3>1. PICK e : e = result[k]
      OBVIOUS
    <3>2. IsEntity(e)
      BY <1>1, <3>1 DEF Found, MdEntity
    <3>3. GetEntityOffset(e) = e.off /\ GetEntityLength(e) = e.len /\ EntityEnd(e) = e.off + e.len
          /\ e.off \in Nat /\ e.len \in Int
      BY <3>2, EntityFacts DEF IsEntity
    <3>4. PICK less : less = e.len - (IF e.off <= pos /\ e.off + e.len >= end + dl THEN 2 * dl ELSE dl)
      OBVIOUS
    <3>5. less \in Int
      BY <1>9, <3>3, <3>4
    <3>6. m[k] = IF e.off + e.len > pos THEN SetEntityLength(e, less) ELSE e
      BY <1>7, <2>1, <3>1, <3>3, <3>4 DEF ShrinkForDelims
    <3>7. CASE e.off + e.len > pos
      <4>1. PICK x : x = SetEntityLength(e, less)
        OBVIOUS
      <4>2. IsEntity(x) /\ x.type = e.type /\ x.off = e.off
        BY <3>2, <3>5, <4>1, EntityFacts
      <4>3. ~ (e.off + e.len <= pos)
        BY <1>1, <3>3, <3>7
      <4> QED BY <3>1, <3>6, <3>7, <4>1, <4>2, <4>3 DEF Shrunk
    <3>8. CASE ~ (e.off + e.len > pos)
      BY <3>1, <3>2, <3>6, <3>8 DEF Shrunk
    <3> QED BY <3>7, <3>8
  <2> QED BY <2>1, <2>2, <2>3, FunctionIsList
<1>13. pos' \in Nat /\ pos <= pos' /\ NewAt(new, pos, pos')
  <2>1. DOMAIN new = {"type", "off", "len", "arg"} /\ new.type = d.type /\ new.off = pos /\ new.len = end - pos - dl
    BY <1>6
  <2>2. new.len \in Nat /\ new.off + new.len = end - dl
    BY <1>1, <1>9, <1>10, <2>1
  <2>3. IsEntity(new) /\ new.type \in MdTypes
    BY <1>1, <1>9, <2>1, <2>2 DEF IsEntity, MdTypes, EntityTypes
  <2>4. pos' = IF d.type \in {"Code", "Pre"} THEN end - dl ELSE pos
    BY <1>4, <1>8 DEF NextPos
  <2>5. new.type \in MdClosed => d.type \in {"Code", "Pre"}
    BY <1>9, <2>1 DEF MdClosed
  <2>6. pos' \in Nat /\ pos <= pos'
    BY <1>1, <1>9, <1>10, <2>4
  <2>7. new.type \in MdClosed => new.off + new.len <= pos'
    BY <1>9, <1>10, <2>2, <2>4, <2>5
  <2> QED BY <2>1, <2>2, <2>3, <2>6, <2>7 DEF NewAt
<1>14. Found(result', pos')
  BY <1>1, <1>8, <1>12, <1>13, FoundGrows
<1>15. final' = NoText \/ MdGood(final')
  BY <1>8 DEF MdInv
<1> QED BY <1>11, <1>13, <1>14, <1>15 DEF MdInv, NoText, MdGood, Found, Ascending, Within

\* A link is replaced by its text.
LEMMA LinkKeeps ==
  ASSUME MdInv, Link
  PROVE  MdInv'
<1>1. IsList(u16) /\ pos \in Nat /\ Found(result, pos) /\ Len(u16) \in Nat /\ IsList(result)
  BY ListIsSeq DEF MdInv, Found
<1>2. PICK m \in LinkAt(u16, pos) :
        LET inside  == Units(u16, pos + 1, m.mid)
            address == FromUTF16(Units(u16, m.mid + 2, m.end))
            removed == m.end + 1 - pos - Len(inside)
            Shrink(e) == IF EntityEnd(e) > pos
                         THEN SetEntityLength(e, GetEntityLength(e) - removed) ELSE e
        IN  /\ u16' = Units(u16, 0, pos) \o inside \o Units(u16, m.end + 1, Len(u16))
            /\ result' = Append([k \in DOMAIN result |-> Shrink(result[k])],
                                [type |-> IF address \in Mentions THEN "MentionName" ELSE "TextURL",
                                 off |-> pos, len |-> Len(inside), arg |-> address])
            /\ pos' = pos + Len(inside)
  BY DEF Link
<1>3. PICK inside : inside = Units(u16, pos + 1, m.mid)
  OBVIOUS
<1>4. PICK address : address = FromUTF16(Units(u16, m.mid + 2, m.end))
  OBVIOUS
<1>5. PICK removed : removed = m.end + 1 - pos - Len(inside)
  OBVIOUS
<1>6. PICK new : new = [type |-> IF address \in Mentions THEN "MentionName" ELSE "TextURL",
                        off |-> pos, len |-> Len(inside), arg |-> address]
  OBVIOUS
<1>7. PICK s : s = [k \in DOMAIN result |-> IF EntityEnd(result[k]) > pos
                                             THEN SetEntityLength(result[k], GetEntityLength(result[k]) - removed)
                                             ELSE result[k]]
  OBVIOUS
<1>8. /\ u16' = Units(u16, 0, pos) \o inside \o Units(u16, m.end + 1, Len(u16))
      /\ result' = Append(s, new) /\ pos' = pos + Len(inside) /\ final' = final
  <2>1. final' = final
    BY DEF Link
  <2> QED BY <1>2, <1>3, <1>4, <1>5, <1>6, <1>7, <2>1
<1>9. /\ m.mid \in Nat /\ m.end \in Nat /\ pos + 1 <= Len(u16) /\ pos <= m.mid /\ m.mid + 2 <= Len(u16)
      /\ m.mid + 2 <= m.end /\ m.end + 1 <= Len(u16)
  <2>1. PICK mid : mid = u16IndexFrom(u16, <<"]">>, pos)
    OBVIOUS
  <2>2. PICK end : end = u16IndexFrom(u16, <<")">>, mid + 2)
    OBVIOUS
  <2>3. LinkAt(u16, pos) = IF HasPrefixAt(u16, <<"[">>, pos) /\ mid >= 0 /\ HasPrefixAt(u16, <<"]", "(">>, mid) /\ end >= 0
                           THEN {[mid |-> mid, end |-> end]} ELSE {}
    BY <2>1, <2>2 DEF LinkAt
  <2>4. /\ HasPrefixAt(u16, <<"[">>, pos) /\ mid >= 0 /\ HasPrefixAt(u16, <<"]", "(">>, mid) /\ end >= 0
        /\ m = [mid |-> mid, end |-> end]
    BY <1>2, <2>3
  <2>5. Len(<<"[">>) = 1 /\ Len(<<"]", "(">>) = 2 /\ Len(<<")">>) = 1
    OBVIOUS
  <2>6. pos + 1 <= Len(u16) /\ mid + 2 <= Len(u16)
    <3>1. pos + Len(<<"[">>) <= Len(u16) /\ mid + Len(<<"]", "(">>) <= Len(u16)
      BY <2>4, Zenon DEF HasPrefixAt
    <3> QED BY <2>5, <3>1
  <2>7. mid \in Nat /\ pos <= mid
    BY <1>1, <2>1, <2>4, IndexFrom
  <2>8. end \in Nat /\ mid + 2 <= end /\ end + Len(<<")">>) <= Len(u16)
    <3>1. mid + 2 \in Nat
      BY <2>7
    <3> QED BY <1>1, <2>2, <2>4, <3>1, IndexFrom
  <2>9. m.mid = mid /\ m.end = end
    BY <2>4
  <2> QED BY <2>5, <2>6, <2>7, <2>8, <2>9
<1>10. IsList(inside) /\ Len(inside) \in Nat
  <2>1. (pos + 1) + 1 \in Nat /\ (pos + 1) + 1 >= 1 /\ m.mid \in Int /\ m.mid <= Len(u16)
    BY <1>1, <1>9
  <2>2. IsList(inside)
    BY <1>1, <1>3, <2>1, ListPart DEF Units
  <2> QED BY <2>2, ListIsSeq
<1>11. IsList(u16')
  <2>1. IsList(Units(u16, 0, pos))
    <3>1. 0 + 1 \in Nat /\ 0 + 1 >= 1 /\ pos \in Int /\ pos <= Len(u16)
      BY <1>1, <1>9
    <3> QED BY <1>1, <3>1, ListPart DEF Units
  <2>2. IsList(Units(u16, m.end + 1, Len(u16)))
    <3>1. (m.end + 1) + 1 \in Nat /\ (m.end + 1) + 1 >= 1 /\ Len(u16) \in Int /\ Len(u16) <= Len(u16)
      BY <1>1, <1>9
    <3> QED BY <1>1, <3>1, ListPart DEF Units
  <2>3. IsList(Units(u16, 0, pos) \o inside)
    BY <1>10, <2>1, ListConcat
  <2>4. IsList((Units(u16, 0, pos) \o inside) \o Units(u16, m.end + 1, Len(u16)))
    BY <2>2, <2>3, ListConcat
  <2> QED BY <1>8, <2>4
<1>12. IsList(s) /\ Len(s) = Len(result) /\ \A k \in 1 .. Len(result) : Shrunk(s[k], result[k], pos)
  <2>1. DOMAIN result = 1 .. Len(result) /\ Len(result) \in Nat
    BY <1>1, ListIsSeq
  <2>2. s = [k \in 1 .. Len(result) |-> s[k]]
    BY <1>7, <2>1
  <2>3. ASSUME NEW k \in 1 .. Len(result) PROVE Shrunk(s[k], result[k], pos)
    <3>1. PICK e : e = result[k]
      OBVIOUS
    <3>2. IsEntity(e)
      BY <1>1, <3>1 DEF Found, MdEntity
    <3>3. GetEntityLength(e) = e.len /\ EntityEnd(e) = e.off + e.len /\ e.off \in Nat /\ e.len \in Int
      BY <3>2, EntityFacts DEF IsEntity
    <3>4. removed \in Int /\ e.len - removed \in Int
      BY <1>1, <1>5, <1>9, <1>10, <3>3
    <3>5. s[k] = IF e.off + e.len > pos THEN SetEntityLength(e, e.len - removed) ELSE e
      BY <1>7, <2>1, <3>1, <3>3
    <3>6. CASE e.off + e.len > pos
      <4>1. PICK x : x = SetEntityLength(e, e.len - removed)
        OBVIOUS
      <4>2. IsEntity(x) /\ x.type = e.type /\ x.off = e.off
        BY <3>2, <3>4, <4>1, EntityFacts
      <4>3. ~ (e.off + e.len <= pos)
        BY <1>1, <3>3, <3>6
      <4> QED BY <3>1, <3>5, <3>6, <4>1, <4>2, <4>3 DEF Shrunk
    <3>7. CASE ~ (e.off + e.len > pos)
      BY <3>1, <3>2, <3>5, <3>7 DEF Shrunk
    <3> QED BY <3>6, <3>7
  <2> QED BY <2>1, <2>2, <2>3, FunctionIsList
<1>13. pos' \in Nat /\ pos <= pos' /\ NewAt(new, pos, pos')
  <2>1. /\ DOMAIN new = {"type", "off", "len", "arg"} /\ new.type \in {"MentionName", "TextURL"}
        /\ new.off = pos /\ new.len = Len(inside)
    BY <1>6
  <2>2. IsEntity(new) /\ new.type \in MdTypes
    BY <1>1, <1>10, <2>1 DEF IsEntity, MdTypes, EntityTypes
  <2>3. pos' \in Nat /\ pos <= pos' /\ new.len >= 0 /\ new.off + new.len <= pos'
    BY <1>1, <1>8, <1>10, <2>1
  <2> QED BY <2>1, <2>2, <2>3 DEF NewAt
<1>14. Found(result', pos')
  BY <1>1, <1>8, <1>12, <1>13, FoundGrows
<1>15. final' = NoText \/ MdGood(final')
  BY <1>8 DEF MdInv
<1> QED BY <1>11, <1>13, <1>14, <1>15 DEF MdInv, NoText, MdGood, Found, Ascending, Within

\* One unit on.
LEMMA AdvanceKeeps ==
  ASSUME MdInv, Advance
  PROVE  MdInv'
<1>1. IsList(u16) /\ pos \in Nat /\ Found(result, pos) /\ (final = NoText \/ MdGood(final))
  BY DEF MdInv
<1>2. u16' = u16 /\ result' = result /\ final' = final /\ pos' = pos + 1
  BY DEF Advance
<1>3. pos' \in Nat /\ pos <= pos'
  BY <1>1, <1>2
<1>4. Found(result', pos')
  BY <1>1, <1>2, <1>3, FoundMoves
<1> QED BY <1>1, <1>2, <1>3, <1>4 DEF MdInv, NoText, MdGood, Found, Ascending, Within

\* What is found is what StripText is given, and it returns what is good.
LEMMA ReturnMarkdownKeeps ==
  ASSUME MdInv, ReturnMarkdown
  PROVE  MdInv'
<1>1. IsList(u16) /\ pos \in Nat /\ Found(result, pos)
  BY DEF MdInv
<1>2. u16' = u16 /\ result' = result /\ pos' = pos /\ final' = StripText(FromUTF16(u16), result)
  BY DEF ReturnMarkdown
<1>3. AreEntities(result) /\ Ascending(result) /\ DOMAIN result = 1 .. Len(result)
  BY <1>1, ListIsSeq DEF Found, MdEntity, AreEntities, Ascending
<1>4. GoodText(final', result)
  BY <1>1, <1>2, <1>3, DecodedIsList, StripsText
<1>5. PICK r : r = final'
  OBVIOUS
<1>6. GoodText(r, result) /\ DOMAIN r.ents = 1 .. Len(r.ents)
  BY <1>4, <1>5, ListIsSeq DEF GoodText, AreEntities
<1>7. ASSUME NEW k \in DOMAIN r.ents, r.ents[k].len < 0 PROVE r.ents[k].type \in {"Bold", "Italic", "Strike"}
  <2>1. PICK i \in 1 .. Len(result) : result[i].len < 0 /\ result[i].type = r.ents[k].type
    BY <1>6, <1>7 DEF GoodText
  <2>2. MdEntity(result[i], pos) /\ result[i].len \in Int
    BY <1>1, <2>1 DEF Found, MdEntity, IsEntity
  <2>3. result[i].type \in MdTypes \ MdClosed
    BY <2>1, <2>2 DEF MdEntity
  <2> QED BY <2>1, <2>3 DEF MdTypes, MdClosed
<1>8. MdGood(r)
  BY <1>3, <1>6, <1>7 DEF GoodText, MdGood
<1>9. MdGood(final')
  BY <1>5, <1>8
<1> QED BY <1>1, <1>2, <1>9 DEF MdInv, NoText, MdGood, Found, Ascending, Within

-----------------------------------------------------------------------------
(* The parser of HTML. *)

\* The entities under construction reach the end, those that are finished are
\* entities, and none has a negative length.
Counted(b) == DOMAIN b = {"ent", "depth"} /\ IsEntity(b.ent) /\ b.ent.len >= 0
Reaches(building, end) ==
  \A tag \in DOMAIN building : Counted(building[tag]) /\ building[tag].ent.off + building[tag].ent.len = end
ParserOK(p) ==
  /\ DOMAIN p = {"text", "utf16Pos", "entities", "building", "open"}
  /\ IsList(p.text) /\ p.utf16Pos = UTF16Len(p.text)
  /\ AreEntities(p.entities) /\ \A i \in 1 .. Len(p.entities) : p.entities[i].len >= 0
  /\ Reaches(p.building, p.utf16Pos)

\* What HTML returns.
HtmlGood(r) ==
  /\ Ascending(r.ents)
  /\ \A i \in DOMAIN r.ents : Within(r.ents[i], r.text) /\ r.ents[i].len > 0

\* The inductive invariant of the parser of HTML.
HtmlInv ==
  /\ IsList(toks) /\ \A i \in DOMAIN toks : IsToken(toks[i])
  /\ ParserOK(parser)
  /\ parsed = Unparsed \/ HtmlGood(parsed)

\* An entity under construction becomes longer.
LEMMA Longer ==
  ASSUME NEW b, Counted(b), NEW delta \in Nat
  PROVE  LET x == [b EXCEPT !.ent = SetEntityLength(@, GetEntityLength(@) + delta)]
         IN  Counted(x) /\ x.ent.off + x.ent.len = (b.ent.off + b.ent.len) + delta
<1>1. PICK e : e = b.ent
  OBVIOUS
<1>2. IsEntity(e) /\ e.len >= 0 /\ e.len \in Int /\ e.off \in Nat /\ GetEntityLength(e) = e.len
  BY <1>1, EntityFacts DEF Counted, IsEntity
<1>3. PICK f : f = SetEntityLength(e, e.len + delta)
  OBVIOUS
<1>4. IsEntity(f) /\ f.off = e.off /\ f.len = e.len + delta
  <2>1. e.len + delta \in Int
    BY <1>2
  <2> QED BY <1>2, <1>3, <2>1, EntityFacts
<1>5. PICK x : x = [b EXCEPT !.ent = SetEntityLength(@, GetEntityLength(@) + delta)]
  OBVIOUS
<1>6. DOMAIN x = {"ent", "depth"} /\ x.ent = f
  BY <1>1, <1>2, <1>3, <1>5 DEF Counted
<1>7. Counted(x) /\ x.ent.off + x.ent.len = (b.ent.off + b.ent.len) + delta
  BY <1>1, <1>2, <1>4, <1>6 DEF Counted
<1> QED BY <1>5, <1>7

\* Text is appended.
LEMMA AppendKeeps ==
  ASSUME NEW p, ParserOK(p), NEW data, IsList(data)
  PROVE  ParserOK(AppendText(p, data))
<1>1. PICK delta : delta = UTF16Len(data)
  OBVIOUS
<1>2. PICK building : building = [tag \in DOMAIN p.building |->
           [p.building[tag] EXCEPT !.ent = SetEntityLength(@, GetEntityLength(@) + delta)]]
  OBVIOUS
<1>3. PICK q : q = AppendText(p, data)
  OBVIOUS
<1>5. DOMAIN p = {"text", "utf16Pos", "entities", "building", "open"}
  BY DEF ParserOK
<1>6. /\ DOMAIN q = DOMAIN p /\ q.text = p.text \o data /\ q.utf16Pos = p.utf16Pos + delta
      /\ q.entities = p.entities /\ q.building = building
  BY <1>1, <1>2, <1>3, <1>5 DEF AppendText
<1>7. IsList(p.text) /\ p.utf16Pos = UTF16Len(p.text) /\ Reaches(p.building, p.utf16Pos)
  BY DEF ParserOK
<1>8. delta \in Nat
  BY <1>1, WidthIsNat
<1>9. IsList(q.text) /\ q.utf16Pos = UTF16Len(q.text)
  BY <1>1, <1>6, <1>7, ListConcat, WidthsAdd
<1>10. ASSUME NEW tag \in DOMAIN building
       PROVE  Counted(building[tag]) /\ building[tag].ent.off + building[tag].ent.len = p.utf16Pos + delta
  <2>1. PICK b : b = p.building[tag]
    OBVIOUS
  <2>2. Counted(b) /\ b.ent.off + b.ent.len = p.utf16Pos
    BY <1>2, <1>7, <2>1 DEF Reaches
  <2>3. building[tag] = [b EXCEPT !.ent = SetEntityLength(@, GetEntityLength(@) + delta)]
    BY <1>2, <2>1
  <2> QED BY <1>8, <2>2, <2>3, Longer
<1>11. Reaches(q.building, q.utf16Pos)
  BY <1>6, <1>10 DEF Reaches
<1>12. AreEntities(q.entities) /\ \A i \in 1 .. Len(q.entities) : q.entities[i].len >= 0
  BY <1>6 DEF ParserOK
<1> QED BY <1>3, <1>5, <1>6, <1>9, <1>11, <1>12 DEF ParserOK

\* The stack and what is under construction are replaced.
LEMMA Replaced ==
  ASSUME NEW p, ParserOK(p), NEW q, NEW building, Reaches(building, p.utf16Pos),
         DOMAIN q = DOMAIN p, q.text = p.text, q.utf16Pos = p.utf16Pos, q.entities = p.entities, q.building = building
  PROVE  ParserOK(q)
BY DEF ParserOK

\* A tag is put on the stack.
LEMMA PushKeeps ==
  ASSUME NEW p, ParserOK(p), NEW tag, NEW meta
  PROVE  LET q == Push(p, tag, meta)
         IN  /\ ParserOK(q)
             /\ DOMAIN q = DOMAIN p /\ q.text = p.text /\ q.utf16Pos = p.utf16Pos
             /\ q.entities = p.entities /\ q.building = p.building
<1>1. DOMAIN p = {"text", "utf16Pos", "entities", "building", "open"} /\ Reaches(p.building, p.utf16Pos)
  BY DEF ParserOK
<1>2. PICK q : q = Push(p, tag, meta)
  OBVIOUS
<1>3. /\ DOMAIN q = DOMAIN p /\ q.text = p.text /\ q.utf16Pos = p.utf16Pos
      /\ q.entities = p.entities /\ q.building = p.building
  BY <1>1, <1>2 DEF Push
<1>4. ParserOK(q)
  BY <1>1, <1>3, Replaced
<1> QED BY <1>2, <1>3, <1>4

\* What a start tag asks for is an entity of a type that is known.
LEMMA AskedType ==
  ASSUME NEW tag, NEW attrs, NEW a \in Asked(tag, attrs)
  PROVE  a[1] \in EntityTypes
<1>1. CASE tag \in DOMAIN EntityOfTag
  <2>0. tag # "a" /\ tag \notin {"tg-emoji", "emoji"}
    BY <1>1 DEF EntityOfTag
  <2>1. a = <<EntityOfTag[tag], <<>>>>
    BY <1>1, <2>0 DEF Asked
  <2>2. EntityOfTag[tag] \in EntityTypes
    BY <1>1 DEF EntityOfTag, EntityTypes
  <2> QED BY <2>1, <2>2
<1>2. CASE tag \notin DOMAIN EntityOfTag
  <2>1. a[1] \in {"Email", "MentionName", "TextURL", "CustomEmoji"}
    BY <1>2 DEF Asked
  <2> QED BY <2>1 DEF EntityTypes
<1> QED BY <1>1, <1>2

\* A start tag is handled.
LEMMA StartKeeps ==
  ASSUME NEW p, ParserOK(p), NEW t, IsToken(t)
  PROVE  ParserOK(HandleStart(p, t))
<1> DEFINE w == p.utf16Pos
           building == p.building
           cls == AttrOf(t.attrs, "class")
           lang == IF StartsWith(cls, "language-") THEN Tail(cls) ELSE building["pre"].ent.arg
           ask == CHOOSE a \in Asked(t.tag, t.attrs) : TRUE
           new == [ent |-> [type |-> ask[1], off |-> w, len |-> 0, arg |-> ask[2]], depth |-> 1]
           begun == [tag \in DOMAIN building \cup {t.tag} |-> IF tag = t.tag THEN new ELSE building[tag]]
           deeper == IF t.tag \in DOMAIN building THEN [building EXCEPT ![t.tag].depth = @ + 1] ELSE begun
<1>1. /\ DOMAIN p = {"text", "utf16Pos", "entities", "building", "open"}
      /\ IsList(p.text) /\ w = UTF16Len(p.text) /\ Reaches(building, w)
  BY DEF ParserOK
<1>2. w \in Nat
  BY <1>1, WidthIsNat
<1>3. CASE Asked(t.tag, t.attrs) = {}
  <2>1. HandleStart(p, t) = AppendText(Push(p, t.tag, "literal"), t.raw)
    <3>1. Asked(t.tag, t.attrs) = {} => ~ (t.tag \in {"code", "mono"})
      BY DEF Asked, EntityOfTag
    <3> QED BY <1>3, <3>1 DEF HandleStart
  <2>2. ParserOK(Push(p, t.tag, "literal"))
    BY PushKeeps
  <2> QED BY <2>1, <2>2, AppendKeeps DEF IsToken
<1>4. PICK q : q = Push(p, t.tag, "none")
  OBVIOUS
<1>5. /\ DOMAIN q = DOMAIN p /\ q.text = p.text /\ q.utf16Pos = w
      /\ q.entities = p.entities /\ q.building = building
  BY <1>4, PushKeeps
<1>6. CASE Asked(t.tag, t.attrs) # {} /\ t.tag \in {"code", "mono"} /\ "pre" \in DOMAIN building
  <2>1. HandleStart(p, t) = [q EXCEPT !.building["pre"].ent.arg = lang]
    BY <1>4, <1>6 DEF HandleStart
  <2>2. PICK b : b = [building EXCEPT !["pre"].ent.arg = lang]
    OBVIOUS
  <2>3. PICK r : r = HandleStart(p, t)
    OBVIOUS
  <2> HIDE DEF lang
  <2>4. /\ DOMAIN r = DOMAIN p /\ r.text = p.text /\ r.utf16Pos = w /\ r.entities = p.entities
        /\ r.building = b
    BY <1>1, <1>5, <2>1, <2>2, <2>3
  <2>5. ASSUME NEW tag \in DOMAIN b PROVE Counted(b[tag]) /\ b[tag].ent.off + b[tag].ent.len = w
    <3>1. tag \in DOMAIN building
      BY <2>2
    <3>2. PICK c : c = building[tag]
      OBVIOUS
    <3>3. Counted(c) /\ c.ent.off + c.ent.len = w
      BY <1>1, <3>1, <3>2 DEF Reaches
    <3>4. CASE tag = "pre"
      <4>1. PICK x : x = b[tag]
        OBVIOUS
      <4>2. x = [c EXCEPT !.ent.arg = lang]
        BY <2>2, <3>1, <3>2, <3>4, <4>1
      <4>3. DOMAIN c = {"ent", "depth"} /\ DOMAIN c.ent = {"type", "off", "len", "arg"}
        BY <3>3 DEF Counted, IsEntity
      <4>4. DOMAIN x = {"ent", "depth"} /\ x.ent = [c.ent EXCEPT !.arg = lang]
        BY <4>2, <4>3
      <4>5. /\ DOMAIN x.ent = {"type", "off", "len", "arg"}
            /\ x.ent.type = c.ent.type /\ x.ent.off = c.ent.off /\ x.ent.len = c.ent.len
        BY <4>3, <4>4
      <4> QED BY <3>3, <4>1, <4>4, <4>5 DEF Counted, IsEntity
    <3>5. CASE tag # "pre"
      <4>1. b[tag] = c
        BY <2>2, <3>1, <3>2, <3>5
      <4> QED BY <3>3, <4>1
    <3> QED BY <3>4, <3>5
  <2>6. Reaches(b, w)
    BY <2>5 DEF Reaches
  <2> QED BY <2>3, <2>4, <2>6, Replaced
<1>7. CASE Asked(t.tag, t.attrs) # {} /\ ~ (t.tag \in {"code", "mono"} /\ "pre" \in DOMAIN building)
  <2>1. HandleStart(p, t) = [q EXCEPT !.building = deeper]
    BY <1>4, <1>7 DEF HandleStart
  <2>2. PICK r : r = HandleStart(p, t)
    OBVIOUS
  <2>3. /\ DOMAIN r = DOMAIN p /\ r.text = p.text /\ r.utf16Pos = w /\ r.entities = p.entities
        /\ r.building = deeper
    <3> HIDE DEF deeper
    <3> QED BY <1>1, <1>5, <2>1, <2>2
  <2>4. Counted(new) /\ new.ent.off + new.ent.len = w
    <3>1. ask \in Asked(t.tag, t.attrs)
      BY <1>7
    <3>2. ask[1] \in EntityTypes
      <4> HIDE DEF ask
      <4> QED BY <3>1, AskedType
    <3> HIDE DEF ask, w
    <3>3. /\ DOMAIN new = {"ent", "depth"} /\ DOMAIN new.ent = {"type", "off", "len", "arg"}
          /\ new.ent.type = ask[1] /\ new.ent.off = w /\ new.ent.len = 0
      OBVIOUS
    <3> HIDE DEF new
    <3> QED BY <1>2, <3>2, <3>3 DEF Counted, IsEntity
  <2> HIDE DEF new
  <2>5. ASSUME NEW tag \in DOMAIN deeper PROVE Counted(deeper[tag]) /\ deeper[tag].ent.off + deeper[tag].ent.len = w
    <3>1. CASE t.tag \in DOMAIN building
      <4>1. tag \in DOMAIN building /\ deeper[tag] = [building EXCEPT ![t.tag].depth = @ + 1][tag]
        BY <3>1
      <4>2. PICK c : c = building[tag]
        OBVIOUS
      <4>3. Counted(c) /\ c.ent.off + c.ent.len = w /\ DOMAIN c = {"ent", "depth"}
        BY <1>1, <4>1, <4>2 DEF Reaches, Counted
      <4>4. CASE tag = t.tag
        <5>1. PICK x : x = deeper[tag]
          OBVIOUS
        <5>2. x = [c EXCEPT !.depth = @ + 1]
          BY <4>1, <4>2, <4>4, <5>1
        <5>3. DOMAIN x = {"ent", "depth"} /\ x.ent = c.ent
          BY <4>3, <5>2
        <5> QED BY <4>3, <5>1, <5>3 DEF Counted
      <4>5. CASE tag # t.tag
        <5>1. deeper[tag] = c
          BY <4>1, <4>2, <4>5
        <5> HIDE DEF deeper
        <5> QED BY <4>3, <5>1
      <4> QED BY <4>4, <4>5
    <3>2. CASE t.tag \notin DOMAIN building
      <4>1. tag \in DOMAIN building \cup {t.tag} /\ deeper[tag] = IF tag = t.tag THEN new ELSE building[tag]
        BY <3>2
      <4> HIDE DEF deeper
      <4> QED BY <1>1, <2>4, <4>1 DEF Reaches
    <3> QED BY <3>1, <3>2
  <2> HIDE DEF deeper, w, building
  <2>6. Reaches(deeper, w)
    BY <2>5 DEF Reaches
  <2> QED BY <2>2, <2>3, <2>6, Replaced DEF w
<1> QED BY <1>3, <1>6, <1>7
\* What is finished is an entity as long as before.
LEMMA FinishedEntity ==
  ASSUME NEW p, NEW e, IsEntity(e), e.len >= 0
  PROVE  IsEntity(Finished(p, e)) /\ Finished(p, e).len >= 0
<1>1. PICK x : x = [e EXCEPT !.type = "URL", !.arg = <<>>]
  OBVIOUS
<1>2. DOMAIN e = {"type", "off", "len", "arg"}
  BY DEF IsEntity
<1>3. DOMAIN x = DOMAIN e /\ x.type = "URL" /\ x.off = e.off /\ x.len = e.len
  BY <1>1, <1>2
<1>4. IsEntity(x) /\ x.len >= 0
  BY <1>2, <1>3 DEF IsEntity, EntityTypes
<1>5. Finished(p, e) \in {x, e}
  BY <1>1 DEF Finished
<1> QED BY <1>4, <1>5

\* An end tag is handled.
LEMMA EndKeeps ==
  ASSUME NEW p, ParserOK(p), NEW tag
  PROVE  ParserOK(HandleEnd(p, tag))
<1> DEFINE Openers == {i \in DOMAIN p.open : p.open[i].name = tag}
           literal  == IF Openers = {} THEN tag \notin SupportedTags
                       ELSE p.open[Max(Openers)].meta = "literal"
           popped   == IF Openers = {} THEN p ELSE [p EXCEPT !.open = RemoveAt(@, Max(Openers))]
           closing  == IF literal THEN AppendText(popped, <<"<", "/", tag, ">">>) ELSE popped
<1>1. PICK q : q = closing
  OBVIOUS
<1>2. PICK r : r = HandleEnd(p, tag)
  OBVIOUS
<1>3. r = IF tag \notin DOMAIN q.building THEN q
          ELSE IF q.building[tag].depth > 1 THEN [q EXCEPT !.building[tag].depth = @ - 1]
          ELSE [q EXCEPT !.entities = Append(@, Finished(q, q.building[tag].ent)),
                         !.building = [other \in DOMAIN @ \ {tag} |-> @[other]]]
  <2>1. HandleEnd(p, tag) =
          IF tag \notin DOMAIN closing.building THEN closing
          ELSE IF closing.building[tag].depth > 1 THEN [closing EXCEPT !.building[tag].depth = @ - 1]
          ELSE [closing EXCEPT !.entities = Append(@, Finished(closing, closing.building[tag].ent)),
                               !.building = [other \in DOMAIN @ \ {tag} |-> @[other]]]
    BY Zenon DEF HandleEnd
  <2> HIDE DEF closing
  <2> QED BY <1>1, <1>2, <2>1
<1>4. ParserOK(popped)
  <2>1. PICK x : x = [p EXCEPT !.open = RemoveAt(@, Max(Openers))]
    OBVIOUS
  <2>2. DOMAIN p = {"text", "utf16Pos", "entities", "building", "open"} /\ Reaches(p.building, p.utf16Pos)
    BY DEF ParserOK
  <2>3. /\ DOMAIN x = DOMAIN p /\ x.text = p.text /\ x.utf16Pos = p.utf16Pos
        /\ x.entities = p.entities /\ x.building = p.building
    <3> HIDE DEF Openers
    <3> QED BY <2>1, <2>2
  <2>4. ParserOK(x)
    BY <2>2, <2>3, Replaced
  <2>5. popped \in {p, x}
    BY <2>1
  <2> HIDE DEF popped
  <2> QED BY <2>4, <2>5
<1>5. ParserOK(q)
  <2>1. IsList(<<"<", "/", tag, ">">>)
    <3>1. PICK s : s = <<"<", "/", tag, ">">>
      OBVIOUS
    <3>2. s \in Seq({"<", "/", tag, ">"})
      BY <3>1
    <3> QED BY <3>1, <3>2, SeqIsList
  <2>2. ParserOK(AppendText(popped, <<"<", "/", tag, ">">>))
    <3> HIDE DEF popped
    <3> QED BY <1>4, <2>1, AppendKeeps
  <2>3. q \in {popped, AppendText(popped, <<"<", "/", tag, ">">>)}
    BY <1>1
  <2> HIDE DEF popped
  <2> QED BY <1>4, <2>2, <2>3
<1> HIDE DEF Openers, literal, popped, closing
<1>6. DOMAIN q = {"text", "utf16Pos", "entities", "building", "open"} /\ Reaches(q.building, q.utf16Pos)
  BY <1>5 DEF ParserOK
<1>7. CASE tag \notin DOMAIN q.building
  BY <1>2, <1>3, <1>5, <1>7
<1>8. CASE tag \in DOMAIN q.building /\ q.building[tag].depth > 1
  <2>1. r = [q EXCEPT !.building[tag].depth = @ - 1]
    BY <1>3, <1>8
  <2>2. PICK b : b = [q.building EXCEPT ![tag].depth = @ - 1]
    OBVIOUS
  <2>3. /\ DOMAIN r = DOMAIN q /\ r.text = q.text /\ r.utf16Pos = q.utf16Pos /\ r.entities = q.entities
        /\ r.building = b
    BY <1>6, <2>1, <2>2
  <2>4. ASSUME NEW other \in DOMAIN b
        PROVE  Counted(b[other]) /\ b[other].ent.off + b[other].ent.len = q.utf16Pos
    <3>1. other \in DOMAIN q.building
      BY <2>2
    <3>2. PICK c : c = q.building[other]
      OBVIOUS
    <3>3. Counted(c) /\ c.ent.off + c.ent.len = q.utf16Pos /\ DOMAIN c = {"ent", "depth"}
      BY <1>6, <3>1, <3>2 DEF Reaches, Counted
    <3>4. CASE other = tag
      <4>1. PICK x : x = b[other]
        OBVIOUS
      <4>2. x = [c EXCEPT !.depth = @ - 1]
        BY <2>2, <3>1, <3>2, <3>4, <4>1
      <4>3. DOMAIN x = {"ent", "depth"} /\ x.ent = c.ent
        BY <3>3, <4>2
      <4> QED BY <3>3, <4>1, <4>3 DEF Counted
    <3>5. CASE other # tag
      <4>1. b[other] = c
        BY <2>2, <3>1, <3>2, <3>5
      <4> QED BY <3>3, <4>1
    <3> QED BY <3>4, <3>5
  <2>5. Reaches(b, q.utf16Pos)
    BY <2>4 DEF Reaches
  <2> QED BY <1>2, <1>5, <2>3, <2>5, Replaced
<1>9. CASE tag \in DOMAIN q.building /\ ~ (q.building[tag].depth > 1)
  <2>1. PICK e : e = Finished(q, q.building[tag].ent)
    OBVIOUS
  <2>2. IsEntity(e) /\ e.len >= 0
    BY <1>6, <1>9, <2>1, FinishedEntity DEF Reaches, Counted
  <2>3. r = [q EXCEPT !.entities = Append(@, e), !.building = [other \in DOMAIN @ \ {tag} |-> @[other]]]
    BY <1>3, <1>9, <2>1
  <2>4. PICK b : b = [other \in DOMAIN q.building \ {tag} |-> q.building[other]]
    OBVIOUS
  <2>5. /\ DOMAIN r = DOMAIN q /\ r.text = q.text /\ r.utf16Pos = q.utf16Pos
        /\ r.entities = Append(q.entities, e) /\ r.building = b
    BY <1>6, <2>3, <2>4
  <2>6. Reaches(b, q.utf16Pos)
    BY <1>6, <2>4 DEF Reaches
  <2>7. IsList(q.entities) /\ \A i \in 1 .. Len(q.entities) : IsEntity(q.entities[i]) /\ q.entities[i].len >= 0
    BY <1>5 DEF ParserOK, AreEntities
  <2>8. PICK l : l = Append(q.entities, e)
    OBVIOUS
  <2>9. /\ IsList(l) /\ Len(l) = Len(q.entities) + 1 /\ Len(q.entities) \in Nat
        /\ \A i \in 1 .. Len(q.entities) : l[i] = q.entities[i]
        /\ l[Len(q.entities) + 1] = e
    BY <2>7, <2>8, ListAppend, ListIsSeq
  <2>10. \A i \in 1 .. Len(l) : i \in 1 .. Len(q.entities) \/ i = Len(q.entities) + 1
    BY <2>9
  <2>11. AreEntities(l) /\ \A i \in 1 .. Len(l) : l[i].len >= 0
    BY <2>2, <2>7, <2>9, <2>10 DEF AreEntities
  <2>12. IsList(q.text) /\ q.utf16Pos = UTF16Len(q.text)
    BY <1>5 DEF ParserOK
  <2>13. ParserOK(r)
    BY <1>6, <2>5, <2>6, <2>8, <2>11, <2>12 DEF ParserOK
  <2> QED BY <1>2, <2>13
<1> QED BY <1>7, <1>8, <1>9

\* What HTML returns when the entities finished have no negative length.
LEMMA ReturnsGood ==
  ASSUME NEW p, ParserOK(p), NEW r, r = StripText(p.text, p.entities),
         NEW out, out = [text |-> r.text, ents |-> ByOffset(r.ents)]
  PROVE  HtmlGood(out)
<1>1. IsList(p.text) /\ AreEntities(p.entities) /\ \A i \in 1 .. Len(p.entities) : p.entities[i].len >= 0
  BY DEF ParserOK
<1>2. GoodText(r, p.entities)
  BY <1>1, StripsText
<1>3. PICK l : l = r.ents
  OBVIOUS
<1>4. PICK s : s = ByOffset(l)
  OBVIOUS
<1>5. out.text = r.text /\ out.ents = s
  BY <1>3, <1>4
<1>6. AreEntities(l)
  BY <1>2, <1>3 DEF GoodText
<1>7. /\ IsList(s) /\ Ascending(s) /\ Len(s) = Len(l)
      /\ \A k \in 1 .. Len(l) : \E i \in 1 .. Len(l) : s[k] = l[i]
  BY <1>4, <1>6, SortsByOffset
<1>8. ASSUME NEW i \in 1 .. Len(l) PROVE Within(l[i], r.text) /\ l[i].len > 0
  <2>1. Within(l[i], r.text) /\ (l[i].len < 0 => \E j \in 1 .. Len(p.entities) : p.entities[j].len < 0)
    BY <1>2, <1>3 DEF GoodText
  <2>2. l[i].len \in Int /\ \A j \in 1 .. Len(p.entities) : p.entities[j].len \in Int
    BY <1>1, <1>6 DEF AreEntities, IsEntity
  <2>3. l[i].len # 0
    BY <2>1 DEF Within
  <2> QED BY <1>1, <2>1, <2>2, <2>3
<1>9. DOMAIN s = 1 .. Len(l)
  BY <1>7, ListIsSeq
<1>10. \A k \in DOMAIN s : Within(s[k], r.text) /\ s[k].len > 0
  BY <1>7, <1>8, <1>9
<1> QED BY <1>5, <1>7, <1>10 DEF HtmlGood
\* A token is taken from the list.
LEMMA TokenTaken ==
  ASSUME HtmlInv, NEW kind, Token(kind)
  PROVE  /\ IsToken(Head(toks)) /\ ParserOK(parser) /\ (parsed = Unparsed \/ HtmlGood(parsed))
         /\ IsList(toks') /\ \A i \in DOMAIN toks' : IsToken(toks'[i])
<1>1. IsList(toks) /\ toks # <<>> /\ toks' = Tail(toks) /\ Head(toks) = toks[1]
  BY DEF HtmlInv, Token
<1>2. Len(toks) \in Nat /\ DOMAIN toks = 1 .. Len(toks)
  BY <1>1, ListIsSeq
<1>3. PICK t : t = Tail(toks)
  OBVIOUS
<1>4. /\ IsList(t) /\ Len(t) = Len(toks) - 1 /\ \A i \in 1 .. Len(t) : t[i] = toks[i + 1]
      /\ Len(t) \in Nat /\ DOMAIN t = 1 .. Len(t)
  BY <1>1, <1>3, ListTail, ListIsSeq
<1>5. \A i \in DOMAIN t : IsToken(t[i])
  <2>1. ASSUME NEW i \in DOMAIN t PROVE IsToken(t[i])
    <3>1. t[i] = toks[i + 1] /\ i + 1 \in DOMAIN toks
      BY <1>2, <1>4
    <3> QED BY <3>1 DEF HtmlInv
  <2> QED BY <2>1
<1>6. 1 \in DOMAIN toks
  BY <1>2, <1>4
<1>7. IsToken(Head(toks))
  BY <1>1, <1>6 DEF HtmlInv
<1> QED BY <1>1, <1>3, <1>4, <1>5, <1>7 DEF HtmlInv

\* One token, or the return.
LEMMA HtmlKeeps ==
  ASSUME HtmlInv, htmlNext
  PROVE  HtmlInv'
<1>1. CASE Data
  <2>1. IsToken(Head(toks)) /\ ParserOK(parser) /\ (parsed = Unparsed \/ HtmlGood(parsed))
        /\ IsList(toks') /\ \A i \in DOMAIN toks' : IsToken(toks'[i])
    BY <1>1, TokenTaken DEF Data
  <2>2. parser' = AppendText(parser, Head(toks).raw) /\ parsed' = parsed
    BY <1>1 DEF Data
  <2>3. ParserOK(parser')
    BY <2>1, <2>2, AppendKeeps DEF IsToken
  <2> QED BY <2>1, <2>2, <2>3 DEF HtmlInv, Unparsed, HtmlGood, Ascending, Within, ParserOK
<1>2. CASE StartTag
  <2>1. IsToken(Head(toks)) /\ ParserOK(parser) /\ (parsed = Unparsed \/ HtmlGood(parsed))
        /\ IsList(toks') /\ \A i \in DOMAIN toks' : IsToken(toks'[i])
    BY <1>2, TokenTaken DEF StartTag
  <2>2. parser' = HandleStart(parser, Head(toks)) /\ parsed' = parsed
    BY <1>2 DEF StartTag
  <2>3. ParserOK(parser')
    BY <2>1, <2>2, StartKeeps
  <2> QED BY <2>1, <2>2, <2>3 DEF HtmlInv, Unparsed, HtmlGood, Ascending, Within, ParserOK
<1>3. CASE EndTag
  <2>1. IsToken(Head(toks)) /\ ParserOK(parser) /\ (parsed = Unparsed \/ HtmlGood(parsed))
        /\ IsList(toks') /\ \A i \in DOMAIN toks' : IsToken(toks'[i])
    BY <1>3, TokenTaken DEF EndTag
  <2>2. parser' = HandleEnd(parser, Head(toks).tag) /\ parsed' = parsed
    BY <1>3 DEF EndTag
  <2>3. ParserOK(parser')
    BY <2>1, <2>2, EndKeeps
  <2> QED BY <2>1, <2>2, <2>3 DEF HtmlInv, Unparsed, HtmlGood, Ascending, Within, ParserOK
<1>4. CASE ReturnHTML
  <2>1. toks' = toks /\ parser' = parser /\ ParserOK(parser)
    BY <1>4 DEF ReturnHTML, HtmlInv
  <2>2. PICK r : r = StripText(parser.text, parser.entities)
    OBVIOUS
  <2>3. parsed' = [text |-> r.text, ents |-> ByOffset(r.ents)]
    BY <1>4, <2>2 DEF ReturnHTML
  <2>4. HtmlGood(parsed')
    BY <2>1, <2>2, <2>3, ReturnsGood
  <2> QED BY <2>1, <2>4 DEF HtmlInv, Unparsed, HtmlGood, Ascending, Within, ParserOK
<1> QED BY <1>1, <1>2, <1>3, <1>4 DEF htmlNext

-----------------------------------------------------------------------------
(* The specification. *)

\* The inductive invariant: of the message nothing changes.
TextInv == Received /\ MdInv /\ HtmlInv

\* It holds at first.
LEMMA InitText == TextInit => TextInv
<1> SUFFICES ASSUME TextInit PROVE TextInv
  OBVIOUS
<1>1. MdInv
  <2>1. IsList(u16) /\ pos \in Nat /\ final = NoText /\ result = <<>>
    BY DEF TextInit
  <2>2. IsList(<<>>) /\ Len(<<>>) = 0
    BY WidthOfNothing
  <2>3. Found(result, pos)
    BY <2>1, <2>2 DEF Found
  <2> QED BY <2>1, <2>3 DEF MdInv
<1>2. HtmlInv
  <2>1. ParserOK(NewParser)
    <3>1. /\ DOMAIN NewParser = {"text", "utf16Pos", "entities", "building", "open"}
          /\ NewParser.text = <<>> /\ NewParser.utf16Pos = 0 /\ NewParser.entities = <<>> /\ NewParser.building = <<>>
      BY DEF NewParser
    <3>2. DOMAIN <<>> = {}
      OBVIOUS
    <3> QED BY <3>1, <3>2, WidthOfNothing DEF ParserOK, AreEntities, Reaches
  <2> QED BY <2>1 DEF TextInit, HtmlInv
<1> QED BY <1>1, <1>2 DEF TextInit, TextInv

\* Every step keeps it.
LEMMA TextKeeps == TextInv /\ [TextNext]_textVars => TextInv'
<1> SUFFICES ASSUME TextInv, [TextNext]_textVars PROVE TextInv'
  OBVIOUS
<1>1. Received /\ MdInv /\ HtmlInv
  BY DEF TextInv
<1>2. UNCHANGED msgState => Received'
  BY <1>1 DEF msgState, Received, View!Prefix
<1>3. UNCHANGED mdState => MdInv'
  BY <1>1 DEF mdState, MdInv, NoText, MdGood, Found, Ascending, Within
<1>4. UNCHANGED htmlState => HtmlInv'
  BY <1>1 DEF htmlState, HtmlInv, Unparsed, HtmlGood, Ascending, Within, ParserOK
<1>5. CASE MarkdownStep
  <2>1. mdNext => MdInv'
    BY <1>1, DelimitedKeeps, LinkKeeps, AdvanceKeeps, ReturnMarkdownKeeps DEF mdNext
  <2> QED BY <1>2, <1>4, <1>5, <2>1 DEF MarkdownStep, TextInv
<1>6. CASE HtmlStep
  <2>1. htmlNext => HtmlInv'
    BY <1>1, HtmlKeeps
  <2> QED BY <1>2, <1>3, <1>6, <2>1 DEF HtmlStep, TextInv
<1>7. CASE UNCHANGED textVars
  BY <1>2, <1>3, <1>4, <1>7 DEF textVars, TextInv
<1> QED BY <1>5, <1>6, <1>7 DEF TextNext

\* It is invariant.
LEMMA TextInvHolds == TextSpec => []TextInv
BY InitText, TextKeeps, PTL DEF TextSpec

\* What the invariant says of the entities.
LEMMA SoundFrom == TextInv => EntitiesSound
<1> SUFFICES ASSUME MdInv, HtmlInv PROVE EntitiesSound
  BY DEF TextInv
<1>1. MarkdownInBounds
  <2> SUFFICES ASSUME MdDone PROVE MdGood(final)
    BY DEF MarkdownInBounds, MdGood
  <2> QED BY DEF MdInv, MdDone
<1>2. HtmlInBounds
  <2> SUFFICES ASSUME HtmlDone PROVE HtmlGood(parsed)
    BY DEF HtmlInBounds, HtmlGood
  <2> QED BY DEF HtmlInv, HtmlDone
<1>3. BuildingReachesEnd
  <2>1. ParserOK(parser)
    BY DEF HtmlInv
  <2>2. ASSUME NEW tag \in DOMAIN parser.building PROVE EntityEnd(parser.building[tag].ent) = parser.utf16Pos
    <3>1. PICK e : e = parser.building[tag].ent
      OBVIOUS
    <3>2. IsEntity(e) /\ e.off + e.len = parser.utf16Pos
      BY <2>1, <3>1 DEF ParserOK, Reaches, Counted
    <3> QED BY <3>1, <3>2, EntityFacts
  <2> QED BY <2>1, <2>2 DEF ParserOK, BuildingReachesEnd
<1>4. CodeIsOpaque
  <2>1. Found(result, pos) /\ DOMAIN result = 1 .. Len(result)
    BY ListIsSeq DEF MdInv, Found
  <2>2. ASSUME NEW i \in DOMAIN result, NEW j \in DOMAIN result, i < j, result[i].type \in {"Code", "Pre"}
        PROVE  ~ (result[j].off < EntityEnd(result[i]))
    <3>1. PICK a : a = result[i]
      OBVIOUS
    <3>2. PICK b : b = result[j]
      OBVIOUS
    <3>3. IsEntity(a) /\ IsEntity(b) /\ a.off + a.len <= b.off
      BY <2>1, <2>2, <3>1, <3>2 DEF Found, MdEntity
    <3>4. EntityEnd(a) = a.off + a.len /\ a.off \in Nat /\ a.len \in Int /\ b.off \in Nat
      BY <3>3, EntityFacts DEF IsEntity
    <3>5. ~ (b.off < EntityEnd(a))
      BY <3>3, <3>4
    <3> QED BY <3>1, <3>2, <3>5
  <2> QED BY <2>2 DEF CodeIsOpaque
<1> QED BY <1>1, <1>2, <1>3, <1>4 DEF EntitiesSound

\* Whatever text ParseMarkdown and ParseHTML (client/extensions) are given, also one
\* whose tags and delimiters cross, the entities are in bounds, in order and not
\* empty, those that HTML is building reach the end of the text so far, and
\* Markdown finds nothing inside code.
THEOREM EntitiesSoundHolds == TextSpec => []EntitiesSound
BY TextInvHolds, SoundFrom, PTL

\* The views of a message (wrappers.go, utils.go) agree with each other and with what
\* was sent, for every media and every grid of buttons.
THEOREM ViewsAgreeHolds == TextSpec => []ViewsAgree
<1>1. TextInv => ViewsAgree
  BY MediaViews, ButtonsStay DEF TextInv, ViewsAgree
<1> QED BY <1>1, TextInvHolds, PTL

\* What is sent is what was asked for, and what is downloaded is what is there,
\* for every media, every size of it, and every file.
THEOREM MediaMovesWholeHolds == TextSpec => []MediaMovesWhole
<1>1. TextInv => MediaMovesWhole
  BY SentAs, Thumbnail, UploadedAs, Downloads, MemoryWhole DEF TextInv, SentAsAsked, MediaMovesWhole
<1> QED BY <1>1, TextInvHolds, PTL
=============================================================================
