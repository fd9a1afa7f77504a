----------------------------- MODULE MessageView -----------------------------
(***************************************************************************)
(* What the wrappers of a received message say of it: MCUBMessage          *)
(* (types/message.go), MCUBFile (types/file.go), the buttons               *)
(* (types/button.go), the forward header (types/forward.go) and the media  *)
(* helpers of utils/utils.go.  Pure functions of the message.              *)
(*                                                                         *)
(* A message is a record, or Nil.  Its media is a record [kind, inner,     *)
(* attrs, mime, size, id]: kind is the constructor ("none" without media), *)
(* inner is FALSE when the photo or the document in it is empty, and attrs *)
(* lists the attributes of a document, each [kind, flag, val] with         *)
(* flag the voice or the round mark.  A photo lists its sizes in attrs.    *)
(***************************************************************************)
EXTENDS EntityText, FiniteSetsExt

CONSTANT Mark           \* 1 000 000 000 000, what a channel is marked with

Nil == [kind |-> "nil"]
NoQuery == "no query"

(* NewMCUBMessage: the peer and the sender, [kind, id], as signed numbers. *)
Signed(peer) ==
    CASE peer.kind = "user"    -> peer.id
      [] peer.kind = "chat"    -> -peer.id
      [] peer.kind = "channel" -> -Mark - peer.id
      [] OTHER -> 0
NewMCUBMessage(m) ==
    [Raw      |-> m,
     ChatID   |-> IF m = Nil THEN 0 ELSE Signed(m.peer),
     SenderID |-> IF m = Nil \/ m.from.kind = "chat" THEN 0 ELSE Signed(m.from)]
NewMessage(m, chatID) ==
    IF chatID = 0 THEN NewMCUBMessage(m) ELSE [NewMCUBMessage(m) EXCEPT !.ChatID = chatID]

(* FromTLMessage: the sender of a channel post keeps the number of the channel. *)
FromTLMessage(m) ==
    [PeerID |-> Signed(m.peer),
     FromID |-> IF m.from.kind \in {"user", "channel"} THEN m.from.id ELSE 0,
     ReplyToMsgID |-> m.reply.id,
     ForumTopicID |-> IF m.reply.forum THEN m.reply.top ELSE 0]

-----------------------------------------------------------------------------
(* MCUBForward: the header fwd of a forwarded message. *)
FwdFromID(fwd)     == IF fwd.from.kind = "user" THEN fwd.from.id ELSE 0
FwdFromChatID(fwd) == IF fwd.from.kind \in {"chat", "channel"} THEN Signed(fwd.from) ELSE 0
FwdKind(fwd)       == [IsChannel |-> fwd.from.kind = "channel", IsUser |-> fwd.from.kind = "user",
                       IsHidden  |-> fwd.from.kind = "none" /\ fwd.name # ""]
SavedFromID(fwd)   == Signed(fwd.saved)
ForwardedFromID(m) == IF m # Nil /\ m.fwd.from.kind \in {"user", "channel"} THEN m.fwd.from.id ELSE 0

-----------------------------------------------------------------------------
(* The attributes by which media is told apart, and the names they go by. *)
Kinds == {"video", "video_note", "audio", "voice", "sticker", "gif"}
Shows(a, what) ==
    CASE what = "video"      -> a.kind = "video" /\ ~a.flag
      [] what = "video_note" -> a.kind = "video" /\ a.flag
      [] what = "audio"      -> a.kind = "audio" /\ ~a.flag
      [] what = "voice"      -> a.kind = "audio" /\ a.flag
      [] what = "sticker"    -> a.kind = "sticker"
      [] what = "gif"        -> a.kind = "animated"

IsPhoto(m)    == m # Nil /\ m.media.kind = "photo"
IsDocument(m) == m # Nil /\ m.media.kind = "document"
document(m)   == IF IsDocument(m) /\ m.media.inner THEN m.media ELSE Nil

(* IsVideo, IsAudio, IsVoice, IsSticker and IsGIF of a message. *)
hasDocumentAttr(m, what) == document(m) # Nil /\ \E i \in DOMAIN m.media.attrs : Shows(m.media.attrs[i], what)

(* Video, VideoNote, Audio, Voice, Sticker and GIF: the document or nil. *)
documentByKind(m, what) ==
    IF IsDocument(m) /\ SelectInSeq(m.media.attrs, LAMBDA a : Shows(a, what)) > 0 THEN m.media ELSE Nil
documentByAttr(m, what) ==
    IF document(m) # Nil /\ SelectInSeq(m.media.attrs, LAMBDA a : Shows(a, what)) > 0
    THEN document(m) ELSE Nil

FileName(m) ==
    LET named == SelectInSeq(m.media.attrs, LAMBDA a : a.kind = "filename")
    IN  IF document(m) = Nil \/ named = 0 THEN "" ELSE m.media.attrs[named].val
FileSize(m) == IF document(m) = Nil THEN 0 ELSE m.media.size

(* MediaType: of a document, the first attribute that says something. *)
OtherTypes == [kind \in {"photo", "contact", "geo", "geolive", "venue", "poll", "dice", "game", "webpage"} |->
                  CASE kind \in {"geo", "geolive"} -> "location" [] kind = "webpage" -> "web_preview" [] OTHER -> kind]
MediaType(m) ==
    LET telling == SelectInSeq(m.media.attrs, LAMBDA a : \E k \in Kinds : Shows(a, k))
    IN  CASE m = Nil -> ""
          [] m # Nil /\ m.media.kind \in DOMAIN OtherTypes -> OtherTypes[m.media.kind]
          [] IsDocument(m) -> IF document(m) = Nil \/ telling = 0 THEN "document"
                              ELSE CHOOSE k \in Kinds : Shows(m.media.attrs[telling], k)
          [] OTHER -> ""

-----------------------------------------------------------------------------
(* MCUBFile: the photo or the document of a message. *)
NewFile(m) == IF m # Nil /\ m.media.kind \in {"photo", "document"} /\ m.media.inner THEN m.media ELSE Nil

(* The first attribute of a document that is among those wanted, or Nil. *)
docAttr(f, wanted) ==
    LET at == SelectInSeq(f.attrs, LAMBDA a : a \in wanted)
    IN  IF f = Nil \/ f.kind # "document" \/ at = 0 THEN Nil ELSE f.attrs[at]
FileIs(f, what) == f # Nil /\ docAttr(f, {a \in ToSet(f.attrs) : Shows(a, what)}) # Nil
Attribute(f, kinds, zero) ==
    LET a == docAttr(f, {x \in ToSet(f.attrs) : x.kind \in kinds}) IN IF f = Nil \/ a = Nil THEN zero ELSE a.val
(* The width and the height: of a photo the largest of its full sizes. *)
Extent(f) ==
    IF f # Nil /\ f.kind = "photo"
    THEN Max({0} \cup {f.attrs[i].val : i \in {j \in DOMAIN f.attrs : f.attrs[j].kind = "size"}})
    ELSE Attribute(f, {"imagesize", "video"}, 0)
FileMimeType(f) == IF f = Nil THEN "" ELSE IF f.kind = "photo" THEN "image/jpeg" ELSE f.mime
(* InputFile: the thumbnail asked for is the last size, if it is a full one. *)
InputFile(f) ==
    IF f = Nil THEN Nil
    ELSE [id |-> f.id, thumb |-> IF f.kind = "photo" /\ f.attrs # <<>> /\ Last(f.attrs).kind = "size"
                                 THEN Last(f.attrs).val ELSE 0]

-----------------------------------------------------------------------------
(* The helpers of utils.go look at the media, and at any audio or video. *)
documentAttrs(media) == IF media.kind = "document" /\ media.inner THEN media.attrs ELSE <<>>
UtilIs(media, what) ==
    LET attrs == documentAttrs(media)
        kind  == CASE what \in {"audio", "voice"} -> "audio" [] what \in {"video", "video_note"} -> "video"
                   [] what = "gif" -> "animated" [] OTHER -> what
        at    == SelectInSeq(attrs, LAMBDA a : a.kind = kind)
    IN  at > 0 /\ (what \in {"voice", "video_note"} => attrs[at].flag)
GetMimeType(media) == IF media.kind = "photo" THEN "image/jpeg"
                      ELSE IF media.kind = "document" /\ media.inner THEN media.mime ELSE ""
GetFileSize(media) == IF media.kind = "document" /\ media.inner THEN media.size ELSE 0
GetFileName(media) ==
    LET named == SelectInSeq(documentAttrs(media), LAMBDA a : a.kind = "filename")
    IN  IF named = 0 THEN "" ELSE media.attrs[named].val

(* What is sent again for media that was received; Nil is an error. *)
GetInputMedia(media) ==
    CASE media.kind = "photo"    -> [kind |-> IF media.inner THEN "InputMediaPhoto" ELSE "InputMediaEmpty", id |-> media.id]
      [] media.kind = "document" -> IF media.inner THEN [kind |-> "InputMediaDocument", id |-> media.id] ELSE Nil
      [] media.kind \in {"geo", "geolive"} ->
            [kind |-> IF media.inner THEN "InputMediaGeoPoint" ELSE "InputMediaEmpty", id |-> media.id]
      [] media.kind = "contact"  -> [kind |-> "InputMediaContact", id |-> media.id]
      [] media.kind = "dice"     -> [kind |-> "InputMediaDice", id |-> media.id]
      [] media.kind \in {"empty", "unsupported"} -> [kind |-> "InputMediaEmpty", id |-> 0]
      [] OTHER -> Nil

(* GetAttributes: the attributes of a file that is about to be sent. *)
GetAttributes(name, audio, voice, video, round) ==
    << [kind |-> "filename", flag |-> FALSE, val |-> name] >>
    \o (IF audio \/ voice THEN << [kind |-> "audio", flag |-> voice, val |-> 0] >> ELSE <<>>)
    \o (IF video THEN << [kind |-> "video", flag |-> round, val |-> 0] >> ELSE <<>>)

-----------------------------------------------------------------------------
(* Buttons: [text, style, data, url, query] as a program writes them, the
   keyboard button that is sent, and the MessageButton that is read. *)
Prefix == [style \in {"primary", "success", "danger", "default"} |->
              CASE style = "primary" -> <<"blue">> [] style = "success" -> <<"check">>
                [] style = "danger"  -> <<"red">>  [] OTHER -> <<>>]
ToTL(b) ==
    LET text == Prefix[b.style] \o b.text
    IN  CASE b.url # "" -> [kind |-> "url", text |-> text, url |-> b.url, data |-> ""]
          [] b.url = "" /\ b.query # NoQuery -> [kind |-> "switch", text |-> text, url |-> "", data |-> ""]
          [] OTHER -> [kind |-> "callback", text |-> text, url |-> "", data |-> b.data]
BuildMarkup(rows) == [kind |-> "inline", rows |-> [r \in DOMAIN rows |-> [c \in DOMAIN rows[r] |-> ToTL(rows[r][c])]]]

parseButton(k) ==
    CASE k.kind = "callback" -> << [text |-> k.text, data |-> k.data, url |-> ""] >>
      [] k.kind = "url"      -> << [text |-> k.text, data |-> "", url |-> k.url] >>
      [] k.kind = "textless" -> <<>>
      [] OTHER               -> << [text |-> k.text, data |-> "", url |-> ""] >>
ParseMarkup(markup) ==
    IF markup.kind \notin {"inline", "keyboard"} THEN <<>>
    ELSE [r \in DOMAIN markup.rows |->
             FlattenSeq([c \in DOMAIN markup.rows[r] |-> parseButton(markup.rows[r][c])])]
Buttons(m) == IF m = Nil THEN <<>> ELSE ParseMarkup(m.markup)

(* GetButton counts rows and columns from zero. *)
GetButton(m, row, col) ==
    LET grid == Buttons(m)
    IN  IF row + 1 \in DOMAIN grid THEN IF col + 1 \in DOMAIN grid[row + 1] THEN grid[row + 1][col + 1] ELSE Nil
        ELSE Nil
GetButtonByData(m, data) ==
    LET all == FlattenSeq(Buttons(m))
        at  == SelectInSeq(all, LAMBDA b : b.data = data)
    IN  IF at = 0 THEN Nil ELSE all[at]

-----------------------------------------------------------------------------
(* The text under an entity.  An entity of a negative length passes the check of
   the bounds, and the slice of the text panics. *)
Panic == <<"panic">>
GetEntityText(s, e) ==
    LET u == ToUTF16(s)
    IN  CASE e.off < 0 \/ EntityEnd(e) > Len(u) -> <<>>
          [] e.off >= 0 /\ EntityEnd(e) < e.off -> Panic
          [] OTHER -> FromUTF16(Units(u, e.off, EntityEnd(e)))

(* ParsedText: the spans in the order of the entities, none of it escaped. *)
TextTags == "Bold" :> "b" @@ "Italic" :> "i" @@ "Code" :> "code" @@ "Pre" :> "pre" @@
            "Underline" :> "u" @@ "Strike" :> "s" @@ "Spoiler" :> "span"
OpenText(type) ==
    <<"<", TextTags[type]>>
    \o (IF type = "Spoiler" THEN <<NBSP, "class", "=", "quote", "spoiler", "quote">> ELSE <<>>) \o <<">">>
ParsedText(s, ents) ==
    LET u == ToUTF16(s)
        spans == SelectSeq(ents, LAMBDA e : e.type \in DOMAIN TextTags /\ e.off >= 0 /\ EntityEnd(e) <= Len(u))
        Write(w, e) ==
            [pos |-> EntityEnd(e),
             out |-> w.out \o FromUTF16(Units(u, w.pos, e.off))
                     \o OpenText(e.type) \o GetEntityText(s, e) \o <<"<", "/", TextTags[e.type], ">">>]
        written == FoldLeft(Write, [pos |-> 0, out |-> <<>>], spans)
    IN  IF \E i \in DOMAIN spans : EntityEnd(spans[i]) < spans[i].off THEN Panic
        ELSE written.out \o FromUTF16(Units(u, written.pos, Len(u)))
=============================================================================
