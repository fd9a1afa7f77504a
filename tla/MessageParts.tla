----------------------------- MODULE MessageParts -----------------------------
(***************************************************************************)
(* What must hold of one message: the wrappers, the helpers of utils.go,   *)
(* and the choice of media (MessageView, Media) agree about it.  "msg" is  *)
(* the message, with its media or with the buttons that were sent, and     *)
(* doc.text is a file that is downloaded to memory; "subject" says which   *)
(* of them it is.                                                          *)
(***************************************************************************)
EXTENDS Subject, EntityText, FiniteSetsExt

VARIABLES doc, msg

Media == INSTANCE Media

-----------------------------------------------------------------------------
(* The media there are.  A document has at most one attribute of a kind, a
   photo lists its sizes, and nothing else has attributes. *)
DocumentKinds == {"video", "audio", "sticker", "animated", "imagesize", "filename"}
SizeKinds     == {"size", "cached", "progressive", "stripped"}
OtherKinds    == {"none", "contact", "geo", "geolive", "venue", "poll", "dice", "game", "webpage", "unsupported", "empty"}
Attr(kind, flag) == [kind |-> kind, flag |-> flag, val |-> 1]
OneOfAKind(l) == \A i, j \in DOMAIN l : i # j => l[i].kind # l[j].kind
IsList(s) == Len(s) \in Nat /\ s = [i \in 1 .. Len(s) |-> s[i]]
IsAttribute(a, kinds) == DOMAIN a = {"kind", "flag", "val"} /\ a.flag \in BOOLEAN /\ a.kind \in kinds
IsMedia(media) ==
    /\ DOMAIN media = {"kind", "inner", "attrs", "mime", "size", "id"}
    /\ media.inner \in BOOLEAN /\ IsList(media.attrs)
    /\ \/ /\ media.kind = "document" /\ OneOfAKind(media.attrs)
          /\ \A i \in DOMAIN media.attrs : IsAttribute(media.attrs[i], DocumentKinds)
       \/ /\ media.kind = "photo"
          /\ \A i \in DOMAIN media.attrs : IsAttribute(media.attrs[i], SizeKinds) /\ media.attrs[i].val \in Nat
       \/ media.kind \in OtherKinds /\ media.attrs = <<>>

(* Rows of buttons, each with a text. *)
IsButton(b) ==
    DOMAIN b = {"text", "style", "data", "url", "query"} /\ b.style \in DOMAIN View!Prefix /\ IsList(b.text)
IsGrid(rows) == IsList(rows) /\ \A r \in DOMAIN rows : IsList(rows[r]) /\ \A c \in DOMAIN rows[r] : IsButton(rows[r][c])

Received ==
    /\ DOMAIN msg = {"media", "sent"}
    /\ subject = "media" => IsMedia(msg.media)
    /\ subject = "buttons" => IsGrid(msg.sent)
    /\ subject = "memory" => IsList(doc.text)

-----------------------------------------------------------------------------
(* MCUBMessage, MCUBFile and the helpers of utils.go tell media apart alike,
   and MediaType names one of the kinds that they confirm. *)
MediaViewsAgree ==
    subject = "media" =>
        /\ \A k \in View!Kinds :
              LET is == View!hasDocumentAttr(msg, k)
              IN  /\ is <=> View!documentByAttr(msg, k) # View!Nil
                  /\ is <=> View!FileIs(View!NewFile(msg), k)
                  /\ k \notin {"video", "audio"} => (is <=> View!UtilIs(msg.media, k))
                  /\ View!MediaType(msg) = k => is
        /\ View!MediaType(msg) = "photo" <=> View!IsPhoto(msg)
        /\ View!FileSize(msg) = View!GetFileSize(msg.media)
        /\ View!FileName(msg) = View!GetFileName(msg.media)
        /\ View!FileName(msg) = View!Attribute(View!NewFile(msg), {"filename"}, "")
        /\ View!NewFile(msg) # View!Nil => View!FileMimeType(View!NewFile(msg)) = View!GetMimeType(msg.media)
        /\ View!GetInputMedia(msg.media) # View!Nil /\ msg.media.inner /\ msg.media.kind \notin {"empty", "unsupported"}
              => View!GetInputMedia(msg.media).id = msg.media.id

IsPhotoFile(f) == f # View!Nil /\ f.kind = "photo"

(* The attributes with which a file is sent make it what was asked for. *)
AttributesAsAsked ==
    \A audio, voice, video, round \in BOOLEAN :
        LET sent == [media |-> [kind |-> "document", inner |-> TRUE, size |-> 1, mime |-> "", id |-> 1,
                                attrs |-> View!GetAttributes("n", audio, voice, video, round)]]
            Is(k) == View!hasDocumentAttr(sent, k)
        IN  /\ Is("voice") <=> voice
            /\ Is("audio") <=> audio /\ ~voice
            /\ Is("video") <=> video /\ ~round
            /\ Is("video_note") <=> video /\ round
            /\ View!FileName(sent) = "n"

(* The thumbnail of a photo whose full sizes ascend is its largest. *)
ThumbnailIsLargest ==
    LET f == View!NewFile(msg)
        Ascending == \A i \in DOMAIN f.attrs : f.attrs[i].kind = "size" /\ (i > 1 => f.attrs[i - 1].val <= f.attrs[i].val)
    IN  IsPhotoFile(f) /\ Ascending => View!InputFile(f).thumb = View!Extent(f)

(* A call marks what it sends as what the call is for, and only a photo that was
   asked for is sent as one. *)
UploadsAsAsked ==
    \A op \in {"file", "advanced", "audio", "video"}, mime \in {<<>>, <<"image", "png">>, <<"text", "plain">>},
       asPhoto, asDocument \in BOOLEAN :
        LET media == Media!UploadedMedia(op, mime, asPhoto, asDocument)
            Is(k) == \E i \in DOMAIN media.attrs : View!Shows(Attr(media.attrs[i], FALSE), k)
        IN  /\ Is("audio") <=> op = "audio"
            /\ Is("video") <=> op = "video"
            /\ media.kind = "photo" => asPhoto /\ ~asDocument /\ op = "advanced"
            /\ media.kind = "document" => \E i \in DOMAIN media.attrs : media.attrs[i] = "filename"

SentAsAsked == subject = "media" => AttributesAsAsked /\ ThumbnailIsLargest /\ UploadsAsAsked

(* Whatever the media, every call that downloads it names the same object, fails
   only where the wrappers see no file, and announces the size that it asks for;
   the largest of full sizes is that of MCUBFile.InputFile, too. *)
DownloadsAgree ==
    subject = "media" =>
        LET media == msg.media
            f     == View!NewFile(msg)
            got   == Media!GetDocumentInputLocation(media)
            Loc(thumb) == Media!MediaLocation(media, thumb)
            Full(i) == i \in DOMAIN media.attrs /\ media.attrs[i].kind \in {"size", "progressive"}
        IN  /\ \A thumb \in -1 .. Len(media.attrs) :
                  /\ Loc(thumb) # Media!NoLocation <=> f # View!Nil
                  /\ f # View!Nil => Loc(thumb).id = f.id
                  /\ IsPhotoFile(f) => /\ Full(thumb + 1) => Loc(thumb).thumb = f.attrs[thumb + 1].val
                                       /\ Loc(thumb).size = Loc(thumb).thumb
            /\ got # Media!NoLocation => [got EXCEPT !.thumb = 0, !.size = 0] = [Loc(-1) EXCEPT !.thumb = 0, !.size = 0]
            /\ media.kind = "document" => got = Loc(-1) /\ got.size = View!FileSize(msg)
            /\ IsPhotoFile(f) /\ f.attrs # <<>> /\ Last(f.attrs).kind = "size" =>
                  Loc(-1).thumb = View!InputFile(f).thumb /\ got.size = Loc(-1).size
            /\ media.kind = "photo" => Media!ProfilePhotoLocation(1, <<media>>).thumb = Loc(-1).thumb

(* A download to memory is the file, also when its last chunk is full or it is
   empty (downloads.go:490-520). *)
MemoryIsWhole ==
    subject = "memory" => \A limit \in 1 .. Len(doc.text) + 1 : Media!downloadToMemory(doc.text, limit) = doc.text

(* A grid that is sent is read with every button in its row and column, under
   the text that was written, and whoever looks for the data of a callback finds
   one that carries it. *)
ButtonsStayInPlace ==
    subject = "buttons" =>
        LET received == [markup |-> View!BuildMarkup(msg.sent)]
            sent     == msg.sent
            Callback(b) == b.url = "" /\ b.query = View!NoQuery /\ b.data # ""
        IN  /\ \A r \in 0 .. Len(sent) :
               \A c \in 0 .. (IF r = Len(sent) THEN 0 ELSE Len(sent[r + 1])) :
                  LET b == View!GetButton(received, r, c)
                      written == r + 1 \in DOMAIN sent /\ c + 1 \in 1 .. Len(sent[r + 1])
                  IN  /\ written <=> b # View!Nil
                      /\ written => IsSuffix(sent[r + 1][c + 1].text, b.text) /\ b.url = sent[r + 1][c + 1].url
            /\ \A r \in DOMAIN sent : \A c \in DOMAIN sent[r] :
                  Callback(sent[r][c]) =>
                      LET found == View!GetButtonByData(received, sent[r][c].data)
                      IN  found # View!Nil /\ found.url = "" /\ found.data = sent[r][c].data

(* The wrappers agree with each other and with what was sent. *)
ViewsAgree == MediaViewsAgree /\ ButtonsStayInPlace

(* What is sent is what was asked for, and what is downloaded is what is there. *)
MediaMovesWhole == SentAsAsked /\ DownloadsAgree /\ MemoryIsWhole
=============================================================================
