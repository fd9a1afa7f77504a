-------------------------------- MODULE Media --------------------------------
(***************************************************************************)
(* What a download asks for and what an upload is sent as: the choice of a *)
(* photo's size, the locations that DownloadMedia, ResumableDownload.Start *)
(* and ResumableDownloadFile, GetDocumentInputLocation and the downloads   *)
(* of profile photos name, the download to memory, and the media of the    *)
(* calls that send a file.  Media are the records of module MessageView:   *)
(* the attributes of a photo are its sizes, and the type of a size and its *)
(* bytes are one value, 0 for "s" and for a size that is not known.        *)
(***************************************************************************)
EXTENDS Integers, Sequences

\* An error is the location NoLocation.
NoLocation == [of |-> "none", id |-> 0, thumb |-> 0, size |-> 0]
Location(of, id, thumb, size) == [of |-> of, id |-> id, thumb |-> thumb, size |-> size]

\* Seeded fault: an index from 1.
pickFromOne(sizes, thumb) ==
  IF sizes = <<>> THEN 0
  ELSE LET s == IF thumb < 0 \/ thumb >= Len(sizes) \/ thumb = 0 THEN sizes[1] ELSE sizes[thumb]
       IN  IF s.kind \in {"size", "cached", "progressive"} THEN s.val ELSE 0

\* thumb is an index from 0; any other stands for the last.
pickPhotoThumb(sizes, thumb) ==
  IF sizes = <<>> THEN 0
  ELSE LET s == IF thumb < 0 \/ thumb >= Len(sizes) THEN sizes[Len(sizes)] ELSE sizes[thumb + 1]
       IN  IF s.kind \in {"size", "cached", "progressive"} THEN s.val ELSE 0

\* The switch on the media of a message; a photo or a document may be empty.
MediaLocation(media, thumb) ==
  LET pick == pickPhotoThumb(media.attrs, thumb)
  IN  CASE media.kind = "photo" /\ media.inner -> Location("photo", media.id, pick, pick)
        [] media.kind = "document" /\ media.inner -> Location("document", media.id, 0, media.size)
        [] OTHER -> NoLocation

\* A photo is always asked for as "y", here -1, and announced by its last size.
GetDocumentInputLocation(media) ==
  CASE media.kind = "document" /\ media.inner -> Location("document", media.id, 0, media.size)
    [] media.kind = "photo" /\ media.inner /\ media.attrs # <<>> ->
         LET s == media.attrs[Len(media.attrs)]
         IN  Location("photo", media.id, -1, IF s.kind = "size" THEN s.val ELSE 0)
    [] OTHER -> NoLocation

\* A user's first photo, or the photo of a chat or channel.
ProfilePhotoLocation(entityID, photos) ==
  CASE entityID <= 0 -> Location("peer", entityID, -1, 0)
    [] entityID > 0 /\ photos # <<>> /\ photos[1].inner ->
         Location("photo", photos[1].id, pickPhotoThumb(photos[1].attrs, -1), 0)
    [] OTHER -> NoLocation

-----------------------------------------------------------------------------
\* upload.getFile: at most limit bytes from the offset.
UploadGetFile(file, offset, limit) ==
  SubSeq(file, offset + 1, IF offset + limit < Len(file) THEN offset + limit ELSE Len(file))

downloadToMemory(file, limit) ==
  LET From[offset \in 0 .. Len(file)] ==
        LET chunk == UploadGetFile(file, offset, limit)
        IN  IF Len(chunk) < limit THEN chunk ELSE chunk \o From[offset + Len(chunk)]
  IN  From[0]

-----------------------------------------------------------------------------
\* A MIME type is its two parts, or <<>> if none is known.
isImageMIME(mime) == mime # <<>> /\ mime[1] = "image"

\* The media of SendFile ("file"), of SendFileAdvanced with SendPhoto and
\* SendDocument, of SendAudio and of SendVideo: mime is what the options or the
\* extension of the file say.
UploadedMedia(op, mime, asPhoto, asDocument) ==
  LET orElse(default) == IF mime = <<>> THEN default ELSE mime
      document(attrs, default) == [kind |-> "document", attrs |-> attrs, mime |-> orElse(default)]
  IN  CASE op = "audio" -> document(<<"audio", "filename">>, <<"audio", "mpeg">>)
        [] op = "video" -> document(<<"video", "filename">>, <<"video", "mp4">>)
        [] op = "advanced" /\ asPhoto /\ ~asDocument /\ isImageMIME(mime) ->
             [kind |-> "photo", mime |-> <<>>, attrs |-> <<>>]
        [] OTHER -> document(<<"filename">>, <<"application", "octet-stream">>)

=============================================================================
