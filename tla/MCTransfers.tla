----------------------------- MODULE MCTransfers -----------------------------
(***************************************************************************)
(* The transfers that can be resumed, checked in one run: DownloadFile     *)
(* (FileDownload, which this module extends), ResumableDownloadFile,       *)
(* ResumableUpload and uploadFile.  They share no state; the "subject"     *)
(* chosen at first is the one that runs, and the others stay where they    *)
(* begin.                                                                  *)
(***************************************************************************)
EXTENDS FileDownload, TLC

CONSTANTS f1, f2, k1, k2,
          MediaVersions, MediaSize, MaxLosses,
          Uploaders, Versions, Parts, LocalSize, Short, Ids, MaxFailures,
          Calls, Sources, SourceParts, ShortSources, BigSources, Via, MaxIds, MaxErrors

VARIABLES
  subject,
  remote, part, saved, at, ver, position, answer, kept, losses,
  local, server, progress, nextId, up, handle, unread, failures,
  version, parts, resume, next, call, returned, batch, spoiled, errors

Transfer == INSTANCE TransferDownload
              WITH Versions <- MediaVersions, Size <- MediaSize, MaxFaults <- MaxLosses,
                   file <- part, stored <- saved, pc <- at, offset <- position, result <- answer, faults <- losses
Upload   == INSTANCE ResumableUpload
              WITH Size <- LocalSize, MaxFaults <- MaxFailures, stored <- progress, faults <- failures
Uploads  == INSTANCE Uploads
              WITH Files <- Sources, Parts <- SourceParts, Short <- ShortSources, Big <- BigSources,
                   Ids <- MaxIds, MaxFaults <- MaxErrors,
                   server <- parts, stored <- resume, nextId <- next, handle <- returned, faults <- errors
ASSUME TransferAssumption == Transfer!ParametersOK /\ Upload!ParametersOK /\ Uploads!ParametersOK

\* The code tells two versions of a file apart by their size alone
\* (transfers.go:140, 277), so one of another content has another size.
ASSUME SizesDiffer ==
  /\ \A v, w \in 1 .. MediaVersions : MediaSize[v] = MediaSize[w] => v = w
  /\ \A v, w \in 1 .. Versions : LocalSize[v] = LocalSize[w] => v = w

transferVars == <<remote, part, saved, at, ver, position, answer, kept, losses>>
uploadVars   == <<local, server, progress, nextId, up, handle, unread, failures>>
uploadsVars  == <<version, parts, resume, next, call, returned, batch, spoiled, errors>>
allVars      == <<vars, subject, transferVars, uploadVars, uploadsVars>>

-----------------------------------------------------------------------------
\* One key per file.
OwnState == (f1 :> k1) @@ (f2 :> k2)

\* A file that ends with a short part and one that ends with a whole one.
Sizes == (f1 :> 5) @@ (f2 :> 4)

\* Every call sets Resume.
Resuming == {TRUE}

\* Versions of different sizes, ending with a short and with a whole part.
DifferentMedia == <<5, 4, 2>>

\* A version of the local file with a short last part and a longer one.
PartsOf   == <<2, 3>>
Different == <<3, 6>>

\* A big file on disk with a short last part, and a stream of one whole part.
SourceSizes == ("path" :> 2) @@ ("stream" :> 1)
SourceKinds == ("path" :> "path") @@ ("stream" :> "stream")

Symmetry == Permutations(Uploaders) \cup Permutations(Calls)

-----------------------------------------------------------------------------
AllInit ==
  /\ subject \in {"file", "transfer", "upload", "uploads"}
  /\ Init /\ Transfer!Init /\ Upload!Init /\ Uploads!Init

AllNext ==
  \/ subject = "file" /\ Next /\ UNCHANGED <<subject, transferVars, uploadVars, uploadsVars>>
  \/ subject = "transfer" /\ Transfer!Next /\ UNCHANGED <<vars, subject, uploadVars, uploadsVars>>
  \/ subject = "upload" /\ Upload!Next /\ UNCHANGED <<vars, subject, transferVars, uploadsVars>>
  \/ subject = "uploads" /\ Uploads!Next /\ UNCHANGED <<vars, subject, transferVars, uploadVars>>

AllSpec == AllInit /\ [][AllNext]_allVars

-----------------------------------------------------------------------------
\* A download that resumes with a transfer state leaves no hole behind what it
\* has counted, whatever replaced the media meanwhile (transfers.go:204-373).
ResumedWhole == Transfer!TypeOK /\ Transfer!NothingMissing

\* A handle names one whole file: that of a resumed upload parts of one version
\* (transfers.go:129-201), that of uploadFile all the parts in order, and
\* UploadMultiple that succeeds has one for every path (uploads.go:98-197, 549-571).
UploadsWhole ==
  /\ Upload!TypeOK  /\ Upload!HandleFromOneVersion
  /\ Uploads!TypeOK /\ Uploads!HandleIsFile /\ Uploads!MultipleWhole

=============================================================================
