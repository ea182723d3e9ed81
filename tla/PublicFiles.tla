---------------------------- MODULE PublicFiles ----------------------------
(***************************************************************************)
(* The links a client is shown and opens later, over the uploads that      *)
(* replace and clean up what they name: the avatar of a profile, the list  *)
(* of QR codes, the file of a receipt.  A profile shows the link its       *)
(* upload stored; the list of QR codes rewrites links to the address the   *)
(* process has now (NormalizeURL); the link of a receipt is signed when it *)
(* is shown.  Address and secret are configuration: they may differ when   *)
(* the process is started again.                                           *)
(***************************************************************************)
EXTENDS AvatarUpload, FileLinks

CONSTANTS
  QRUploads,   \* the uploads of QR codes
  Odd,         \* uploads whose file extension makes a name validObjectName refuses
  Bases,       \* values of FILES_BASE_URL, as paths
  Secrets,     \* values of FILE_LINK_SECRET
  ShowTimes,   \* bound: when a receipt is shown, in milliseconds
  Delays       \* bound: how much later it is opened

ASSUME OddAssumption == Odd \subseteq Uploads \cup QRUploads
ASSUME PathsAssumption == Bases \subseteq Seq(STRING) /\ QRUploads \subseteq STRING \ {Empty}
ASSUME TimesAssumption == ShowTimes \subseteq Nat /\ Delays \subseteq Nat

VARIABLES
  codes, qrObjects, qrStep, qrCancelled, qrTroubled, unknown, qrResponse,   \* of QRUpload
  base, secret,   \* the configuration of the process
  linkBase,       \* the address in the link each avatar upload stores
  view            \* the link the client has, or the answer it got

QR == INSTANCE QRUpload WITH
  Uploads <- QRUploads, objects <- qrObjects, step <- qrStep, cancelled <- qrCancelled,
  troubled <- qrTroubled, response <- qrResponse

qrVars == <<codes, qrObjects, qrStep, qrCancelled, qrTroubled, unknown, qrResponse>>
filesVars == <<vars, qrVars, base, secret, linkBase, view>>

Nothing == [kind |-> "nothing"]

FilesInit ==
  /\ Init /\ QR!Init
  /\ base \in Bases /\ secret \in Secrets
  /\ linkBase \in [Uploads -> Bases]
  /\ \A r \in Uploads : step[r] = "idle" => linkBase[r] = base
  /\ view = Nothing

config == <<base, secret, linkBase>>

UploadAvatar ==
  /\ \E r \in Uploads : Handle(r)
  /\ UNCHANGED <<qrVars, config, view>>

UploadQRCode ==
  /\ \E r \in QRUploads : QR!Handle(r)
  /\ UNCHANGED <<vars, config, view>>

\* The process ends, which may cut uploads, and is started again.
Restart ==
  /\ IF \E r \in Uploads : InFlight(r) THEN Crash ELSE UNCHANGED vars
  /\ IF \E r \in QRUploads : qrStep[r] \in QR!Running THEN QR!Crash ELSE UNCHANGED qrVars
  /\ base' \in Bases /\ secret' \in Secrets
  /\ linkBase' = [r \in Uploads |-> IF step[r] = "idle" THEN base' ELSE linkBase[r]]
  /\ UNCHANGED view

Show(link) ==
  /\ view.kind \in {"nothing", "opened"}
  /\ view' = link
  /\ UNCHANGED <<vars, qrVars, config>>

\* GET /profile shows the link as it is stored.
ShowAvatar ==
  \E u \in DOMAIN avatars :
    /\ avatars[u] # Foreign
    /\ Show([kind |-> "avatar", upload |-> avatars[u], from |-> base,
             path |-> Public(linkBase[avatars[u]], "avatars", <<avatars[u]>>)])

\* Mutant of ListedPath: the list shows links as they are stored.
StoredPath(stored) == stored

\* ListQRCodes
ListedPath(stored) == Normalize(base, stored, "qr-codes")

\* GET /qr, whatever the address a code was stored with.
ShowCode ==
  \E r \in codes, storedBase \in Bases :
    Show([kind |-> "code", upload |-> r, from |-> base,
          path |-> ListedPath(Public(storedBase, "qr-codes", <<r>>))])

\* A list of receipts shows a signed link, receiptURL.  ReceiptUpload says which
\* receipts have their file; this is one of them.
ShowReceipt ==
  \E t \in ShowTimes :
    Show([kind |-> "receipt", at |-> t, secret |-> secret, from |-> base,
          link |-> Signed(secret, "receipts", <<"file">>, t)])

\* The answer when nothing listens at the address of the link.
Nowhere == -1

HasObject(bucket, upload) ==
  IF bucket = "avatars" THEN upload \in objects ELSE upload \in qrObjects

\* The client opens a picture: ServeFile, behind the address of the process.
OpenPicture ==
  LET bucket == IF view.kind = "avatar" THEN "avatars" ELSE "qr-codes"
      here == view.path = Public(base, bucket, <<view.upload>>)
      answers == IF ~here THEN {Nowhere}
                 ELSE Serve(bucket, view.upload \notin Odd, "unsigned", HasObject(bucket, view.upload))
  IN  /\ view.kind \in {"avatar", "code"}
      /\ \E a \in answers : view' = [kind |-> "opened", answer |-> a]
      /\ UNCHANGED <<vars, qrVars, config>>

OpenReceipt ==
  /\ view.kind = "receipt"
  /\ \E d \in Delays :
       \E a \in IF view.from # base THEN {Nowhere}
                ELSE Serve("receipts", TRUE, Verify(secret, view.link, view.at + d), TRUE) :
         view' = [kind |-> "opened", answer |-> a, delay |-> d]
  /\ UNCHANGED <<vars, qrVars, config>>

FilesNext ==
  \/ UploadAvatar \/ UploadQRCode \/ Restart
  \/ ShowAvatar \/ ShowCode \/ ShowReceipt \/ OpenPicture \/ OpenReceipt

FilesSpec == FilesInit /\ [][FilesNext]_filesVars

(***************************************************************************)
(* Properties.                                                             *)
(***************************************************************************)
\* QRUpload's properties, with avatars uploaded beside the codes.
PictureLossExplained == QR!PictureLossExplained
OrphansExplained == QR!OrphansExplained

\* A client that was shown a picture gets it, unless the avatar was replaced since,
\* the picture went with the cleanup of an unknown INSERT, or its name is one
\* FileService refuses although UploadAvatar and SaveQRCode accepted it.  A list of
\* QR codes survives a new FILES_BASE_URL, a stored avatar link does not.
ShownPictureOpens ==
  [][view.kind \in {"avatar", "code"} /\ view'.kind = "opened" =>
       LET r == view.upload
       IN  /\ view'.answer = 404 =>
                \/ r \in Odd
                \/ view.kind = "avatar" /\ avatars[Owner[r]] # r
                \/ view.kind = "code" /\ r \in unknown
           /\ view'.answer = Nowhere =>
                view.from # base \/ (view.kind = "avatar" /\ linkBase[r] # base)
           /\ view'.answer # 403]_filesVars

\* The link of a receipt works for at least the 15 minutes it is signed for and for
\* less than a second more, as long as the secret stays.
SignedLinkLifetime ==
  [][view.kind = "receipt" /\ view'.kind = "opened" =>
       /\ view'.answer = 200 => view.secret = secret /\ view'.delay < receiptURLTTL + Second
       /\ view'.answer = 403 => view.secret # secret \/ view'.delay > receiptURLTTL
       /\ view'.answer # 404]_filesVars
=============================================================================
