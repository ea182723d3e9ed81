--------------------------- MODULE MCPublicFiles ---------------------------
(***************************************************************************)
(* Instance of PublicFiles: the avatar of one user, replaced by two        *)
(* uploads that race over the object of an earlier one, or two QR codes.   *)
(* Avatars and codes share no row and no bucket, so only one of the two    *)
(* kinds is uploaded in a behaviour, and receipts are shown and the secret *)
(* is changed in those where none is.  The address changes once; the       *)
(* second one ends in the name of a bucket.                                *)
(***************************************************************************)
EXTENDS PublicFiles

AvatarOwner == [r \in Uploads |-> "ann"]
Addresses == {<<"api", "files">>, <<"cdn", "avatars">>}
Moments == {0, 400, 999}
Later == {0, receiptURLTTL - 1, receiptURLTTL, receiptURLTTL + 1, receiptURLTTL + Second - 1,
          receiptURLTTL + Second}

NoAvatars == \A r \in Uploads \ Earlier : step[r] = "idle"
NoCodes == \A r \in QRUploads : qrStep[r] = "idle"

Scenario ==
  /\ NoAvatars' \/ NoCodes'
  /\ base' # base => base = <<"api", "files">>
  /\ view'.kind = "receipt" \/ secret' # secret => NoAvatars /\ NoCodes

MCInit ==
  /\ FilesInit
  /\ secret = "s1" /\ base = <<"api", "files">> /\ linkBase = [r \in Uploads |-> base]

MCSpec == MCInit /\ [][FilesNext /\ Scenario]_filesVars
=============================================================================
