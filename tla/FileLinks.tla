----------------------------- MODULE FileLinks -----------------------------
(***************************************************************************)
(* internal/filelink and FileService: the links the server hands out and   *)
(* what it answers when one is opened.  A path is a sequence of segments:  *)
(* escaping them and parsing them back is the identity on segments.  A     *)
(* signature is what was signed and with which secret.  Times are in       *)
(* milliseconds; config.Load refuses an empty secret, so there is one.     *)
(***************************************************************************)
EXTENDS Integers, Sequences

Second == 1000
receiptURLTTL == 15 * 60 * Second

\* Time.Unix
Unix(t) == t \div Second

Public(base, bucket, object) == base \o <<bucket>> \o object

\* Signer.Signed at the time t.
Signed(secret, bucket, object, t) ==
  LET expires == Unix(t + receiptURLTTL)
  IN  [bucket |-> bucket, object |-> object, expires |-> expires,
       sig |-> <<secret, bucket, object, expires>>]

\* Mutant of Expired: the second of the expiry is excluded.
ExpiredAtOnce(expires, t) == Unix(t) >= expires

Expired(expires, t) == Unix(t) > expires

\* Signer.Verify at the time t.
Verify(secret, link, t) ==
  IF link.sig # <<secret, link.bucket, link.object, link.expires>> THEN "forged"
  ELSE IF Expired(link.expires, t) THEN "expired" ELSE "valid"

\* The places of the marker "/bucket/" in a path.
Markers(path, bucket) == {i \in 1..(Len(path) - 1) : path[i] = bucket}

\* What follows a slash at the end of a path.
Empty == ""

\* ObjectName, with << >> for a link that names no object of the bucket.
ObjectName(path, bucket) ==
  LET last == CHOOSE i \in Markers(path, bucket) : \A j \in Markers(path, bucket) : j <= i
  IN  IF Markers(path, bucket) = {} \/ SubSeq(path, last + 1, Len(path)) = <<Empty>> THEN << >>
      ELSE SubSeq(path, last + 1, Len(path))

Normalize(base, path, bucket) ==
  LET object == ObjectName(path, bucket)
  IN  IF object = << >> THEN path ELSE Public(base, bucket, object)

\* fileBuckets
PublicBuckets == {"avatars", "qr-codes"}
SignedBuckets == {"receipts"}

\* The status of GET /files/bucket/object: whether validObjectName accepts the
\* name, whether a bucket that asks for a signature got a valid one, and what the
\* store says.  304, for a client that has the object, is one of the 200.
Serve(bucket, valid, verdict, stored) ==
  IF bucket \notin PublicBuckets \cup SignedBuckets \/ ~valid THEN {404}
  ELSE IF bucket \in SignedBuckets /\ verdict # "valid" THEN {403}
  ELSE {IF stored THEN 200 ELSE 404, 500}
=============================================================================
