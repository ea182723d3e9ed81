------------------------------ MODULE QRUpload ------------------------------
(***************************************************************************)
(* POST /qr/create and GET /qr: handlers.UploadQRCode, QRService and       *)
(* qr_repo, against the qr-codes bucket.  A QR code is named by the upload *)
(* that creates it: its row, its fresh object and the link between them.   *)
(***************************************************************************)
CONSTANT Uploads

VARIABLES
  codes,      \* the qr_codes table
  objects,    \* the objects in the qr-codes bucket
  step,
  cancelled,  \* uploads whose request context has ended
  troubled,   \* uploads cut short, or with a failed call to the bucket
  unknown,    \* uploads whose INSERT took effect and was reported as an error
  response    \* the HTTP status written, 0 before that

vars == <<codes, objects, step, cancelled, troubled, unknown, response>>

Running == {"upload", "insert", "delete"}

Init ==
  /\ codes = {} /\ objects = {}
  /\ step = [r \in Uploads |-> "idle"]
  /\ cancelled = {} /\ troubled = {} /\ unknown = {}
  /\ response = [r \in Uploads |-> 0]

Goto(r, label) == step' = [step EXCEPT ![r] = label] /\ UNCHANGED response

Respond(r, status) ==
  /\ step' = [step EXCEPT ![r] = "answered"]
  /\ response' = [response EXCEPT ![r] = status]

\* The handler: no session, a bad target link or a bad file are answered at once.
Receive(r) ==
  /\ step[r] = "idle"
  /\ \/ Goto(r, "upload")
     \/ \E status \in {400, 401, 500} : Respond(r, status)
  /\ UNCHANGED <<codes, objects, cancelled, troubled, unknown>>

\* storage.Upload.  A call that fails may have stored the object.
UploadObject(r) ==
  /\ step[r] = "upload"
  /\ \/ /\ r \notin cancelled
        /\ objects' = objects \cup {r}
        /\ Goto(r, "insert")
        /\ UNCHANGED troubled
     \/ /\ \E stored \in IF r \in cancelled THEN {{}} ELSE {{}, {r}} :
             objects' = objects \cup stored
        /\ troubled' = troubled \cup {r}
        /\ Respond(r, 500)
  /\ UNCHANGED <<codes, cancelled, unknown>>

\* Mutant of CreateQRCode: an error is answered without the cleanup.
CreateOrAnswer(r) ==
  /\ step[r] = "insert"
  /\ \/ codes' = codes \cup {r} /\ Respond(r, 201)
     \/ UNCHANGED codes /\ Respond(r, 500)
  /\ UNCHANGED <<objects, cancelled, troubled, unknown>>

\* Mutant of CreateQRCode: the cleanup is deferred unconditionally.
CreateThenDelete(r) ==
  /\ step[r] = "insert"
  /\ codes' = codes \cup {r}
  /\ Goto(r, "delete")
  /\ UNCHANGED <<objects, cancelled, troubled, unknown>>

\* repo.CreateQRCode, one INSERT ... RETURNING, which may take effect and still
\* be reported as an error.
CreateQRCode(r) ==
  /\ step[r] = "insert"
  /\ \/ /\ r \notin cancelled
        /\ codes' = codes \cup {r}
        /\ \/ Respond(r, 201) /\ UNCHANGED unknown
           \/ Goto(r, "delete") /\ unknown' = unknown \cup {r}
     \/ Goto(r, "delete") /\ UNCHANGED <<codes, unknown>>
  /\ UNCHANGED <<objects, cancelled, troubled>>

\* storage.Delete after any error of the repository, with the same context; its
\* own error is logged and dropped.
DeleteObject(r) ==
  /\ step[r] = "delete"
  /\ \/ /\ r \notin cancelled
        /\ objects' = objects \ {r}
        /\ UNCHANGED troubled
     \/ /\ \E removed \in IF r \in cancelled THEN {{}} ELSE {{}, {r}} :
             objects' = objects \ removed
        /\ troubled' = troubled \cup {r}
  /\ Respond(r, 500)
  /\ UNCHANGED <<codes, cancelled, unknown>>

\* The client goes away: the context of its request ends.
Disconnect(r) ==
  /\ step[r] \in Running /\ r \notin cancelled
  /\ cancelled' = cancelled \cup {r}
  /\ troubled' = troubled \cup {r}
  /\ UNCHANGED <<codes, objects, step, unknown, response>>

\* The process dies.
Crash ==
  LET lost == {r \in Uploads : step[r] \in Running}
  IN  /\ lost # {}
      /\ step' = [r \in Uploads |-> IF r \in lost THEN "lost" ELSE step[r]]
      /\ troubled' = troubled \cup lost
      /\ UNCHANGED <<codes, objects, cancelled, unknown, response>>

Handle(r) ==
  Receive(r) \/ UploadObject(r) \/ CreateQRCode(r) \/ DeleteObject(r) \/ Disconnect(r)

Next == (\E r \in Uploads : Handle(r)) \/ Crash

Spec == Init /\ [][Next]_vars

(***************************************************************************)
(* Properties.                                                             *)
(***************************************************************************)
TypeOK ==
  /\ codes \subseteq Uploads /\ objects \subseteq Uploads
  /\ step \in [Uploads -> {"idle", "answered", "lost"} \cup Running]
  /\ cancelled \subseteq Uploads /\ troubled \subseteq Uploads /\ unknown \subseteq Uploads
  /\ response \in [Uploads -> {0, 201, 400, 401, 500}]

\* SaveQRCode deletes the object as "orphaned" after any error of the INSERT, also
\* one that took effect: a QR code that ListQRCodes shows can lose its picture in
\* no other way, and its upload is then answered with 500 or not at all.
PictureLossExplained ==
  \A r \in codes \ objects : r \in unknown /\ response[r] \in {0, 500}

\* A picture without a code is left behind only by an upload that is still
\* running, was cut short, or met an error of the bucket.
OrphansExplained ==
  \A o \in objects \ codes : step[o] \in Running \/ o \in troubled
=============================================================================
