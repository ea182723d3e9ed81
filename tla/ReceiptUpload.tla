--------------------------- MODULE ReceiptUpload ---------------------------
(***************************************************************************)
(* The requests about one receipt or one balance: an upload from the       *)
(* handler to the object store (handlers.UploadReceipt,                    *)
(* BalanceService.CreditFromReceipt, the parsing client and the MinIO      *)
(* client), and an administrator's rejection and adjustment.  The          *)
(* repository is the abstract one of Ledger, which BalanceRepo implements. *)
(* Every attempt uploads under a fresh uuid, so an attempt's object is     *)
(* named by the attempt itself.  Calls of the parsing service and of the   *)
(* object store may fail, with or without having taken effect; the client  *)
(* may leave, which ends the context of all later calls; the process may   *)
(* die.                                                                    *)
(***************************************************************************)
EXTENDS BalanceTables

VARIABLES
  outcome,    \* what the repository returned
  step,       \* what each request does next
  objects,    \* the objects in the receipts bucket
  cancelled,  \* requests whose context has ended
  troubled,   \* requests cut short, or with a failed call to the object store
  response    \* the HTTP status written, 0 before that

Repo == INSTANCE Ledger

vars == <<tables, outcome, step, objects, cancelled, troubled, response>>

Uploads == {r \in Requests : Is(r, "credit")}
Running == {"precheck", "parse", "upload", "credit", "delete", "user", "adjust"}

Init ==
  /\ Repo!Init
  /\ step = [r \in Requests |-> "idle"]
  /\ objects = {}
  /\ cancelled = {}
  /\ troubled = {}
  /\ response = [r \in Requests |-> 0]

Goto(r, label) == step' = [step EXCEPT ![r] = label] /\ UNCHANGED response

Respond(r, status) ==
  /\ step' = [step EXCEPT ![r] = "answered"]
  /\ response' = [response EXCEPT ![r] = status]

\* Mutant of Status: every repository error is a conflict.
StatusConflict(o) == 409

\* translateRepoError, then the switch of the handler.
Status(o) ==
  CASE o \in {"duplicate file", "duplicate check number", "already reversed"} -> 409
    [] o = "currency mismatch" -> 422
    [] o = "receipt not found" -> 404
    [] OTHER -> 500

\* The handler reads the form: no session, no file, a wrong type or a file that
\* cannot be read are answered at once.
Receive(r) ==
  /\ step[r] = "idle" /\ Is(r, "credit")
  /\ \/ Goto(r, "precheck")
     \/ \E status \in {400, 401, 500} : Respond(r, status)
  /\ UNCHANGED <<tables, outcome, objects, cancelled, troubled>>

\* ReceiptExistsByFileHash, a query outside any transaction.
Precheck(r) ==
  /\ step[r] = "precheck"
  /\ \/ r \notin cancelled /\ HashTaken(Arg[r].hash) /\ Respond(r, 409)
     \/ r \notin cancelled /\ ~HashTaken(Arg[r].hash) /\ Goto(r, "parse")
     \/ Respond(r, 500)
  /\ UNCHANGED <<tables, outcome, objects, cancelled, troubled>>

\* ParseReceipt and the check of what it recognised: 422 when the service
\* rejects the file or finds no positive amount or no currency, 503 when it does
\* not answer, 500 when the request cannot be built.
Parse(r) ==
  /\ step[r] = "parse"
  /\ \/ r \notin cancelled /\ (Goto(r, "upload") \/ Respond(r, 422))
     \/ \E status \in {500, 503} : Respond(r, status)
  /\ UNCHANGED <<tables, outcome, objects, cancelled, troubled>>

\* storage.Upload.  A call that fails may have stored the object; nothing is
\* deleted then.
UploadObject(r) ==
  /\ step[r] = "upload"
  /\ \/ /\ r \notin cancelled
        /\ objects' = objects \cup {r}
        /\ Goto(r, "credit")
        /\ UNCHANGED troubled
     \/ /\ \E stored \in IF r \in cancelled THEN {{}} ELSE {{}, {r}} :
             objects' = objects \cup stored
        /\ troubled' = troubled \cup {r}
        /\ Respond(r, 500)
  /\ UNCHANGED <<tables, outcome, cancelled>>

\* Mutant of CreditReceipt: an error is answered without the cleanup.
CreditAndAnswer(r) ==
  /\ step[r] = "credit"
  /\ Repo!Credit(r) \/ Repo!Refuse(r)
  /\ Respond(r, IF outcome'[r] = "ok" THEN 201 ELSE Status(outcome'[r]))
  /\ UNCHANGED <<objects, cancelled, troubled>>

\* Mutant of CreditReceipt: the cleanup is deferred unconditionally.
CreditThenDelete(r) ==
  /\ step[r] = "credit"
  /\ Repo!Credit(r) \/ Repo!Refuse(r)
  /\ Goto(r, "delete")
  /\ UNCHANGED <<objects, cancelled, troubled>>

\* repo.CreditReceipt.  Under an ended context it does not begin.
CreditReceipt(r) ==
  /\ step[r] = "credit"
  /\ IF r \in cancelled
     THEN Repo!Refuse(r) /\ outcome'[r] = "failed"
     ELSE Repo!Credit(r) \/ Repo!Refuse(r)
  /\ IF outcome'[r] = "ok" THEN Respond(r, 201) ELSE Goto(r, "delete")
  /\ UNCHANGED <<objects, cancelled, troubled>>

\* storage.Delete after any error of the repository, with the same context; its
\* own error is logged and dropped.
DeleteObject(r) ==
  /\ step[r] = "delete"
  /\ \/ /\ r \notin cancelled
        /\ objects' = objects \ {r}
        /\ UNCHANGED troubled
     \/ /\ \E removed \in IF r \in cancelled THEN {{}} ELSE {{}, {r}} :
             objects' = objects \ removed
        /\ troubled' = troubled \cup {r}
  /\ Respond(r, Status(outcome[r]))
  /\ UNCHANGED <<tables, outcome, cancelled>>

\* The client goes away: net/http ends the context of its request.
Disconnect(r) ==
  /\ step[r] \in Running /\ r \notin cancelled
  /\ cancelled' = cancelled \cup {r}
  /\ troubled' = troubled \cup {r}
  /\ UNCHANGED <<tables, outcome, step, objects, response>>

\* The process dies, or exits when srv.Shutdown gives up after 10 seconds.
Crash ==
  LET lost == {r \in Requests : step[r] \in Running}
  IN  /\ lost # {}
      /\ step' = [r \in Requests |-> IF r \in lost THEN "lost" ELSE step[r]]
      /\ troubled' = troubled \cup lost
      /\ UNCHANGED <<tables, outcome, objects, cancelled, response>>

\* POST /balance/receipts/:id/reject: one call of the repository.
RejectReceipt(r) ==
  /\ step[r] = "idle" /\ Is(r, "reverse")
  /\ \/ Respond(r, 400) /\ UNCHANGED <<tables, outcome>>
     \/ /\ Repo!Reverse(r) \/ Repo!Refuse(r)
        /\ Respond(r, IF outcome'[r] = "ok" THEN 200 ELSE Status(outcome'[r]))
  /\ UNCHANGED <<objects, cancelled, troubled>>

\* POST /balance/adjust: a bad body is answered at once.
ReceiveAdjustment(r) ==
  /\ step[r] = "idle" /\ Is(r, "adjust")
  /\ Goto(r, "user") \/ Respond(r, 400)
  /\ UNCHANGED <<tables, outcome, objects, cancelled, troubled>>

\* requireUser, a query outside any transaction.  The users are the business of
\* other modules: the row is there or not.
RequireUser(r) ==
  /\ step[r] = "user"
  /\ \/ r \notin cancelled /\ (Goto(r, "adjust") \/ Respond(r, 404))
     \/ Respond(r, 500)
  /\ UNCHANGED <<tables, outcome, objects, cancelled, troubled>>

\* repo.AdjustBalance.
AdjustBalance(r) ==
  /\ step[r] = "adjust"
  /\ IF r \in cancelled
     THEN Repo!Refuse(r) /\ outcome'[r] = "failed"
     ELSE Repo!Adjust(r) \/ Repo!Refuse(r)
  /\ Respond(r, IF outcome'[r] = "ok" THEN 200 ELSE Status(outcome'[r]))
  /\ UNCHANGED <<objects, cancelled, troubled>>

Next ==
  \/ \E r \in Requests :
       \/ Receive(r) \/ Precheck(r) \/ Parse(r) \/ UploadObject(r)
       \/ CreditReceipt(r) \/ DeleteObject(r) \/ Disconnect(r)
       \/ RejectReceipt(r)
       \/ ReceiveAdjustment(r) \/ RequireUser(r) \/ AdjustBalance(r)
  \/ Crash

Spec == Init /\ [][Next]_vars

(***************************************************************************)
(* Properties.                                                             *)
(***************************************************************************)
TypeOK ==
  /\ TablesTypeOK
  /\ step \in [Requests -> {"idle", "answered", "lost"} \cup Running]
  /\ objects \subseteq Uploads
  /\ cancelled \subseteq Requests /\ troubled \subseteq Requests
  /\ response \in [Requests -> {0, 200, 201, 400, 401, 404, 409, 422, 500, 503}]

\* CreditFromReceipt uploads the file before it stores the row, and deletes it
\* only as "orphaned": every stored receipt has its file.
ReceiptHasFile == DOMAIN receipts \subseteq objects

\* What holds of it: only a receipt whose commit was reported as an error can
\* lose its file.  A receipt the repository confirmed keeps it, and so does one
\* whose attempt died with the process before the cleanup.
ConfirmedReceiptHasFile ==
  \A i \in DOMAIN receipts \ objects : outcome[i] = "failed" /\ response[i] \in {0, 500}

\* An object without a receipt is left behind only by an attempt that is still
\* running, was cut short, or met an error of the object store.
OrphansExplained ==
  \A o \in objects \ DOMAIN receipts : step[o] \in Running \/ o \in troubled

\* What a client may conclude, retries and other requests included: after 200 or
\* 201 its request is booked, after any other answer but 500 nothing of it is
\* stored, and 409 means that another request did what it asked: stored a receipt
\* of the same file or check number, or reversed the receipt.
AnswerTellsEffect ==
  \A r \in Requests :
    LET mine == {e \in ledger : e.by = r}
    IN  /\ response[r] \in {200, 201} => mine # {}
        /\ response[r] = 201 => r \in DOMAIN receipts
        /\ response[r] \notin {0, 200, 201, 500} => r \notin DOMAIN receipts /\ mine = {}
        /\ response[r] = 409 =>
             \/ \E i \in DOMAIN receipts \ {r} :
                  /\ Is(r, "credit")
                  /\ \/ receipts[i].hash = Arg[r].hash
                     \/ Arg[r].check # NoCheck /\ receipts[i].check = Arg[r].check
             \/ \E e \in ledger :
                  /\ Is(r, "reverse")
                  /\ e.kind = "receipt_reversal" /\ e.ref = ReceiptRef(Arg[r].receipt)
=============================================================================
