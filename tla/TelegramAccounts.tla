-------------------------- MODULE TelegramAccounts --------------------------
(***************************************************************************)
(* /profile/telegram: handlers, TelegramService and telegram_repo, at the  *)
(* grain of the two waits an upsert has in PostgreSQL: for the row of its  *)
(* user, and for the unique key of the Telegram account.  The key of a row *)
(* that another statement is replacing is waited for until it commits.     *)
(***************************************************************************)
EXTENDS TelegramTable, Naturals

CONSTANTS
  Requests,  \* calls of the API, each made once
  Arg        \* Arg[r]: [op |-> "link", user, chat] or [op |-> "unlink", user]

ASSUME ArgAssumption ==
  \A r \in Requests :
    Arg[r] \in [op : {"link"}, user : Users, chat : Chats] \cup [op : {"unlink"}, user : Users]

VARIABLES
  step,
  response   \* the HTTP status written, 0 before that

accountVars == <<accounts, step, response>>

AccountsInit ==
  /\ accounts = [u \in {} |-> {}]
  /\ step = [r \in Requests |-> "idle"]
  /\ response = [r \in Requests |-> 0]

Goto(r, label) == step' = [step EXCEPT ![r] = label] /\ UNCHANGED response

Respond(r, status) ==
  /\ step' = [step EXCEPT ![r] = "answered"]
  /\ response' = [response EXCEPT ![r] = status]

\* LinkAccount refuses without a bot token, for a bad body, a bad signature or
\* data older than 24 hours, before it touches the table.
Receive(r) ==
  /\ step[r] = "idle"
  /\ \/ Goto(r, "row")
     \/ Arg[r].op = "link" /\ \E status \in {400, 503} : Respond(r, status)
  /\ UNCHANGED accounts

HoldsRow(r, u) == step[r] = "key" /\ Arg[r].user = u

RowFree(r) == \A s \in Requests \ {r} : ~HoldsRow(s, Arg[r].user)

\* INSERT ... ON CONFLICT (user_id) DO UPDATE has the row of its user, new or old.
LockRow(r) ==
  /\ step[r] = "row" /\ Arg[r].op = "link"
  /\ RowFree(r)
  /\ Goto(r, "key")
  /\ UNCHANGED accounts

\* The users whose committed row has the chat r wants.
Owners(r) == {v \in DOMAIN accounts \ {Arg[r].user} : accounts[v] = Arg[r].chat}

KeyHolders(r) == {s \in Requests \ {r} : \E v \in Owners(r) : HoldsRow(s, v)}

Stored(r) ==
  accounts' = [u \in DOMAIN accounts \cup {Arg[r].user} |->
                 IF u = Arg[r].user THEN Arg[r].chat ELSE accounts[u]]

\* Mutant of StoreKey: without the unique index the row is stored, whoever has the
\* account.
StoreUnchecked(r) == step[r] = "key" /\ Stored(r) /\ Respond(r, 200)

\* The new key goes into idx_telegram_accounts_telegram_id and the statement
\* commits, or the violation is answered with 409.
StoreKey(r) ==
  /\ step[r] = "key" /\ KeyHolders(r) = {}
  /\ \/ Owners(r) # {} /\ Respond(r, 409) /\ UNCHANGED accounts
     \/ Owners(r) = {} /\ Stored(r) /\ (Respond(r, 200) \/ Respond(r, 500))

\* Unlink, a single DELETE.  It waits for the statement that is replacing its row; the
\* new row of a link that has not committed it does not see, and answers 404 at once.
Unlink(r) ==
  /\ step[r] = "row" /\ Arg[r].op = "unlink"
  /\ \/ /\ Arg[r].user \notin DOMAIN accounts
        /\ Respond(r, 404)
        /\ UNCHANGED accounts
     \/ /\ Arg[r].user \in DOMAIN accounts /\ RowFree(r)
        /\ accounts' = [u \in DOMAIN accounts \ {Arg[r].user} |-> accounts[u]]
        /\ Respond(r, 200) \/ Respond(r, 500)

\* The statement fails and is rolled back.
Fail(r) == step[r] \in {"row", "key"} /\ Respond(r, 500) /\ UNCHANGED accounts

\* Each of S has the row of its user and waits for the key of another of S.
Circle(S) == S # {} /\ \A r \in S : step[r] = "key" /\ KeyHolders(r) \cap S # {}

\* Mutant of DeadlockAbort: circles are not detected.
DeadlockStays(r) == FALSE /\ UNCHANGED accountVars

\* PostgreSQL's deadlock detector; the error is not the unique violation.
DeadlockAbort(r) ==
  /\ \E S \in SUBSET Requests : r \in S /\ Circle(S)
  /\ Respond(r, 500)
  /\ UNCHANGED accounts

Statement(r) == LockRow(r) \/ StoreKey(r) \/ Unlink(r)

AccountsNext == \E r \in Requests : Receive(r) \/ Statement(r) \/ Fail(r) \/ DeadlockAbort(r)

AccountsSpec == AccountsInit /\ [][AccountsNext]_accountVars

Fairness == \A r \in Requests : WF_accountVars(Statement(r)) /\ WF_accountVars(DeadlockAbort(r))

FairAccountsSpec == AccountsSpec /\ Fairness

(***************************************************************************)
(* Properties.                                                             *)
(***************************************************************************)
\* Two users who swap accounts wait for each other; they are answered still.
EveryCallAnswered == \A r \in Requests : step[r] # "idle" ~> step[r] = "answered"

\* What the status of an answer tells the caller.
Meaning(status) ==
  CASE status = 0 -> "none" [] status = 200 -> "ok" [] status = 409 -> "taken"
    [] status = 404 -> "absent" [] OTHER -> "failed"

Abstract == INSTANCE TelegramLinks WITH answer <- [r \in Requests |-> Meaning(response[r])]

\* The statements of telegram_repo, with their waits for two unique keys and their
\* deadlocks, implement the promise: a call takes effect at once or not at all, an
\* account has one user at any time, and 409 and 404 are true when they are given.
ImplementsLinks == Abstract!Spec
=============================================================================
