--------------------------- MODULE TelegramLinks ---------------------------
(***************************************************************************)
(* What /profile/telegram promises: a call takes effect at once, in full   *)
(* or not at all; a refusal is justified by the table as it is at that     *)
(* moment; a call answered as failed may have taken effect.                *)
(***************************************************************************)
EXTENDS Naturals

CONSTANTS
  Users,     \* user ids
  Chats,     \* Telegram account ids
  Requests,  \* calls of the API, each made once
  Arg        \* Arg[r]: [op |-> "link", user, chat] or [op |-> "unlink", user]

VARIABLES
  accounts,  \* the telegram_accounts table: user -> telegram_id
  answer     \* "none", "ok", "taken", "absent" or "failed"

linkVars == <<accounts, answer>>

Init ==
  /\ accounts = [u \in {} |-> {}]
  /\ answer = [r \in Requests |-> "none"]

Answer(r, answers) ==
  /\ answer[r] = "none"
  /\ \E a \in answers : answer' = [answer EXCEPT ![r] = a]

\* Another user has the account r wants to link.
Taken(r) == \E v \in DOMAIN accounts \ {Arg[r].user} : accounts[v] = Arg[r].chat

Link(r) ==
  /\ Arg[r].op = "link" /\ ~Taken(r)
  /\ accounts' = [u \in DOMAIN accounts \cup {Arg[r].user} |->
                    IF u = Arg[r].user THEN Arg[r].chat ELSE accounts[u]]
  /\ Answer(r, {"ok", "failed"})

Unlink(r) ==
  /\ Arg[r].op = "unlink" /\ Arg[r].user \in DOMAIN accounts
  /\ accounts' = [u \in DOMAIN accounts \ {Arg[r].user} |-> accounts[u]]
  /\ Answer(r, {"ok", "failed"})

Refuse(r) ==
  /\ \/ Answer(r, {"failed"})
     \/ Arg[r].op = "link" /\ Taken(r) /\ Answer(r, {"taken"})
     \/ Arg[r].op = "unlink" /\ Arg[r].user \notin DOMAIN accounts /\ Answer(r, {"absent"})
  /\ UNCHANGED accounts

Next == \E r \in Requests : Link(r) \/ Unlink(r) \/ Refuse(r)

Spec == Init /\ [][Next]_linkVars
=============================================================================
