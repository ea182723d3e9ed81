--------------------------- MODULE TelegramProofs ---------------------------
(***************************************************************************)
(* What TLC checks of TelegramAccounts on five calls and of                *)
(* LowBalanceNotifier on two users and four days, for any calls, users,    *)
(* chats, days and number of rounds; and that the amounts in the messages  *)
(* are written right.                                                      *)
(***************************************************************************)
EXTENDS TelegramAccounts, LowBalanceNotifier, Money, TLAPS

(***************************************************************************)
(* Linking and unlinking: each step of a statement that the table or a     *)
(* caller sees is a step of TelegramLinks, and the others are stutters.    *)
(***************************************************************************)
Ended == {200, 400, 404, 409, 500, 503}

\* A call has a status once it is answered and not before, only a link gets to wait
\* for its key, and the table keeps both its unique keys.
LinksInv ==
  /\ step \in [Requests -> {"idle", "row", "key", "answered"}]
  /\ response \in [Requests -> Ended \cup {0}]
  /\ \A r \in Requests : step[r] # "answered" => response[r] = 0
  /\ \A r \in Requests : step[r] = "key" => Arg[r].op = "link"
  /\ accounts \in Tables

LEMMA IsTable ==
  ASSUME NEW t
  PROVE  t \in Tables <=>
           /\ t = [u \in DOMAIN t |-> t[u]] /\ DOMAIN t \subseteq Users
           /\ \A u \in DOMAIN t : t[u] \in Chats
           /\ \A u, v \in DOMAIN t : t[u] = t[v] => u = v
BY DEF Tables

LEMMA InitLinks == AccountsInit => LinksInv
BY IsTable DEF AccountsInit, LinksInv

LEMMA RespondLinks ==
  ASSUME LinksInv, NEW r \in Requests, NEW s \in Ended, Respond(r, s), UNCHANGED accounts
  PROVE  LinksInv'
BY DEF LinksInv, Respond

LEMMA StoreKeyLinks == ASSUME LinksInv, NEW r \in Requests, StoreKey(r) PROVE LinksInv'
<1>1. CASE Owners(r) # {} /\ Respond(r, 409) /\ UNCHANGED accounts
  BY <1>1, RespondLinks DEF Ended
<1>2. CASE Owners(r) = {} /\ Stored(r) /\ (Respond(r, 200) \/ Respond(r, 500))
  <2>1. \A v \in DOMAIN accounts : accounts[v] = Arg[r].chat => v = Arg[r].user
    BY <1>2 DEF Owners
  <2>2. Arg[r].user \in Users /\ Arg[r].chat \in Chats
    BY ArgAssumption DEF StoreKey, LinksInv
  <2>3. accounts' \in Tables
    BY <1>2, <2>1, <2>2, IsTable DEF Stored, LinksInv
  <2> QED BY <1>2, <2>3 DEF LinksInv, Respond, Ended
<1> QED BY <1>1, <1>2 DEF StoreKey

LEMMA UnlinkLinks == ASSUME LinksInv, NEW r \in Requests, Unlink(r) PROVE LinksInv'
<1>1. CASE Respond(r, 404) /\ UNCHANGED accounts
  BY <1>1, RespondLinks DEF Ended
<1>2. CASE /\ accounts' = [u \in DOMAIN accounts \ {Arg[r].user} |-> accounts[u]]
           /\ Respond(r, 200) \/ Respond(r, 500)
  BY <1>2, IsTable DEF LinksInv, Respond, Ended
<1> QED BY <1>1, <1>2 DEF Unlink

LEMMA NextLinks == LinksInv /\ [AccountsNext]_accountVars => LinksInv'
<1> SUFFICES ASSUME LinksInv, [AccountsNext]_accountVars PROVE LinksInv'
  OBVIOUS
<1>1. ASSUME NEW r \in Requests, Receive(r) PROVE LinksInv'
  BY <1>1, RespondLinks DEF Receive, Goto, LinksInv, Ended
<1>2. ASSUME NEW r \in Requests, LockRow(r) PROVE LinksInv'
  BY <1>2 DEF LockRow, Goto, LinksInv
<1>3. ASSUME NEW r \in Requests, Fail(r) \/ DeadlockAbort(r) PROVE LinksInv'
  BY <1>3, RespondLinks DEF Fail, DeadlockAbort, Ended
<1>4. CASE UNCHANGED accountVars
  BY <1>4 DEF LinksInv, accountVars
<1> QED BY <1>1, <1>2, <1>3, <1>4, StoreKeyLinks, UnlinkLinks DEF AccountsNext, Statement

\* The notifier counts on both unique keys of the table (ChangeAccounts): linking and
\* unlinking make no other tables, so what is proved of the notifier below holds
\* beside them.
THEOREM TablesTheNotifierExpects == AccountsSpec => [](accounts \in Tables)
<1>1. LinksInv => accounts \in Tables
  BY DEF LinksInv
<1> QED BY <1>1, InitLinks, NextLinks, PTL DEF AccountsSpec

\* What TelegramLinks sees of an answer.
answer == [r \in Requests |-> Meaning(response[r])]

LEMMA RespondMaps ==
  ASSUME LinksInv, NEW r \in Requests, NEW s \in Ended, step[r] # "answered", Respond(r, s)
  PROVE  answer[r] = "none" /\ answer' = [answer EXCEPT ![r] = Meaning(s)]
<1>1. response[r] = 0 /\ response' = [response EXCEPT ![r] = s]
  BY DEF LinksInv, Respond
<1>2. Meaning(0) = "none"
  BY DEF Meaning
<1>3. \A q \in Requests \ {r} : response'[q] = response[q]
  BY <1>1 DEF LinksInv
<1>4. response'[r] = s
  BY <1>1 DEF LinksInv
<1>5. answer' = [q \in Requests |-> Meaning(response'[q])]
  BY DEF answer
<1>6. answer' = [q \in Requests |-> IF q = r THEN Meaning(s) ELSE Meaning(response[q])]
  BY <1>3, <1>4, <1>5
<1> QED BY <1>1, <1>2, <1>6 DEF answer

LinkStep == [Abstract!Next]_Abstract!linkVars

\* A step to a wait is none of TelegramLinks.
LEMMA GotoMaps ==
  ASSUME UNCHANGED <<accounts, response>>
  PROVE  LinkStep
BY DEF LinkStep, Abstract!linkVars

\* A call that fails before it changes the table is refused.
LEMMA FailureMaps ==
  ASSUME LinksInv, NEW r \in Requests, NEW s \in {400, 500, 503}, step[r] # "answered",
         Respond(r, s), UNCHANGED accounts
  PROVE  LinkStep
<1>1. answer[r] = "none" /\ answer' = [answer EXCEPT ![r] = "failed"]
  BY RespondMaps DEF Ended, Meaning
<1>2. Abstract!Refuse(r)
  BY <1>1 DEF Abstract!Refuse, Abstract!Answer, answer
<1> QED BY <1>2 DEF LinkStep, Abstract!Next

LEMMA StoreKeyMaps == ASSUME LinksInv, NEW r \in Requests, StoreKey(r) PROVE LinkStep
<1>1. step[r] # "answered" /\ Arg[r].op = "link"
  BY DEF StoreKey, LinksInv
<1>2. CASE Owners(r) # {} /\ Respond(r, 409) /\ UNCHANGED accounts
  <2>1. answer[r] = "none" /\ answer' = [answer EXCEPT ![r] = "taken"]
    BY <1>1, <1>2, RespondMaps DEF Ended, Meaning
  <2>2. Abstract!Taken(r)
    BY <1>2 DEF Owners, Abstract!Taken
  <2>3. Abstract!Refuse(r)
    BY <1>1, <1>2, <2>1, <2>2 DEF Abstract!Refuse, Abstract!Answer, answer
  <2> QED BY <2>3 DEF LinkStep, Abstract!Next
<1>3. CASE Owners(r) = {} /\ Stored(r) /\ (Respond(r, 200) \/ Respond(r, 500))
  <2>1. /\ answer[r] = "none"
        /\ \E a \in {"ok", "failed"} : answer' = [answer EXCEPT ![r] = a]
    BY <1>1, <1>3, RespondMaps DEF Ended, Meaning
  <2>2. ~Abstract!Taken(r)
    BY <1>3 DEF Owners, Abstract!Taken
  <2>3. Abstract!Link(r)
    BY <1>1, <1>3, <2>1, <2>2 DEF Stored, Abstract!Link, Abstract!Answer, answer
  <2> QED BY <2>3 DEF LinkStep, Abstract!Next
<1> QED BY <1>2, <1>3 DEF StoreKey

LEMMA UnlinkMaps == ASSUME LinksInv, NEW r \in Requests, Unlink(r) PROVE LinkStep
<1>1. step[r] # "answered" /\ Arg[r].op = "unlink"
  BY DEF Unlink
<1>2. CASE Arg[r].user \notin DOMAIN accounts /\ Respond(r, 404) /\ UNCHANGED accounts
  <2>1. answer[r] = "none" /\ answer' = [answer EXCEPT ![r] = "absent"]
    BY <1>1, <1>2, RespondMaps DEF Ended, Meaning
  <2>2. Abstract!Refuse(r)
    BY <1>1, <1>2, <2>1 DEF Abstract!Refuse, Abstract!Answer, answer
  <2> QED BY <2>2 DEF LinkStep, Abstract!Next
<1>3. CASE /\ Arg[r].user \in DOMAIN accounts
           /\ accounts' = [u \in DOMAIN accounts \ {Arg[r].user} |-> accounts[u]]
           /\ Respond(r, 200) \/ Respond(r, 500)
  <2>1. /\ answer[r] = "none"
        /\ \E a \in {"ok", "failed"} : answer' = [answer EXCEPT ![r] = a]
    BY <1>1, <1>3, RespondMaps DEF Ended, Meaning
  <2>2. Abstract!Unlink(r)
    BY <1>1, <1>3, <2>1 DEF Abstract!Unlink, Abstract!Answer, answer
  <2> QED BY <2>2 DEF LinkStep, Abstract!Next
<1> QED BY <1>2, <1>3 DEF Unlink

LEMMA NextLinksMaps == LinksInv /\ [AccountsNext]_accountVars => LinkStep
<1> SUFFICES ASSUME LinksInv, [AccountsNext]_accountVars PROVE LinkStep
  OBVIOUS
<1>1. ASSUME NEW r \in Requests, Receive(r) PROVE LinkStep
  <2>1. CASE Goto(r, "row") /\ UNCHANGED accounts
    BY <2>1, GotoMaps DEF Goto
  <2>2. CASE \E s \in {400, 503} : Respond(r, s) /\ UNCHANGED accounts
    BY <1>1, <2>2, FailureMaps DEF Receive
  <2> QED BY <1>1, <2>1, <2>2 DEF Receive
<1>2. ASSUME NEW r \in Requests, LockRow(r) PROVE LinkStep
  BY <1>2, GotoMaps DEF LockRow, Goto
<1>3. ASSUME NEW r \in Requests, Fail(r) PROVE LinkStep
  BY <1>3, FailureMaps DEF Fail
<1>4. ASSUME NEW r \in Requests, DeadlockAbort(r) PROVE LinkStep
  <2>1. step[r] # "answered"
    BY <1>4 DEF DeadlockAbort, Circle
  <2> QED BY <1>4, <2>1, FailureMaps DEF DeadlockAbort
<1>5. CASE UNCHANGED accountVars
  BY <1>5, GotoMaps DEF accountVars
<1> QED BY <1>1, <1>2, <1>3, <1>4, <1>5, StoreKeyMaps, UnlinkMaps DEF AccountsNext, Statement

LEMMA InitLinksMaps == AccountsInit => Abstract!Init
BY DEF AccountsInit, Abstract!Init, Meaning

\* telegram_repo keeps the promise of TelegramLinks: a call takes effect at one moment,
\* in full or not at all, and 409 and 404 are true of the table at that moment.
THEOREM LinksAreAtomic == AccountsSpec => ImplementsLinks
<1>1. LinksInv /\ [AccountsNext]_accountVars => LinksInv'
  BY NextLinks
<1>2. LinksInv /\ [AccountsNext]_accountVars => [Abstract!Next]_Abstract!linkVars
  BY NextLinksMaps DEF LinkStep
<1> QED
  BY <1>1, <1>2, InitLinks, InitLinksMaps, PTL
     DEF AccountsSpec, ImplementsLinks, Abstract!Spec

(***************************************************************************)
(* One message of a round.                                                 *)
(***************************************************************************)
\* A list of recipients, each with a chat of its own.
IsList(q) == \A u, v \in DOMAIN q : q[u] = q[v] => u = v

Message(m) ==
  /\ m = [round |-> m.round, user |-> m.user, chat |-> m.chat]
  /\ m.round \in Nat /\ m.round <= Len(rounds)

\* The recipients left have not got the round's message, nor has their chat.
LeftUnsent ==
  status = "sending" =>
    \A m \in sent : m.round = Len(rounds) =>
      \A u \in DOMAIN queue : m.user # u /\ m.chat # queue[u]

MessagesInv ==
  /\ IsList(accounts) /\ IsList(queue)
  /\ rounds \in Seq(Int) /\ target \in Int
  /\ \A m \in sent : Message(m)
  /\ LeftUnsent /\ OneMessagePerRound

USE ClockAssumption

\* Today's time or tomorrow's is later than now, by a day at most.
LEMMA NextRunIsLater ==
  ASSUME NEW t \in Nat
  PROVE  NextRun(t) \in Nat /\ NextRun(t) > t /\ NextRun(t) <= t + DayLength
<1> DEFINE midnight == (t \div DayLength) * DayLength
<1>1. midnight \in Nat /\ midnight <= t /\ t < midnight + DayLength
  OBVIOUS
<1> HIDE DEF midnight
<1>2. NextRun(t) = IF midnight + At > t THEN midnight + At ELSE midnight + At + DayLength
  BY DEF NextRun, midnight
<1>3. QED
  BY <1>1, <1>2

LEMMA ScheduleMessages ==
  ASSUME MessagesInv, now \in Nat, Schedule
  PROVE  MessagesInv'
<1>1. NextRun(now) \in Int
  BY NextRunIsLater
<1>2. QED
  BY <1>1 DEF Schedule, MessagesInv, dbVars, IsList, Message, LeftUnsent, OneMessagePerRound

LEMMA FireMessages ==
  ASSUME MessagesInv, Fire
  PROVE  MessagesInv'
<1>1. /\ rounds' = Append(rounds, target) /\ UNCHANGED <<dbVars, target, sent>>
      /\ rounds' \in Seq(Int) /\ Len(rounds') = Len(rounds) + 1 /\ Len(rounds) \in Nat
  BY DEF Fire, MessagesInv
<1>2. IsList(queue')
  <2>1. CASE queue' = [u \in Below |-> accounts[u]]
    BY <2>1 DEF MessagesInv, IsList, Below
  <2>2. CASE queue' = NoRecipients
    BY <2>2 DEF NoRecipients, IsList
  <2>3. QED
    BY <2>1, <2>2 DEF Fire
<1>3. \A m \in sent : Message(m)' /\ m.round # Len(rounds')
  BY <1>1 DEF MessagesInv, Message
<1>4. QED
  BY <1>1, <1>2, <1>3 DEF MessagesInv, dbVars, IsList, LeftUnsent, OneMessagePerRound

LEMMA SendMessages ==
  ASSUME MessagesInv, Send
  PROVE  MessagesInv'
<1>1. PICK u \in DOMAIN queue :
        /\ queue' = Rest(u)
        /\ sent' = sent \/ sent' = sent \cup {[round |-> Len(rounds), user |-> u, chat |-> queue[u]]}
  BY DEF Send
<1>2. status = "sending" /\ UNCHANGED <<dbVars, status, target, rounds>>
  BY DEF Send
<1> DEFINE x == [round |-> Len(rounds), user |-> u, chat |-> queue[u]]
<1>3. Len(rounds) \in Nat
  BY DEF MessagesInv
<1>4. /\ DOMAIN queue' = DOMAIN queue \ {u}
      /\ \A v \in DOMAIN queue' : queue'[v] = queue[v] /\ v # u /\ queue[v] # queue[u]
  BY <1>1 DEF Rest, MessagesInv, IsList
<1>5. Message(x)
  BY <1>3 DEF Message
<1>6. \A m \in sent : m.round = Len(rounds) =>
        \A v \in DOMAIN queue : m.user # v /\ m.chat # queue[v]
  BY <1>2 DEF MessagesInv, LeftUnsent
<1>7. \A m \in sent' : m \in sent \/ m = x
  BY <1>1
<1>8. \A m \in sent' : Message(m)'
  BY <1>2, <1>5, <1>7 DEF MessagesInv, Message
<1>9. LeftUnsent'
  <2> SUFFICES ASSUME NEW m \in sent', m.round = Len(rounds), NEW v \in DOMAIN queue'
               PROVE  m.user # v /\ m.chat # queue'[v]
    BY <1>2 DEF LeftUnsent
  <2>1. CASE m \in sent
    BY <1>4, <1>6, <2>1
  <2>2. CASE m = x
    BY <1>4, <2>2
  <2>3. QED
    BY <1>7, <2>1, <2>2
<1>10. OneMessagePerRound'
  <2> SUFFICES ASSUME NEW m \in sent', NEW n \in sent', m.round = n.round,
                      m.chat = n.chat \/ m.user = n.user
               PROVE  m = n
    BY DEF OneMessagePerRound
  <2>1. CASE m \in sent /\ n \in sent
    BY <2>1 DEF MessagesInv, OneMessagePerRound
  <2>2. CASE m = x /\ n \in sent
    BY <1>6, <2>2
  <2>3. CASE m \in sent /\ n = x
    BY <1>6, <2>3
  <2>4. QED
    BY <1>7, <2>1, <2>2, <2>3
<1>11. QED
  BY <1>2, <1>4, <1>8, <1>9, <1>10 DEF MessagesInv, IsList, dbVars

\* The steps that neither list nor send.
LEMMA OtherMessages ==
  ASSUME MessagesInv, UNCHANGED <<rounds, sent, target>>,
         IsList(accounts'), queue' = queue \/ queue' = NoRecipients,
         status' = "sending" => status = "sending"
  PROVE  MessagesInv'
<1>1. IsList(queue') /\ DOMAIN queue' \subseteq DOMAIN queue
      /\ \A u \in DOMAIN queue' : queue'[u] = queue[u]
  BY DEF MessagesInv, IsList, NoRecipients
<1>2. LeftUnsent'
  BY <1>1 DEF MessagesInv, LeftUnsent
<1>3. QED
  BY <1>1, <1>2 DEF MessagesInv, Message, IsList, OneMessagePerRound

(***************************************************************************)
(* A time is served once, unless the clock was set back.                   *)
(***************************************************************************)
TimeTypes == now \in Nat /\ timer \in Nat /\ target \in Nat /\ rounds \in Seq(Nat)

\* The timer does not fire before its time, and that is later than the times served.
InTime ==
  /\ \A i \in 1 .. Len(rounds) : rounds[i] <= now
  /\ status = "waiting" =>
       now + timer >= target /\ \A i \in 1 .. Len(rounds) : rounds[i] < target
  /\ \A i, j \in 1 .. Len(rounds) : i < j => rounds[i] < rounds[j]

TimeInv == TimeTypes /\ (setBack \/ InTime)

LEMMA ScheduleTime ==
  ASSUME TimeInv, Schedule
  PROVE  TimeInv'
<1>1. TimeTypes /\ (setBack \/ InTime)
  BY Zenon DEF TimeInv
<1>2. target' \in Nat /\ target' > now
  BY <1>1, NextRunIsLater DEF Schedule, TimeTypes
<1>3. now' = now /\ rounds' = rounds
  BY DEF Schedule
<1>4. TimeTypes' /\ now' + timer' = target'
  <2>1. timer' = target' - now
    BY DEF Schedule
  <2>2. now \in Nat
    BY <1>1 DEF TimeTypes
  <2>3. timer' \in Nat /\ now + timer' = target'
    <3>1. \A a, b \in Nat : b > a => b - a \in Nat /\ a + (b - a) = b
      OBVIOUS
    <3>2. QED
      BY ONLY <1>2, <2>1, <2>2, <3>1
  <2>4. QED
    BY <1>1, <1>2, <1>3, <2>3 DEF TimeTypes
<1>5. InTime => InTime'
  <2> SUFFICES ASSUME InTime PROVE InTime'
    OBVIOUS
  <2>1. now \in Nat /\ target' \in Nat /\ \A i \in 1 .. Len(rounds) : rounds[i] \in Nat
    BY <1>1, <1>2 DEF TimeTypes
  <2>2. now' + timer' >= target'
    BY <1>2, <1>4
  <2>3. \A i \in 1 .. Len(rounds') : rounds'[i] < target'
    BY <1>2, <1>3, <2>1 DEF InTime
  <2>4. QED
    BY <1>3, <2>2, <2>3 DEF InTime
<1>6. setBack' = setBack
  BY DEF Schedule
<1>7. QED
  BY <1>1, <1>4, <1>5, <1>6, Zenon DEF TimeInv

LEMMA FireTime ==
  ASSUME TimeInv, Fire
  PROVE  TimeInv'
<1>1. /\ status = "waiting" /\ timer = 0 /\ status' # "waiting"
      /\ rounds' = Append(rounds, target) /\ UNCHANGED <<now, timer, target>>
  BY DEF Fire
<1>2. setBack' = setBack
  BY DEF Fire
<1>3. /\ rounds' \in Seq(Nat) /\ Len(rounds') = Len(rounds) + 1 /\ Len(rounds) \in Nat
      /\ rounds'[Len(rounds')] = target
      /\ \A i \in 1 .. Len(rounds) : rounds'[i] = rounds[i]
  BY <1>1 DEF TimeInv, TimeTypes
<1>4. TimeTypes'
  BY <1>1, <1>3 DEF TimeInv, TimeTypes
<1>5. InTime => InTime'
  BY <1>1, <1>3 DEF InTime, TimeInv, TimeTypes
<1>6. QED
  BY <1>2, <1>4, <1>5, Zenon DEF TimeInv

LEMMA ClockTime ==
  ASSUME TimeInv, Tick \/ SetClock
  PROVE  TimeInv'
<1>1. UNCHANGED <<status, target, rounds>>
  BY DEF Tick, SetClock
<1>2. CASE Tick
  <2>1. now' = now + 1 /\ timer' = IF timer > 0 THEN timer - 1 ELSE 0
    BY <1>2 DEF Tick
  <2>2. setBack' = setBack
    BY <1>2 DEF Tick
  <2>3. TimeTypes' /\ (InTime => InTime')
    BY <1>1, <2>1 DEF InTime, TimeInv, TimeTypes
  <2>4. QED
    BY <2>2, <2>3, Zenon DEF TimeInv
<1>3. CASE SetClock
  <2>1. PICK t \in 0 .. Horizon : now' = t /\ setBack' = (setBack \/ t < now)
    BY <1>3, Zenon DEF SetClock
  <2>2. timer' = timer
    BY <1>3 DEF SetClock
  <2>3. TimeTypes'
    BY <1>1, <2>1, <2>2 DEF TimeInv, TimeTypes
  <2>4. InTime /\ ~(t < now) => InTime'
    BY <1>1, <2>1, <2>2 DEF InTime, TimeInv, TimeTypes
  <2>5. QED
    BY <2>1, <2>3, <2>4, Zenon DEF TimeInv
<1>4. QED
  BY <1>2, <1>3

LEMMA OtherTime ==
  ASSUME TimeInv, UNCHANGED <<now, target, rounds, setBack>>,
         timer' = timer \/ timer' = 0, status' = "waiting" => status = "waiting" /\ timer' = timer
  PROVE  TimeInv'
<1>1. TimeTypes' /\ (InTime => InTime')
  BY DEF InTime, TimeInv, TimeTypes
<1>2. setBack' = setBack
  OBVIOUS
<1>3. setBack \/ InTime
  BY Zenon DEF TimeInv
<1>4. setBack' \/ InTime'
  BY ONLY <1>1, <1>2, <1>3, Zenon
<1>5. QED
  BY <1>1, <1>4, Zenon DEF TimeInv

(***************************************************************************)
(* The theorems.                                                           *)
(***************************************************************************)
LEMMA InitInvariant == Init => MessagesInv /\ TimeInv
<1> SUFFICES ASSUME Init PROVE MessagesInv /\ TimeInv
  OBVIOUS
<1>1. rounds = << >> /\ sent = {} /\ setBack = FALSE /\ target = 0 /\ timer = 0 /\ status = "scheduling"
  BY DEF Init
<1>2. now \in Nat
  BY DEF Init
<1>3. IsList(accounts) /\ IsList(queue)
  BY DEF Init, IsList, NoRecipients
<1>4. MessagesInv
  BY <1>1, <1>3 DEF MessagesInv, LeftUnsent, OneMessagePerRound
<1>5. TimeInv
  <2>1. TimeTypes /\ InTime
    BY <1>1, <1>2 DEF TimeTypes, InTime
  <2>2. QED
    BY <2>1, Zenon DEF TimeInv
<1>6. QED
  BY <1>4, <1>5

LEMMA NextInvariant == MessagesInv /\ TimeInv /\ [Next]_vars => (MessagesInv /\ TimeInv)'
<1> SUFFICES ASSUME MessagesInv, TimeInv, [Next]_vars PROVE MessagesInv' /\ TimeInv'
  OBVIOUS
<1>1. CASE Schedule
  BY <1>1, ScheduleMessages, ScheduleTime DEF TimeInv, TimeTypes
<1>2. CASE Fire
  BY <1>2, FireMessages, FireTime
<1>3. CASE Send
  <2>1. UNCHANGED <<now, target, rounds, setBack>> /\ UNCHANGED <<timer, status>>
    BY <1>3 DEF Send
  <2>2. QED
    BY <1>3, <2>1, SendMessages, OtherTime
<1>4. CASE Tick \/ SetClock
  <2>1. UNCHANGED <<rounds, sent, target>> /\ UNCHANGED <<accounts, queue, status>>
    BY <1>4 DEF Tick, SetClock, dbVars
  <2>2. IsList(accounts')
    BY <2>1 DEF MessagesInv
  <2>3. QED
    BY <1>4, <2>1, <2>2, OtherMessages, ClockTime
<1>5. CASE \/ EndRound \/ Signal \/ Stop \/ Kill \/ Restart \/ ChangeBalance \/ ChangeAccounts
           \/ UNCHANGED vars
  <2>1. UNCHANGED <<rounds, sent, target>> /\ UNCHANGED <<now, target, rounds, setBack>>
    BY <1>5 DEF EndRound, Signal, Stop, Kill, Restart, ChangeBalance, ChangeAccounts, vars
  <2>2. /\ queue' = queue \/ queue' = NoRecipients
        /\ status' = "sending" => status = "sending"
        /\ timer' = timer \/ timer' = 0
        /\ status' = "waiting" => status = "waiting" /\ timer' = timer
    BY <1>5 DEF EndRound, Signal, Stop, Kill, Restart, ChangeBalance, ChangeAccounts, vars
  <2>3. IsList(accounts')
    <3>1. CASE accounts' = accounts
      BY <3>1 DEF MessagesInv
    <3>2. CASE ChangeAccounts
      BY <3>2 DEF ChangeAccounts, Tables, IsList
    <3>3. QED
      BY <1>5, <3>1, <3>2 DEF EndRound, Signal, Stop, Kill, Restart, ChangeBalance, vars, dbVars
  <2>4. QED
    BY <2>1, <2>2, <2>3, OtherMessages, OtherTime
<1>6. QED
  BY <1>1, <1>2, <1>3, <1>4, <1>5 DEF Next

\* In a round no Telegram account and no user gets two messages, however accounts
\* change hands and balances change, for any number of users.
THEOREM NoSecondMessage == Spec => []OneMessagePerRound
<1>1. MessagesInv => OneMessagePerRound
  BY DEF MessagesInv
<1>2. QED
  BY <1>1, InitInvariant, NextInvariant, PTL DEF Spec

\* A scheduled time is served once, also across restarts, unless the wall clock is
\* set back.
THEOREM NoTimeTwice == Spec => []TargetServedOnce
<1>1. TimeInv => TargetServedOnce
  BY Zenon DEF TimeInv, InTime, TargetServedOnce
<1>2. QED
  BY <1>1, InitInvariant, NextInvariant, PTL DEF Spec

(***************************************************************************)
(* Types.                                                                  *)
(***************************************************************************)
\* A round that is being sent has begun.
NotifierTypes ==
  /\ TypeOK
  /\ Len(rounds) <= MaxRounds
  /\ status = "sending" => Len(rounds) > 0

LEMMA FireTypes == ASSUME NotifierTypes, Fire PROVE NotifierTypes'
<1>1. /\ rounds' = Append(rounds, target) /\ Len(rounds) < MaxRounds
      /\ UNCHANGED <<accounts, balances, now, timer, target, sent>>
      /\ status' \in {"sending", "scheduling"}
  BY DEF Fire, dbVars
<1>2. rounds' \in Seq(Nat) /\ Len(rounds') = Len(rounds) + 1 /\ Len(rounds) \in Nat
  BY <1>1 DEF NotifierTypes, TypeOK
<1>3. Len(rounds') <= MaxRounds /\ Len(rounds') > 0
  BY <1>1, <1>2
<1>4. DOMAIN queue' \subseteq Users /\ \A u \in DOMAIN queue' : queue'[u] \in Chats
  <2>1. DOMAIN accounts \subseteq Users /\ \A u \in DOMAIN accounts : accounts[u] \in Chats
    BY IsTable DEF NotifierTypes, TypeOK
  <2>2. CASE queue' = [u \in Below |-> accounts[u]]
    BY <2>1, <2>2 DEF Below
  <2>3. CASE queue' = NoRecipients
    BY <2>3 DEF NoRecipients
  <2> QED BY <2>2, <2>3 DEF Fire
<1> QED BY <1>1, <1>2, <1>3, <1>4 DEF NotifierTypes, TypeOK

LEMMA SendTypes == ASSUME NotifierTypes, Send PROVE NotifierTypes'
<1>1. PICK u \in DOMAIN queue :
        /\ queue' = Rest(u)
        /\ sent' = sent \/ sent' = sent \cup {[round |-> Len(rounds), user |-> u, chat |-> queue[u]]}
  BY DEF Send
<1>2. status = "sending" /\ UNCHANGED <<accounts, balances, status, now, timer, target, rounds>>
  BY DEF Send, dbVars
<1>3. Len(rounds) \in 1 .. MaxRounds /\ u \in Users /\ queue[u] \in Chats
  BY <1>2 DEF NotifierTypes, TypeOK
<1>4. sent' \subseteq [round : 1 .. MaxRounds, user : Users, chat : Chats]
  BY <1>1, <1>3 DEF NotifierTypes, TypeOK
<1>5. DOMAIN queue' \subseteq Users /\ \A v \in DOMAIN queue' : queue'[v] \in Chats
  BY <1>1 DEF Rest, NotifierTypes, TypeOK
<1> QED BY <1>2, <1>4, <1>5 DEF NotifierTypes, TypeOK

LEMMA DatabaseTypes ==
  ASSUME NotifierTypes, ChangeBalance \/ ChangeAccounts
  PROVE  NotifierTypes'
<1>1. UNCHANGED <<status, now, timer, target, queue, rounds, sent>>
  BY DEF ChangeBalance, ChangeAccounts
<1>2. accounts' \in Tables
  BY DEF ChangeBalance, ChangeAccounts, NotifierTypes, TypeOK
<1>3. DOMAIN balances' \subseteq Users /\ \A u \in DOMAIN balances' : balances'[u] \in Amounts
  BY DEF ChangeBalance, ChangeAccounts, NotifierTypes, TypeOK
<1> QED BY <1>1, <1>2, <1>3 DEF NotifierTypes, TypeOK

LEMMA NextTypes == NotifierTypes /\ [Next]_vars => NotifierTypes'
<1> SUFFICES ASSUME NotifierTypes, [Next]_vars PROVE NotifierTypes'
  OBVIOUS
<1>1. CASE Schedule
  <2>1. now \in Nat /\ target' = NextRun(now) /\ timer' = target' - now
    BY <1>1 DEF Schedule, NotifierTypes, TypeOK
  <2>2. target' \in Nat /\ timer' \in 0 .. DayLength
    BY <2>1, NextRunIsLater
  <2>3. /\ status' = "waiting"
        /\ UNCHANGED <<accounts, balances, now, queue, rounds, sent>>
    BY <1>1 DEF Schedule, dbVars
  <2> QED BY <2>2, <2>3 DEF NotifierTypes, TypeOK
<1>2. CASE Tick \/ SetClock
  <2>1. UNCHANGED <<accounts, balances, status, target, queue, rounds, sent>>
    BY <1>2 DEF Tick, SetClock, dbVars
  <2>2. now' \in 0 .. Horizon
    BY <1>2 DEF Tick, SetClock, NotifierTypes, TypeOK
  <2>3. timer' \in 0 .. DayLength
    BY <1>2 DEF Tick, SetClock, NotifierTypes, TypeOK
  <2> QED BY <2>1, <2>2, <2>3 DEF NotifierTypes, TypeOK
<1>3. CASE EndRound \/ Signal \/ Stop \/ Kill \/ Restart \/ UNCHANGED vars
  <2>1. /\ UNCHANGED <<accounts, balances, now, target, rounds, sent>>
        /\ status' = status \/ status' \in {"scheduling", "stopped"}
        /\ queue' = queue \/ queue' = NoRecipients
        /\ timer' = timer \/ timer' = 0
    BY <1>3 DEF EndRound, Signal, Stop, Kill, Restart, vars, dbVars
  <2>2. DOMAIN queue' \subseteq Users /\ \A u \in DOMAIN queue' : queue'[u] \in Chats
    BY <2>1 DEF NoRecipients, NotifierTypes, TypeOK
  <2> QED BY <2>1, <2>2 DEF NotifierTypes, TypeOK
<1> QED BY <1>1, <1>2, <1>3, FireTypes, SendTypes, DatabaseTypes DEF Next

\* Every variable keeps its type: no message belongs to a round that has not begun, and
\* no timer is set for more than a day, whatever the clock was set to.
THEOREM NotifierTypeCorrect == Spec => []TypeOK
<1>1. ASSUME Init PROVE NotifierTypes
  <2>1. accounts \in Tables
    BY <1>1, IsTable DEF Init
  <2>2. now \in 0 .. Horizon
    BY <1>1 DEF Init
  <2> QED BY <1>1, <2>1, <2>2 DEF Init, NotifierTypes, TypeOK, NoRecipients
<1>2. NotifierTypes => TypeOK
  BY DEF NotifierTypes
<1> QED BY <1>1, <1>2, NextTypes, PTL DEF Spec

(***************************************************************************)
(* The amount in a message, and in every answer.                           *)
(***************************************************************************)
LEMMA DivisionOfNatural ==
  ASSUME NEW n \in Nat
  PROVE  Quotient(n) \in Nat /\ Remainder(n) \in 0 .. MinorUnits - 1
BY DEF Quotient, Remainder, MinorUnits

\* FormatMinor writes every amount but the smallest as a decimal that reads as
\* the amount, the parts of a negative one included (-5 is -0.05).
THEOREM FormatIsFaithful ==
  ASSUME NEW Half \in Nat, NEW amount \in (1 - Half) .. (Half - 1)
  PROVE  LET text == FormatMinor(Half, amount)
         IN  IsDecimal(text) /\ Reads(text) = amount
<1> DEFINE magnitude == IF amount < 0 THEN -amount ELSE amount
           text == FormatMinor(Half, amount)
<1>1. magnitude \in Nat
  OBVIOUS
<1>2. text = [minus |-> amount < 0, units |-> Quotient(magnitude), rest |-> Remainder(magnitude)]
  BY DEF FormatMinor, Negated
<1> HIDE DEF text
<1>3. IsDecimal(text)
  BY <1>1, <1>2, DivisionOfNatural DEF IsDecimal
<1>4. MinorUnits * text.units + text.rest = magnitude
  <2>1. Quotient(magnitude) \in Nat
    BY <1>1, DivisionOfNatural
  <2>2. QED
    BY <1>1, <1>2, <2>1 DEF Remainder, MinorUnits
<1>5. text.minus = (amount < 0)
  BY <1>2
<1>6. Reads(text) = amount
  <2>1. Reads(text) = IF text.minus THEN -magnitude ELSE magnitude
    BY <1>4, Zenon DEF Reads
  <2>2. CASE amount < 0
    <3>1. text.minus
      BY <1>5, <2>2
    <3>2. Reads(text) = -magnitude /\ magnitude = -amount
      BY <2>1, <2>2, <3>1
    <3>3. QED
      BY <3>2
  <2>3. CASE ~(amount < 0)
    BY <1>5, <2>1, <2>3
  <2>4. QED
    BY <2>2, <2>3
<1>7. QED
  BY <1>3, <1>6 DEF text

\* The smallest amount is the exception: its text has a second minus sign and
\* reads as an amount of the other sign.
THEOREM SmallestIsNot ==
  ASSUME NEW Half \in Nat, Half >= MinorUnits
  PROVE  LET text == FormatMinor(Half, -Half)
         IN  ~IsDecimal(text) /\ Reads(text) = Half
<1> DEFINE text == FormatMinor(Half, -Half)
<1>1. text = [minus |-> TRUE, units |-> Quotient(-Half), rest |-> Remainder(-Half)]
  <2>1. (-Half < 0) = TRUE
    BY DEF MinorUnits
  <2>2. Negated(Half, -Half) = -Half
    BY DEF Negated
  <2>3. FormatMinor(Half, -Half) =
          [minus |-> -Half < 0, units |-> Quotient(-Half), rest |-> Remainder(-Half)]
    BY <2>1, <2>2 DEF FormatMinor
  <2>4. QED
    BY <2>1, <2>3, Zenon
<1> HIDE DEF text
<1>2. Quotient(-Half) = -(Half \div MinorUnits) /\ Half \div MinorUnits > 0
  BY DEF Quotient, MinorUnits
<1>3. MinorUnits * Quotient(-Half) + Remainder(-Half) = -Half
  BY <1>2 DEF Remainder, MinorUnits
<1>4. ~IsDecimal(text) /\ Reads(text) = Half
  BY <1>1, <1>2, <1>3 DEF IsDecimal, Reads, MinorUnits
<1>5. QED
  BY <1>4 DEF text
=============================================================================
