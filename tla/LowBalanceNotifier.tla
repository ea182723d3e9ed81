------------------------- MODULE LowBalanceNotifier -------------------------
(***************************************************************************)
(* LowBalanceNotifier.Run and Notify, over the telegram accounts and the   *)
(* balances that other requests change meanwhile.  The wall clock, read by *)
(* time.Now and time.Until, may be set while a timer runs; the timer       *)
(* counts on the monotonic clock, which is not.  A day has DayLength ticks *)
(* in the notifier's zone (a zone that changes its offset is left out).    *)
(* The process may end at any time and is started again; it remembers      *)
(* nothing.                                                                *)
(***************************************************************************)
EXTENDS TelegramTable, Integers, Sequences

CONSTANTS
  Amounts,      \* values of balances.amount_minor
  Threshold,    \* opts.ThresholdMinor
  DayLength,    \* ticks of a day
  At,           \* opts.At
  Horizon,      \* bound: the wall clock stops here
  MaxRounds,    \* bound: rounds begun
  MaxStep       \* bound: how far the wall clock is set, once

ASSUME UsersAssumption == Users \subseteq Nat
ASSUME AmountsAssumption == Amounts \subseteq Int /\ Threshold \in Int
ASSUME ClockAssumption ==
  /\ DayLength \in Nat \ {0} /\ At \in 0..(DayLength - 1)
  /\ Horizon \in Nat /\ Horizon >= DayLength - 1
  /\ MaxRounds \in Nat /\ MaxStep \in Nat

VARIABLES
  balances,   \* user -> amount_minor, for the users that have a row
  status,     \* "scheduling", "waiting", "sending" or "stopped"
  stopping,   \* the context of Run has ended
  now,        \* the wall clock
  timer,      \* ticks until the timer fires
  target,     \* the time the current or last timer was set for
  queue,      \* recipients not yet written to: user -> chat, as listed
  rounds,     \* history: the target of each round
  sent,       \* history: the messages delivered, each with its round
  setBack     \* history: the wall clock was set back

dbVars == <<accounts, balances>>
vars == <<dbVars, status, stopping, now, timer, target, queue, rounds, sent, setBack>>

NoRecipients == [u \in {} |-> 0]

Init ==
  /\ accounts = [u \in {} |-> 0]
  /\ balances = [u \in {} |-> 0]
  /\ status = "scheduling" /\ stopping = FALSE
  /\ now \in 0..(DayLength - 1)
  /\ timer = 0 /\ target = 0
  /\ queue = NoRecipients
  /\ rounds = << >> /\ sent = {} /\ setBack = FALSE

\* Mutant of NextRun: a time that has just come is taken again.
NextRunInclusive(t) ==
  LET today == (t \div DayLength) * DayLength + At
  IN  IF today >= t THEN today ELSE today + DayLength

\* nextRun: today's time if it is still to come, tomorrow's otherwise.
NextRun(t) ==
  LET today == (t \div DayLength) * DayLength + At
  IN  IF today > t THEN today ELSE today + DayLength

\* Run, the head of the loop: the timer is set for the next run.
Schedule ==
  /\ status = "scheduling"
  /\ status' = "waiting"
  /\ target' = NextRun(now)
  /\ timer' = target' - now
  /\ UNCHANGED <<dbVars, stopping, now, queue, rounds, sent, setBack>>

\* A member who has no balance row counts as one with nothing.
Amount(u) == IF u \in DOMAIN balances THEN balances[u] ELSE 0
Below == {u \in DOMAIN accounts : Amount(u) < Threshold}

\* The timer fires and Notify lists the recipients, or the query fails.
Fire ==
  /\ status = "waiting" /\ timer = 0
  /\ Len(rounds) < MaxRounds
  /\ \/ ~stopping /\ status' = "sending" /\ queue' = [u \in Below |-> accounts[u]]
     \/ status' = "scheduling" /\ queue' = NoRecipients
  /\ rounds' = Append(rounds, target)
  /\ UNCHANGED <<dbVars, stopping, now, timer, target, sent, setBack>>

First(u) == u \in DOMAIN queue /\ \A v \in DOMAIN queue : u <= v

Rest(u) == [v \in DOMAIN queue \ {u} |-> queue[v]]

\* Mutant of Send: the chat is looked up again when the message is sent.
SendToCurrent ==
  /\ status = "sending"
  /\ \E u \in DOMAIN queue :
       /\ First(u)
       /\ queue' = Rest(u)
       /\ sent' = sent \cup {[round |-> Len(rounds), user |-> u, chat |-> accounts[v]] :
                               v \in {u} \cap DOMAIN accounts}
  /\ UNCHANGED <<dbVars, status, stopping, now, timer, target, rounds, setBack>>

\* Notify writes to the recipients one by one, in the order of the list.  An
\* error, after which the message may have been delivered, skips to the next.
Send ==
  /\ status = "sending"
  /\ \E u \in DOMAIN queue :
       /\ First(u)
       /\ queue' = Rest(u)
       /\ \/ ~stopping /\ sent' = sent \cup {[round |-> Len(rounds), user |-> u, chat |-> queue[u]]}
          \/ UNCHANGED sent
  /\ UNCHANGED <<dbVars, status, stopping, now, timer, target, rounds, setBack>>

\* Notify returns to the loop of Run.
EndRound ==
  /\ status = "sending" /\ queue = NoRecipients
  /\ status' = "scheduling"
  /\ UNCHANGED <<dbVars, stopping, now, timer, target, queue, rounds, sent, setBack>>

\* SIGINT or SIGTERM ends the context; Run returns when it next waits.
Signal ==
  /\ ~stopping /\ stopping' = TRUE
  /\ UNCHANGED <<dbVars, status, now, timer, target, queue, rounds, sent, setBack>>

Stop ==
  /\ stopping /\ status = "waiting"
  /\ status' = "stopped"
  /\ UNCHANGED <<dbVars, stopping, now, timer, target, queue, rounds, sent, setBack>>

\* The process is killed: what Run and Notify keep in memory is gone.
Kill ==
  /\ status # "stopped"
  /\ status' = "stopped"
  /\ queue' = NoRecipients /\ timer' = 0
  /\ UNCHANGED <<dbVars, stopping, now, target, rounds, sent, setBack>>

\* The process is started again, and Run with it.
Restart ==
  /\ status = "stopped"
  /\ status' = "scheduling" /\ stopping' = FALSE /\ timer' = 0
  /\ UNCHANGED <<dbVars, now, target, queue, rounds, sent, setBack>>

\* Time passes, on both clocks.
Tick ==
  /\ now < Horizon /\ status # "scheduling"
  /\ now' = now + 1
  /\ timer' = IF timer > 0 THEN timer - 1 ELSE 0
  /\ UNCHANGED <<dbVars, status, stopping, target, queue, rounds, sent, setBack>>

\* Somebody sets the wall clock, forward or back.
SetClock ==
  /\ status \in {"waiting", "stopped"}
  /\ \E t \in (now - MaxStep)..(now + MaxStep) :
       /\ t \in 0..Horizon
       /\ now' = t
       /\ setBack' = (setBack \/ t < now)
  /\ UNCHANGED <<dbVars, status, stopping, timer, target, queue, rounds, sent>>

\* A transaction of balance_repo changes a balance.
ChangeBalance ==
  /\ \E u \in Users, a \in Amounts :
       balances' = [v \in DOMAIN balances \cup {u} |-> IF v = u THEN a ELSE balances[v]]
  /\ UNCHANGED <<accounts, status, stopping, now, timer, target, queue, rounds, sent, setBack>>

\* The tables with both unique keys, which is all TelegramLinks promises of the
\* telegram_accounts a statement may find.
Tables ==
  {t \in UNION {[known -> Chats] : known \in SUBSET Users} :
     \A u, v \in DOMAIN t : t[u] = t[v] => u = v}

ChangeAccounts ==
  /\ accounts' \in Tables
  /\ UNCHANGED <<balances, status, stopping, now, timer, target, queue, rounds, sent, setBack>>

Next ==
  \/ Schedule \/ Fire \/ Send \/ EndRound \/ Signal \/ Stop \/ Kill \/ Restart
  \/ Tick \/ SetClock \/ ChangeBalance \/ ChangeAccounts

Spec == Init /\ [][Next]_vars

(***************************************************************************)
(* Properties.                                                             *)
(***************************************************************************)
TypeOK ==
  /\ accounts \in Tables
  /\ DOMAIN balances \subseteq Users /\ \A u \in DOMAIN balances : balances[u] \in Amounts
  /\ status \in {"scheduling", "waiting", "sending", "stopped"}
  /\ now \in 0..Horizon
  /\ timer \in 0..DayLength
  /\ target \in Nat
  /\ DOMAIN queue \subseteq Users /\ \A u \in DOMAIN queue : queue[u] \in Chats
  /\ rounds \in Seq(Nat)
  /\ sent \subseteq [round : 1..MaxRounds, user : Users, chat : Chats]

\* Notify works on one list, and telegram_id is unique in it: in a round no
\* Telegram account gets two messages and no user is written about twice, even
\* if accounts change hands while the messages go out.
OneMessagePerRound ==
  \A m, n \in sent :
    m.round = n.round /\ (m.chat = n.chat \/ m.user = n.user) => m = n

\* nextRun is strictly later than now: a scheduled time is served once, unless
\* the wall clock was set back while the timer ran.
TargetServedOnce ==
  setBack \/ \A i, j \in 1..Len(rounds) : i < j => rounds[i] < rounds[j]
=============================================================================
