--------------------------- MODULE BalanceTables ---------------------------
(***************************************************************************)
(* The money tables of the platform (migrations 000005, 000006, 000008 and *)
(* 000009) and the requests that change them.  A table with a unique key   *)
(* is a function whose domain is the set of keys present; the ledger       *)
(* (balance_transactions) is a set of entries, each naming the request     *)
(* that booked it, which stands for its serial id.  A receipt's serial id  *)
(* is the request whose CreditReceipt inserted it.                         *)
(***************************************************************************)
EXTENDS Integers, FiniteSets, Functions

CONSTANTS
  Users,            \* user ids, ordered as the BIGSERIAL ids are
  Games,            \* game ids
  Requests,         \* calls of the repository, each made once
  Hashes,           \* values of receipts.file_hash
  CheckNumbers,     \* non-empty values of receipts.check_number
  NoCheck,          \* check_number IS NULL
  Currencies,
  DefaultCurrency,  \* config.Balance.DefaultCurrency, the currency of a charge
  Arg               \* Arg[r]: the operation request r asks for

CreditArg ==
  [op : {"credit"}, user : Users, amount : Nat \ {0}, currency : Currencies,
   hash : Hashes, check : CheckNumbers \cup {NoCheck}]

ReverseArg == [op : {"reverse"}, receipt : Requests]

AdjustArg ==
  [op : {"adjust"}, user : Users, amount : Int \ {0}, currency : Currencies]

\* The shares slice, one GameShare per user, as a function from users to amounts.
IsChargeArg(a) ==
  /\ a = [op |-> "charge", game |-> a.game, shares |-> a.shares]
  /\ a.game \in Games
  /\ DOMAIN a.shares \subseteq Users /\ DOMAIN a.shares # {} /\ IsFiniteSet(DOMAIN a.shares)
  /\ \A u \in DOMAIN a.shares : a.shares[u] \in Nat \ {0}

ASSUME UsersAssumption == Users \subseteq Nat
ASSUME CurrencyAssumption == DefaultCurrency \in Currencies
ASSUME CheckAssumption == NoCheck \notin CheckNumbers
ASSUME ArgAssumption ==
  \A r \in Requests :
    Arg[r] \in CreditArg \/ Arg[r] \in ReverseArg \/ Arg[r] \in AdjustArg \/ IsChargeArg(Arg[r])

VARIABLES
  receipts,  \* receipt id -> row
  ledger,    \* set of rows of balance_transactions
  balances,  \* user -> row of balances
  games,     \* ids of the rows of games
  charged    \* the games whose charged_at is set

tables == <<receipts, ledger, balances, games, charged>>

BalanceRow == [amount : Int, currency : Currencies]

ReceiptRow ==
  [user : Users, hash : Hashes, check : CheckNumbers \cup {NoCheck},
   amount : Int, currency : Currencies, status : {"credited", "rejected"}]

\* What a ledger row refers to: receipt_id, game_id or neither.
ReceiptRef(i) == <<"receipt", i>>
GameRef(g) == <<"game", g>>
NoRef == <<"null">>

EntryRow ==
  [by : Requests, user : Users, amount : Int, currency : Currencies,
   kind : {"receipt_credit", "receipt_reversal", "admin_adjustment", "game_charge"},
   ref : {NoRef} \cup {ReceiptRef(i) : i \in Requests} \cup {GameRef(g) : g \in Games}]

\* COALESCE(SUM(amount), 0) over rows of balance_transactions.
SumOf(entries) == SumFunction([e \in entries |-> e.amount])

TablesInit ==
  /\ receipts = [i \in {} |-> {}]
  /\ ledger = {}
  /\ balances = [u \in {} |-> {}]
  /\ games = {}
  /\ charged = {}

TablesTypeOK ==
  /\ receipts = [i \in DOMAIN receipts |-> receipts[i]]
  /\ DOMAIN receipts \subseteq Requests
  /\ \A i \in DOMAIN receipts : receipts[i] \in ReceiptRow
  /\ ledger \subseteq EntryRow
  /\ balances = [u \in DOMAIN balances |-> balances[u]]
  /\ DOMAIN balances \subseteq Users
  /\ \A u \in DOMAIN balances : balances[u] \in BalanceRow
  /\ games \subseteq Games
  /\ charged \subseteq games

(***************************************************************************)
(* What request r writes, given the committed tables.                      *)
(***************************************************************************)
Is(r, op) == Arg[r].op = op

\* The receipt row CreditReceipt inserts.
NewReceipt(r) ==
  [user |-> Arg[r].user, hash |-> Arg[r].hash, check |-> Arg[r].check,
   amount |-> Arg[r].amount, currency |-> Arg[r].currency, status |-> "credited"]

\* The users r books an amount for.
Payers(r) ==
  IF Is(r, "charge") THEN DOMAIN Arg[r].shares
  ELSE IF Is(r, "reverse") THEN {receipts[Arg[r].receipt].user}
  ELSE {Arg[r].user}

\* The amount it books for u: a reversal takes back the amount of the receipt,
\* a charge takes the share.
Delta(r, u) ==
  IF Is(r, "charge") THEN -Arg[r].shares[u]
  ELSE IF Is(r, "reverse") THEN -receipts[Arg[r].receipt].amount
  ELSE Arg[r].amount

CurrencyOf(r) ==
  IF Is(r, "charge") THEN DefaultCurrency
  ELSE IF Is(r, "reverse") THEN receipts[Arg[r].receipt].currency
  ELSE Arg[r].currency

\* Mutant of KindOf: the kind is the operation's name.
KindIsOp(r) == Arg[r].op

KindOf(r) ==
  IF Is(r, "charge") THEN "game_charge"
  ELSE IF Is(r, "reverse") THEN "receipt_reversal"
  ELSE IF Is(r, "credit") THEN "receipt_credit" ELSE "admin_adjustment"

RefOf(r) ==
  IF Is(r, "charge") THEN GameRef(Arg[r].game)
  ELSE IF Is(r, "reverse") THEN ReceiptRef(Arg[r].receipt)
  ELSE IF Is(r, "credit") THEN ReceiptRef(r) ELSE NoRef

\* The INSERT INTO balance_transactions of r for user u.
NewEntry(r, u) ==
  [by |-> r, user |-> u, amount |-> Delta(r, u), currency |-> CurrencyOf(r),
   kind |-> KindOf(r), ref |-> RefOf(r)]

\* Mutant of Upserted: the conflict clause replaces the amount.
UpsertReplaces(r, u) == [amount |-> Delta(r, u), currency |-> CurrencyOf(r)]

\* The row left by applyBalanceDelta: INSERT ... ON CONFLICT (user_id) DO UPDATE
\* adds to the amount and keeps the currency of a row that exists.
Upserted(r, u) ==
  IF u \in DOMAIN balances
  THEN [balances[u] EXCEPT !.amount = @ + Delta(r, u)]
  ELSE [amount |-> Delta(r, u), currency |-> CurrencyOf(r)]

\* Mutant of HashTaken: receipts.file_hash has no unique index.
HashNeverTaken(h) == FALSE

\* A committed receipt has this hash, or this check number.
HashTaken(h) == \E i \in DOMAIN receipts : receipts[i].hash = h
CheckTaken(k) == k # NoCheck /\ \E i \in DOMAIN receipts : receipts[i].check = k

\* Rows new of a table, installed over its rows old.
Overlay(new, old) ==
  [k \in DOMAIN new \cup DOMAIN old |-> IF k \in DOMAIN new THEN new[k] ELSE old[k]]
=============================================================================
