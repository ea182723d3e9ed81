---------------------------- MODULE BalanceRepo ----------------------------
(***************************************************************************)
(* internal/repository/postgres/balance_repo: the four transactions that   *)
(* change money, at the grain of their SQL statements.  Every transaction  *)
(* runs at READ COMMITTED: it sees committed rows only, keeps what it      *)
(* writes to itself until COMMIT, and holds until it ends the row locks of *)
(* SELECT ... FOR UPDATE, of its updates, and the unique keys of the rows  *)
(* it inserts or rewrites.  A statement that needs a row or a key another  *)
(* transaction holds waits: its action is not enabled.  An INSERT INTO     *)
(* balance_transactions is seen by nobody before COMMIT and waits for      *)
(* nothing, so it is one step with the applyBalanceDelta that follows it.  *)
(***************************************************************************)
EXTENDS BalanceTables

VARIABLES
  pc,       \* the statement each request is about to run
  outcome,  \* what the repository returned, "none" before that
  seen,     \* users whose balance row the currency check found
  locks,    \* the rows and keys the transaction holds
  writes    \* the rows it has written and not yet committed

vars == <<tables, pc, outcome, seen, locks, writes>>

BalanceLock(u) == <<"balance", u>>
HashKey(h) == <<"hash", h>>
CheckKey(k) == <<"check", k>>
\* Mutant of CheckKeys: nobody waits for an uncommitted check number.
NoCheckKeys(k) == {}

\* The unique keys of a receipt; the partial index has none for a NULL check number.
CheckKeys(k) == {CheckKey(c) : c \in {k} \ {NoCheck}}
ReceiptKeys(row) == {HashKey(row.hash)} \cup CheckKeys(row.check)
Lockable ==
  {BalanceLock(u) : u \in Users} \cup {ReceiptRef(i) : i \in Requests}
    \cup {GameRef(g) : g \in Games} \cup {HashKey(h) : h \in Hashes}
    \cup {CheckKey(k) : k \in CheckNumbers}

NoWrites ==
  [receipts |-> [i \in {} |-> {}], ledger |-> {}, balances |-> [u \in {} |-> {}],
   charged |-> {}]

FirstStatement(r) ==
  IF Is(r, "reverse") THEN "lockReceipt"
  ELSE IF Is(r, "charge") THEN "lockGame" ELSE "checkCurrency"

Init ==
  /\ TablesInit
  /\ pc = [r \in Requests |-> "idle"]
  /\ outcome = [r \in Requests |-> "none"]
  /\ seen = [r \in Requests |-> {}]
  /\ locks = [r \in Requests |-> {}]
  /\ writes = [r \in Requests |-> NoWrites]

InFlight(r) == pc[r] \notin {"idle", "done"}

Free(r, x) == \A s \in Requests \ {r} : x \notin locks[s]

Goto(r, label) == pc' = [pc EXCEPT ![r] = label]
Hold(r, xs) == locks' = [locks EXCEPT ![r] = @ \cup xs]

\* The transaction ends: locks and keys are released, the caller gets o.
Finish(r, o) ==
  /\ pc' = [pc EXCEPT ![r] = "done"]
  /\ outcome' = [outcome EXCEPT ![r] = o]
  /\ locks' = [locks EXCEPT ![r] = {}]
  /\ writes' = [writes EXCEPT ![r] = NoWrites]

\* Mutant of Rollback: the error path returns without the deferred rollback.
RollbackForgotten(r, o) ==
  /\ Goto(r, "done")
  /\ outcome' = [outcome EXCEPT ![r] = o]
  /\ UNCHANGED <<tables, seen, locks, writes>>

\* defer tx.Rollback(ctx)
Rollback(r, o) == Finish(r, o) /\ UNCHANGED <<tables, seen>>

Begin(r) ==
  /\ pc[r] = "idle"
  /\ Goto(r, FirstStatement(r))
  /\ UNCHANGED <<tables, outcome, seen, locks, writes>>

\* Mutant of CheckCurrency: the currency of the row is not compared.
LockBalanceOnly(r) ==
  LET u == Arg[r].user
  IN  /\ pc[r] = "checkCurrency" /\ Free(r, BalanceLock(u))
      /\ Goto(r, IF Is(r, "credit") THEN "insertHash" ELSE "book")
      /\ seen' = [seen EXCEPT ![r] = {u} \cap DOMAIN balances]
      /\ Hold(r, {BalanceLock(v) : v \in {u} \cap DOMAIN balances})
      /\ UNCHANGED <<tables, outcome, writes>>

\* checkBalanceCurrency: SELECT currency FROM balances ... FOR UPDATE.  A row
\* that does not exist cannot be locked and is not checked.
CheckCurrency(r) ==
  LET u == Arg[r].user
      next == IF Is(r, "credit") THEN "insertHash" ELSE "book"
  IN  /\ pc[r] = "checkCurrency"
      /\ \/ /\ u \notin DOMAIN balances
            /\ Goto(r, next)
            /\ UNCHANGED <<tables, outcome, seen, locks, writes>>
         \/ /\ u \in DOMAIN balances
            /\ Free(r, BalanceLock(u))
            /\ balances[u].currency # Arg[r].currency
            /\ Rollback(r, "currency mismatch")
         \/ /\ u \in DOMAIN balances
            /\ Free(r, BalanceLock(u))
            /\ balances[u].currency = Arg[r].currency
            /\ Goto(r, next)
            /\ seen' = [seen EXCEPT ![r] = {u}]
            /\ Hold(r, {BalanceLock(u)})
            /\ UNCHANGED <<tables, outcome, writes>>

\* INSERT INTO receipts, the entry of idx_receipts_file_hash: it waits for a
\* transaction that inserted or rewrites a receipt with this hash.
InsertHash(r) ==
  LET h == Arg[r].hash
  IN  /\ pc[r] = "insertHash"
      /\ Free(r, HashKey(h))
      /\ \/ HashTaken(h) /\ Rollback(r, "duplicate file")
         \/ /\ ~HashTaken(h)
            /\ Goto(r, "insertCheck")
            /\ Hold(r, {HashKey(h)})
            /\ UNCHANGED <<tables, outcome, seen, writes>>

\* INSERT INTO receipts, the entry of the partial index idx_receipts_check_number,
\* and the row itself.
InsertCheck(r) ==
  LET k == Arg[r].check
  IN  /\ pc[r] = "insertCheck"
      /\ \A x \in CheckKeys(k) : Free(r, x)
      /\ \/ CheckTaken(k) /\ Rollback(r, "duplicate check number")
         \/ /\ ~CheckTaken(k)
            /\ Goto(r, "book")
            /\ Hold(r, CheckKeys(k))
            /\ writes' = [writes EXCEPT ![r].receipts =
                            [i \in {r} |-> NewReceipt(r)]]
            /\ UNCHANGED <<tables, outcome, seen>>

\* Mutant of LockReceipt: the SELECT has no FOR UPDATE.
ReadReceipt(r) ==
  LET i == Arg[r].receipt
  IN  /\ pc[r] = "lockReceipt"
      /\ i \in DOMAIN receipts /\ receipts[i].status = "credited"
      /\ Goto(r, "markRejected")
      /\ UNCHANGED <<tables, outcome, seen, locks, writes>>

\* ReverseReceipt: SELECT ... FROM receipts WHERE id = $1 FOR UPDATE.
LockReceipt(r) ==
  LET i == Arg[r].receipt
  IN  /\ pc[r] = "lockReceipt"
      /\ \/ /\ i \notin DOMAIN receipts
            /\ Rollback(r, "receipt not found")
         \/ /\ i \in DOMAIN receipts
            /\ Free(r, ReceiptRef(i))
            /\ receipts[i].status = "rejected"
            /\ Rollback(r, "already reversed")
         \/ /\ i \in DOMAIN receipts
            /\ Free(r, ReceiptRef(i))
            /\ receipts[i].status = "credited"
            /\ Goto(r, "markRejected")
            /\ Hold(r, {ReceiptRef(i)})
            /\ UNCHANGED <<tables, outcome, seen, writes>>

\* ReverseReceipt: UPDATE receipts SET status = 'rejected'.  From here on an
\* insert of the same hash or check number waits for this transaction.
MarkRejected(r) ==
  LET i == Arg[r].receipt
  IN  /\ pc[r] = "markRejected"
      /\ Goto(r, "book")
      /\ Hold(r, ReceiptKeys(receipts[i]))
      /\ writes' = [writes EXCEPT ![r].receipts =
                      [j \in {i} |-> [receipts[i] EXCEPT !.status = "rejected"]]]
      /\ UNCHANGED <<tables, outcome, seen>>

\* Mutant of LockGame: the SELECT has no FOR UPDATE.
ReadGame(r) ==
  /\ pc[r] = "lockGame"
  /\ Arg[r].game \in games \ charged
  /\ Goto(r, "selectBalances")
  /\ UNCHANGED <<tables, outcome, seen, locks, writes>>

\* ChargeGame: SELECT ... FROM games WHERE id = $1 FOR UPDATE.
LockGame(r) ==
  LET g == Arg[r].game
  IN  /\ pc[r] = "lockGame"
      /\ \/ g \notin games /\ Rollback(r, "game not found")
         \/ /\ g \in games
            /\ Free(r, GameRef(g))
            /\ g \in charged
            /\ Rollback(r, "already charged")
         \/ /\ g \in games
            /\ Free(r, GameRef(g))
            /\ g \notin charged
            /\ Goto(r, "selectBalances")
            /\ Hold(r, {GameRef(g)})
            /\ UNCHANGED <<tables, outcome, seen, writes>>

\* ChargeGame: SELECT user_id, currency FROM balances ... FOR UPDATE takes its
\* snapshot: the rows committed now are the ones it will lock.
SelectBalances(r) ==
  /\ pc[r] = "selectBalances"
  /\ Goto(r, "lockBalances")
  /\ seen' = [seen EXCEPT ![r] = Payers(r) \cap DOMAIN balances]
  /\ UNCHANGED <<tables, outcome, locks, writes>>

Unlocked(r) == {u \in seen[r] : BalanceLock(u) \notin locks[r]}

\* Mutant of LockBalance: the SELECT has no ORDER BY.
LockAnyBalance(r) ==
  /\ pc[r] = "lockBalances"
  /\ \E u \in Unlocked(r) : Free(r, BalanceLock(u)) /\ Hold(r, {BalanceLock(u)})
  /\ UNCHANGED <<tables, pc, outcome, seen, writes>>

\* ... and ORDER BY user_id locks them one by one in ascending order.
LockBalance(r) ==
  /\ pc[r] = "lockBalances"
  /\ \E u \in Unlocked(r) :
       /\ \A v \in Unlocked(r) : u <= v
       /\ Free(r, BalanceLock(u))
       /\ Hold(r, {BalanceLock(u)})
  /\ UNCHANGED <<tables, pc, outcome, seen, writes>>

\* Mutant of CheckCurrencies: the rows' currencies are not compared.
CheckNoCurrencies(r) ==
  /\ pc[r] = "lockBalances" /\ Unlocked(r) = {}
  /\ Goto(r, "book")
  /\ UNCHANGED <<tables, outcome, seen, locks, writes>>

\* ChargeGame: the currency check, over the rows the query returned.
CheckCurrencies(r) ==
  LET fits == \A u \in seen[r] : balances[u].currency = DefaultCurrency
  IN  /\ pc[r] = "lockBalances"
      /\ Unlocked(r) = {}
      /\ \/ ~fits /\ Rollback(r, "currency mismatch")
         \/ fits /\ Goto(r, "book") /\ UNCHANGED <<tables, outcome, seen, locks, writes>>

\* The payers r has not booked yet, in the order of the shares slice.
Unbooked(r) == Payers(r) \ DOMAIN writes[r].balances

\* The ledger insert and applyBalanceDelta for the next payer.  The upsert waits
\* for whoever holds, or is inserting, the row.
Book(r) ==
  /\ pc[r] = "book"
  /\ \E u \in Unbooked(r) :
       /\ \A v \in Unbooked(r) : u <= v
       /\ Free(r, BalanceLock(u))
       /\ Hold(r, {BalanceLock(u)})
       /\ writes' = [writes EXCEPT
                       ![r].ledger = @ \cup {NewEntry(r, u)},
                       ![r].balances = Overlay([v \in {u} |-> Upserted(r, v)], @)]
       /\ Goto(r, IF Unbooked(r) # {u} THEN "book"
                  ELSE IF Is(r, "charge") THEN "markCharged" ELSE "commit")
  /\ UNCHANGED <<tables, outcome, seen>>

\* Mutant of MarkCharged: the UPDATE matches no row.
MarkNothing(r) ==
  pc[r] = "markCharged" /\ Goto(r, "commit") /\ UNCHANGED <<tables, outcome, seen, locks, writes>>

\* ChargeGame: UPDATE games SET charged_at = now().
MarkCharged(r) ==
  /\ pc[r] = "markCharged"
  /\ Goto(r, "commit")
  /\ writes' = [writes EXCEPT ![r].charged = {Arg[r].game}]
  /\ UNCHANGED <<tables, outcome, seen, locks>>

\* The server applies COMMIT.
Install(r) ==
  /\ receipts' = Overlay(writes[r].receipts, receipts)
  /\ ledger' = ledger \cup writes[r].ledger
  /\ balances' = Overlay(writes[r].balances, balances)
  /\ charged' = charged \cup writes[r].charged
  /\ UNCHANGED <<games, seen>>

\* tx.Commit(ctx) returned nil.
Commit(r) == pc[r] = "commit" /\ Install(r) /\ Finish(r, "ok")

\* The server committed, but tx.Commit(ctx) returned an error: the connection
\* broke or the request's context ended before the answer arrived.
CommitUnacknowledged(r) == pc[r] = "commit" /\ Install(r) /\ Finish(r, "failed")

\* Mutant of Fail: the statements run outside a transaction, each on its own.
FailAutocommitted(r) == InFlight(r) /\ Install(r) /\ Finish(r, "failed")

\* A statement fails, the context ends or the process dies: the transaction
\* rolls back and the caller gets an error that is not one of the named ones.
Fail(r) == InFlight(r) /\ Rollback(r, "failed")

(***************************************************************************)
(* Who waits for whom.  A request waits for at most one row or key.        *)
(***************************************************************************)
Wanted(r) ==
  CASE pc[r] = "checkCurrency" -> {BalanceLock(u) : u \in {Arg[r].user} \cap DOMAIN balances}
    [] pc[r] = "insertHash" -> {HashKey(Arg[r].hash)}
    [] pc[r] = "insertCheck" -> CheckKeys(Arg[r].check)
    [] pc[r] = "lockReceipt" -> {ReceiptRef(i) : i \in {Arg[r].receipt} \cap DOMAIN receipts}
    [] pc[r] = "lockGame" -> {GameRef(g) : g \in {Arg[r].game} \cap games}
    [] pc[r] = "lockBalances" ->
         {BalanceLock(u) : u \in {v \in Unlocked(r) : \A w \in Unlocked(r) : v <= w}}
    [] pc[r] = "book" ->
         {BalanceLock(u) : u \in {v \in Unbooked(r) : \A w \in Unbooked(r) : v <= w}}
    [] OTHER -> {}

Blockers(r) == {s \in Requests \ {r} : Wanted(r) \cap locks[s] # {}}

Waiting == {r \in Requests : Blockers(r) # {}}

\* The circles of transactions, each waiting for the next.
Circles ==
  {S \in SUBSET Waiting : S # {} /\ UNION {Blockers(r) : r \in S} = S}

\* PostgreSQL's deadlock detector fails one transaction of a circle.
DeadlockAbort(r) ==
  /\ InFlight(r)
  /\ \E S \in Circles : r \in S
  /\ Rollback(r, "failed")

\* game_repo.CreateGame, a single INSERT.
CreateGame(g) ==
  /\ g \notin games
  /\ games' = games \cup {g}
  /\ UNCHANGED <<receipts, ledger, balances, charged, pc, outcome, seen, locks, writes>>

Statement(r) ==
  \/ CheckCurrency(r) \/ InsertHash(r) \/ InsertCheck(r)
  \/ LockReceipt(r) \/ MarkRejected(r)
  \/ LockGame(r) \/ SelectBalances(r) \/ LockBalance(r) \/ CheckCurrencies(r)
  \/ Book(r) \/ MarkCharged(r) \/ Commit(r)

Next ==
  \/ \E r \in Requests :
       Begin(r) \/ Statement(r) \/ CommitUnacknowledged(r) \/ Fail(r) \/ DeadlockAbort(r)
  \/ \E g \in Games : CreateGame(g)

Spec == Init /\ [][Next]_vars

\* The program keeps running its statements, and the detector breaks circles.
\* Nothing is assumed of failures, nor that a game is ever created.
Fairness ==
  \A r \in Requests : WF_vars(Statement(r)) /\ WF_vars(DeadlockAbort(r))

FairSpec == Spec /\ Fairness

(***************************************************************************)
(* Properties.                                                             *)
(***************************************************************************)
Labels ==
  {"idle", "checkCurrency", "insertHash", "insertCheck", "lockReceipt", "markRejected",
   "lockGame", "selectBalances", "lockBalances", "book", "markCharged", "commit", "done"}

Refusals ==
  {"duplicate file", "duplicate check number", "currency mismatch", "receipt not found",
   "already reversed", "game not found", "already charged"}

WritesTypeOK(w) ==
  /\ DOMAIN w = {"receipts", "ledger", "balances", "charged"}
  /\ DOMAIN w.receipts \subseteq Requests
  /\ \A i \in DOMAIN w.receipts : w.receipts[i] \in ReceiptRow
  /\ w.ledger \subseteq EntryRow
  /\ DOMAIN w.balances \subseteq Users
  /\ \A u \in DOMAIN w.balances : w.balances[u] \in BalanceRow
  /\ w.charged \subseteq Games

\* Every table holds well-formed rows, committed or not.
TypeOK ==
  /\ TablesTypeOK
  /\ pc \in [Requests -> Labels]
  /\ outcome \in [Requests -> {"none", "ok", "failed"} \cup Refusals]
  /\ seen \in [Requests -> SUBSET Users]
  /\ locks \in [Requests -> SUBSET Lockable]
  /\ writes = [r \in Requests |-> writes[r]]
  /\ \A r \in Requests : WritesTypeOK(writes[r])

\* No row and no unique key is ever held by two transactions (FOR UPDATE and
\* the unique indexes exclude each other as the code relies on).
LocksExclusive ==
  \A r, s \in Requests : r # s => locks[r] \cap locks[s] = {}

EntriesOf(ref, kind) == {e \in ledger : e.ref = ref /\ e.kind = kind}

\* CreditReceipt, ReverseReceipt: a receipt is in the ledger exactly once as a
\* credit of its amount, and exactly once more with the opposite amount if and
\* only if it is rejected, however requests interleave and fail.
ReceiptsBooked ==
  /\ \A i \in DOMAIN receipts :
       LET row == receipts[i]
           entry(r, amount, kind) ==
             [by |-> r, user |-> row.user, amount |-> amount, currency |-> row.currency,
              kind |-> kind, ref |-> ReceiptRef(i)]
       IN  /\ EntriesOf(ReceiptRef(i), "receipt_credit")
                = {entry(i, row.amount, "receipt_credit")}
           /\ row.status = "credited" => EntriesOf(ReceiptRef(i), "receipt_reversal") = {}
           /\ row.status = "rejected" =>
                \E r \in Requests : EntriesOf(ReceiptRef(i), "receipt_reversal")
                                     = {entry(r, -row.amount, "receipt_reversal")}
  /\ \A e \in ledger :
       e.kind \in {"receipt_credit", "receipt_reversal"} =>
         \E i \in DOMAIN receipts : e.ref = ReceiptRef(i)

\* idx_receipts_file_hash and idx_receipts_check_number: no file and no check
\* number is credited twice, whatever two uploads read before they inserted.
ReceiptsUnique ==
  \A i, j \in DOMAIN receipts :
    i # j => /\ receipts[i].hash # receipts[j].hash
             /\ receipts[i].check # NoCheck => receipts[i].check # receipts[j].check

\* ChargeGame: a game whose charged_at is set was booked by exactly one request,
\* once for each of its shares; a game whose charged_at is NULL was not booked.
GameBookedOnce ==
  \A g \in Games :
    /\ g \notin charged => EntriesOf(GameRef(g), "game_charge") = {}
    /\ g \in charged =>
         \E r \in Requests :
           /\ Is(r, "charge") /\ Arg[r].game = g
           /\ EntriesOf(GameRef(g), "game_charge") = {NewEntry(r, u) : u \in Payers(r)}

\* What the caller is told: after success all of the request's entries are in
\* the ledger, after a named error none is and no receipt of its is stored.
\* Only the unnamed error leaves both possible, all of them or none.
OutcomeTellsEffect ==
  \A r \in Requests :
    LET mine == {e \in ledger : e.by = r}
    IN  /\ outcome[r] = "ok" => {e.user : e \in mine} = Payers(r)
        /\ outcome[r] \in Refusals \cup {"none"} => mine = {} /\ r \notin DOMAIN receipts
        /\ mine # {} => {e.user : e \in mine} = Payers(r)
        /\ (Is(r, "credit") /\ mine # {}) <=> r \in DOMAIN receipts

\* applyBalanceDelta, ON CONFLICT DO UPDATE under the row lock: no concurrent
\* update of a balance is lost, its amount is the sum of the user's entries.
BalanceIsLedgerSum ==
  /\ \A u \in DOMAIN balances : balances[u].amount = SumOf({e \in ledger : e.user = u})
  /\ \A e \in ledger : e.user \in DOMAIN balances

\* ORDER BY user_id FOR UPDATE and the unique keys: no circle of waiting
\* transactions arises from the locks taken up front.  Every circle has one stuck
\* in applyBalanceDelta on a row its own check did not lock: a reversal, which
\* checks nothing, or a request whose payer had no balance row when it looked.
CirclesNeedLateLock ==
  \A S \in Circles :
    \E r \in S : /\ pc[r] = "book"
                 /\ Is(r, "reverse") \/ ~(Payers(r) \subseteq seen[r])

\* checkBalanceCurrency and the check of ChargeGame: an entry is in the currency
\* of the balance it was added to.
CurrencyConsistent ==
  \A e \in ledger : e.currency = balances[e.user].currency

\* What the checks do guarantee: an entry in another currency was booked by a
\* request that found no balance row to check, or takes back such an entry.
MismatchNeedsMissingRow ==
  \A e \in ledger :
    e.currency # balances[e.user].currency =>
      \/ e.user \notin seen[e.by] /\ ~Is(e.by, "reverse")
      \/ /\ Is(e.by, "reverse")
         /\ Arg[e.by].receipt \in Requests
         /\ e.user \notin seen[Arg[e.by].receipt]

\* The transactions implement Ledger: the refinement maps the committed tables and
\* the answers to themselves, so each transaction is atomic and each answer
\* true at one moment of its execution.
Abstract == INSTANCE Ledger
ImplementsLedger == Abstract!Spec

\* Every request that begins is answered.
EveryRequestAnswered ==
  \A r \in Requests : pc[r] # "idle" ~> pc[r] = "done"
=============================================================================
