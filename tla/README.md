# A formal model of the Winforce platform backend

TLA+ modules, TLC configurations and TLAPS proofs for the Go backend in this
repository: a Gin HTTP API over PostgreSQL (pgx), MinIO, an external receipt
parsing service and a Telegram bot. Paths below are relative to `internal/`
unless they say otherwise. `PROJECT.json` maps every definition to the lines it
models, and lists the runs, the mutants that show each property can fail, the
hazards and the theorems.

## Inventory

| Component | State | Operations | Interacts with |
|---|---|---|---|
| Money repository (`repository/postgres/balance_repo`) | tables `receipts`, `balances`, `balance_transactions`, `games.charged_at`, `game_settings` | `CreditReceipt`, `ReverseReceipt`, `AdjustBalance`, `ChargeGame` (transactions), look-ups and lists | PostgreSQL; called by the balance service |
| Balance service and handlers (`service/balance_service.go`, `handlers/balance_handler.go`) | none of its own | receipt upload and rejection, adjustment, game charge, lists, dashboard | money repository, parsing client, object store |
| Parsing client (`repository/parsing`) | none | `ParseReceipt`, up to 90 s | external service |
| Object store (`repository/minio`) | buckets of receipts, avatars and QR codes | `Upload`, `Delete`, `Get`, `SignedURL` | MinIO |
| Avatars (`service/avatar_service.go`, `avatar_repo`) | `avatars.avatar_link`, bucket | upload with cleanup of the previous object | PostgreSQL, object store |
| QR codes (`service/qr_service.go`, `qr_repo`) | `qr_codes`, bucket | save, list | PostgreSQL, object store |
| Games (`service/game_service.go`, `game_repo`) | `games` | create, list, players | PostgreSQL |
| Telegram accounts (`service/telegram_service.go`, `telegram_repo`) | `telegram_accounts` | link (signed login), unlink, recipients of the notifier | PostgreSQL |
| Low balance notifier (`service/low_balance_notifier.go`) | a timer | daily round of messages | Telegram accounts, balances, bot API |
| Server (`cmd/app/main.go`, `routes/server.go`) | listener, one connection pool, background goroutine, deferred calls | setup, signal, graceful shutdown (10 s) | everything |
| File serving (`service/file_service.go`, `filelink`) | configuration: address of the links, secret | public and signed, expiring links to objects; `ServeFile` | object store, avatars, QR codes, receipts |
| Migrations (`db/migrate.go`) | version row, dirty flag, advisory lock, schema | `up`, `down`, `version`, `force` | golang-migrate, PostgreSQL |
| Money formatting (`models/balance.go`) | none | `FormatMinor`, `MinorFromFloat` | handlers, notifier |
| Authentication (limen) and middleware (`middleware/auth.go`) | sessions in the library | `RequireAuth`, `RequireAdmin` before every handler | the pool |
| Profile, users, roles | rows of `users` | single-row reads and updates | PostgreSQL |
| Configuration, logging, health, API docs | - | start-up | - |

No in-memory state is shared between requests but the pool of connections:
components meet in PostgreSQL (row locks, unique keys, READ COMMITTED) and in the
object store, which has no transactions. What is hard follows from that:

* **transactions that interleave**: a receipt rejected twice, a game charged
  twice, two first transactions of one user, lock orders that make a circle;
* **a store without transactions beside one with them**: file first, then row,
  then a best-effort cleanup, any of which can fail, be cancelled with the
  request, or be cut by the end of the process;
* **answers that are not known**: a commit or a single-statement write takes
  effect and its acknowledgement is lost, so the caller is told of an error;
* **reads that go stale**: the hash looked up before parsing, the price and the
  users read before the charge, the recipients listed before the messages, the
  parts of a dashboard read one after another;
* **links that outlive what they name**: a client opens later what it was shown,
  when the object may be replaced and the address or the secret changed;
* **time**: a daily schedule on a wall clock that can be set, a timer on a
  monotonic one, and links whose life is counted in whole seconds;
* **the end of the process**: a shutdown that waits for 10 s, deferred calls in
  reverse order, a kill, a start again; and a command killed between the dirty
  mark and the clean one.

What makes each component correct: a receipt is booked once and reversed at most
once, a game is booked once, a balance is the sum of its ledger, answers are
true (money repository); a stored receipt, avatar or QR code has its object and
left-over objects have a cause (uploads); a price is split without loss and
fairly (game charge); every call is answered (repository, Telegram accounts);
no account gets two messages of a round and no scheduled time is served twice
(notifier); the parts of one answer do not contradict each other (reads); a link
that was shown opens, unless one of the named causes took its object away (files);
a signal ends the process without cutting a transaction, and no goroutine waits
for the pool for ever (server); a clean version is the truth (migrations).

## Modules

```
BalanceTables            tables, rows, what a request writes
  |- BalanceRepo         the four transactions, statement by statement
  |    `- BalanceRepoInvariant -> BalanceRepoProofs
  |- Ledger              the abstract specification: each request at once
  |    ^ implemented by BalanceRepo (proved; runs `receipts`, `charges`)
  |- ReceiptUpload       handler, service, parsing, object store, over Ledger
  `- BalanceReads        dashboard, players, pages of receipts, over Ledger
       `- with ReceiptUpload -> LedgerClientProofs
GameShares <- GameCharge -> GameChargeProofs
AvatarUpload
  `- PublicFiles         composes AvatarUpload, QRUpload and FileLinks with
       |                 readers and restarts
       `- FilesProofs
TelegramTable            the rows of telegram_accounts
  |- TelegramAccounts    the two statements with their waits
  |    `- implements TelegramLinks, the abstract specification (proved; run `telegram`)
  `- LowBalanceNotifier
       `- with TelegramAccounts and Money -> TelegramProofs
Server -> ServerProofs
Migrations -> MigrationsProofs
SumProofs                sums over finite sets, for the proofs that need them
```

`MC*` modules hold the instances TLC checks.

**BalanceTables, BalanceRepo, Ledger.** `BalanceTables` has the committed
tables. A table with a unique key is a function from keys to rows; the ledger is
a set of entries named by the request that booked them. `BalanceRepo` runs each
request through its SQL statements (`pc`): `checkBalanceCurrency`, the two unique
indexes of `INSERT INTO receipts`, the `SELECT ... FOR UPDATE` of receipt, game
and balance rows in order of user id, the booking of one entry with
`applyBalanceDelta`, `COMMIT`. `locks` are rows and unique keys held to the end
of the transaction, `writes` the rows nobody else sees, `seen` the balance rows
the currency check found. A statement that waits is a disabled action. Every
statement can fail (rollback, unnamed error), `COMMIT` can take effect and be
reported as an error, and PostgreSQL aborts one of a circle of waiting
transactions. `Ledger` says what a caller may rely on: each request takes effect
in one step or refuses with an error the tables justify at that moment. It does
not promise that a booking in a foreign currency is refused, because the code
does not keep such a promise (see Findings); `MismatchNeedsMissingRow` says how
close it comes. The modules that use the repository instantiate `Ledger`, which is
sound because `BalanceRepo` implements it (`TransactionsAreAtomic`, proved).

**ReceiptUpload.** The requests that share the receipts and the balance of a
user, from the form to the answer. An upload: look-up of the hash, parsing, upload
of the file under a fresh uuid, `CreditReceipt`, the cleanup on error. A rejection
and an adjustment by an administrator, with `requireUser` before the transaction
of the latter. Cancellation of a request, failed calls with or without effect and
the end of the process are actions. The repository is an instance of `Ledger`.

**AvatarUpload, QRUpload.** The same for avatars (previous link read, upload,
upsert, delete of the previous object) and QR codes (upload, insert, cleanup), from
the handler's checks to the status it writes.

**FileLinks, PublicFiles.** `FileLinks` has `Public`, `Signed`, `Verify`,
`ObjectName`, `Normalize` and the answer of `ServeFile`. A path is a sequence of
segments (escaping and parsing are the identity on them), a signature is what was
signed and with which secret. `PublicFiles` composes it with both uploads: a client
is shown a link (stored, rewritten by `NormalizeURL`, or signed just now), and opens
it after uploads, cleanups and a restart under another `FILES_BASE_URL` or
`FILE_LINK_SECRET`.

**GameShares, GameCharge.** `POST /balance/game-charge`: the price, the missing
users, the split and the transaction, while the price is edited and users are
deleted by the owner of the database. `Shares` is the split.

**BalanceReads.** The reads that are several statements. Money requests are the
steps of `Ledger`; a reader runs `Path`, one statement at a time, and keeps what
it has been shown. Readers change nothing, so one stands for all. The order of the
receipts is kept as the set of those `newer` than each, where the insertion of one
may put it anywhere (`add_date_time` is when
its transaction began, not when it committed), so that a row has a
`Rank` and a page is the rows whose rank is between its offset and its end.

**TelegramTable, TelegramAccounts, TelegramLinks.** `TelegramTable` declares the table
that linking and the notifier share. `TelegramAccounts` has the upsert with its two
waits (row of the user, unique key of the account), deadlocks and lost
acknowledgements; `TelegramLinks` says what a caller may rely on: a call takes
effect at once or not at all, an account has one user, 409 and 404 are true when
they are given. An unlink waits for the row it deletes, and does not see the row of a
link that has not committed.

**LowBalanceNotifier, Money.** The notifier's loop with its timer, list and
messages, over accounts and balances that change; a signal stops it when it next
waits, a kill forgets its list, a restart remembers nothing. `ChangeAccounts` lets the
table become any in which both keys are unique (`Tables`); that linking and unlinking
leave no other is a theorem about `TelegramAccounts` (`TablesTheNotifierExpects`). `Money` is
`FormatMinor` on a word of `2 * Half` values.

**Server.** `run()` of `routes/server.go`: `Steps` are the steps of the setup, of
which some fail and some defer a call; `Signal`, the `select`, `Shutdown` with its
deadline, and the deferred calls in reverse order follow. Every request of a client
passes `RequireAuth` and `RequireAdmin` if its route asks for them, then alternates
between reading, queries and writing; each query takes one connection of the one
pool. What queries do is the subject of the other modules.

**Migrations.** `Run` of `db/migrate.go`: its arguments, and golang-migrate as the
code uses it (external): the version row with the dirty flag, the advisory lock,
a mark before and after every file. Several commands run at once, fail or are
killed at any step; a force may take effect and report an error. A file that meets a
schema it was not written for, after a wrong force, may run or fail.

## Runs

A behaviour ends when the requests, each made once, have ended (or the clock has
reached its bound, or the process stays down), hence `CHECK_DEADLOCK FALSE`; commands
of `migrations` are repeated for ever, and that run looks for deadlocks.

| Run | Instance | Shows |
|---|---|---|
| `receipts` | three uploads (same file; same check number, other currency), two rejections of the first; fair | each receipt booked and reversed at most once; implements `Ledger`; every request is answered, although a rejection and an upload can wait for each other |
| `charges` | a game charged twice, another game, two adjustments, one in a foreign currency (`MCCharges`; the two charges of one game are alike, so the run uses their symmetry) | a game is booked once, in full; answers true; balance = sum of ledger; a circle of waiting needs a row not locked up front; a foreign entry needs a request that found no balance row; implements `Ledger` |
| `currency_race` | as `receipts` | **violation**: an entry in a currency other than the balance's |
| `uploads` | any three of six requests: two uploads of one file, one sharing its check number in another currency, two rejections, an adjustment | what each status tells the caller; which receipts keep their file; which objects are left |
| `upload_file` | the same | **violation**: a stored receipt without its file |
| `files` | two uploads that race over a user's earlier avatar, or two QR codes; a client, a restart, two addresses (the second one ends in the name of a bucket), two secrets | the linked avatar exists, what is left over or lost has a cause; a link that was shown opens or there is a cause; the life of a signed link |
| `charging` | two requests for one game, every set of up to four ids, two prices; price and users change | shares add up to a price in force and are fair; what the administrator is told |
| `reads` | two receipts, one of them rejected, two games, an adjustment; lists and pages of one and of the default or largest size | the parts of an answer agree; when a page is short; which rows a client can miss |
| `telegram` | two users who swap accounts, one of whom may unlink; fair | every call is answered; implements `TelegramLinks` |
| `notifier` | two users and accounts, two rounds, four ticks of two to a day; the clock is set, the process stopped, killed and started | one message per account, user and round; a time is served once unless the clock was set back |
| `server` | two clients, the notifier, a pool of one connection; fair | an exit cuts no transaction; a graceful one refuses no request; an administrator's route is run for an administrator; a signal ends the process; whoever waits for the pool is served or refused |
| `migrations` | two runners, three files, every kind of command and every version forced | what the version row and the exit status say of the schema |

**Bounds.** Requests are few but chosen to conflict: each instance has at least
two requests for every row or key the property is about, and a third actor that
can come between them. Two users are enough for a circle of row locks in
opposite order, with a third request that creates a row which one of the others
then locks early and the other late; both instances reach such circles. `MaxMade`
lets any three of the six requests of `uploads` run: an upload, its retry and one
that disturbs them, and three that share nothing but the balance. Amounts are
small, distinct numbers so that a booking that is lost, doubled or attributed to
another request changes a sum. `DefaultListLimit` and `MaxListLimit` are 2 or 3 in
place of 50 and 200, so that lists are both open and full, and limits are clamped
at both ends. In `files`, avatars and QR codes share no row and no bucket, so
`Scenario` uploads one of the two kinds in a behaviour, and shows receipts and
changes the secret in those where neither is uploaded; `ShowTimes` and `Delays` are
the milliseconds on both sides of the 15 minutes and of the full second. In the
notifier `Horizon` (a day at least), `MaxRounds` and `MaxStep` bound the clock, the
rounds and how far the clock is set in one go: four ticks are two days with a scheduled time
each, so that a round can be cut, its time served again or missed. A pool of one
connection is the smallest, where holding one and waiting for another shows first.
Three files give a version with a neighbour on either side. Where a bound could hide
a case, the property is also proved for every value (see Proofs).

**Fairness.** `receipts` and `telegram` assume weak fairness of each request's
statements: a statement whose locks are free runs to its end, as PostgreSQL and
a live connection see to; and of the deadlock detector, which
`deadlock_timeout` starts for every wait. Nothing is assumed of failures,
cancellation or of when a request begins. A statement is enabled for good once
its locks are free for good, so weak fairness suffices. `server` assumes that the
main goroutine runs (weak fairness of `Main`, which includes the deadline of
`Shutdown`), that the notifier does, that a query ends, and strong fairness of
`Acquire`: a connection that comes back is given to one of those who wait, in the
order of their coming (puddle, under pgxpool, queues them), so that one who waits
while it comes back again and again gets it. Nothing is assumed of clients, who
may neither send nor read: the server sets no timeout for them.

## Findings

* `currency_race` (`balance_repo.go:520`): a user without a balance row has
  nothing for `FOR UPDATE` to lock. Two first transactions in two currencies both
  pass the check; the second is added to the first one's balance, although
  `ErrCurrencyMismatch` promises a refusal. `MismatchNeedsMissingRow` shows this
  is the only way.
* `upload_file` (`balance_service.go:166`): an error of the repository after its
  commit took effect makes the service delete the "orphaned" file of a receipt
  that exists. `ConfirmedReceiptHasFile` says what does hold. `SaveQRCode` has
  the same cleanup (`qr_service.go:41`), and `PictureLossExplained` limits the
  loss to it. `AvatarUpload` has no such cleanup. All three are proved.

Not a contradiction of anything the repository says, and so not a finding, but
worth knowing: `FormatMinor` writes the smallest int64 with two minus signs
(`SmallestIsNot`); an avatar link is stored with the address of its time and, unlike
the list of QR codes, not rewritten when `FILES_BASE_URL` changes; an object name
takes the extension of the client's file, which `validObjectName` may refuse when
the object is served (both are exceptions named in `ShownPictureOpens`); `force all`
of the migrate command is version 0, which no file has, and every `up` or `down`
fails after it until a real version is forced.

## Proofs

TLAPS proves, for every value of the constants that satisfies the named
assumptions, every safety property that a passing run checks (`PROJECT.json` pairs
them), and the type invariant of every module with state of its own.

* **BalanceRepoProofs**: `TypeCorrect`, `NoReceiptTwice`, `EveryReceiptBooked`,
  `GameChargedOnce`, `CallerIsToldTheTruth`, `ChecksLeaveOneGap`,
  `LocksUpFrontMakeNoCircle`, `WaitingEnds`, `BalancesAddUp` and `TransactionsAreAtomic` (the
  refinement: the transactions implement `Ledger`), from the inductive invariant
  `IInv` of `BalanceRepoInvariant`. The properties are not inductive: that a commit
  keeps them depends on what the transaction learnt statements ago and on the locks
  that have kept it true. `IInv` says, for each statement, which keys and rows the
  transaction holds (`HoldsHash`, `HoldsReceipt`, `HoldsGame`, `KeyInv`), what those
  locks guarantee of the committed tables (`CreditInv`, `ReverseInv`, `ChargeInv`),
  and that what it has written is what its request asks for (`BookInv`); with
  `LocksExclusive` a commit of one request cannot disturb what another relies on
  (`CommitKeepsOthers`). One lemma per statement; most change one request only and go
  through `LocalStep`; `COMMIT` has a lemma per conjunct. `Tells` adds to `IInv` that
  the entries of a request are all there, as it asked for them, or none is, and what
  its outcome says of that; a receipt keeps its user, amount and currency, so the
  entries stay what they were. `CheckedInv` adds that a committed balance row keeps
  its currency, that the rows a currency check found are there and fit until the
  request has committed, and that the balance rows a transaction has written are what
  it would write at this moment. So a `COMMIT` maps to one step of `Ledger` on the
  tables as they are, a rollback to a refusal they justify, every other statement to a
  stutter; and what it adds to a user's balance is what it adds to his entries, each of
  which is new (`Summed`), however many transactions have come between its read and its
  write. `OrderInv` says what a transaction holds when it waits and in which order it
  took it: nothing at its first statements, and the rows of `ChargeGame`'s query in
  ascending order. In a circle without anybody stuck in `applyBalanceDelta` all wait
  for such rows, and whoever waits for the smallest holds a smaller one still.
  `WaitingEnds`, what `EveryRequestAnswered` counts on, adds that no transaction is stuck
  in another way: a smallest set of transactions that wait only for each other is a
  circle, so PostgreSQL's detector leaves nobody behind.
  Assumptions: `UsersAssumption`, `CurrencyAssumption`, `CheckAssumption`,
  `ArgAssumption` (the types of what requests ask for).
* **LedgerClientProofs**, the modules over `Ledger`. Of `ReceiptUpload`:
  `AnswersAreTrue`, `ConfirmedKeepFiles`, `OrphansAreExplained`, `UploadTypeCorrect`. The
  invariant says of each request what it can have stored and booked before (`Before`)
  and after (`After`) its call of the repository, and that the outcome of that call
  bounds its answer; `Ledger`'s step is the only one that touches receipts and ledger.
  Of `BalanceReads`: `OverviewIsConsistent`, `ListsNeverFallBehind`, `PlayersAreComplete`,
  `ShortPagesHaveACause`, `SkippedHaveACause`, `ReadsTypeCorrect`. `TablesInv` is about
  the tables alone: a request takes effect once (`Once`), a balance is the sum of the
  entries (`Books`), a charged game has the entries of one request and another game
  none (`GamesBooked`), the receipts are in a strict total order (`Ordered`). `ReaderInv`
  compares what has been shown with the tables as they have become since: the
  statements of an answer run one after another, and payments and receipts only
  become more. For the pages, the ranks of n rows are 0 to n-1 (`FirstsCount`), so a page
  has its full length while there are rows; a row is passed over (`Passed`) only when one
  before it leaves the list (`LeftList`), which a rejection under the filter "credited"
  does to one row at a time, while an insertion only moves rows to later ranks.
* **FilesProofs**. Of `AvatarUpload`: `AvatarKept`, `LeftoversHaveACause`.
  `LinkedAvatarExists` is strengthened by whose uploads the previous links name, and that
  they have been replaced, so that what `DeleteOld` removes is linked by nobody.
  `LeftInductive` adds, for every object in the bucket, who will remove it or why nobody
  does (`Accounted`), which rests on the previous link an upload has read being the
  current one unless uploads overlap (`Seen`, `Current`). Of the composition with readers
  and restarts: `AvatarsKept`, `PictureLossHasACause`, `OrphansHaveACause`,
  `ReceiptLinksLive`, `PicturesOpen`, `FilesTypeCorrect`: the invariants of the parts, since a step of one
  changes nothing of another, `CodeOf` for the QR codes, `Shown`, that a client holds a
  link as it was signed, and `ShownPictures`, that the link of a picture is the one built
  for an upload that stored it, and that neither its user nor its code has lost the row
  since. `LinkLifetime`, `SecretMatters` and `LinkRoundTrip` are facts about the
  operators, the last for every address, also one that holds the name of the bucket, and
  every object name of one segment, which is all the handlers draw. `PathsAssumption`:
  addresses are paths, and the name of an upload is not the empty segment.
* **GameChargeProofs**: `SplitIsFair` and `SplitLosesNothing`, facts about `Shares` for any
  price and any finite set of ids: dividing hands out the whole price because as many
  ids get one unit more as the remainder says. `BillsAreFair`, that every game is billed
  by such a split for everybody its request named; `AdministratorIsToldTheTruth`, from
  `Told`: a bill names a request that is answered with 200 or 500, and the prices a
  running request has met include the one in force; `BillsAddUp`, from `Met`: the price it
  has read is one of those; `TypeCorrect`.
* **TelegramProofs**. Of `TelegramAccounts`: `LinksAreAtomic`, the refinement: the statement
  that passes both its waits is `Link`, `Unlink` or a refusal the table justifies, and every
  other step a stutter, from `LinksInv`: a call has a status once it is answered and not
  before; and `TablesTheNotifierExpects`. Of the notifier, over any such tables:
  `NoSecondMessage` (`MessagesInv`: who is left of the list has not been written to),
  `NoTimeTwice` (`TimeInv`: unless the clock was set back, a timer does not fire before
  its target, the times served are not later than now, and `NextRun` is) and
  `NotifierTypeCorrect` (no timer is set for more than a day). `FormatIsFaithful`,
  `SmallestIsNot` for `Money` and any word size.
* **ServerProofs**: `NoTransactionIsCut`, `GracefulExit`, `AdminsOnly`, `PoolIsNeverOverdrawn`,
  `TypeCorrect`. The invariant relates the deferred calls still to run to the stage, the
  pool and the listener: the pool is open until its call is reached, and then only closed
  when nothing is held. `PoolIsNeverOverdrawn` is what `WaitersServed` counts on: no more
  connections are out than the pool has, each with a goroutine in a query, so that none
  is kept by a client that is slow to send or to read.
* **MigrationsProofs**: `CleanIsTrue`, `DirtyIsRepairable`, `SuccessIsTrue`, `TypeCorrect`, for
  any number of files and runners and any commands. Only the holder of the lock works
  (`HolderWorks`), and at each of its steps the version, the dirty flag and its file
  say what the schema is (`Knows`).
* **SumProofs**: sums over finite sets (`SumFunction` of the community modules, a recursive
  function on sets). The induction theorems of the library cannot be used, so each fact is
  proved through a smallest set for which it fails: without one of its elements it
  holds, and what that element adds restores it.

Only model-checked: liveness (`EveryRequestAnswered`, `EveryCallAnswered`,
`SignalEndsProcess`, `WaitersServed`), since fairness and `ENABLED` are outside the
prover.

## Not modelled

* Data: the content of files, comments, names, ids as numbers, dates other than
  their order, the message of an error, logging, the headers of an answer.
* `MinorFromFloat`: it rounds a `float64`, and neither TLC nor the provers have
  floating-point numbers. `FormatMinor` is proved about and not run: its words are
  64 bits wide.
* Profile, users and roles: single statements on one row, with no state between
  them. A role is changed in the database only; `Server` does so under a request.
* Lists that are one statement: transactions, games, balances. They show what is
  committed.
* Sessions: kept by the limen library. Its look-up, well or not, is a step of
  `Server`.
* Configuration, logging, health and API docs: constants and I/O. That the
  configuration may differ at the next start is in `PublicFiles`.
* Zones that change their offset: a notifier's day has `DayLength` ticks.
* Deletion of users in the money tables (`ON DELETE CASCADE`): no code here
  deletes users; the owner of the database can, which `GameCharge` allows;
  an adjustment may find its user or not.
* Integer overflow of amounts: `BIGINT` makes PostgreSQL refuse the statement,
  which is one more failing statement.
* What a retry of an adjustment does: it is a second adjustment, and nothing in the
  code says otherwise.

## Plan

Done, the most important behaviour first: money repository and its abstract ledger,
uploads, game charge, Telegram accounts and notifier, reads; then links and serving,
the server's life, migrations, adjustments; then the proofs above, which cover every
safety property the runs check and two that liveness counts on. Left: that a call of
`TelegramAccounts` which its user's row or its key holds up waits for one that goes on,
or is in a circle.
