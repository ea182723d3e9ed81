---------------------------- MODULE BalanceReads ----------------------------
(***************************************************************************)
(* The reads that take more than one statement: the dashboard of a user,   *)
(* the players of a game and the pages of all receipts.  No transaction    *)
(* encloses their statements: each sees what is committed when it runs,    *)
(* and the money requests, which take effect at once (Ledger), come        *)
(* between.  Readers change nothing, so one of them stands for all.  A     *)
(* read that fails at a statement answers nothing, as if it stopped there. *)
(***************************************************************************)
EXTENDS BalanceTables, FiniteSetsExt, Sequences

CONSTANTS
  Asks,              \* what a reader asks for, and the limit it gives
  DefaultListLimit,  \* defaultListLimit
  MaxListLimit       \* maxListLimit

ASSUME LimitAssumption == DefaultListLimit \in 1..MaxListLimit /\ MaxListLimit \in Nat
ASSUME AskAssumption == \A a \in Asks : a.limit \in Int

VARIABLES
  answers,  \* the outcomes of the money requests
  newer,    \* receipt id -> the receipts ORDER BY add_date_time DESC, id DESC puts before it
  ask,      \* what the reader asks for
  at,       \* the statement of its path it is about to run
  shown     \* what it has been answered, by name

Money == INSTANCE Ledger WITH outcome <- answers

readVars == <<tables, answers, newer, ask, at, shown>>

\* Mutant of Path: the parts are loaded in the opposite order.
PathReversed ==
  CASE ask.op = "dashboard" -> <<"adjustments", "receipts", "games", "overview">>
    [] ask.op = "players" -> <<"players", "game">>
    [] OTHER -> <<"page", "total">>

\* The statements of a read, in order.
Path ==
  CASE ask.op = "dashboard" -> <<"overview", "games", "receipts", "adjustments">>
    [] ask.op = "players" -> <<"game", "players">>
    [] OTHER -> <<"total", "page">>

ReadsInit ==
  /\ Money!Init
  /\ newer = [i \in {} |-> {}]
  /\ ask \in Asks
  /\ at = 1
  /\ shown = [received |-> {}, offset |-> 0]

\* A new receipt takes its place in the order.
Insert(r) ==
  \E before \in SUBSET DOMAIN receipts :
    /\ \A i \in before : newer[i] \subseteq before
    /\ newer' = [i \in DOMAIN receipts \cup {r} |->
                   CASE i = r -> before
                     [] i \in before -> newer[i]
                     [] OTHER -> newer[i] \cup {r}]

\* The money requests that change the tables; whether they are then answered with
\* an error does not matter to a reader.  A receipt's add_date_time is the
\* start of its transaction: one that commits later may be the older one.
Write(r) ==
  /\ \/ Money!Credit(r) /\ Insert(r)
     \/ (Money!Reverse(r) \/ Money!Adjust(r) \/ Money!Charge(r)) /\ UNCHANGED newer
  /\ answers'[r] = "ok"
  /\ UNCHANGED <<ask, at, shown>>

CreateGame(g) == Money!CreateGame(g) /\ UNCHANGED <<newer, ask, at, shown>>

Upcoming(name) == at <= Len(Path) /\ Path[at] = name

\* The statement answers rows, kept under its name.
Show(name, rows) ==
  /\ shown' = Overlay([n \in {name} |-> rows], shown)
  /\ at' = at + 1
  /\ UNCHANGED <<tables, answers, newer, ask>>

ClampLimit(n) ==
  IF n <= 0 THEN DefaultListLimit ELSE IF n > MaxListLimit THEN MaxListLimit ELSE n

Limit == ClampLimit(ask.limit)

Entries(u, kinds) == {e \in ledger : e.user = u /\ e.kind \in kinds}

\* Mutant of ToppedUp: reversals are not counted.
ToppedUpGross(u) == SumOf(Entries(u, {"receipt_credit", "admin_adjustment"}))

ToppedUp(u) == SumOf(Entries(u, {"receipt_credit", "receipt_reversal", "admin_adjustment"}))

\* userOverviewSelect, one statement; a user without a balance row has 0 in the
\* default currency.
Overview(u) ==
  [balance |-> IF u \in DOMAIN balances THEN balances[u].amount ELSE 0,
   currency |-> IF u \in DOMAIN balances THEN balances[u].currency ELSE DefaultCurrency,
   games |-> Cardinality(Entries(u, {"game_charge"})),
   gamesPaid |-> -SumOf(Entries(u, {"game_charge"})),
   toppedUp |-> ToppedUp(u),
   receipts |-> Cardinality({i \in DOMAIN receipts :
                               receipts[i].user = u /\ receipts[i].status = "credited"})]

GetUserOverview ==
  Upcoming("overview") /\ Show("overview", Overview(ask.user))

\* The rows of one page of the ledger: which come first is decided by created_at,
\* the start of their transactions, which the model does not keep.
FirstOf(entries, n) == kSubset(Min({Cardinality(entries), n}), entries)

ListGamePayments ==
  /\ Upcoming("games")
  /\ \E rows \in FirstOf(Entries(ask.user, {"game_charge"}), Limit) :
       Show("games", rows)

ListAdjustments ==
  /\ Upcoming("adjustments")
  /\ \E rows \in FirstOf(Entries(ask.user, {"admin_adjustment"}), Limit) :
       Show("adjustments", rows)

\* Mutant of Rank: rejected receipts first.
RankByStatus(i, rows) ==
  Cardinality({j \in rows : IF receipts[i].status = receipts[j].status
                             THEN j \in newer[i] ELSE receipts[j].status = "rejected"})

\* The number of rows before i.
Rank(i, rows) == Cardinality(newer[i] \cap rows)

\* LIMIT n OFFSET offset.
Page(rows, offset, n) == {i \in rows : Rank(i, rows) \in offset .. offset + n - 1}

ReceiptsOf(u) == {i \in DOMAIN receipts : receipts[i].user = u}

ListReceipts ==
  Upcoming("receipts") /\ Show("receipts", Page(ReceiptsOf(ask.user), 0, Limit))

\* GetGame: a game that does not exist is answered at once.
GetGame ==
  LET g == ask.game
  IN  /\ Upcoming("game") /\ g \in games
      /\ Show("game", [id |-> g, charged |-> g \in charged])

ListGamePlayers ==
  /\ Upcoming("players")
  /\ Show("players",
          {e \in ledger : e.ref = GameRef(ask.game) /\ e.kind = "game_charge"})

Matches(i) == ask.status \in {"any", receipts[i].status}

\* The receipts the filter selects.
Matching == {i \in DOMAIN receipts : Matches(i)}

Rejected == {i \in DOMAIN receipts : receipts[i].status = "rejected"}

\* Mutant of Total: the count ignores the filter.
TotalOfAll == Cardinality(DOMAIN receipts)

Total == Cardinality(Matching)

\* ListAllReceipts, SELECT count(*).  What the first count saw, and the
\* receipts rejected by then, are kept for the properties.
CountReceipts ==
  /\ Upcoming("total")
  /\ shown' = Overlay([total |-> Total],
                     Overlay(shown, [first |-> Matching, rejected |-> Rejected]))
  /\ at' = at + 1
  /\ UNCHANGED <<tables, answers, newer, ask>>

\* ListAllReceipts, the page.  The client asks for the next one at the offset of
\* the number of rows it has received, until a page is empty.
PageReceipts ==
  LET page == Page(Matching, shown.offset, Limit)
  IN  /\ Upcoming("page")
      /\ shown' = Overlay([page |-> page, received |-> shown.received \cup page,
                           offset |-> shown.offset + Cardinality(page)], shown)
      /\ at' = IF page = {} THEN at + 1 ELSE 1
      /\ UNCHANGED <<tables, answers, newer, ask>>

Read ==
  \/ GetUserOverview \/ ListGamePayments \/ ListReceipts \/ ListAdjustments
  \/ GetGame \/ ListGamePlayers
  \/ CountReceipts \/ PageReceipts

ReadsNext ==
  \/ \E r \in Requests : Write(r)
  \/ \E g \in Games : CreateGame(g)
  \/ Read

ReadsSpec == ReadsInit /\ [][ReadsNext]_readVars

-----------------------------------------------------------------------------
(* Properties.                                                             *)

Has(names) == names \subseteq DOMAIN shown

\* Tables are well formed, and the receipts are in a strict total order.
ReadsTypeOK ==
  /\ TablesTypeOK
  /\ newer \in [DOMAIN receipts -> SUBSET DOMAIN receipts]
  /\ \A i \in DOMAIN receipts : i \notin newer[i]
  /\ \A i, j \in DOMAIN receipts : i = j \/ i \in newer[j] \/ j \in newer[i]
  /\ \A i \in DOMAIN receipts : \A j \in newer[i] : newer[j] \subseteq newer[i]
  /\ ask \in Asks /\ at \in 1..Len(Path) + 1

\* GetUserOverview reads balance and ledger in one statement: the balance it shows
\* is what it says was topped up less what it says was paid for games, whatever
\* is booked or reversed meanwhile.
OverviewAddsUp ==
  Has({"overview"}) =>
    shown.overview.balance = shown.overview.toppedUp - shown.overview.gamesPaid

\* GetUserDashboard loads the lists after the overview: they never fall behind it.
\* A list of games that is not full holds every game the overview counts, and what
\* its rows charged covers what the overview says was paid; rejections do not
\* shorten the list of receipts.
ListsCoverOverview ==
  /\ Has({"overview", "games"}) /\ Cardinality(shown.games) < Limit =>
       /\ Cardinality(shown.games) >= shown.overview.games
       /\ -SumOf(shown.games) >= shown.overview.gamesPaid
  /\ Has({"overview", "receipts"}) =>
       Cardinality(shown.receipts) >= Min({Limit, shown.overview.receipts})

\* ListGamePlayers shows a charge in full or not at all, and a game shown as charged
\* comes with the players who paid and their shares.
PlayersComplete ==
  /\ Has({"game", "players"}) /\ shown.game.charged => shown.players # {}
  /\ Has({"players"}) /\ shown.players # {} =>
       \E r \in Requests :
         /\ Is(r, "charge") /\ Arg[r].game = ask.game
         /\ {<<e.user, -e.amount>> : e \in shown.players}
              = {<<u, Arg[r].shares[u]>> : u \in DOMAIN Arg[r].shares}

\* Count and page of ListAllReceipts are two statements: what a client has received
\* falls short of the count only where a receipt can leave the list, under the
\* filter "credited".
ShortPageExplained ==
  Has({"page"}) /\ at # 2 /\ ask.status # "credited" =>
    /\ shown.offset >= Min({shown.total, Limit})
    /\ shown.page = {} => shown.offset >= shown.total

\* A client that pages through all receipts sees each that was there when it began
\* and still is, but for one per receipt that meanwhile left the list and moved the
\* others up under its offset.
SkippedExplained ==
  Has({"page"}) /\ at > 2 =>
    LET left == IF ask.status = "credited" THEN Rejected \ shown.rejected ELSE {}
        skipped == {i \in shown.first \ shown.received : Matches(i)}
    IN  Cardinality(skipped) <= Cardinality(left)
=============================================================================
