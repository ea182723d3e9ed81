----------------------------- MODULE GameCharge -----------------------------
(***************************************************************************)
(* POST /balance/game-charge: handlers.ChargeGame and                      *)
(* BalanceService.ChargeGame.  The price and the existence of the users    *)
(* are read in two statements of their own before the transaction of the   *)
(* repository, which BalanceRepo models and this module takes as one step: *)
(* it charges an uncharged game or refuses.  The price is edited and users *)
(* are deleted outside this program.                                       *)
(***************************************************************************)
EXTENDS GameShares, Functions

CONSTANTS
  Requests,
  Users,       \* ids a row of users can have
  UserIDs,     \* ids a request can name
  Games,       \* ids a row of games can have
  GameIDs,     \* ids a request can name
  Prices       \* values of game_settings.charge_amount_minor

ASSUME UsersAssumption == Users \subseteq Nat \ {0} /\ Users \subseteq UserIDs /\ UserIDs \subseteq Int
ASSUME FiniteAssumption == IsFiniteSet(UserIDs)
ASSUME GamesAssumption == Games \subseteq Nat \ {0} /\ Games \subseteq GameIDs /\ GameIDs \subseteq Int
ASSUME PricesAssumption == Prices \subseteq Nat \ {0}

VARIABLES
  price,     \* the row of game_settings: a set of at most one price
  users,     \* ids of the rows of users
  games,     \* ids of the rows of games
  bills,     \* charged game -> the request that charged it and its shares
  step,
  asked,     \* what each request asks for: a game id and a set of user ids
  read,      \* the price each request has read
  inForce,   \* the prices in force while each request runs
  response   \* the HTTP status written, 0 before that

env == <<price, users, games>>
vars == <<env, bills, step, asked, read, inForce, response>>

Running == {"readPrice", "findMissing", "charge"}

Init ==
  /\ price \in {{}} \cup {{p} : p \in Prices}
  /\ users = Users
  /\ games = {}
  /\ bills = [g \in {} |-> {}]
  /\ step = [r \in Requests |-> "idle"]
  /\ asked = [r \in Requests |-> [game |-> 0, ids |-> {}]]
  /\ read = [r \in Requests |-> 0]
  /\ inForce = [r \in Requests |-> {}]
  /\ response = [r \in Requests |-> 0]

Goto(r, label) == step' = [step EXCEPT ![r] = label] /\ UNCHANGED response

Respond(r, status) ==
  /\ step' = [step EXCEPT ![r] = "answered"]
  /\ response' = [response EXCEPT ![r] = status]

Valid(g, ids) == g > 0 /\ ids # {} /\ \A i \in ids : i > 0

\* The body is decoded, the ids sorted and compacted, and both checked.
Receive(r) ==
  /\ step[r] = "idle"
  /\ \E g \in GameIDs, ids \in SUBSET UserIDs :
       /\ asked' = [asked EXCEPT ![r] = [game |-> g, ids |-> ids]]
       /\ IF Valid(g, ids) THEN Goto(r, "readPrice") ELSE Respond(r, 400)
  /\ inForce' = [inForce EXCEPT ![r] = price]
  /\ UNCHANGED <<env, bills, read>>

\* Mutant of ReadPrice: a price below the number of users is let through.
ReadAnyPrice(r) ==
  /\ step[r] = "readPrice"
  /\ \E p \in price : read' = [read EXCEPT ![r] = p] /\ Goto(r, "findMissing")
  /\ UNCHANGED <<env, bills, asked, inForce>>

\* repo.GameChargeAmount, and the price must give every user at least one unit.
ReadPrice(r) ==
  /\ step[r] = "readPrice"
  /\ \/ /\ \E p \in price :
             /\ read' = [read EXCEPT ![r] = p]
             /\ IF p < Cardinality(asked[r].ids) THEN Respond(r, 400)
                ELSE Goto(r, "findMissing")
     \/ Respond(r, 500) /\ UNCHANGED read
  /\ UNCHANGED <<env, bills, asked, inForce>>

\* repo.MissingUsers
FindMissing(r) ==
  /\ step[r] = "findMissing"
  /\ \/ ~(asked[r].ids \subseteq users) /\ Respond(r, 404)
     \/ asked[r].ids \subseteq users /\ Goto(r, "charge")
     \/ Respond(r, 500)
  /\ UNCHANGED <<env, bills, asked, read, inForce>>

Bill(r, g) ==
  bills' = [h \in DOMAIN bills \cup {g} |->
              IF h = g THEN [by |-> r, shares |-> Shares(asked[r].ids, read[r])] ELSE bills[h]]

\* Mutant of ChargeGame: charged_at is not looked at.
ChargeAgain(r) ==
  /\ step[r] = "charge"
  /\ asked[r].game \in games
  /\ Bill(r, asked[r].game)
  /\ Respond(r, 200)
  /\ UNCHANGED <<env, asked, read, inForce>>

\* repo.ChargeGame and the answer for what it returned.  A user deleted since
\* FindMissing breaks the foreign key of the ledger.  An error that is not one
\* of the named ones may come after the commit.
ChargeGame(r) ==
  LET g == asked[r].game
  IN  /\ step[r] = "charge"
      /\ \/ g \notin games /\ Respond(r, 404) /\ UNCHANGED bills
         \/ g \in DOMAIN bills /\ Respond(r, 409) /\ UNCHANGED bills
         \/ /\ g \in games \ DOMAIN bills
            /\ \/ Respond(r, 422) /\ UNCHANGED bills
               \/ /\ asked[r].ids \subseteq users
                  /\ Bill(r, g)
                  /\ Respond(r, 200) \/ Respond(r, 500)
         \/ Respond(r, 500) /\ UNCHANGED bills
      /\ UNCHANGED <<env, asked, read, inForce>>

\* The process dies, or the client leaves and nobody reads the answer.
Abandon(r) ==
  /\ step[r] \in Running
  /\ step' = [step EXCEPT ![r] = "lost"]
  /\ UNCHANGED <<env, bills, asked, read, inForce, response>>

\* GameService.CreateGame: an INSERT INTO games.
CreateGame(g) ==
  /\ g \in Games \ games
  /\ games' = games \cup {g}
  /\ UNCHANGED <<price, users, bills, step, asked, read, inForce, response>>

\* UPDATE game_settings, outside the program.
SetPrice(p) ==
  /\ price # {} /\ p \notin price
  /\ price' = {p}
  /\ inForce' = [r \in Requests |->
                   IF step[r] \in Running THEN inForce[r] \cup {p} ELSE inForce[r]]
  /\ UNCHANGED <<users, games, bills, step, asked, read, response>>

\* DELETE FROM users, outside the program.
DeleteUser(u) ==
  /\ users' = users \ {u}
  /\ UNCHANGED <<price, games, bills, step, asked, read, inForce, response>>

Next ==
  \/ \E r \in Requests :
       Receive(r) \/ ReadPrice(r) \/ FindMissing(r) \/ ChargeGame(r) \/ Abandon(r)
  \/ \E g \in Games : CreateGame(g)
  \/ \E p \in Prices : SetPrice(p)
  \/ \E u \in users : DeleteUser(u)

Spec == Init /\ [][Next]_vars

(***************************************************************************)
(* Properties.                                                             *)
(***************************************************************************)
TypeOK ==
  /\ price \subseteq Prices /\ users \subseteq Users /\ games \subseteq Games
  /\ DOMAIN bills \subseteq games
  /\ step \in [Requests -> {"idle", "answered", "lost"} \cup Running]
  /\ asked \in [Requests -> [game : GameIDs \cup {0}, ids : SUBSET UserIDs]]
  /\ read \in [Requests -> Prices \cup {0}]
  /\ inForce \in [Requests -> SUBSET Prices]
  /\ response \in [Requests -> {0, 200, 400, 404, 409, 422, 500}]

\* ChargeGame splits the price without loss: the shares of a bill add up to a
\* price that was in force while the request that charged the game ran, even if
\* the price changed between its read and its transaction.
BillAddsUp ==
  \A g \in DOMAIN bills : SumFunction(bills[g].shares) \in inForce[bills[g].by]

\* ChargeGame: everybody asked for pays, at least one minor unit each, two
\* users never differ by more than one, and no id pays more than a smaller one.
BillFair ==
  \A g \in DOMAIN bills :
    LET share == bills[g].shares
    IN  /\ DOMAIN share = asked[bills[g].by].ids
        /\ \A i \in DOMAIN share : share[i] >= 1
        /\ \A i, j \in DOMAIN share : i < j => share[i] - share[j] \in {0, 1}

\* What the administrator is told: 200 means this request charged the game, 409
\* that another one did, and after any other answer but 500 this one did not.
\* A request refused for its price met one too small while it ran.
AnswerTellsEffect ==
  \A r \in Requests :
    LET g == asked[r].game
        mine == {h \in DOMAIN bills : bills[h].by = r}
    IN  /\ response[r] = 200 => mine = {g}
        /\ response[r] = 409 => g \in DOMAIN bills /\ mine = {}
        /\ response[r] \in {400, 404, 422} => mine = {}
        /\ response[r] = 400 /\ Valid(g, asked[r].ids) =>
             \E p \in inForce[r] : p < Cardinality(asked[r].ids)
=============================================================================
