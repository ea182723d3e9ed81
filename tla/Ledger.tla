------------------------------- MODULE Ledger -------------------------------
(***************************************************************************)
(* What balance_repo promises: each request takes effect at once, in full  *)
(* or not at all, and its answer is justified by the tables as they are at *)
(* that moment.  An unnamed error promises nothing about the effect.  A    *)
(* refused currency is one the balance does not have, but a booking in     *)
(* another currency is not promised to be refused: BalanceRepo checks only *)
(* the balance rows it finds, see MismatchNeedsMissingRow there.           *)
(***************************************************************************)
EXTENDS BalanceTables

VARIABLE outcome

ledgerVars == <<tables, outcome>>

Init == TablesInit /\ outcome = [r \in Requests |-> "none"]

Answer(r, answers) ==
  /\ outcome[r] = "none"
  /\ \E o \in answers : outcome' = [outcome EXCEPT ![r] = o]

CurrencyFits(r) ==
  \A u \in Payers(r) \cap DOMAIN balances : balances[u].currency = CurrencyOf(r)

BookAll(r) ==
  /\ ledger' = ledger \cup {NewEntry(r, u) : u \in Payers(r)}
  /\ balances' = Overlay([u \in Payers(r) |-> Upserted(r, u)], balances)

Credit(r) ==
  /\ Is(r, "credit")
  /\ ~HashTaken(Arg[r].hash) /\ ~CheckTaken(Arg[r].check)
  /\ Answer(r, {"ok", "failed"})
  /\ BookAll(r)
  /\ receipts' = Overlay([i \in {r} |-> NewReceipt(r)], receipts)
  /\ UNCHANGED <<games, charged>>

Reverse(r) ==
  LET i == Arg[r].receipt
  IN  /\ Is(r, "reverse") /\ i \in DOMAIN receipts /\ receipts[i].status = "credited"
      /\ Answer(r, {"ok", "failed"})
      /\ BookAll(r)
      /\ receipts' = [receipts EXCEPT ![i].status = "rejected"]
      /\ UNCHANGED <<games, charged>>

Adjust(r) ==
  /\ Is(r, "adjust")
  /\ Answer(r, {"ok", "failed"})
  /\ BookAll(r)
  /\ UNCHANGED <<receipts, games, charged>>

Charge(r) ==
  LET g == Arg[r].game
  IN  /\ Is(r, "charge") /\ g \in games \ charged
      /\ Answer(r, {"ok", "failed"})
      /\ BookAll(r)
      /\ charged' = charged \cup {g}
      /\ UNCHANGED <<receipts, games>>

\* The errors the tables justify.
Refusal(r) ==
  {o \in {"duplicate file", "duplicate check number", "currency mismatch",
          "receipt not found", "already reversed", "game not found", "already charged"} :
     CASE o = "duplicate file" -> Is(r, "credit") /\ HashTaken(Arg[r].hash)
       [] o = "duplicate check number" -> Is(r, "credit") /\ CheckTaken(Arg[r].check)
       [] o = "currency mismatch" -> ~Is(r, "reverse") /\ ~CurrencyFits(r)
       [] o = "receipt not found" -> Is(r, "reverse") /\ Arg[r].receipt \notin DOMAIN receipts
       [] o = "already reversed" ->
            /\ Is(r, "reverse") /\ Arg[r].receipt \in DOMAIN receipts
            /\ receipts[Arg[r].receipt].status = "rejected"
       [] o = "game not found" -> Is(r, "charge") /\ Arg[r].game \notin games
       [] OTHER -> Is(r, "charge") /\ Arg[r].game \in charged}

Refuse(r) == Answer(r, Refusal(r) \cup {"failed"}) /\ UNCHANGED tables

CreateGame(g) ==
  /\ g \notin games
  /\ games' = games \cup {g}
  /\ UNCHANGED <<receipts, ledger, balances, charged, outcome>>

Next ==
  \/ \E r \in Requests : Credit(r) \/ Reverse(r) \/ Adjust(r) \/ Charge(r) \/ Refuse(r)
  \/ \E g \in Games : CreateGame(g)

Spec == Init /\ [][Next]_ledgerVars
=============================================================================
