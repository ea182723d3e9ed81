------------------------ MODULE BalanceRepoInvariant ------------------------
(***************************************************************************)
(* The inductive invariant of BalanceRepo: what each transaction holds and *)
(* has written at each of its statements, and what the tables then are.    *)
(***************************************************************************)
EXTENDS BalanceRepo

\* Where each operation can be.
LabelsOf(op) ==
  {"idle", "book", "commit", "done"} \cup
    CASE op = "credit" -> {"checkCurrency", "insertHash", "insertCheck"}
      [] op = "adjust" -> {"checkCurrency"}
      [] op = "reverse" -> {"lockReceipt", "markRejected"}
      [] OTHER -> {"lockGame", "selectBalances", "lockBalances", "markCharged"}

AtOwnLabel(r) == pc[r] \in LabelsOf(Arg[r].op)

Ended(r) == pc[r] \in {"idle", "done"}

\* r has written its receipt row: inserted it, or marked it rejected.
WroteReceipt(r) ==
  pc[r] \in {"book", "commit"} /\ (Is(r, "credit") \/ Is(r, "reverse"))

\* r holds the entry of its file in the unique index.
HoldsHash(r) == pc[r] = "insertCheck" \/ (Is(r, "credit") /\ WroteReceipt(r))

HoldsReceipt(r) == pc[r] = "markRejected" \/ (Is(r, "reverse") /\ WroteReceipt(r))

HoldsGame(r) ==
  Is(r, "charge") /\ pc[r] \in {"selectBalances", "lockBalances", "book", "markCharged", "commit"}

NothingHeldOutside(r) == Ended(r) => locks[r] = {} /\ writes[r] = NoWrites

\* An upload in progress: nobody has committed its file or its check number.
CreditInv(r) ==
  /\ HoldsHash(r) => HashKey(Arg[r].hash) \in locks[r] /\ ~HashTaken(Arg[r].hash)
  /\ Is(r, "credit") /\ WroteReceipt(r) =>
       /\ CheckKeys(Arg[r].check) \subseteq locks[r]
       /\ ~CheckTaken(Arg[r].check)
       /\ writes[r].receipts = [i \in {r} |-> NewReceipt(r)]

\* A reversal in progress: its receipt stays as it was locked.
ReverseInv(r) ==
  LET i == Arg[r].receipt
  IN  /\ HoldsReceipt(r) =>
           i \in DOMAIN receipts /\ receipts[i].status = "credited" /\ ReceiptRef(i) \in locks[r]
      /\ Is(r, "reverse") /\ WroteReceipt(r) =>
           /\ ReceiptKeys(receipts[i]) \subseteq locks[r]
           /\ writes[r].receipts = [j \in {i} |-> [receipts[i] EXCEPT !.status = "rejected"]]

\* A charge in progress: its game stays uncharged.
ChargeInv(r) ==
  /\ HoldsGame(r) =>
       /\ Arg[r].game \in games /\ Arg[r].game \notin charged
       /\ GameRef(Arg[r].game) \in locks[r]
  /\ writes[r].charged =
       (IF Is(r, "charge") /\ pc[r] = "commit" THEN {Arg[r].game} ELSE {})

\* The entries r has booked are those of its payers, each under the row lock.
BookInv(r) ==
  LET booked == DOMAIN writes[r].balances
  IN  /\ writes[r].ledger = {NewEntry(r, u) : u \in booked}
      /\ booked # {} => pc[r] \in {"book", "markCharged", "commit"}
      /\ pc[r] \in {"book", "markCharged", "commit"} => booked \subseteq Payers(r)
      /\ pc[r] \in {"markCharged", "commit"} => booked = Payers(r)
      /\ writes[r].receipts # [i \in {} |-> {}] => WroteReceipt(r)

\* Only an upload or a reversal that wrote its receipt holds unique keys.
KeyInv(r) ==
  /\ \A h \in Hashes : HashKey(h) \in locks[r] =>
       \/ HoldsHash(r) /\ h = Arg[r].hash
       \/ Is(r, "reverse") /\ WroteReceipt(r) /\ h = receipts[Arg[r].receipt].hash
  /\ \A k \in CheckNumbers : CheckKey(k) \in locks[r] =>
       \/ Is(r, "credit") /\ WroteReceipt(r) /\ k = Arg[r].check
       \/ Is(r, "reverse") /\ WroteReceipt(r) /\ k = receipts[Arg[r].receipt].check

\* A request's rows are committed when it ends, not before.
CommittedAtEnd ==
  /\ \A i \in DOMAIN receipts : pc[i] = "done"
  /\ \A e \in ledger : pc[e.by] = "done"

TxInv(r) ==
  /\ AtOwnLabel(r) /\ NothingHeldOutside(r)
  /\ CreditInv(r) /\ ReverseInv(r) /\ ChargeInv(r) /\ BookInv(r) /\ KeyInv(r)

IInv ==
  /\ TypeOK
  /\ \A r \in Requests : TxInv(r)
  /\ LocksExclusive
  /\ CommittedAtEnd
  /\ ReceiptsUnique
  /\ ReceiptsBooked
  /\ GameBookedOnce
=============================================================================
