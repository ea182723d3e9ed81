------------------------- MODULE LedgerClientProofs -------------------------
(***************************************************************************)
(* Theorems about the two modules that use the repository through its      *)
(* abstract specification Ledger: what TLC checks of ReceiptUpload on six  *)
(* requests, and of BalanceReads for a few readers, for any users,         *)
(* requests, files, amounts and limits.                                    *)
(***************************************************************************)
EXTENDS ReceiptUpload, BalanceReads, SumProofs

(***************************************************************************)
(* What a request writes has the types of the tables.                      *)
(***************************************************************************)
\* What a request asks for, by operation.
LEMMA ArgIs ==
  ASSUME NEW r \in Requests
  PROVE  /\ Is(r, "credit") \/ Is(r, "adjust") =>
              Arg[r].user \in Users /\ Arg[r].amount \in Int /\ Arg[r].currency \in Currencies
         /\ Is(r, "credit") =>
              Arg[r].hash \in Hashes /\ Arg[r].check \in CheckNumbers \cup {NoCheck}
         /\ Is(r, "charge") =>
              /\ Arg[r].game \in Games
              /\ DOMAIN Arg[r].shares \subseteq Users /\ DOMAIN Arg[r].shares # {}
              /\ IsFiniteSet(DOMAIN Arg[r].shares)
              /\ \A u \in DOMAIN Arg[r].shares : Arg[r].shares[u] \in Nat \ {0}
         /\ Is(r, "credit") \/ Is(r, "adjust") \/ Is(r, "reverse") \/ Is(r, "charge")
<1>1. CASE Arg[r] \in CreditArg
  BY <1>1 DEF CreditArg, Is
<1>2. CASE Arg[r] \in ReverseArg
  BY <1>2 DEF ReverseArg, Is
<1>3. CASE Arg[r] \in AdjustArg
  BY <1>3 DEF AdjustArg, Is
<1>4. CASE IsChargeArg(Arg[r])
  BY <1>4 DEF IsChargeArg, Is
<1> QED BY <1>1, <1>2, <1>3, <1>4, ArgAssumption

Readable(r) == Is(r, "reverse") => Arg[r].receipt \in DOMAIN receipts

LEMMA EntryIs ==
  ASSUME NEW r \in Requests, TablesTypeOK, Readable(r), NEW u \in Payers(r)
  PROVE  /\ u \in Users /\ Delta(r, u) \in Int /\ CurrencyOf(r) \in Currencies
         /\ NewEntry(r, u) \in EntryRow
         /\ NewEntry(r, u).user = u /\ NewEntry(r, u).by = r /\ NewEntry(r, u).amount = Delta(r, u)
         /\ NewEntry(r, u).kind = KindOf(r)
         /\ KindOf(r) = "game_charge" <=> Is(r, "charge")
         /\ Is(r, "charge") => Delta(r, u) < 0
         /\ Upserted(r, u) \in BalanceRow
<1> USE ArgIs, CurrencyAssumption
<1>1. u \in Users /\ Delta(r, u) \in Int /\ (Is(r, "charge") => Delta(r, u) < 0)
  <2>1. CASE Is(r, "charge")
    BY <2>1 DEF Payers, Delta
  <2>2. CASE Is(r, "reverse")
    BY <2>2 DEF TablesTypeOK, Readable, Payers, Delta, ReceiptRow, Is
  <2>3. CASE Is(r, "credit") \/ Is(r, "adjust")
    BY <2>3 DEF Payers, Delta, Is
  <2> QED BY <2>1, <2>2, <2>3
<1>2. CurrencyOf(r) \in Currencies
  BY DEF TablesTypeOK, Readable, CurrencyOf, ReceiptRow, Is
<1>3. /\ KindOf(r) \in {"receipt_credit", "receipt_reversal", "admin_adjustment", "game_charge"}
      /\ KindOf(r) = "game_charge" <=> Is(r, "charge")
  BY DEF KindOf
<1>4. RefOf(r) \in {NoRef} \cup {ReceiptRef(i) : i \in Requests} \cup {GameRef(g) : g \in Games}
  <2>1. CASE Is(r, "charge")
    BY <2>1 DEF RefOf
  <2>2. CASE Is(r, "reverse")
    BY <2>2 DEF RefOf, Readable, TablesTypeOK, Is
  <2>3. CASE Is(r, "credit") \/ Is(r, "adjust")
    BY <2>3 DEF RefOf, Is
  <2> QED BY <2>1, <2>2, <2>3
<1>5. NewEntry(r, u) \in EntryRow
  BY <1>1, <1>2, <1>3, <1>4 DEF NewEntry, EntryRow
<1>6. Upserted(r, u) \in BalanceRow
  BY <1>1, <1>2 DEF Upserted, BalanceRow, TablesTypeOK
<1> QED BY <1>1, <1>2, <1>3, <1>5, <1>6 DEF NewEntry

\* What every request writes, and what it does to the receipts.
Writes(r) ==
  /\ ledger' = ledger \cup {NewEntry(r, u) : u \in Payers(r)}
  /\ balances' = Overlay([u \in Payers(r) |-> Upserted(r, u)], balances)
  /\ games' = games

ReceiptsChange(r) ==
  \/ Is(r, "credit") /\ receipts' = Overlay([i \in {r} |-> NewReceipt(r)], receipts)
  \/ receipts' = [receipts EXCEPT ![Arg[r].receipt].status = "rejected"]
  \/ receipts' = receipts

LEMMA RowsKept ==
  ASSUME TablesTypeOK, NEW r \in Requests, Readable(r), Writes(r), ReceiptsChange(r),
         charged' = charged \/ \E g \in games : charged' = charged \cup {g}
  PROVE  TablesTypeOK'
<1>1. ledger' \subseteq EntryRow
  BY EntryIs DEF Writes, TablesTypeOK
<1>2. /\ balances' = [u \in DOMAIN balances' |-> balances'[u]] /\ DOMAIN balances' \subseteq Users
      /\ \A u \in DOMAIN balances' : balances'[u] \in BalanceRow
  BY EntryIs DEF Writes, TablesTypeOK, Overlay
<1>3. /\ receipts' = [i \in DOMAIN receipts' |-> receipts'[i]] /\ DOMAIN receipts' \subseteq Requests
      /\ \A i \in DOMAIN receipts' : receipts'[i] \in ReceiptRow
  <2>1. CASE Is(r, "credit") /\ receipts' = Overlay([i \in {r} |-> NewReceipt(r)], receipts)
    <3>1. NewReceipt(r) \in ReceiptRow
      BY <2>1, ArgIs DEF NewReceipt, ReceiptRow
    <3> QED BY <2>1, <3>1 DEF Overlay, TablesTypeOK
  <2>2. CASE receipts' = [receipts EXCEPT ![Arg[r].receipt].status = "rejected"]
    <3> DEFINE i == Arg[r].receipt
               row == [receipts[i] EXCEPT !.status = "rejected"]
    <3>1. i \in DOMAIN receipts => row \in ReceiptRow
      BY DEF TablesTypeOK, ReceiptRow
    <3>2. receipts' = [receipts EXCEPT ![i] = row]
      BY <2>2
    <3> HIDE DEF i, row
    <3> QED BY <3>1, <3>2 DEF TablesTypeOK
  <2>3. CASE receipts' = receipts
    BY <2>3 DEF TablesTypeOK
  <2> QED BY <2>1, <2>2, <2>3 DEF ReceiptsChange
<1>4. games' \subseteq Games /\ charged' \subseteq games'
  BY DEF Writes, TablesTypeOK
<1> QED BY <1>1, <1>2, <1>3, <1>4 DEF TablesTypeOK

(***************************************************************************)
(* ReceiptUpload.                                                          *)
(***************************************************************************)
Outcomes ==
  {"none", "ok", "failed", "duplicate file", "duplicate check number", "currency mismatch",
   "receipt not found", "already reversed", "game not found", "already charged"}

\* The errors that are answered with 409.
Conflicting == {"duplicate file", "duplicate check number", "already reversed"}

Types ==
  /\ outcome \in [Requests -> Outcomes]
  /\ step \in [Requests -> {"idle", "answered", "lost"} \cup Running]
  /\ response \in [Requests -> {0, 200, 201, 400, 401, 404, 409, 422, 500, 503}]
  /\ objects \subseteq Uploads

Booked(r) == \E e \in ledger : e.by = r

\* Before its call of the repository a request has no outcome and no answer, and
\* it has an object exactly between the upload and that call.
Before(r) ==
  /\ step[r] \in {"idle", "precheck", "parse", "upload", "credit", "user", "adjust"} =>
       response[r] = 0 /\ outcome[r] = "none"
  /\ step[r] \in {"idle", "precheck", "parse", "upload", "user", "adjust"} => r \notin objects
  /\ step[r] = "credit" => r \in objects
  /\ step[r] \in {"precheck", "parse", "upload", "credit", "delete"} => Is(r, "credit")
  /\ step[r] \in {"user", "adjust"} => Is(r, "adjust")

\* After it the outcome bounds the answer and what is stored.
After(r) ==
  /\ step[r] = "delete" => outcome[r] \notin {"none", "ok"} /\ response[r] = 0
  /\ Booked(r) \/ r \in DOMAIN receipts => outcome[r] \in {"ok", "failed"}
  /\ r \in DOMAIN receipts => Is(r, "credit")
  /\ outcome[r] = "ok" =>
       /\ Booked(r) /\ step[r] = "answered" /\ response[r] \in {200, 201}
       /\ Is(r, "credit") => r \in objects /\ r \in DOMAIN receipts
  /\ response[r] \in {200, 201} => outcome[r] = "ok"
  /\ response[r] = 201 => Is(r, "credit")
  /\ outcome[r] = "failed" => response[r] \in {0, 500}
  /\ step[r] \in {"answered", "lost"} /\ r \in objects => r \in troubled \/ r \in DOMAIN receipts

\* The other request a 409 speaks of.
Preceded(r) ==
  \/ \E i \in DOMAIN receipts \ {r} :
       /\ Is(r, "credit")
       /\ \/ receipts[i].hash = Arg[r].hash
          \/ Arg[r].check # NoCheck /\ receipts[i].check = Arg[r].check
  \/ \E e \in ledger :
       /\ Is(r, "reverse")
       /\ e.kind = "receipt_reversal" /\ e.ref = ReceiptRef(Arg[r].receipt)

Conflicts(r) ==
  response[r] = 409 \/ outcome[r] \in Conflicting
    => Preceded(r)

\* A receipt is a row, and a rejected one has its reversal in the ledger.
Rows ==
  \A i \in DOMAIN receipts :
    /\ {"hash", "check", "status"} \subseteq DOMAIN receipts[i]
    /\ receipts[i].status = "rejected" =>
         \E e \in ledger : e.kind = "receipt_reversal" /\ e.ref = ReceiptRef(i)

IInv ==
  /\ Types
  /\ DOMAIN receipts \subseteq Requests
  /\ \A r \in Requests : Before(r) /\ After(r) /\ Conflicts(r)
  /\ Rows
(***************************************************************************)
(* What a call of the repository leaves behind.                            *)
(***************************************************************************)
\* Nothing of another request changes, and what the outcome of r says is true.
Effect(r) ==
  /\ outcome[r] = "none"
  /\ outcome' \in [Requests -> Outcomes] /\ outcome'[r] # "none"
  /\ \A q \in Requests \ {r} : outcome'[q] = outcome[q]
  /\ ledger \subseteq ledger' /\ \A e \in ledger' \ ledger : e.by = r
  /\ DOMAIN receipts \subseteq DOMAIN receipts' /\ DOMAIN receipts' \subseteq DOMAIN receipts \cup {r}
  /\ \A i \in DOMAIN receipts :
       receipts'[i].hash = receipts[i].hash /\ receipts'[i].check = receipts[i].check
  /\ Booked(r)' \/ r \in DOMAIN receipts' => outcome'[r] \in {"ok", "failed"}
  /\ r \in DOMAIN receipts' => Is(r, "credit")
  /\ outcome'[r] = "ok" => Booked(r)' /\ (Is(r, "credit") => r \in DOMAIN receipts')
  /\ outcome'[r] \in Conflicting => Preceded(r)'
  /\ Rows'

LEMMA ConflictingFacts ==
  "none" \notin Conflicting /\ "ok" \notin Conflicting /\ "failed" \notin Conflicting
BY Zenon DEF Conflicting

\* The instance Repo names the operators of BalanceTables anew.
LEMMA SameOperators ==
  /\ \A r, op : Repo!Is(r, op) <=> Is(r, op)
  /\ \A r : Repo!Payers(r) = Payers(r) /\ Repo!NewReceipt(r) = NewReceipt(r)
  /\ \A r, u : Repo!NewEntry(r, u) = NewEntry(r, u) /\ Repo!Upserted(r, u) = Upserted(r, u)
  /\ \A a, b : Repo!Overlay(a, b) = Overlay(a, b)
<1>1. \A r, op : Repo!Is(r, op) <=> Is(r, op)
  BY DEF Repo!Is, Is
<1>2. \A r : Repo!Payers(r) = Payers(r)
  BY <1>1 DEF Repo!Payers, Payers
<1>3. \A r : Repo!NewReceipt(r) = NewReceipt(r)
  BY DEF Repo!NewReceipt, NewReceipt
<1>4. \A r, u : Repo!Delta(r, u) = Delta(r, u)
  BY <1>1 DEF Repo!Delta, Delta
<1>5. \A r : Repo!CurrencyOf(r) = CurrencyOf(r)
  BY <1>1 DEF Repo!CurrencyOf, CurrencyOf
<1>6. \A r : Repo!KindOf(r) = KindOf(r)
  BY <1>1 DEF Repo!KindOf, KindOf
<1>7. \A r : Repo!RefOf(r) = RefOf(r)
  BY <1>1 DEF Repo!RefOf, RefOf, Repo!GameRef, GameRef, Repo!ReceiptRef, ReceiptRef, Repo!NoRef, NoRef
<1>8. \A r, u : Repo!NewEntry(r, u) = NewEntry(r, u)
  BY <1>4, <1>5, <1>6, <1>7 DEF Repo!NewEntry, NewEntry
<1>9. \A r, u : Repo!Upserted(r, u) = Upserted(r, u)
  BY <1>4, <1>5 DEF Repo!Upserted, Upserted
<1>10. \A a, b : Repo!Overlay(a, b) = Overlay(a, b)
  BY DEF Repo!Overlay, Overlay
<1>11. QED
  BY <1>1, <1>2, <1>3, <1>8, <1>9, <1>10

LEMMA AnswerFacts ==
  ASSUME IInv, NEW r \in Requests, NEW os \in SUBSET Outcomes, "none" \notin os,
         Repo!Answer(r, os)
  PROVE  /\ outcome[r] = "none" /\ outcome' \in [Requests -> Outcomes]
         /\ outcome'[r] \in os /\ outcome'[r] # "none"
         /\ \A q \in Requests \ {r} : outcome'[q] = outcome[q]
         /\ r \notin DOMAIN receipts /\ ~Booked(r)
<1>1. PICK o \in os : outcome[r] = "none" /\ outcome' = [outcome EXCEPT ![r] = o]
  BY DEF Repo!Answer
<1>2. outcome \in [Requests -> Outcomes]
  BY DEF IInv, Types
<1>3. r \notin DOMAIN receipts /\ ~Booked(r)
  BY <1>1 DEF IInv, After
<1>4. QED
  BY <1>1, <1>2, <1>3

\* The rows a request books: one for each payer.
LEMMA BookFacts ==
  ASSUME NEW r \in Requests, Repo!BookAll(r)
  PROVE  /\ ledger \subseteq ledger' /\ \A e \in ledger' \ ledger : e.by = r
         /\ \A u \in Payers(r) : NewEntry(r, u) \in ledger' /\ NewEntry(r, u).by = r
BY SameOperators DEF Repo!BookAll, NewEntry

LEMMA CreditEffect ==
  ASSUME IInv, NEW r \in Requests, Repo!Credit(r)
  PROVE  Effect(r)
<1>1. Is(r, "credit") /\ Repo!Answer(r, {"ok", "failed"}) /\ Repo!BookAll(r)
  BY SameOperators DEF Repo!Credit, Repo!Overlay, Overlay
<1>2. receipts' = Overlay([i \in {r} |-> NewReceipt(r)], receipts)
  BY SameOperators DEF Repo!Credit, Repo!Overlay, Overlay
<1>3. /\ outcome[r] = "none" /\ outcome' \in [Requests -> Outcomes] /\ outcome'[r] \in {"ok", "failed"}
      /\ \A q \in Requests \ {r} : outcome'[q] = outcome[q]
      /\ r \notin DOMAIN receipts
  BY <1>1, AnswerFacts DEF Outcomes
<1>4. /\ DOMAIN receipts' = DOMAIN receipts \cup {r}
      /\ receipts'[r] = NewReceipt(r)
      /\ \A i \in DOMAIN receipts : receipts'[i] = receipts[i]
  BY <1>2, <1>3 DEF Overlay
<1>5. Booked(r)'
  <2>1. Payers(r) = {Arg[r].user}
    BY <1>1 DEF Payers, Is
  <2>2. QED
    BY <1>1, <2>1, BookFacts DEF Booked
<1>6. ledger \subseteq ledger' /\ \A e \in ledger' \ ledger : e.by = r
  BY <1>1, BookFacts
<1>7. Rows'
  <2>1. /\ {"hash", "check", "status"} \subseteq DOMAIN NewReceipt(r)
        /\ NewReceipt(r).status = "credited"
    BY DEF NewReceipt
  <2>2. QED
    BY <1>4, <1>6, <2>1 DEF IInv, Rows
<1>8. QED
  BY <1>1, <1>3, <1>4, <1>5, <1>6, <1>7, ConflictingFacts DEF Effect

LEMMA AdjustEffect ==
  ASSUME IInv, NEW r \in Requests, Repo!Adjust(r)
  PROVE  Effect(r)
<1>1. Is(r, "adjust") /\ Repo!Answer(r, {"ok", "failed"}) /\ Repo!BookAll(r) /\ receipts' = receipts
  BY SameOperators DEF Repo!Adjust
<1>2. /\ outcome[r] = "none" /\ outcome' \in [Requests -> Outcomes] /\ outcome'[r] \in {"ok", "failed"}
      /\ \A q \in Requests \ {r} : outcome'[q] = outcome[q]
      /\ r \notin DOMAIN receipts
  BY <1>1, AnswerFacts DEF Outcomes
<1>3. Payers(r) = {Arg[r].user} /\ ~Is(r, "credit")
  BY <1>1 DEF Payers, Is
<1>4. Booked(r)'
  BY <1>1, <1>3, BookFacts DEF Booked
<1>5. ledger \subseteq ledger' /\ \A e \in ledger' \ ledger : e.by = r
  BY <1>1, BookFacts
<1>6. Rows'
  BY <1>1, <1>5 DEF IInv, Rows
<1>7. QED
  BY <1>1, <1>2, <1>3, <1>4, <1>5, <1>6, ConflictingFacts DEF Effect

LEMMA ReverseEffect ==
  ASSUME IInv, NEW r \in Requests, Repo!Reverse(r)
  PROVE  Effect(r)
<1> DEFINE i == Arg[r].receipt
<1>1. /\ Is(r, "reverse") /\ i \in DOMAIN receipts
      /\ Repo!Answer(r, {"ok", "failed"}) /\ Repo!BookAll(r)
      /\ receipts' = [receipts EXCEPT ![i].status = "rejected"]
  BY SameOperators DEF Repo!Reverse
<1>2. /\ outcome[r] = "none" /\ outcome' \in [Requests -> Outcomes] /\ outcome'[r] \in {"ok", "failed"}
      /\ \A q \in Requests \ {r} : outcome'[q] = outcome[q]
      /\ r \notin DOMAIN receipts
  BY <1>1, AnswerFacts DEF Outcomes
<1>3. /\ Payers(r) = {receipts[i].user} /\ ~Is(r, "credit")
      /\ KindOf(r) = "receipt_reversal" /\ RefOf(r) = ReceiptRef(i)
  BY <1>1 DEF Payers, Is, KindOf, RefOf
<1>4. /\ NewEntry(r, receipts[i].user) \in ledger'
      /\ NewEntry(r, receipts[i].user).by = r
      /\ NewEntry(r, receipts[i].user).kind = "receipt_reversal"
      /\ NewEntry(r, receipts[i].user).ref = ReceiptRef(i)
  BY <1>1, <1>3, BookFacts DEF NewEntry
<1>5. ledger \subseteq ledger' /\ \A e \in ledger' \ ledger : e.by = r
  BY <1>1, BookFacts
<1>6. /\ DOMAIN receipts' = DOMAIN receipts
      /\ \A k \in DOMAIN receipts \ {i} : receipts'[k] = receipts[k]
      /\ receipts'[i] = [receipts[i] EXCEPT !.status = "rejected"]
  BY <1>1
<1>7. {"hash", "check", "status"} \subseteq DOMAIN receipts[i]
  BY <1>1 DEF IInv, Rows
<1>8. /\ DOMAIN receipts'[i] = DOMAIN receipts[i]
      /\ receipts'[i].hash = receipts[i].hash /\ receipts'[i].check = receipts[i].check
  BY <1>6, <1>7
<1>9. Rows'
  BY <1>4, <1>5, <1>6, <1>7, <1>8 DEF IInv, Rows
<1>10. Booked(r)'
  BY <1>4 DEF Booked
<1>11. QED
  BY <1>1, <1>2, <1>3, <1>5, <1>6, <1>8, <1>9, <1>10, ConflictingFacts DEF Effect

LEMMA RefuseEffect ==
  ASSUME IInv, NEW r \in Requests, Repo!Refuse(r)
  PROVE  Effect(r) /\ UNCHANGED tables
<1>1. Repo!Answer(r, Repo!Refusal(r) \cup {"failed"}) /\ UNCHANGED tables
  BY DEF Repo!Refuse, Repo!tables, tables
<1>2. Repo!Refusal(r) \cup {"failed"} \in SUBSET Outcomes /\ "none" \notin Repo!Refusal(r) \cup {"failed"}
  BY DEF Repo!Refusal, Outcomes
<1>3. /\ outcome[r] = "none" /\ outcome' \in [Requests -> Outcomes]
      /\ outcome'[r] \in Repo!Refusal(r) \cup {"failed"}
      /\ \A q \in Requests \ {r} : outcome'[q] = outcome[q]
      /\ r \notin DOMAIN receipts /\ ~Booked(r)
  BY <1>1, <1>2, AnswerFacts
<1>4. receipts' = receipts /\ ledger' = ledger
  BY <1>1 DEF tables
<1>5. ASSUME outcome'[r] \in Conflicting
      PROVE  Preceded(r)
  <2>1. outcome'[r] \in Repo!Refusal(r)
    BY <1>3, <1>5, ConflictingFacts
  <2>2. CASE outcome'[r] = "duplicate file"
    BY <1>3, <2>1, <2>2, SameOperators DEF Repo!Refusal, Repo!HashTaken, Preceded
  <2>3. CASE outcome'[r] = "duplicate check number"
    BY <1>3, <2>1, <2>3, SameOperators DEF Repo!Refusal, Repo!CheckTaken, Preceded
  <2>4. CASE outcome'[r] = "already reversed"
    BY <2>1, <2>4, SameOperators DEF Repo!Refusal, Preceded, IInv, Rows
  <2>5. QED
    BY <1>5, <2>2, <2>3, <2>4 DEF Conflicting
<1>6. Rows' /\ (Booked(r)' <=> Booked(r)) /\ (Preceded(r)' <=> Preceded(r))
  BY <1>4 DEF IInv, Rows, Booked, Preceded
<1>7. outcome'[r] # "none" /\ outcome'[r] # "ok"
  BY <1>3 DEF Repo!Refusal
<1>8. QED
  BY <1>1, <1>3, <1>4, <1>5, <1>6, <1>7, ConflictingFacts DEF Effect

(***************************************************************************)
(* What a step keeps of the requests it is not about.                      *)
(***************************************************************************)
Kept(q) ==
  /\ step'[q] = step[q] /\ response'[q] = response[q] /\ outcome'[q] = outcome[q]
  /\ q \in objects' <=> q \in objects
  /\ q \in troubled => q \in troubled'
  /\ Booked(q)' <=> Booked(q)
  /\ q \in DOMAIN receipts' <=> q \in DOMAIN receipts
  /\ Preceded(q) => Preceded(q)'

LEMMA KeptInvariant ==
  ASSUME NEW q \in Requests, Before(q), After(q), Conflicts(q), Kept(q)
  PROVE  Before(q)' /\ After(q)' /\ Conflicts(q)'
<1>1. Before(q)'
  BY DEF Before, Kept
<1>2. After(q)'
  BY DEF After, Kept
<1>3. Conflicts(q)'
  BY DEF Conflicts, Kept
<1>4. QED
  BY <1>1, <1>2, <1>3

LEMMA SameTables ==
  ASSUME UNCHANGED tables
  PROVE  /\ receipts' = receipts
         /\ \A q : (Booked(q)' <=> Booked(q)) /\ (Preceded(q)' <=> Preceded(q))
         /\ Rows' <=> Rows
BY DEF tables, Booked, Preceded, Rows

LEMMA EffectOnOthers ==
  ASSUME IInv, NEW r \in Requests, Effect(r), NEW q \in Requests, q # r
  PROVE  /\ outcome'[q] = outcome[q]
         /\ Booked(q)' <=> Booked(q)
         /\ q \in DOMAIN receipts' <=> q \in DOMAIN receipts
         /\ Preceded(q) => Preceded(q)'
BY DEF Effect, Booked, Preceded

Labels == {"idle", "answered", "lost"} \cup Running
Statuses == {0, 200, 201, 400, 401, 404, 409, 422, 500, 503}

\* r goes to s, with answer a.
Moves(r, s, a) ==
  /\ s \in Labels /\ a \in Statuses
  /\ step' = [step EXCEPT ![r] = s] /\ response' = [response EXCEPT ![r] = a]

\* The objects of the others, and the trouble, remain.
ObjectsKept(r) ==
  /\ objects' \subseteq Uploads /\ \A q \in Requests \ {r} : q \in objects' <=> q \in objects
  /\ troubled \subseteq troubled'

\* A step of r that changes neither the tables nor the outcomes.
LEMMA LocalStep ==
  ASSUME IInv, NEW r \in Requests, NEW s, NEW a, Moves(r, s, a), ObjectsKept(r),
         UNCHANGED tables, UNCHANGED outcome,
         Before(r)', After(r)', Conflicts(r)'
  PROVE  IInv'
<1>1. Types'
  BY DEF IInv, Types, Moves, ObjectsKept, Labels, Statuses
<1>2. \A q \in Requests \ {r} : Kept(q)
  BY SameTables DEF IInv, Types, Kept, Moves, ObjectsKept
<1>3. \A q \in Requests : Before(q)' /\ After(q)' /\ Conflicts(q)'
  BY <1>2, KeptInvariant DEF IInv
<1>4. QED
  BY <1>1, <1>3, SameTables DEF IInv

\* A step of r that calls the repository.
LEMMA RepositoryStep ==
  ASSUME IInv, NEW r \in Requests, NEW s, NEW a, Moves(r, s, a), ObjectsKept(r), Effect(r),
         Before(r)', After(r)', Conflicts(r)'
  PROVE  IInv'
<1>1. Types'
  <2>1. outcome' \in [Requests -> Outcomes]
    BY DEF Effect
  <2>2. step' \in [Requests -> Labels] /\ response' \in [Requests -> Statuses]
    BY DEF IInv, Types, Moves, Labels, Statuses
  <2>3. objects' \subseteq Uploads
    BY DEF ObjectsKept
  <2>4. QED
    BY <2>1, <2>2, <2>3 DEF Types, Labels, Statuses
<1>2. \A q \in Requests \ {r} : Kept(q)
  BY EffectOnOthers DEF IInv, Types, Kept, Moves, ObjectsKept
<1>3. \A q \in Requests : Before(q)' /\ After(q)' /\ Conflicts(q)'
  BY <1>2, KeptInvariant DEF IInv
<1>4. DOMAIN receipts' \subseteq Requests /\ Rows'
  BY DEF IInv, Effect
<1>5. QED
  BY <1>1, <1>3, <1>4 DEF IInv

(***************************************************************************)
(* One lemma per action.                                                   *)
(***************************************************************************)
LEMMA ReceiveStep ==
  ASSUME IInv, NEW r \in Requests, Receive(r) \/ ReceiveAdjustment(r)
  PROVE  IInv'
<1>1. PICK s \in {"answered", "precheck", "user"}, a \in {0, 400, 401, 500} :
        /\ step[r] = "idle"
        /\ step' = [step EXCEPT ![r] = s] /\ response' = [response EXCEPT ![r] = a]
        /\ s # "answered" => a = 0
        /\ s = "precheck" => Is(r, "credit")
        /\ s = "user" => Is(r, "adjust")
        /\ UNCHANGED <<tables, outcome, objects, troubled>>
  <2>1. step[r] = "idle" /\ response[r] = 0 /\ response = [response EXCEPT ![r] = 0]
    BY DEF Receive, ReceiveAdjustment, IInv, Before, Types
  <2>2. QED
    BY <2>1 DEF Receive, ReceiveAdjustment, Goto, Respond
<1>2. outcome[r] = "none" /\ r \notin objects /\ ~Booked(r) /\ r \notin DOMAIN receipts
  BY <1>1 DEF IInv, Before, After
<1>3. step'[r] = s /\ response'[r] = a
  BY <1>1 DEF IInv, Types
<1>4. Before(r)' /\ After(r)' /\ Conflicts(r)'
  BY <1>1, <1>2, <1>3, SameTables, ConflictingFacts DEF Before, After, Conflicts
<1>5. Moves(r, s, a) /\ ObjectsKept(r)
  BY <1>1 DEF Moves, ObjectsKept, Labels, Statuses, Running, IInv, Types
<1>6. QED
  BY <1>1, <1>4, <1>5, LocalStep

\* The answers of repository errors.
LEMMA StatusFacts ==
  ASSUME NEW o
  PROVE  /\ Status(o) \in {404, 409, 422, 500}
         /\ o = "failed" => Status(o) = 500
         /\ Status(o) = 409 => o \in Conflicting
<1>1. o \in Conflicting => Status(o) = 409
  BY Zenon DEF Status, Conflicting
<1>2. ASSUME o \notin Conflicting
      PROVE  Status(o) = 404 \/ Status(o) = 422 \/ Status(o) = 500
  <2>1. o = "currency mismatch" => Status(o) = 422
    BY Zenon DEF Status
  <2>2. o = "receipt not found" => Status(o) = 404
    BY Zenon DEF Status
  <2>3. o # "currency mismatch" /\ o # "receipt not found" => Status(o) = 500
    BY <1>2, Zenon DEF Status, Conflicting
  <2>4. QED
    BY <2>1, <2>2, <2>3, Zenon
<1>3. o = "failed" => Status(o) = 500
  BY Zenon DEF Status
<1>4. QED
  BY <1>1, <1>2, <1>3

LEMMA QueryStep ==
  ASSUME IInv, NEW r \in Requests, Precheck(r) \/ Parse(r) \/ RequireUser(r)
  PROVE  IInv'
<1>1. PICK s \in {"answered", "parse", "upload", "adjust"}, a \in {0, 404, 409, 422, 500, 503} :
        /\ step[r] \in {"precheck", "parse", "user"}
        /\ step' = [step EXCEPT ![r] = s] /\ response' = [response EXCEPT ![r] = a]
        /\ s # "answered" => a = 0
        /\ s \in {"parse", "upload"} => step[r] \in {"precheck", "parse"}
        /\ s = "adjust" => step[r] = "user"
        /\ a = 409 => step[r] = "precheck" /\ HashTaken(Arg[r].hash)
        /\ UNCHANGED <<tables, outcome, objects, troubled>>
  <2>1. CASE Precheck(r)
    <3>1. response = [response EXCEPT ![r] = 0]
      BY <2>1 DEF Precheck, IInv, Before, Types
    <3>2. QED
      BY <2>1, <3>1 DEF Precheck, Goto, Respond
  <2>2. CASE Parse(r)
    <3>1. response = [response EXCEPT ![r] = 0]
      BY <2>2 DEF Parse, IInv, Before, Types
    <3>2. QED
      BY <2>2, <3>1 DEF Parse, Goto, Respond
  <2>3. CASE RequireUser(r)
    <3>1. response = [response EXCEPT ![r] = 0]
      BY <2>3 DEF RequireUser, IInv, Before, Types
    <3>2. QED
      BY <2>3, <3>1 DEF RequireUser, Goto, Respond
  <2>4. QED
    BY <2>1, <2>2, <2>3
<1>2. outcome[r] = "none" /\ r \notin objects /\ ~Booked(r) /\ r \notin DOMAIN receipts
  BY <1>1 DEF IInv, Before, After
<1>3. step'[r] = s /\ response'[r] = a
  BY <1>1 DEF IInv, Types
<1>4. /\ step[r] \in {"precheck", "parse"} => Is(r, "credit")
      /\ step[r] = "user" => Is(r, "adjust")
  BY DEF IInv, Before
<1>5. Before(r)' /\ After(r)'
  BY <1>1, <1>2, <1>3, <1>4, SameTables DEF Before, After
<1>6. a = 409 => Preceded(r)
  BY <1>1, <1>2, <1>4 DEF HashTaken, Preceded
<1>7. Conflicts(r)'
  BY <1>1, <1>2, <1>3, <1>6, SameTables, ConflictingFacts DEF Conflicts
<1>8. Moves(r, s, a) /\ ObjectsKept(r)
  BY <1>1 DEF Moves, ObjectsKept, Labels, Statuses, Running, IInv, Types
<1>9. QED
  BY <1>1, <1>5, <1>7, <1>8, LocalStep

LEMMA UploadStep ==
  ASSUME IInv, NEW r \in Requests, UploadObject(r)
  PROVE  IInv'
<1>1. /\ step[r] = "upload" /\ response[r] = 0 /\ outcome[r] = "none"
      /\ ~Booked(r) /\ r \notin DOMAIN receipts /\ Is(r, "credit")
      /\ UNCHANGED <<tables, outcome>>
  BY DEF UploadObject, IInv, Before, After
<1>2. response = [response EXCEPT ![r] = 0]
  BY <1>1 DEF IInv, Types
<1>3. PICK s \in {"credit", "answered"}, a \in {0, 500} :
        /\ step' = [step EXCEPT ![r] = s] /\ response' = [response EXCEPT ![r] = a]
        /\ objects' \subseteq objects \cup {r} /\ objects \subseteq objects'
        /\ s = "credit" => a = 0 /\ r \in objects' /\ troubled' = troubled
        /\ s = "answered" => troubled' = troubled \cup {r}
  <2>1. CASE Goto(r, "credit")
    BY <1>2, <2>1 DEF UploadObject, Goto, Respond
  <2>2. CASE Respond(r, 500)
    <3>1. step'[r] # "credit"
      BY <2>2 DEF Respond, IInv, Types
    <3>2. ~Goto(r, "credit")
      BY <3>1 DEF Goto, IInv, Types
    <3>3. PICK stored \in IF r \in cancelled THEN {{}} ELSE {{}, {r}} :
            objects' = objects \cup stored /\ troubled' = troubled \cup {r}
      BY <3>2 DEF UploadObject
    <3>4. QED
      BY <2>2, <3>3 DEF Respond
  <2>3. QED
    BY <2>1, <2>2 DEF UploadObject
<1>4. step'[r] = s /\ response'[r] = a
  BY <1>3 DEF IInv, Types
<1>5. Before(r)' /\ After(r)' /\ Conflicts(r)'
  <2>1. outcome'[r] = "none" /\ ~Booked(r)' /\ r \notin DOMAIN receipts'
    BY <1>1, SameTables
  <2>2. Before(r)'
    BY <1>1, <1>3, <1>4, <2>1 DEF Before
  <2>3. After(r)'
    BY <1>1, <1>3, <1>4, <2>1 DEF After
  <2>4. Conflicts(r)'
    BY <1>4, <2>1, ConflictingFacts DEF Conflicts
  <2>5. QED
    BY <2>2, <2>3, <2>4
<1>6. Moves(r, s, a) /\ ObjectsKept(r)
  BY <1>1, <1>3 DEF Moves, ObjectsKept, Labels, Statuses, Running, IInv, Types, Uploads
<1>7. QED
  BY <1>1, <1>5, <1>6, LocalStep

LEMMA DeleteStep ==
  ASSUME IInv, NEW r \in Requests, DeleteObject(r)
  PROVE  IInv'
<1>1. /\ step[r] = "delete" /\ outcome[r] \notin {"none", "ok"} /\ response[r] = 0 /\ Is(r, "credit")
      /\ Respond(r, Status(outcome[r])) /\ UNCHANGED <<tables, outcome>>
  BY DEF DeleteObject, IInv, Before, After
<1> DEFINE a == Status(outcome[r])
<1>2. /\ a \in {404, 409, 422, 500} /\ (outcome[r] = "failed" => a = 500)
      /\ a = 409 => outcome[r] \in Conflicting
  <2>1. outcome[r] \in Outcomes
    BY DEF IInv, Types
  <2>2. QED
    BY <2>1, StatusFacts
<1> HIDE DEF a
<1>3. step' = [step EXCEPT ![r] = "answered"] /\ response' = [response EXCEPT ![r] = a]
  BY <1>1 DEF Respond, a
<1>4. /\ objects' \subseteq objects /\ objects \ {r} \subseteq objects'
      /\ troubled \subseteq troubled' /\ (r \in objects' => r \in troubled')
  BY DEF DeleteObject
<1>5. step'[r] = "answered" /\ response'[r] = a
  BY <1>3 DEF IInv, Types
<1>6. Before(r)' /\ After(r)'
  <2>1. /\ outcome'[r] = outcome[r] /\ (Booked(r)' <=> Booked(r)) /\ receipts' = receipts
        /\ After(r)
    BY <1>1, SameTables DEF IInv
  <2>2. Before(r)'
    BY <1>5 DEF Before
  <2>3. After(r)'
    BY <1>1, <1>2, <1>4, <1>5, <2>1 DEF After
  <2>4. QED
    BY <2>2, <2>3
<1>7. Conflicts(r)'
  <2>1. Conflicts(r) /\ outcome'[r] = outcome[r] /\ (Preceded(r)' <=> Preceded(r))
    BY <1>1, SameTables DEF IInv
  <2>2. QED
    BY <1>1, <1>2, <1>5, <2>1 DEF Conflicts
<1>8. Moves(r, "answered", a) /\ ObjectsKept(r)
  <2>1. Moves(r, "answered", a)
    BY <1>2, <1>3 DEF Moves, Labels, Statuses
  <2>2. objects' \subseteq Uploads
    BY <1>4 DEF IInv, Types
  <2>3. ObjectsKept(r)
    BY <1>4, <2>2 DEF ObjectsKept
  <2>4. QED
    BY <2>1, <2>3
<1>9. QED
  BY <1>1, <1>6, <1>7, <1>8, LocalStep
\* A call of the repository and what follows it: the answer, or the cleanup of an
\* upload after an error.
LEMMA CallStep ==
  ASSUME IInv, NEW r \in Requests, Effect(r), UNCHANGED <<objects, troubled>>,
         step[r] \in {"idle", "credit", "adjust"},
         NEW s \in {"answered", "delete"}, NEW a \in Statuses,
         step' = [step EXCEPT ![r] = s], response' = [response EXCEPT ![r] = a],
         outcome'[r] = "ok" => s = "answered" /\ a = IF Is(r, "credit") THEN 201 ELSE 200,
         outcome'[r] # "ok" /\ s = "answered" => a = Status(outcome'[r]) /\ step[r] # "credit",
         s = "delete" => outcome'[r] # "ok" /\ a = 0 /\ step[r] = "credit",
         Is(r, "credit") <=> step[r] = "credit"
  PROVE  IInv'
<1>1. step'[r] = s /\ response'[r] = a
  BY DEF IInv, Types
<1>2. r \in objects <=> step[r] = "credit"
  BY DEF IInv, Before
<1>3. /\ outcome'[r] # "none"
      /\ Booked(r)' \/ r \in DOMAIN receipts' => outcome'[r] \in {"ok", "failed"}
      /\ r \in DOMAIN receipts' => Is(r, "credit")
      /\ outcome'[r] = "ok" => Booked(r)' /\ (Is(r, "credit") => r \in DOMAIN receipts')
      /\ outcome'[r] \in Conflicting => Preceded(r)'
  BY DEF Effect
<1>4. /\ Status(outcome'[r]) \in {404, 409, 422, 500}
      /\ outcome'[r] = "failed" => Status(outcome'[r]) = 500
      /\ Status(outcome'[r]) = 409 => outcome'[r] \in Conflicting
  BY StatusFacts
<1>5. Before(r)'
  BY <1>1, <1>2 DEF Before
<1>6. After(r)'
  BY <1>1, <1>2, <1>3, <1>4 DEF After
<1>7. Conflicts(r)'
  BY <1>1, <1>3, <1>4 DEF Conflicts
<1>8. Moves(r, s, a) /\ ObjectsKept(r)
  BY DEF Moves, ObjectsKept, Labels, Running, IInv, Types
<1>9. QED
  BY <1>5, <1>6, <1>7, <1>8, RepositoryStep

LEMMA CreditStep ==
  ASSUME IInv, NEW r \in Requests, CreditReceipt(r)
  PROVE  IInv'
<1>1. /\ step[r] = "credit" /\ (Repo!Credit(r) \/ Repo!Refuse(r))
      /\ IF outcome'[r] = "ok" THEN Respond(r, 201) ELSE Goto(r, "delete")
      /\ UNCHANGED <<objects, troubled>>
  BY DEF CreditReceipt
<1>2. Is(r, "credit") /\ response[r] = 0
  BY <1>1 DEF IInv, Before
<1>3. response = [response EXCEPT ![r] = 0]
  BY <1>2 DEF IInv, Types
<1>4. Effect(r)
  BY <1>1, CreditEffect, RefuseEffect
<1>5. CASE outcome'[r] = "ok"
  BY <1>1, <1>2, <1>4, <1>5, CallStep DEF Respond, Statuses
<1>6. CASE outcome'[r] # "ok"
  BY <1>1, <1>2, <1>3, <1>4, <1>6, CallStep DEF Goto, Statuses
<1>7. QED
  BY <1>5, <1>6

LEMMA AdjustStep ==
  ASSUME IInv, NEW r \in Requests, AdjustBalance(r)
  PROVE  IInv'
<1>1. /\ step[r] = "adjust" /\ (Repo!Adjust(r) \/ Repo!Refuse(r))
      /\ Respond(r, IF outcome'[r] = "ok" THEN 200 ELSE Status(outcome'[r]))
      /\ UNCHANGED <<objects, troubled>>
  BY DEF AdjustBalance
<1>2. Is(r, "adjust") /\ ~Is(r, "credit")
  BY <1>1 DEF IInv, Before, Is
<1>3. Effect(r)
  BY <1>1, AdjustEffect, RefuseEffect
<1>4. (IF outcome'[r] = "ok" THEN 200 ELSE Status(outcome'[r])) \in Statuses
  BY StatusFacts DEF Statuses
<1>5. QED
  BY <1>1, <1>2, <1>3, <1>4, CallStep DEF Respond

LEMMA RejectStep ==
  ASSUME IInv, NEW r \in Requests, RejectReceipt(r)
  PROVE  IInv'
<1>1. /\ step[r] = "idle" /\ Is(r, "reverse") /\ ~Is(r, "credit")
      /\ UNCHANGED <<objects, troubled>>
  BY DEF RejectReceipt, Is
<1>2. CASE Respond(r, 400) /\ UNCHANGED <<tables, outcome>>
  <2>1. /\ outcome[r] = "none" /\ r \notin objects /\ ~Booked(r) /\ r \notin DOMAIN receipts
    BY <1>1 DEF IInv, Before, After
  <2>2. step'[r] = "answered" /\ response'[r] = 400
    BY <1>2 DEF Respond, IInv, Types
  <2>3. Before(r)' /\ After(r)' /\ Conflicts(r)'
    BY <1>1, <1>2, <2>1, <2>2, SameTables, ConflictingFacts DEF Before, After, Conflicts
  <2>4. Moves(r, "answered", 400) /\ ObjectsKept(r)
    BY <1>1, <1>2 DEF Respond, Moves, ObjectsKept, Labels, Statuses, IInv, Types
  <2>5. QED
    BY <1>2, <2>3, <2>4, LocalStep
<1>3. CASE /\ Repo!Reverse(r) \/ Repo!Refuse(r)
           /\ Respond(r, IF outcome'[r] = "ok" THEN 200 ELSE Status(outcome'[r]))
  <2>1. Effect(r)
    BY <1>3, ReverseEffect, RefuseEffect
  <2>2. (IF outcome'[r] = "ok" THEN 200 ELSE Status(outcome'[r])) \in Statuses
    BY StatusFacts DEF Statuses
  <2>3. QED
    BY <1>1, <1>3, <2>1, <2>2, CallStep DEF Respond
<1>4. QED
  BY <1>2, <1>3 DEF RejectReceipt

LEMMA EndStep ==
  ASSUME IInv, (\E r \in Requests : Disconnect(r)) \/ Crash
  PROVE  IInv'
<1>1. /\ UNCHANGED tables /\ UNCHANGED outcome /\ UNCHANGED <<objects, response>>
      /\ troubled \subseteq troubled'
      /\ \A q \in Requests :
           step'[q] = step[q] \/ (step[q] \in Running /\ step'[q] = "lost" /\ q \in troubled')
      /\ step' \in [Requests -> Labels]
  <2>1. CASE \E r \in Requests : Disconnect(r)
    BY <2>1 DEF Disconnect, IInv, Types, Labels
  <2>2. CASE Crash
    BY <2>2 DEF Crash, IInv, Types, Labels
  <2>3. QED
    BY <2>1, <2>2
<1>2. ASSUME NEW q \in Requests, step'[q] = step[q]
      PROVE  Before(q)' /\ After(q)' /\ Conflicts(q)'
  <2>1. Kept(q)
    BY <1>1, <1>2, SameTables DEF Kept
  <2>2. QED
    BY <2>1, KeptInvariant DEF IInv
<1>3. ASSUME NEW q \in Requests, step[q] \in Running, step'[q] = "lost", q \in troubled'
      PROVE  Before(q)' /\ After(q)' /\ Conflicts(q)'
  <2>1. Before(q) /\ After(q) /\ Conflicts(q)
    BY DEF IInv
  <2>2. /\ outcome'[q] = outcome[q] /\ response'[q] = response[q] /\ objects' = objects
        /\ receipts' = receipts /\ (Booked(q)' <=> Booked(q)) /\ (Preceded(q)' <=> Preceded(q))
    BY <1>1, SameTables
  <2>3. outcome[q] # "ok"
    BY <1>3, <2>1 DEF Before, After, Running
  <2>4. QED
    BY <1>3, <2>1, <2>2, <2>3 DEF Before, After, Conflicts
<1>4. Types'
  BY <1>1 DEF IInv, Types, Labels
<1>5. QED
  BY <1>1, <1>2, <1>3, <1>4, SameTables DEF IInv

(***************************************************************************)
(* The theorems.                                                           *)
(***************************************************************************)
LEMMA InitInvariant == Init => IInv
<1> SUFFICES ASSUME Init PROVE IInv
  OBVIOUS
<1>1. /\ receipts = [i \in {} |-> {}] /\ ledger = {}
      /\ outcome = [r \in Requests |-> "none"] /\ step = [r \in Requests |-> "idle"]
      /\ response = [r \in Requests |-> 0] /\ objects = {}
  BY DEF Init, Repo!Init, Repo!TablesInit
<1>2. DOMAIN receipts = {} /\ Rows
  BY <1>1 DEF Rows
<1>3. Types
  BY <1>1 DEF Types, Outcomes
<1>4. \A r \in Requests : Before(r) /\ After(r) /\ Conflicts(r)
  BY <1>1, <1>2, ConflictingFacts DEF Before, After, Conflicts, Booked
<1>5. QED
  BY <1>2, <1>3, <1>4 DEF IInv

LEMMA NextInvariant == IInv /\ [Next]_vars => IInv'
<1> SUFFICES ASSUME IInv, [Next]_vars PROVE IInv'
  OBVIOUS
<1>1. CASE UNCHANGED vars
  <2>1. UNCHANGED tables /\ UNCHANGED <<outcome, step, objects, troubled, response>>
    BY <1>1 DEF vars
  <2>2. \A q \in Requests : Kept(q)
    BY <2>1, SameTables DEF Kept
  <2>3. \A q \in Requests : Before(q)' /\ After(q)' /\ Conflicts(q)'
    BY <2>2, KeptInvariant DEF IInv
  <2>4. QED
    BY <2>1, <2>3, SameTables DEF IInv, Types
<1>2. CASE Next
  BY <1>2, ReceiveStep, QueryStep, UploadStep, CreditStep, DeleteStep, RejectStep, AdjustStep, EndStep
     DEF Next
<1>3. QED
  BY <1>1, <1>2

THEOREM InvariantHolds == Spec => []IInv
BY InitInvariant, NextInvariant, PTL DEF Spec

\* A receipt the repository confirmed keeps its file: only an attempt whose commit
\* was reported as an error, and whose client was not told of success, loses it.
THEOREM ConfirmedKeepFiles == Spec => []ConfirmedReceiptHasFile
<1>1. IInv => ConfirmedReceiptHasFile
  BY DEF IInv, After, ConfirmedReceiptHasFile
<1>2. QED
  BY <1>1, InvariantHolds, PTL

\* An object without a receipt belongs to an attempt that is running, was cut short
\* or met an error of the object store.
THEOREM OrphansAreExplained == Spec => []OrphansExplained
<1>1. IInv => OrphansExplained
  <2> SUFFICES ASSUME IInv, NEW o \in objects \ DOMAIN receipts
               PROVE  step[o] \in Running \/ o \in troubled
    BY DEF OrphansExplained
  <2>1. o \in Requests /\ Before(o) /\ After(o)
    BY DEF IInv, Types, Uploads
  <2>2. QED
    BY <2>1 DEF Before, After, IInv, Types
<1>2. QED
  BY <1>1, InvariantHolds, PTL

\* 200 and 201 mean the request is booked, any other answer but 500 that nothing of
\* it is stored, and 409 that another request did what it asked.
THEOREM AnswersAreTrue == Spec => []AnswerTellsEffect
<1>1. IInv => AnswerTellsEffect
  <2> SUFFICES ASSUME IInv, NEW r \in Requests
               PROVE  LET mine == {e \in ledger : e.by = r}
                      IN  /\ response[r] \in {200, 201} => mine # {}
                          /\ response[r] = 201 => r \in DOMAIN receipts
                          /\ response[r] \notin {0, 200, 201, 500} =>
                               r \notin DOMAIN receipts /\ mine = {}
                          /\ response[r] = 409 => Preceded(r)
    BY DEF AnswerTellsEffect, Preceded
  <2>1. After(r) /\ Conflicts(r)
    BY DEF IInv
  <2>2. (\E e \in ledger : e.by = r) <=> Booked(r)
    BY DEF Booked
  <2>3. QED
    BY <2>1, <2>2 DEF After, Conflicts
<1>2. QED
  BY <1>1, InvariantHolds, PTL

LEMMA SameTypes == ASSUME TablesTypeOK, UNCHANGED tables PROVE TablesTypeOK'
BY DEF tables, TablesTypeOK

LEMMA CallTypes ==
  ASSUME TablesTypeOK, NEW r \in Requests,
         Repo!Credit(r) \/ Repo!Reverse(r) \/ Repo!Adjust(r) \/ Repo!Refuse(r)
  PROVE  TablesTypeOK'
<1>1. CASE Repo!Refuse(r)
  BY <1>1, SameTypes DEF Repo!Refuse, Repo!tables, tables
<1>2. CASE Repo!Credit(r) \/ Repo!Reverse(r) \/ Repo!Adjust(r)
  <2>1. Writes(r) /\ charged' = charged
    BY <1>2, SameOperators DEF Repo!Credit, Repo!Reverse, Repo!Adjust, Repo!BookAll, Writes
  <2>2. Readable(r)
    BY <1>2, SameOperators DEF Repo!Credit, Repo!Reverse, Repo!Adjust, Readable, Is
  <2>3. ReceiptsChange(r)
    BY <1>2, SameOperators DEF Repo!Credit, Repo!Reverse, Repo!Adjust, ReceiptsChange
  <2> QED BY <2>1, <2>2, <2>3, RowsKept
<1> QED BY <1>1, <1>2

LEMMA UploadTypes ==
  TablesTypeOK /\ cancelled \subseteq Requests /\ troubled \subseteq Requests /\ [Next]_vars
    => (TablesTypeOK /\ cancelled \subseteq Requests /\ troubled \subseteq Requests)'
<1> SUFFICES ASSUME TablesTypeOK, cancelled \subseteq Requests, troubled \subseteq Requests,
                    [Next]_vars
             PROVE  TablesTypeOK' /\ cancelled' \subseteq Requests /\ troubled' \subseteq Requests
  OBVIOUS
<1>1. cancelled' \subseteq Requests /\ troubled' \subseteq Requests
  BY DEF Next, vars, Receive, Precheck, Parse, UploadObject, CreditReceipt, DeleteObject,
         Disconnect, Crash, RejectReceipt, ReceiveAdjustment, RequireUser, AdjustBalance
<1>2. CASE UNCHANGED tables
  BY <1>1, <1>2, SameTypes
<1>3. ASSUME NEW r \in Requests, CreditReceipt(r) \/ RejectReceipt(r) \/ AdjustBalance(r)
      PROVE  TablesTypeOK'
  BY <1>2, <1>3, CallTypes DEF CreditReceipt, RejectReceipt, AdjustBalance
<1>4. UNCHANGED tables \/ \E r \in Requests : CreditReceipt(r) \/ RejectReceipt(r) \/ AdjustBalance(r)
  BY DEF Next, vars, Receive, Precheck, Parse, UploadObject, DeleteObject, Disconnect, Crash,
         ReceiveAdjustment, RequireUser
<1> QED BY <1>1, <1>2, <1>3, <1>4

\* Every variable keeps its type: a call of the repository writes rows of the tables'
\* types, and nothing else touches them.
THEOREM UploadTypeCorrect == Spec => []TypeOK
<1>1. Init => TablesTypeOK /\ cancelled \subseteq Requests /\ troubled \subseteq Requests
  BY DEF Init, Repo!Init, Repo!TablesInit, TablesTypeOK
<1>2. /\ TablesTypeOK /\ cancelled \subseteq Requests /\ troubled \subseteq Requests /\ IInv
      => TypeOK
  BY DEF IInv, Types, TypeOK
<1> QED BY <1>1, <1>2, UploadTypes, InvariantHolds, PTL DEF Spec

-----------------------------------------------------------------------------
(***************************************************************************)
(* BalanceReads.  The invariant has two parts: the tables, which readers   *)
(* do not change, and what has been shown, against the tables as they have *)
(* become since.                                                           *)
(***************************************************************************)
EntriesFor(u) == {e \in ledger : e.user = u}
GamePayments(u) == Entries(u, {"game_charge"})
PlayersOf(g) == {e \in ledger : e.ref = GameRef(g) /\ e.kind = "game_charge"}
ChargeOf(r) == {NewEntry(r, u) : u \in DOMAIN Arg[r].shares}

\* A request takes effect when it is answered, and once.
Once ==
  /\ answers \in [Requests -> {"none", "ok"}]
  /\ \A e \in ledger : answers[e.by] = "ok"
  /\ \A i \in DOMAIN receipts : answers[i] = "ok"

\* A balance is the sum of the entries, and a charge takes money away.
Books ==
  /\ IsFiniteSet(ledger)
  /\ \A u \in DOMAIN balances : balances[u].amount = SumOf(EntriesFor(u))
  /\ \A e \in ledger : e.user \in DOMAIN balances /\ (e.kind = "game_charge" => e.amount < 0)

GamesBooked ==
  \A g \in Games :
    IF g \in charged
    THEN \E r \in Requests : Is(r, "charge") /\ Arg[r].game = g /\ PlayersOf(g) = ChargeOf(r)
    ELSE PlayersOf(g) = {}

\* The receipts are in a strict total order.
Ordered ==
  /\ IsFiniteSet(DOMAIN receipts)
  /\ newer \in [DOMAIN receipts -> SUBSET DOMAIN receipts]
  /\ \A i \in DOMAIN receipts : i \notin newer[i]
  /\ \A i, j \in DOMAIN receipts : i = j \/ i \in newer[j] \/ j \in newer[i]
  /\ \A i \in DOMAIN receipts : \A j \in newer[i] : newer[j] \subseteq newer[i]

TablesInv == TablesTypeOK /\ Once /\ Books /\ GamesBooked /\ Ordered

(***************************************************************************)
(* What has been shown, against the tables as they have become since.      *)
(***************************************************************************)
\* A read goes through its path once, but for the pages.
Progress ==
  /\ ask \in Asks /\ at \in 1..Len(Path) + 1
  /\ Has({"received", "offset"})
  /\ Has({"overview"}) \/ Has({"games"}) \/ Has({"receipts"}) =>
       ask.op = "dashboard" /\ at > 1
  /\ Has({"game"}) => ask.op = "players" /\ at > 1
  /\ Has({"players"}) => ask.op = "players" /\ at > 2
  /\ Has({"first"}) \/ Has({"page"}) => ask.op \notin {"dashboard", "players"}

OverviewInv ==
  Has({"overview"}) =>
    LET o == shown.overview
    IN  /\ o.games \in Nat /\ o.games <= Cardinality(GamePayments(ask.user))
        /\ o.gamesPaid \in Int /\ o.gamesPaid <= -SumOf(GamePayments(ask.user))
        /\ o.receipts \in Nat /\ o.receipts <= Cardinality(ReceiptsOf(ask.user))

PlayersInv == Has({"game"}) /\ shown.game.charged => ask.game \in charged

\* Receipts that have left the filtered list since the first count.
LeftList == IF ask.status = "credited" THEN Rejected \ shown.rejected ELSE {}

\* Receipts of the first count that were passed over.
Passed ==
  {i \in shown.first \ shown.received :
     Matches(i) /\ (at > 2 \/ Rank(i, Matching) < shown.offset)}

PagesInv ==
  /\ shown.received \subseteq DOMAIN receipts /\ shown.offset \in Nat
  /\ ~Has({"first"}) => shown.received = {} /\ shown.offset = 0 /\ ~Has({"rejected"})
  /\ Has({"page"}) \/ (ask.op \notin {"dashboard", "players"} /\ at > 1) => Has({"first"})
  /\ Has({"first"}) =>
       /\ Has({"rejected", "total"})
       /\ shown.first \subseteq DOMAIN receipts /\ shown.rejected \subseteq Rejected
       /\ ask.status # "credited" => shown.first \subseteq Matching
       /\ Cardinality(Passed) <= Cardinality(LeftList)
       /\ shown.total \in Nat
       /\ at = 2 /\ ask.status # "credited" => shown.total <= Total

ReaderInv == Progress /\ OverviewInv /\ PlayersInv /\ PagesInv

\* The instance Money names the operators of BalanceTables anew.
LEMMA MoneyOperators ==
  /\ \A r, op : Money!Is(r, op) <=> Is(r, op)
  /\ \A r : Money!Payers(r) = Payers(r) /\ Money!NewReceipt(r) = NewReceipt(r)
  /\ \A r, u : Money!NewEntry(r, u) = NewEntry(r, u) /\ Money!Upserted(r, u) = Upserted(r, u)
  /\ \A a, b : Money!Overlay(a, b) = Overlay(a, b)
<1>1. \A r, op : Money!Is(r, op) <=> Is(r, op)
  BY DEF Money!Is, Is
<1>2. \A r : Money!Payers(r) = Payers(r)
  BY <1>1 DEF Money!Payers, Payers
<1>3. \A r : Money!NewReceipt(r) = NewReceipt(r)
  BY DEF Money!NewReceipt, NewReceipt
<1>4. \A r, u : Money!Delta(r, u) = Delta(r, u)
  BY <1>1 DEF Money!Delta, Delta
<1>5. \A r : Money!CurrencyOf(r) = CurrencyOf(r)
  BY <1>1 DEF Money!CurrencyOf, CurrencyOf
<1>6. \A r : Money!KindOf(r) = KindOf(r)
  BY <1>1 DEF Money!KindOf, KindOf
<1>7. \A r : Money!RefOf(r) = RefOf(r)
  BY <1>1 DEF Money!RefOf, RefOf, Money!GameRef, GameRef, Money!ReceiptRef, ReceiptRef, Money!NoRef, NoRef
<1>8. \A r, u : Money!NewEntry(r, u) = NewEntry(r, u)
  BY <1>4, <1>5, <1>6, <1>7 DEF Money!NewEntry, NewEntry
<1>9. \A r, u : Money!Upserted(r, u) = Upserted(r, u)
  BY <1>4, <1>5 DEF Money!Upserted, Upserted
<1>10. \A a, b : Money!Overlay(a, b) = Overlay(a, b)
  BY DEF Money!Overlay, Overlay
<1> QED BY <1>1, <1>2, <1>3, <1>8, <1>9, <1>10

\* r writes its entries and balances, and is answered.
Booking(r) ==
  /\ answers[r] = "none" /\ answers' = [answers EXCEPT ![r] = "ok"]
  /\ ledger' = ledger \cup {NewEntry(r, u) : u \in Payers(r)}
  /\ balances' = Overlay([u \in Payers(r) |-> Upserted(r, u)], balances)
  /\ games' = games

LEMMA BookedOnce ==
  ASSUME TablesInv, NEW r \in Requests, NEW os, Money!Answer(r, os), Money!BookAll(r),
         answers'[r] = "ok", games' = games
  PROVE  Booking(r)
<1>1. PICK o \in os : answers[r] = "none" /\ answers' = [answers EXCEPT ![r] = o]
  BY DEF Money!Answer
<1>2. o = "ok"
  BY <1>1 DEF TablesInv, Once
<1> QED BY <1>1, <1>2, MoneyOperators DEF Booking, Money!BookAll

\* The four requests, in terms of BalanceTables.
Credits(r) ==
  /\ Is(r, "credit") /\ Insert(r) /\ charged' = charged
  /\ receipts' = Overlay([i \in {r} |-> NewReceipt(r)], receipts)
Reverses(r) ==
  /\ Is(r, "reverse") /\ newer' = newer /\ charged' = charged
  /\ Arg[r].receipt \in DOMAIN receipts /\ receipts[Arg[r].receipt].status = "credited"
  /\ receipts' = [receipts EXCEPT ![Arg[r].receipt].status = "rejected"]
Adjusts(r) ==
  Is(r, "adjust") /\ newer' = newer /\ charged' = charged /\ receipts' = receipts
ChargesGame(r) ==
  /\ Is(r, "charge") /\ newer' = newer /\ receipts' = receipts
  /\ Arg[r].game \in games \ charged /\ charged' = charged \cup {Arg[r].game}

LEMMA WriteIs ==
  ASSUME TablesInv, NEW r \in Requests, Write(r)
  PROVE  /\ Booking(r)
         /\ Credits(r) \/ Reverses(r) \/ Adjusts(r) \/ ChargesGame(r)
<1>0. answers'[r] = "ok"
  BY DEF Write
<1>1. CASE Money!Credit(r) /\ Insert(r)
  <2>1. Money!Answer(r, {"ok", "failed"}) /\ Money!BookAll(r) /\ games' = games /\ Credits(r)
    BY <1>1, MoneyOperators DEF Money!Credit, Credits
  <2> QED BY <1>0, <2>1, BookedOnce
<1>2. CASE Money!Reverse(r) /\ newer' = newer
  <2>1. Money!Answer(r, {"ok", "failed"}) /\ Money!BookAll(r) /\ games' = games /\ Reverses(r)
    BY <1>2, MoneyOperators DEF Money!Reverse, Reverses
  <2> QED BY <1>0, <2>1, BookedOnce
<1>3. CASE Money!Adjust(r) /\ newer' = newer
  <2>1. Money!Answer(r, {"ok", "failed"}) /\ Money!BookAll(r) /\ games' = games /\ Adjusts(r)
    BY <1>3, MoneyOperators DEF Money!Adjust, Adjusts
  <2> QED BY <1>0, <2>1, BookedOnce
<1>4. CASE Money!Charge(r) /\ newer' = newer
  <2>1. Money!Answer(r, {"ok", "failed"}) /\ Money!BookAll(r) /\ games' = games /\ ChargesGame(r)
    BY <1>4, MoneyOperators DEF Money!Charge, ChargesGame
  <2> QED BY <1>0, <2>1, BookedOnce
<1> QED BY <1>1, <1>2, <1>3, <1>4 DEF Write

LEMMA PayersAre ==
  ASSUME NEW r \in Requests
  PROVE  IsFiniteSet(Payers(r))
<1>1. CASE Is(r, "charge")
  BY <1>1, ArgIs DEF Payers
<1>2. CASE ~Is(r, "charge")
  BY <1>2, FS_Singleton DEF Payers
<1> QED BY <1>1, <1>2

\* What a request may do to the tables.
Step(r) == Booking(r) /\ (Credits(r) \/ Reverses(r) \/ Adjusts(r) \/ ChargesGame(r))

LEMMA StepReads == ASSUME NEW r, Step(r) PROVE Readable(r)
BY DEF Step, Readable, Credits, Reverses, Adjusts, ChargesGame, Is

\* The entries of a user, of some kinds, after a request.
LEMMA EntriesAfter ==
  ASSUME TablesInv, NEW r \in Requests, Step(r), NEW u
  PROVE  /\ u \notin Payers(r) => EntriesFor(u)' = EntriesFor(u)
         /\ u \in Payers(r) => /\ EntriesFor(u)' = EntriesFor(u) \cup {NewEntry(r, u)}
                               /\ NewEntry(r, u) \notin ledger
<1>1. ledger' = ledger \cup {NewEntry(r, v) : v \in Payers(r)} /\ answers[r] = "none"
  BY DEF Step, Booking
<1>2. \A v \in Payers(r) : NewEntry(r, v).user = v /\ NewEntry(r, v).by = r
  BY DEF NewEntry
<1>3. \A v \in Payers(r) : NewEntry(r, v) \notin ledger
  BY <1>1, <1>2 DEF TablesInv, Once
<1> QED BY <1>1, <1>2, <1>3 DEF EntriesFor

LEMMA OnceKept == ASSUME TablesInv, NEW r \in Requests, Step(r) PROVE Once'
<1>1. /\ answers \in [Requests -> {"none", "ok"}]
      /\ answers[r] = "none" /\ answers' = [answers EXCEPT ![r] = "ok"]
      /\ ledger' = ledger \cup {NewEntry(r, u) : u \in Payers(r)}
  BY DEF Step, Booking, TablesInv, Once
<1>2. \A u \in Payers(r) : NewEntry(r, u).by = r
  BY DEF NewEntry
<1>3. DOMAIN receipts' \subseteq DOMAIN receipts \cup {r}
  BY DEF Step, Credits, Reverses, Adjusts, ChargesGame, Overlay
<1> QED BY <1>1, <1>2, <1>3 DEF TablesInv, Once

LEMMA TypesKept == ASSUME TablesInv, NEW r \in Requests, Step(r) PROVE TablesTypeOK'
<1>1. Writes(r) /\ ReceiptsChange(r)
  BY DEF Step, Booking, Writes, Credits, Reverses, Adjusts, ChargesGame, ReceiptsChange
<1>2. charged' = charged \/ \E g \in games : charged' = charged \cup {g}
  BY DEF Step, Credits, Reverses, Adjusts, ChargesGame
<1> QED BY <1>1, <1>2, StepReads, RowsKept DEF TablesInv

LEMMA SumIsAmountSum == ASSUME NEW S PROVE SumOf(S) = AmountSum(S)
BY DEF SumOf, AmountSum

LEMMA LedgerRows ==
  ASSUME TablesInv, NEW S \in SUBSET ledger
  PROVE  IsFiniteSet(S) /\ \A e \in S : e.amount \in Int
BY FS_Subset DEF TablesInv, Books, TablesTypeOK, EntryRow

LEMMA BooksKept == ASSUME TablesInv, NEW r \in Requests, Step(r) PROVE Books'
<1>0. TablesTypeOK /\ Readable(r) /\ Booking(r) /\ Books /\ IsFiniteSet(Payers(r))
  BY StepReads, PayersAre DEF TablesInv, Step
<1>1. IsFiniteSet(ledger')
  <2> DEFINE new == {NewEntry(r, u) : u \in Payers(r)}
             f == [u \in Payers(r) |-> NewEntry(r, u)]
  <2>1. IsFiniteSet({f[u] : u \in Payers(r)})
    BY <1>0, FiniteImage
  <2>2. {f[u] : u \in Payers(r)} = new
    OBVIOUS
  <2>3. ledger' = ledger \cup new
    BY <1>0 DEF Booking
  <2> HIDE DEF new, f
  <2> QED BY <1>0, <2>1, <2>2, <2>3, FS_Union DEF Books
<1>2. ASSUME NEW u \in DOMAIN balances' PROVE balances'[u].amount = SumOf(EntriesFor(u)')
  <2>1. CASE u \notin Payers(r)
    <3>1. u \in DOMAIN balances /\ balances'[u] = balances[u]
      BY <1>0, <1>2, <2>1 DEF Booking, Overlay
    <3>2. EntriesFor(u)' = EntriesFor(u)
      BY <2>1, EntriesAfter
    <3> QED BY <1>0, <3>1, <3>2 DEF Books
  <2>2. CASE u \in Payers(r)
    <3> DEFINE E == EntriesFor(u)
               x == NewEntry(r, u)
    <3>0. E \subseteq ledger
      BY DEF EntriesFor
    <3>1. EntriesFor(u)' = E \cup {x} /\ x \notin E
      BY <2>2, <3>0, EntriesAfter
    <3>2. x.amount = Delta(r, u) /\ Delta(r, u) \in Int
      BY <1>0, <2>2, EntryIs
    <3>3. IsFiniteSet(E) /\ \A e \in E : e.amount \in Int
      BY <3>0, LedgerRows
    <3>4. AmountSum(E \cup {x}) = Delta(r, u) + AmountSum(E) /\ AmountSum(E) \in Int
      <4> HIDE DEF E, x
      <4>1. \A e \in E \cup {x} : e.amount \in Int
        BY <3>2, <3>3
      <4> QED BY <3>1, <3>2, <3>3, <4>1, AmountsAdd, AmountsType
    <3>5. balances'[u] = Upserted(r, u)
      BY <1>0, <2>2 DEF Booking, Overlay
    <3>6. CASE u \in DOMAIN balances
      <4>1. balances'[u].amount = balances[u].amount + Delta(r, u)
        BY <1>0, <3>5, <3>6 DEF Upserted, TablesTypeOK, BalanceRow
      <4>2. balances[u].amount = AmountSum(E)
        BY <1>0, <3>6, SumIsAmountSum DEF Books
      <4>3. balances'[u].amount = AmountSum(E \cup {x})
        <5> HIDE DEF E, x
        <5> QED BY <3>2, <3>4, <4>1, <4>2
      <4> QED BY <3>1, <4>3, SumIsAmountSum
    <3>7. CASE u \notin DOMAIN balances
      <4>1. balances'[u].amount = Delta(r, u)
        BY <3>5, <3>7 DEF Upserted
      <4>2. E = {}
        BY <1>0, <3>7 DEF Books, EntriesFor
      <4>3. balances'[u].amount = AmountSum(E \cup {x})
        <5> HIDE DEF E, x
        <5> QED BY <3>2, <3>4, <4>1, <4>2, AmountsEmpty
      <4> QED BY <3>1, <4>3, SumIsAmountSum
    <3> QED BY <3>6, <3>7
  <2> QED BY <2>1, <2>2
<1>3. \A e \in ledger' : e.user \in DOMAIN balances' /\ (e.kind = "game_charge" => e.amount < 0)
  <2>1. DOMAIN balances' = DOMAIN balances \cup Payers(r)
    BY <1>0 DEF Booking, Overlay
  <2>2. \A u \in Payers(r) : /\ NewEntry(r, u).user = u
                             /\ NewEntry(r, u).kind = "game_charge" => NewEntry(r, u).amount < 0
    BY <1>0, EntryIs
  <2> QED BY <1>0, <2>1, <2>2 DEF Booking, Books
<1> QED BY <1>1, <1>2, <1>3 DEF Books, EntriesFor, SumOf

\* A new entry of a charge is for its game, any other is for none.
LEMMA RefIs ==
  ASSUME NEW r \in Requests, NEW u
  PROVE  /\ NewEntry(r, u).kind = "game_charge" <=> Is(r, "charge")
         /\ Is(r, "charge") => \A g : NewEntry(r, u).ref = GameRef(g) <=> Arg[r].game = g
BY DEF NewEntry, KindOf, RefOf, GameRef

LEMMA GamesKept == ASSUME TablesInv, NEW r \in Requests, Step(r) PROVE GamesBooked'
<1>0. ledger' = ledger \cup {NewEntry(r, u) : u \in Payers(r)} /\ GamesBooked
  BY DEF Step, Booking, TablesInv
<1>1. ASSUME NEW q \in Requests, Is(q, "charge") PROVE ChargeOf(q)' = ChargeOf(q)
  BY <1>1 DEF ChargeOf, NewEntry, Delta, CurrencyOf, KindOf, RefOf, Is
<1>2. ASSUME NEW g \in Games, ~(Is(r, "charge") /\ Arg[r].game = g)
      PROVE  PlayersOf(g)' = PlayersOf(g) /\ (g \in charged' <=> g \in charged)
  <2>1. PlayersOf(g)' = PlayersOf(g)
    BY <1>0, <1>2, RefIs DEF PlayersOf
  <2> QED BY <1>2, <2>1 DEF Step, Credits, Reverses, Adjusts, ChargesGame
<1>3. ASSUME NEW g \in Games, Is(r, "charge"), Arg[r].game = g
      PROVE  g \in charged' /\ PlayersOf(g)' = ChargeOf(r)
  <2>1. g \notin charged /\ g \in charged'
    BY <1>3 DEF Step, Credits, Reverses, Adjusts, ChargesGame, Is
  <2>2. PlayersOf(g) = {} /\ Payers(r) = DOMAIN Arg[r].shares
    BY <1>0, <1>3, <2>1 DEF GamesBooked, Payers
  <2> QED BY <1>0, <1>3, <2>1, <2>2, RefIs DEF PlayersOf, ChargeOf
<1> QED BY <1>0, <1>1, <1>2, <1>3 DEF GamesBooked, Is

LEMMA OrderedKept == ASSUME TablesInv, NEW r \in Requests, Step(r) PROVE Ordered'
<1>1. CASE Credits(r)
  <2>0. /\ r \notin DOMAIN receipts
        /\ DOMAIN receipts' = DOMAIN receipts \cup {r}
    BY <1>1 DEF Credits, Overlay, Step, Booking, TablesInv, Once
  <2>1. PICK before \in SUBSET DOMAIN receipts :
          /\ \A i \in before : newer[i] \subseteq before
          /\ newer' = [i \in DOMAIN receipts \cup {r} |->
                         CASE i = r -> before
                           [] i \in before -> newer[i]
                           [] OTHER -> newer[i] \cup {r}]
    BY <1>1 DEF Credits, Insert
  <2>2. /\ newer'[r] = before
        /\ \A i \in before : newer'[i] = newer[i]
        /\ \A i \in DOMAIN receipts \ before : newer'[i] = newer[i] \cup {r}
    BY <2>0, <2>1
  <2>3. IsFiniteSet(DOMAIN receipts')
    BY <2>0, FS_AddElement DEF TablesInv, Ordered
  <2>4. newer' \in [DOMAIN receipts' -> SUBSET DOMAIN receipts']
    BY <2>0, <2>1, <2>2 DEF TablesInv, Ordered
  <2>5. Ordered
    BY DEF TablesInv
  <2>6. \A i \in DOMAIN receipts' : i \notin newer'[i]
    BY <2>0, <2>2, <2>5 DEF Ordered
  <2>7. \A i, j \in DOMAIN receipts' : i = j \/ i \in newer'[j] \/ j \in newer'[i]
    BY <2>0, <2>2, <2>5 DEF Ordered
  <2>8. \A i \in DOMAIN receipts' : \A j \in newer'[i] : newer'[j] \subseteq newer'[i]
    BY <2>0, <2>1, <2>2, <2>5 DEF Ordered
  <2> QED BY <2>3, <2>4, <2>6, <2>7, <2>8 DEF Ordered
<1>2. CASE Reverses(r) \/ Adjusts(r) \/ ChargesGame(r)
  <2>1. newer' = newer /\ DOMAIN receipts' = DOMAIN receipts
    BY <1>2 DEF Reverses, Adjusts, ChargesGame
  <2> QED BY <2>1 DEF TablesInv, Ordered
<1> QED BY <1>1, <1>2 DEF Step

LEMMA TablesKept == ASSUME TablesInv, NEW r \in Requests, Step(r) PROVE TablesInv'
BY TypesKept, OnceKept, BooksKept, GamesKept, OrderedKept DEF TablesInv

LEMMA TablesStart == ReadsInit => TablesInv
<1> SUFFICES ASSUME ReadsInit PROVE TablesInv
  OBVIOUS
<1>1. /\ receipts = [i \in {} |-> {}] /\ ledger = {} /\ balances = [u \in {} |-> {}]
      /\ games = {} /\ charged = {} /\ answers = [r \in Requests |-> "none"] /\ newer = [i \in {} |-> {}]
  BY DEF ReadsInit, Money!Init, Money!TablesInit
<1> QED BY <1>1, FS_EmptySet DEF TablesInv, TablesTypeOK, Once, Books, GamesBooked, PlayersOf, Ordered

\* The steps of a reader, and the creation of a game.
Quiet == UNCHANGED <<receipts, ledger, balances, charged, answers, newer>>

LEMMA QuietTables ==
  ASSUME TablesInv, Quiet, games \subseteq games', games' \subseteq Games
  PROVE  TablesInv'
<1>1. TablesTypeOK'
  BY DEF TablesInv, Quiet, TablesTypeOK
<1>2. Once' /\ Ordered'
  BY DEF TablesInv, Quiet, Once, Ordered
<1>3. Books'
  BY DEF TablesInv, Quiet, Books, EntriesFor, SumOf
<1>4. GamesBooked'
  BY DEF TablesInv, Quiet, GamesBooked, PlayersOf, ChargeOf, NewEntry, Delta, CurrencyOf, KindOf, RefOf, Is
<1> QED BY <1>1, <1>2, <1>3, <1>4 DEF TablesInv

(***************************************************************************)
(* What a reader can rely on between two statements.                       *)
(***************************************************************************)
\* A request adds to the game payments of a user.
LEMMA PaymentsGrow ==
  ASSUME TablesInv, NEW r \in Requests, Step(r), NEW u
  PROVE  /\ Cardinality(GamePayments(u)) <= Cardinality(GamePayments(u)')
         /\ -SumOf(GamePayments(u)) <= -SumOf(GamePayments(u)')
         /\ SumOf(GamePayments(u)) \in Int /\ SumOf(GamePayments(u)') \in Int
         /\ Cardinality(GamePayments(u)) \in Nat /\ Cardinality(GamePayments(u)') \in Nat
<1> DEFINE P == GamePayments(u)
           Q == GamePayments(u)'
           N == Q \ P
<1>0. TablesInv' /\ ledger \subseteq ledger'
  BY TablesKept DEF Step, Booking
<1>1. P \subseteq Q /\ P \subseteq ledger /\ Q \subseteq ledger'
  BY <1>0 DEF GamePayments, Entries
<1>2. IsFiniteSet(Q) /\ \A e \in Q : e.amount \in Int /\ e.amount < 0
  <2>1. IsFiniteSet(Q)
    BY <1>0, <1>1, FS_Subset DEF TablesInv, Books
  <2>2. \A e \in Q : e.amount \in Int /\ e.amount < 0
    BY <1>0, <1>1 DEF TablesInv, Books, TablesTypeOK, EntryRow, GamePayments, Entries
  <2> QED BY <2>1, <2>2
<1> HIDE DEF P, Q
<1>3. IsFiniteSet(P) /\ IsFiniteSet(N) /\ Q = P \cup N /\ P \cap N = {}
  BY <1>1, <1>2, FS_Subset
<1>4. AmountSum(Q) = AmountSum(P) + AmountSum(N) /\ AmountSum(P) \in Int /\ AmountSum(N) \in Int
  <2>1. \A e \in P \cup N : e.amount \in Int
    BY <1>1, <1>2
  <2> HIDE DEF N
  <2> QED BY <1>3, <2>1, AmountsUnion, AmountsType
<1>5. AmountSum(N) <= 0
  <2>1. \A e \in N : e.amount \in Int /\ e.amount <= 0
    BY <1>2
  <2> QED BY <1>3, <2>1, AmountsNegative
<1>6. Cardinality(P) <= Cardinality(Q) /\ Cardinality(P) \in Nat /\ Cardinality(Q) \in Nat
  BY <1>1, <1>2, <1>3, FS_Subset, FS_CardinalityType
<1> QED BY <1>4, <1>5, <1>6, SumIsAmountSum DEF P, Q

(***************************************************************************)
(* Pages.  The ranks of n rows are the numbers below n, each taken once.   *)
(***************************************************************************)
LEMMA RankIs ==
  ASSUME Ordered, NEW rows \in SUBSET DOMAIN receipts
  PROVE  /\ IsFiniteSet(rows) /\ Cardinality(rows) \in Nat
         /\ \A i \in rows : Rank(i, rows) \in Nat /\ Rank(i, rows) < Cardinality(rows)
<1>1. IsFiniteSet(rows) /\ Cardinality(rows) \in Nat
  BY FS_Subset, FS_CardinalityType DEF Ordered
<1>2. ASSUME NEW i \in rows PROVE Rank(i, rows) \in Nat /\ Rank(i, rows) < Cardinality(rows)
  <2> DEFINE t == rows \ {i}
             b == newer[i] \cap rows
  <2>1. IsFiniteSet(t) /\ Cardinality(t) \in Nat /\ Cardinality(t) = Cardinality(rows) - 1
    BY <1>1, Smaller
  <2>2. b \subseteq t /\ Rank(i, rows) = Cardinality(b)
    BY DEF Ordered, Rank
  <2>3. Cardinality(b) \in Nat /\ Cardinality(b) <= Cardinality(t)
    <3> HIDE DEF b, t
    <3> QED BY <2>1, <2>2, FS_Subset, FS_CardinalityType
  <2> HIDE DEF b, t
  <2> QED BY <1>1, <2>1, <2>2, <2>3
<1> QED BY <1>1, <1>2

\* One row comes after all others.
LEMMA LastRow ==
  ASSUME Ordered, NEW rows \in SUBSET DOMAIN receipts, rows # {}
  PROVE  \E z \in rows : \A i \in rows \ {z} : i \in newer[z]
<1> DEFINE d(i) == Cardinality(rows) - Rank(i, rows)
           T == {d(i) : i \in rows}
<1>1. Cardinality(rows) \in Nat /\ \A i \in rows : Rank(i, rows) \in Nat /\ d(i) \in Nat
  <2>1. \A i \in rows : Rank(i, rows) \in Nat /\ Rank(i, rows) < Cardinality(rows)
    BY RankIs
  <2>2. Cardinality(rows) \in Nat
    BY RankIs
  <2> QED BY <2>1, <2>2
<1>2. PICK z \in rows : \A i \in rows : d(z) <= d(i)
  <2>1. T \subseteq Nat /\ T # {}
    BY <1>1
  <2>2. PICK x \in T : \A y \in T : x <= y
    <3> HIDE DEF T
    <3> QED BY <2>1, LeastNat
  <2> QED BY <2>2
<1>3. \A i \in rows : Rank(i, rows) <= Rank(z, rows)
  BY <1>1, <1>2
<1>4. ASSUME NEW i \in rows \ {z}, i \notin newer[z] PROVE FALSE
  <2> DEFINE b == newer[z] \cap rows
             c == newer[i] \cap rows
  <2>1. z \in newer[i] /\ newer[z] \subseteq newer[i] /\ z \notin newer[z]
    BY <1>4 DEF Ordered
  <2>2. b \subseteq c \ {z} /\ z \in c /\ c \subseteq rows
    BY <2>1
  <2>3. Rank(z, rows) = Cardinality(b) /\ Rank(i, rows) = Cardinality(c)
    BY DEF Rank
  <2> HIDE DEF b, c
  <2>4. IsFiniteSet(c)
    BY <2>2, RankIs, FS_Subset
  <2>5. /\ IsFiniteSet(c \ {z}) /\ Cardinality(c \ {z}) \in Nat /\ Cardinality(c) \in Nat
        /\ Cardinality(c \ {z}) = Cardinality(c) - 1
    BY <2>2, <2>4, Smaller
  <2>6. Cardinality(b) <= Cardinality(c \ {z}) /\ Cardinality(b) \in Nat
    BY <2>2, <2>5, FS_Subset, FS_CardinalityType
  <2>7. Rank(i, rows) <= Rank(z, rows)
    BY <1>3
  <2> QED BY <2>3, <2>5, <2>6, <2>7
<1> QED BY <1>4

Firsts(rows, k) == {i \in rows : Rank(i, rows) < k}

LEMMA FirstsCount ==
  ASSUME Ordered, NEW rows \in SUBSET DOMAIN receipts
  PROVE  \A k \in 0..Cardinality(rows) : Cardinality(Firsts(rows, k)) = k
<1> DEFINE C == {s \in SUBSET DOMAIN receipts :
                   \E k \in 0..Cardinality(s) : Cardinality(Firsts(s, k)) # k}
<1> SUFFICES ASSUME rows \in C PROVE FALSE
  OBVIOUS
<1>1. \A s \in C : IsFiniteSet(s) /\ s \subseteq DOMAIN receipts
  BY FS_Subset DEF Ordered
<1>2. PICK s \in C : \A t \in C : Cardinality(s) <= Cardinality(t)
  <2> HIDE DEF C
  <2> QED BY <1>1, SmallestSet
<1>3. PICK k \in 0..Cardinality(s) : Cardinality(Firsts(s, k)) # k
  BY <1>2
<1>4. IsFiniteSet(s) /\ s \in SUBSET DOMAIN receipts /\ Cardinality(s) \in Nat
  BY <1>1, FS_CardinalityType
<1>5. s # {}
  <2> SUFFICES ASSUME s = {} PROVE FALSE
    OBVIOUS
  <2>1. Cardinality(s) = 0 /\ Firsts(s, k) = {}
    BY FS_EmptySet DEF Firsts
  <2> QED BY <1>3, <2>1, FS_EmptySet
<1>6. PICK z \in s : \A i \in s \ {z} : i \in newer[z]
  BY <1>4, <1>5, LastRow
<1> DEFINE t == s \ {z}
<1>7. IsFiniteSet(t) /\ Cardinality(t) \in Nat /\ Cardinality(t) = Cardinality(s) - 1
  BY <1>4, Smaller
<1>8. t \notin C /\ t \in SUBSET DOMAIN receipts
  <2>1. t \notin C
    <3> HIDE DEF C, t
    <3> QED BY <1>2, <1>4, <1>7
  <2> QED BY <1>4, <2>1
<1>9. Rank(z, s) = Cardinality(t)
  <2>1. newer[z] \cap s = t
    BY <1>4, <1>6 DEF Ordered
  <2> HIDE DEF t
  <2> QED BY <2>1 DEF Rank
<1>10. ASSUME NEW i \in t PROVE Rank(i, s) = Rank(i, t)
  <2>1. z \notin newer[i]
    BY <1>4, <1>6, <1>10 DEF Ordered
  <2>2. newer[i] \cap s = newer[i] \cap t
    BY <2>1
  <2> HIDE DEF t
  <2> QED BY <2>2 DEF Rank
<1>11. \A i \in s : Rank(i, s) \in Nat /\ Rank(i, s) < Cardinality(s)
  BY <1>4, RankIs
<1>12. CASE k = Cardinality(s)
  <2>1. Firsts(s, k) = s
    BY <1>11, <1>12 DEF Firsts
  <2> QED BY <1>3, <1>12, <2>1
<1>13. CASE k # Cardinality(s)
  <2>1. k \in 0..Cardinality(t)
    <3> HIDE DEF t
    <3> QED BY <1>4, <1>7, <1>13
  <2>2. Cardinality(Firsts(t, k)) = k
    BY <1>8, <2>1
  <2>3. ~(Rank(z, s) < k)
    BY <1>9, <2>1, <1>7
  <2>4. Firsts(s, k) = Firsts(t, k)
    BY <1>10, <2>3 DEF Firsts
  <2> QED BY <1>3, <2>2, <2>4
<1> QED BY <1>12, <1>13

\* A page is cut short only by the end of the rows, and the offset after it is the
\* rank of the next row.
LEMMA PageIs ==
  ASSUME Ordered, NEW rows \in SUBSET DOMAIN receipts, NEW offset \in Nat, NEW n \in Nat, n >= 1
  PROVE  /\ IsFiniteSet(Page(rows, offset, n)) /\ Cardinality(Page(rows, offset, n)) \in Nat
         /\ offset + n <= Cardinality(rows) => Cardinality(Page(rows, offset, n)) = n
         /\ Cardinality(rows) < offset + n =>
              offset + Cardinality(Page(rows, offset, n)) >= Cardinality(rows)
         /\ Cardinality(Page(rows, offset, n)) <= n
         /\ Page(rows, offset, n) = {} => Cardinality(rows) <= offset
         /\ \A i \in rows :
              Rank(i, rows) < offset + Cardinality(Page(rows, offset, n))
                => Rank(i, rows) < offset \/ i \in Page(rows, offset, n)
<1> DEFINE P == Page(rows, offset, n)
           A == Firsts(rows, offset)
           B == Firsts(rows, offset + n)
           m == Cardinality(rows)
<1>1. IsFiniteSet(rows) /\ m \in Nat /\ \A i \in rows : Rank(i, rows) \in Nat /\ Rank(i, rows) < m
  BY RankIs
<1>2. P \subseteq rows /\ P \cap A = {} /\ B = A \cup P
  BY <1>1 DEF Page, Firsts
<1>3. \A i \in P : Rank(i, rows) < offset + n /\ Rank(i, rows) >= offset
  BY <1>1 DEF Page
<1>4. A \subseteq rows /\ B \subseteq rows
  BY DEF Firsts
<1>5. \A k \in 0..m : Cardinality(Firsts(rows, k)) = k
  BY FirstsCount
<1>6. \A k \in Nat : k >= m => Firsts(rows, k) = rows
  BY <1>1 DEF Firsts
<1>7. \A i \in rows : Rank(i, rows) < offset + n => Rank(i, rows) < offset \/ i \in P
  BY <1>1 DEF Page
<1> HIDE DEF P
<1>8. IsFiniteSet(P) /\ IsFiniteSet(A) /\ Cardinality(P) \in Nat /\ Cardinality(A) \in Nat
  <2> HIDE DEF A, m
  <2> QED BY <1>1, <1>2, <1>4, FS_Subset, FS_CardinalityType
<1>9. Cardinality(B) = Cardinality(A) + Cardinality(P)
  <2>1. A \cap P = {} /\ Cardinality({}) = 0
    BY <1>2, FS_EmptySet
  <2> HIDE DEF A, B
  <2> QED BY <1>2, <1>8, <2>1, FS_Union
<1>10. CASE offset + n <= m
  <2>1. Cardinality(A) = offset /\ Cardinality(B) = offset + n
    <3>1. offset \in 0..m /\ offset + n \in 0..m
      BY <1>1, <1>10
    <3> QED BY <1>5, <3>1
  <2>2. Cardinality(P) = n
    <3> HIDE DEF A, B
    <3> QED BY <1>8, <1>9, <2>1
  <2>3. P # {}
    BY <2>2, FS_EmptySet
  <2> HIDE DEF A, B, m
  <2> QED BY <1>1, <1>7, <1>8, <1>10, <2>2, <2>3 DEF P, m
<1>11. CASE ~(offset + n <= m) /\ offset <= m
  <2>1. Cardinality(A) = offset /\ Cardinality(B) = m
    <3>1. offset \in 0..m
      BY <1>1, <1>11
    <3>2. B = rows
      BY <1>1, <1>6, <1>11
    <3> QED BY <1>5, <3>1, <3>2
  <2>2. offset + Cardinality(P) = m
    <3> HIDE DEF A, B
    <3> QED BY <1>1, <1>8, <1>9, <2>1
  <2>3. P = {} => m <= offset
    BY <1>1, <2>2, FS_EmptySet
  <2>4. \A i \in rows : Rank(i, rows) < offset + n
    BY <1>1, <1>11
  <2> HIDE DEF A, B, m
  <2> QED BY <1>1, <1>7, <1>8, <1>11, <2>2, <2>3, <2>4 DEF P, m
<1>12. CASE m < offset
  <2>1. \A i \in rows : Rank(i, rows) < offset
    BY <1>1, <1>12
  <2>2. P = {} /\ Cardinality(P) = 0
    BY <1>1, <1>3, <1>12, FS_EmptySet DEF P, Page
  <2> HIDE DEF A, B, m
  <2> QED BY <1>1, <1>8, <1>12, <2>1, <2>2 DEF P, m
<1> QED BY <1>1, <1>10, <1>11, <1>12

(***************************************************************************)
(* A request, seen from a reader between two statements.                   *)
(***************************************************************************)
LEMMA MinOfTwo ==
  ASSUME NEW a \in Int, NEW b \in Int
  PROVE  Min({a, b}) = IF a <= b THEN a ELSE b
<1>1. \A x : x \in {a, b} /\ (\A y \in {a, b} : x <= y) <=> x = (IF a <= b THEN a ELSE b)
  OBVIOUS
<1> QED BY <1>1 DEF Min

LEMMA LimitIs == ASSUME ask \in Asks PROVE Limit \in Nat /\ Limit >= 1
BY LimitAssumption, AskAssumption DEF Limit, ClampLimit

LEMMA ReceiptsGrow ==
  ASSUME TablesInv, NEW r \in Requests, Step(r)
  PROVE  /\ DOMAIN receipts \subseteq DOMAIN receipts'
         /\ \A i \in DOMAIN receipts : /\ receipts'[i].user = receipts[i].user
                                       /\ newer[i] \subseteq newer'[i]
         /\ Rejected \subseteq Rejected'
<1>0. TablesTypeOK /\ Ordered /\ r \notin DOMAIN receipts
  BY DEF TablesInv, Step, Booking, Once
<1>1. CASE Credits(r)
  <2>1. /\ DOMAIN receipts' = DOMAIN receipts \cup {r}
        /\ \A i \in DOMAIN receipts : receipts'[i] = receipts[i]
    BY <1>0, <1>1 DEF Credits, Overlay
  <2>2. \A i \in DOMAIN receipts : newer[i] \subseteq newer'[i]
    BY <1>0, <1>1 DEF Credits, Insert
  <2> QED BY <2>1, <2>2 DEF Rejected
<1>2. CASE Reverses(r)
  <2> DEFINE x == Arg[r].receipt
  <2>1. /\ x \in DOMAIN receipts /\ newer' = newer
        /\ receipts' = [receipts EXCEPT ![x] = [receipts[x] EXCEPT !.status = "rejected"]]
    BY <1>2 DEF Reverses
  <2>2. receipts[x] \in ReceiptRow
    BY <1>0, <2>1 DEF TablesTypeOK
  <2>3. LET y == [receipts[x] EXCEPT !.status = "rejected"]
        IN  y.user = receipts[x].user /\ y.status = "rejected"
    BY <2>2 DEF ReceiptRow
  <2>4. /\ DOMAIN receipts' = DOMAIN receipts
        /\ \A i \in DOMAIN receipts \ {x} : receipts'[i] = receipts[i]
        /\ receipts'[x].user = receipts[x].user /\ receipts'[x].status = "rejected"
    <3> HIDE DEF x
    <3> QED BY <2>1, <2>3
  <2> QED BY <2>1, <2>4 DEF Rejected
<1>3. CASE receipts' = receipts /\ newer' = newer
  BY <1>3 DEF Rejected
<1> QED BY <1>1, <1>2, <1>3 DEF Step, Adjusts, ChargesGame

\* A request that is no rejection under the filter "credited" takes nothing from
\* the filtered list.
LEMMA MatchingGrows ==
  ASSUME TablesInv, NEW r \in Requests, Step(r), ask' = ask,
         ask.status # "credited" \/ ~Reverses(r)
  PROVE  Matching \subseteq Matching'
<1>0. TablesTypeOK /\ r \notin DOMAIN receipts
  BY DEF TablesInv, Step, Booking, Once
<1>1. CASE Reverses(r)
  <2> DEFINE x == Arg[r].receipt
  <2>1. /\ x \in DOMAIN receipts /\ receipts[x].status = "credited"
        /\ receipts' = [receipts EXCEPT ![x] = [receipts[x] EXCEPT !.status = "rejected"]]
    BY <1>1 DEF Reverses
  <2>2. DOMAIN receipts' = DOMAIN receipts /\ \A i \in DOMAIN receipts \ {x} : receipts'[i] = receipts[i]
    BY <2>1
  <2>3. x \in Matching => x \in Matching'
    BY <1>1, <2>1, <2>2 DEF Matching, Matches
  <2> HIDE DEF x
  <2> QED BY <2>2, <2>3 DEF Matching, Matches
<1>2. CASE Credits(r)
  BY <1>0, <1>2 DEF Credits, Overlay, Matching, Matches
<1>3. CASE receipts' = receipts
  BY <1>3 DEF Matching, Matches
<1> QED BY <1>1, <1>2, <1>3 DEF Step, Adjusts, ChargesGame

LEMMA RankGrows ==
  ASSUME TablesInv, TablesInv', NEW r \in Requests, Step(r), Matching \subseteq Matching', NEW i \in DOMAIN receipts
  PROVE  /\ Rank(i, Matching) \in Nat /\ Rank(i, Matching)' \in Nat
         /\ Rank(i, Matching) <= Rank(i, Matching)'
<1> DEFINE a == newer[i] \cap Matching
           b == newer'[i] \cap Matching'
<1>1. a \subseteq b
  BY ReceiptsGrow
<1>2. b \subseteq DOMAIN receipts'
  BY DEF Matching
<1>3. IsFiniteSet(DOMAIN receipts')
  BY DEF TablesInv, Ordered
<1>4. Rank(i, Matching) = Cardinality(a) /\ Rank(i, Matching)' = Cardinality(b)
  BY DEF Rank
<1> HIDE DEF a, b
<1> QED BY <1>1, <1>2, <1>3, <1>4, FS_Subset, FS_CardinalityType

\* A rejection under the filter "credited" takes one receipt from the list.
LEMMA RejectionLeaves ==
  ASSUME TablesInv, NEW r \in Requests, Step(r), Reverses(r), UNCHANGED <<ask, at, shown>>,
         ask.status = "credited"
  PROVE  LET x == Arg[r].receipt
         IN  /\ x \in Matching /\ Matching' = Matching \ {x}
             /\ newer' = newer /\ Rejected' = Rejected \cup {x} /\ x \notin Rejected
<1> DEFINE x == Arg[r].receipt
<1>1. /\ x \in DOMAIN receipts /\ receipts[x].status = "credited" /\ newer' = newer
      /\ receipts' = [receipts EXCEPT ![x] = [receipts[x] EXCEPT !.status = "rejected"]]
  BY DEF Reverses
<1>2. receipts[x] \in ReceiptRow
  BY <1>1 DEF TablesInv, TablesTypeOK
<1>3. [receipts[x] EXCEPT !.status = "rejected"].status = "rejected"
  BY <1>2 DEF ReceiptRow
<1>4. /\ DOMAIN receipts' = DOMAIN receipts /\ receipts'[x].status = "rejected"
      /\ \A i \in DOMAIN receipts \ {x} : receipts'[i] = receipts[i]
  <2> HIDE DEF x
  <2> QED BY <1>1, <1>3
<1>5. x \in Matching /\ x \notin Rejected
  BY <1>1 DEF Matching, Matches, Rejected
<1> HIDE DEF x
<1>6. Matching' = Matching \ {x}
  BY <1>4 DEF Matching, Matches
<1>7. Rejected' = Rejected \cup {x}
  BY <1>1, <1>4 DEF Rejected
<1> QED BY <1>1, <1>5, <1>6, <1>7 DEF x

LEMMA SetsAreFinite ==
  ASSUME TablesInv, PagesInv, Has({"first"})
  PROVE  IsFiniteSet(Passed) /\ IsFiniteSet(LeftList) /\ Passed \subseteq DOMAIN receipts
<1>1. Passed \subseteq DOMAIN receipts /\ LeftList \subseteq DOMAIN receipts
  BY DEF PagesInv, Passed, LeftList, Rejected
<1> QED BY <1>1, FS_Subset DEF TablesInv, Ordered

\* Whatever a request does, no more receipts are passed over than have left the list.
LEMMA PassedKept ==
  ASSUME TablesInv, Progress, PagesInv, Has({"first"}), NEW r \in Requests, Step(r),
         UNCHANGED <<ask, at, shown>>
  PROVE  Cardinality(Passed') <= Cardinality(LeftList')
<1>0. /\ TablesInv' /\ Ordered
      /\ shown.first \subseteq DOMAIN receipts /\ shown.offset \in Nat
      /\ Cardinality(Passed) <= Cardinality(LeftList)
      /\ IsFiniteSet(Passed) /\ IsFiniteSet(LeftList)
      /\ Cardinality(Passed) \in Nat /\ Cardinality(LeftList) \in Nat
      /\ at \in Nat
  <2>1. at \in Nat
    BY DEF Progress
  <2> QED BY <2>1, TablesKept, SetsAreFinite, FS_CardinalityType DEF TablesInv, PagesInv
<1>1. CASE Matching \subseteq Matching'
  <2>1. ASSUME NEW i \in Passed' PROVE i \in Matching => i \in Passed
    <3>1. CASE at > 2
      BY <2>1, <3>1 DEF Passed, Matching
    <3>2. CASE ~(at > 2)
      <4>1. i \in shown.first \ shown.received /\ Rank(i, Matching)' < shown.offset
        BY <2>1, <3>2 DEF Passed
      <4>2. Rank(i, Matching) < shown.offset
        BY <1>0, <1>1, <4>1, RankGrows
      <4> QED BY <4>1, <4>2 DEF Passed, Matching
    <3> QED BY <3>1, <3>2
  <2>2. CASE ask.status = "credited"
    <3>1. Passed' \subseteq Passed
      <4>1. ASSUME NEW i \in Passed' PROVE i \in Matching
        <5>1. i \in shown.first /\ Matches(i)' /\ i \in DOMAIN receipts
          BY <1>0, <4>1 DEF Passed
        <5>2. receipts'[i].status = "credited"
          BY <2>2, <5>1 DEF Matches
        <5>3. receipts'[i].status # "rejected"
          BY <5>2
        <5>4. i \notin Rejected
          BY <5>3, ReceiptsGrow DEF Rejected
        <5>5. receipts[i].status \in {"credited", "rejected"}
          BY <5>1 DEF TablesInv, TablesTypeOK, ReceiptRow
        <5> QED BY <2>2, <5>1, <5>4, <5>5 DEF Rejected, Matching, Matches
      <4> QED BY <2>1, <4>1
    <3>2. LeftList \subseteq LeftList'
      BY ReceiptsGrow DEF LeftList
    <3>3. IsFiniteSet(LeftList')
      <4>1. LeftList' \subseteq DOMAIN receipts'
        BY DEF LeftList, Rejected
      <4> QED BY <1>0, <4>1, FS_Subset DEF TablesInv, Ordered
    <3>4. Cardinality(Passed') <= Cardinality(Passed) /\ Cardinality(Passed') \in Nat
      BY <1>0, <3>1, FS_Subset, FS_CardinalityType
    <3>5. Cardinality(LeftList) <= Cardinality(LeftList') /\ Cardinality(LeftList') \in Nat
      BY <3>2, <3>3, FS_Subset, FS_CardinalityType
    <3> QED BY <1>0, <3>4, <3>5
  <2>3. CASE ask.status # "credited"
    <3>1. LeftList = {} /\ LeftList' = {} /\ shown.first \subseteq Matching
      BY <2>3 DEF LeftList, PagesInv
    <3>2. Passed = {}
      BY <1>0, <3>1, FS_EmptySet
    <3>3. Passed' = {}
      BY <2>1, <3>1, <3>2 DEF Passed
    <3> QED BY <1>0, <3>1, <3>2, <3>3
  <2> QED BY <2>2, <2>3
<1>2. CASE ~(Matching \subseteq Matching')
  <2> DEFINE x == Arg[r].receipt
             Y == Page(Matching, shown.offset, 1)
  <2>0. Reverses(r) /\ ask.status = "credited"
    BY <1>2, MatchingGrows
  <2>1. /\ x \in Matching /\ Matching' = Matching \ {x}
        /\ newer' = newer /\ Rejected' = Rejected \cup {x} /\ x \notin Rejected
    BY <2>0, RejectionLeaves
  <2>2. LeftList' = LeftList \cup {x} /\ x \notin LeftList
    <3>1. shown.rejected \subseteq Rejected
      BY DEF PagesInv
    <3> HIDE DEF x
    <3> QED BY <2>0, <2>1, <3>1 DEF LeftList
  <2>3. Cardinality(LeftList') = Cardinality(LeftList) + 1
    <3> HIDE DEF x
    <3> QED BY <1>0, <2>2, FS_AddElement
  <2>4. Matching \in SUBSET DOMAIN receipts
    BY DEF Matching
  <2>5. IsFiniteSet(Y) /\ Cardinality(Y) \in Nat /\ Cardinality(Y) <= 1
    <3>1. \A n \in Nat : n >= 1 =>
            /\ IsFiniteSet(Page(Matching, shown.offset, n))
            /\ Cardinality(Page(Matching, shown.offset, n)) \in Nat
            /\ Cardinality(Page(Matching, shown.offset, n)) <= n
      BY <1>0, <2>4, PageIs
    <3> QED BY <3>1
  <2>6. ASSUME NEW i \in Passed' PROVE i \in Passed \cup Y
    <3>1. i \in shown.first \ shown.received /\ i \in Matching
      <4>1. i \in shown.first \ shown.received /\ Matches(i)' /\ i \in DOMAIN receipts
        BY <1>0, <2>6 DEF Passed
      <4>2. i \in Matching'
        BY <4>1, ReceiptsGrow DEF Matching
      <4> QED BY <4>1, <4>2, <2>1
    <3>2. CASE at > 2
      BY <3>1, <3>2 DEF Passed, Matching
    <3>3. CASE ~(at > 2)
      <4> DEFINE a == newer[i] \cap Matching
                 b == newer[i] \cap Matching'
      <4>1. Rank(i, Matching)' < shown.offset
        BY <2>6, <3>3 DEF Passed
      <4>2. Rank(i, Matching) = Cardinality(a) /\ Rank(i, Matching)' = Cardinality(b)
        BY <2>1 DEF Rank
      <4>3. a \subseteq b \cup {x} /\ b \subseteq Matching
        BY <2>1
      <4>4. IsFiniteSet(Matching)
        BY <1>0, <2>4, FS_Subset DEF Ordered
      <4>5. Cardinality(a) <= Cardinality(b) + 1 /\ Cardinality(a) \in Nat /\ Cardinality(b) \in Nat
        <5> HIDE DEF a, b, x
        <5>1. IsFiniteSet(b)
          BY <4>3, <4>4, FS_Subset
        <5>2. IsFiniteSet(b \cup {x}) /\ Cardinality(b \cup {x}) <= Cardinality(b) + 1 /\ Cardinality(b) \in Nat
          <6>1. Cardinality(b) \in Nat
            BY <5>1, FS_CardinalityType
          <6>2. IsFiniteSet(b \cup {x})
            BY <5>1, FS_AddElement
          <6>3. Cardinality(b \cup {x}) = Cardinality(b) \/ Cardinality(b \cup {x}) = Cardinality(b) + 1
            BY <5>1, FS_AddElement
          <6> QED BY <6>1, <6>2, <6>3
        <5>3. IsFiniteSet(a) /\ Cardinality(a) <= Cardinality(b \cup {x}) /\ Cardinality(a) \in Nat
              /\ Cardinality(b \cup {x}) \in Nat
          BY <5>2, <4>3, FS_Subset, FS_CardinalityType
        <5> QED BY <5>2, <5>3
      <4> HIDE DEF a, b
      <4>6. Rank(i, Matching) < shown.offset \/ Rank(i, Matching) = shown.offset
        BY <1>0, <4>1, <4>2, <4>5
      <4>7. Rank(i, Matching) = shown.offset => i \in Y
        BY <1>0, <3>1 DEF Page
      <4> QED BY <3>1, <4>6, <4>7 DEF Passed, Matching
    <3> QED BY <3>2, <3>3
  <2> HIDE DEF Y
  <2>7. Passed' \subseteq Passed \cup Y
    BY <2>6
  <2>8. /\ IsFiniteSet(Passed \cup Y)
        /\ Cardinality(Passed \cup Y) = Cardinality(Passed) + Cardinality(Y) - Cardinality(Passed \cap Y)
    BY <1>0, <2>5, FS_Union
  <2>9. Cardinality(Passed \cap Y) \in Nat
    BY <1>0, FS_Subset, FS_CardinalityType
  <2>10. Cardinality(Passed') <= Cardinality(Passed \cup Y) /\ Cardinality(Passed') \in Nat /\ Cardinality(Passed \cup Y) \in Nat
    BY <2>7, <2>8, FS_Subset, FS_CardinalityType
  <2> QED BY <1>0, <2>3, <2>5, <2>8, <2>9, <2>10
<1> QED BY <1>1, <1>2

ReadProps == OverviewAddsUp /\ ListsCoverOverview /\ PlayersComplete /\ ShortPageExplained

\* Nothing of what has been shown depends on a request.
LEMMA ShownStays ==
  ASSUME Progress, PlayersInv, ReadProps, UNCHANGED <<ask, at, shown>>, charged \subseteq charged'
  PROVE  Progress' /\ PlayersInv' /\ ReadProps'
<1>1. Progress'
  BY DEF Progress, Path, Has
<1>2. PlayersInv'
  BY DEF PlayersInv, Has
<1>3. Limit' = Limit
  BY DEF Limit, ClampLimit
<1>4. OverviewAddsUp' /\ ListsCoverOverview' /\ ShortPageExplained'
  BY <1>3 DEF ReadProps, OverviewAddsUp, ListsCoverOverview, ShortPageExplained, Has, SumOf
<1>5. PlayersComplete'
  BY DEF ReadProps, PlayersComplete, Has, Is
<1> QED BY <1>1, <1>2, <1>4, <1>5 DEF ReadProps

LEMMA RequestKeeps ==
  ASSUME TablesInv, ReaderInv, ReadProps, NEW r \in Requests, Write(r)
  PROVE  TablesInv' /\ ReaderInv' /\ ReadProps'
<1>0. Step(r) /\ TablesInv' /\ UNCHANGED <<ask, at, shown>>
  BY WriteIs, TablesKept DEF Step, Write
<1>1. charged \subseteq charged'
  BY <1>0 DEF Step, Credits, Reverses, Adjusts, ChargesGame
<1>2. Progress' /\ PlayersInv' /\ ReadProps'
  BY <1>0, <1>1, ShownStays DEF ReaderInv
<1>3. OverviewInv'
  <2> DEFINE u == ask.user
             o == shown.overview
             R == ReceiptsOf(u)
  <2> SUFFICES ASSUME Has({"overview"})
               PROVE  /\ o.games \in Nat /\ o.games <= Cardinality(GamePayments(u)')
                      /\ o.gamesPaid \in Int /\ o.gamesPaid <= -SumOf(GamePayments(u)')
                      /\ o.receipts \in Nat /\ o.receipts <= Cardinality(R')
    BY <1>0 DEF OverviewInv, Has
  <2>1. /\ o.games \in Nat /\ o.games <= Cardinality(GamePayments(u))
        /\ o.gamesPaid \in Int /\ o.gamesPaid <= -SumOf(GamePayments(u))
        /\ o.receipts \in Nat /\ o.receipts <= Cardinality(R)
    BY DEF ReaderInv, OverviewInv
  <2>2. /\ Cardinality(GamePayments(u)) <= Cardinality(GamePayments(u)')
        /\ -SumOf(GamePayments(u)) <= -SumOf(GamePayments(u)')
        /\ SumOf(GamePayments(u)) \in Int /\ SumOf(GamePayments(u)') \in Int
        /\ Cardinality(GamePayments(u)) \in Nat /\ Cardinality(GamePayments(u)') \in Nat
    BY <1>0, PaymentsGrow
  <2>3. R \subseteq R'
    BY <1>0, ReceiptsGrow DEF ReceiptsOf
  <2>4. IsFiniteSet(R')
    <3>1. R' \subseteq DOMAIN receipts'
      BY DEF ReceiptsOf
    <3> QED BY <1>0, <3>1, FS_Subset DEF TablesInv, Ordered
  <2>5. Cardinality(R) <= Cardinality(R') /\ Cardinality(R) \in Nat /\ Cardinality(R') \in Nat
    <3> HIDE DEF R
    <3> QED BY <2>3, <2>4, FS_Subset, FS_CardinalityType
  <2> HIDE DEF o, R, u
  <2> QED BY <2>1, <2>2, <2>5
<1>4. PagesInv'
  <2>1. /\ shown.received \subseteq DOMAIN receipts' /\ shown.offset \in Nat
        /\ ~Has({"first"}) => shown.received = {} /\ shown.offset = 0 /\ ~Has({"rejected"})
        /\ Has({"page"}) \/ (ask.op \notin {"dashboard", "players"} /\ at > 1) => Has({"first"})
        /\ Has({"first"}) => Has({"rejected", "total"})
    BY <1>0, ReceiptsGrow DEF ReaderInv, PagesInv
  <2>2. ASSUME Has({"first"})
        PROVE  /\ shown.first \subseteq DOMAIN receipts' /\ shown.rejected \subseteq Rejected'
               /\ ask.status # "credited" => shown.first \subseteq Matching'
               /\ Cardinality(Passed') <= Cardinality(LeftList')
               /\ shown.total \in Nat
               /\ at = 2 /\ ask.status # "credited" => shown.total <= Total'
    <3>1. /\ shown.first \subseteq DOMAIN receipts /\ shown.rejected \subseteq Rejected
          /\ ask.status # "credited" => shown.first \subseteq Matching
          /\ shown.total \in Nat
          /\ at = 2 /\ ask.status # "credited" => shown.total <= Total
      BY <2>2 DEF ReaderInv, PagesInv
    <3>2. Cardinality(Passed') <= Cardinality(LeftList')
      BY <1>0, <2>2, PassedKept DEF ReaderInv
    <3>3. ask.status # "credited" => Matching \subseteq Matching'
      BY <1>0, MatchingGrows
    <3>4. /\ Matching \subseteq Matching' => Total <= Total'
          /\ Total \in Nat /\ Total' \in Nat
      <4>1. Matching \subseteq DOMAIN receipts /\ Matching' \subseteq DOMAIN receipts'
        BY DEF Matching
      <4>2. IsFiniteSet(Matching) /\ IsFiniteSet(Matching')
        BY <1>0, <4>1, FS_Subset DEF TablesInv, Ordered
      <4> QED BY <4>2, FS_Subset, FS_CardinalityType DEF Total
    <3>5. shown.first \subseteq DOMAIN receipts' /\ shown.rejected \subseteq Rejected'
      BY <1>0, <3>1, ReceiptsGrow
    <3> QED BY <3>1, <3>2, <3>3, <3>4, <3>5
  <2> QED BY <1>0, <2>1, <2>2 DEF PagesInv, Has
<1> QED BY <1>0, <1>2, <1>3, <1>4 DEF ReaderInv

(***************************************************************************)
(* The statements of a reader.                                             *)
(***************************************************************************)
LEMMA PathIs ==
  ASSUME Progress, NEW name, Upcoming(name)
  PROVE  /\ at \in Nat /\ at' = at + 1 => at' \in 1..Len(Path) + 1
         /\ name = "overview" => ask.op = "dashboard" /\ at = 1
         /\ name = "games" => ask.op = "dashboard" /\ at = 2
         /\ name = "receipts" => ask.op = "dashboard" /\ at = 3
         /\ name = "adjustments" => ask.op = "dashboard" /\ at = 4
         /\ name = "game" => ask.op = "players" /\ at = 1
         /\ name = "players" => ask.op = "players" /\ at = 2
         /\ name = "total" => ask.op \notin {"dashboard", "players"} /\ at = 1
         /\ name = "page" => ask.op \notin {"dashboard", "players"} /\ at = 2
<1>1. CASE ask.op = "dashboard"
  <2>1. Path = <<"overview", "games", "receipts", "adjustments">>
    BY <1>1 DEF Path
  <2>2. at \in 1..4
    BY <2>1 DEF Upcoming, Progress
  <2> QED BY <1>1, <2>1, <2>2 DEF Upcoming
<1>2. CASE ask.op = "players"
  <2>1. Path = <<"game", "players">>
    BY <1>2 DEF Path
  <2>2. at \in 1..2
    BY <2>1 DEF Upcoming, Progress
  <2> QED BY <1>2, <2>1, <2>2 DEF Upcoming
<1>3. CASE ask.op \notin {"dashboard", "players"}
  <2>1. Path = <<"total", "page">>
    BY <1>3 DEF Path
  <2>2. at \in 1..2
    BY <2>1 DEF Upcoming, Progress
  <2> QED BY <1>3, <2>1, <2>2 DEF Upcoming
<1> QED BY <1>1, <1>2, <1>3

LEMMA ShowIs ==
  ASSUME NEW name, NEW rows, Show(name, rows)
  PROVE  /\ DOMAIN shown' = DOMAIN shown \cup {name} /\ shown'[name] = rows
         /\ \A n \in DOMAIN shown \ {name} : shown'[n] = shown[n]
         /\ at' = at + 1 /\ Quiet /\ games' = games /\ ask' = ask
BY DEF Show, Overlay, Quiet, tables

\* What a reader reads is what it was before its statement.
LEMMA ReadFrame ==
  ASSUME TablesInv, Quiet, games' = games, ask' = ask
  PROVE  /\ TablesInv' /\ Limit' = Limit /\ Path' = Path
         /\ \A u : /\ GamePayments(u)' = GamePayments(u) /\ ReceiptsOf(u)' = ReceiptsOf(u)
                   /\ SumOf(GamePayments(u))' = SumOf(GamePayments(u))
         /\ Matching' = Matching /\ Total' = Total /\ Rejected' = Rejected
         /\ \A i : Rank(i, Matching)' = Rank(i, Matching) /\ (Matches(i)' <=> Matches(i))
<1>1. games \subseteq games' /\ games' \subseteq Games
  BY DEF TablesInv, TablesTypeOK
<1>2. TablesInv'
  BY <1>1, QuietTables
<1>3. Limit' = Limit /\ Path' = Path
  BY DEF Limit, ClampLimit, Path
<1>4. \A u : /\ GamePayments(u)' = GamePayments(u) /\ ReceiptsOf(u)' = ReceiptsOf(u)
             /\ SumOf(GamePayments(u))' = SumOf(GamePayments(u))
  BY DEF Quiet, GamePayments, Entries, ReceiptsOf, SumOf
<1>5. \A i : Matches(i)' <=> Matches(i)
  BY DEF Quiet, Matches
<1>6. Matching' = Matching /\ Rejected' = Rejected
  BY <1>5 DEF Quiet, Matching, Rejected
<1>7. Total' = Total
  BY <1>6 DEF Total
<1>8. \A i : Rank(i, Matching)' = Rank(i, Matching)
  BY <1>6 DEF Quiet, Rank
<1> QED BY <1>2, <1>3, <1>4, <1>5, <1>6, <1>7, <1>8

\* A statement of a dashboard or of the players of a game shows nothing of pages.
LEMMA PagesStay ==
  ASSUME TablesInv, ReaderInv, ReadProps, ask.op \in {"dashboard", "players"}, NEW name, NEW rows,
         Show(name, rows),
         name \in {"overview", "games", "receipts", "adjustments", "game", "players"}
  PROVE  PagesInv' /\ ShortPageExplained' /\ TablesInv' /\ Has({"received", "offset"})'
         /\ ~Has({"first"})' /\ ~Has({"page"})'
<1>1. ~Has({"first"}) /\ ~Has({"page"}) /\ Has({"received", "offset"})
  BY DEF ReaderInv, Progress
<1>2. /\ DOMAIN shown' = DOMAIN shown \cup {name}
      /\ shown'.received = shown.received /\ shown'.offset = shown.offset
  BY <1>1, ShowIs DEF Has
<1>3. ~Has({"first"})' /\ ~Has({"page"})' /\ Has({"received", "offset"})'
  BY <1>1, <1>2 DEF Has
<1>4. /\ shown.received = {} /\ shown.offset = 0
  BY <1>1 DEF ReaderInv, PagesInv
<1>5. PagesInv'
  <2>1. ~Has({"rejected"})
    BY <1>1 DEF ReaderInv, PagesInv
  <2>2. ~Has({"rejected"})' /\ ask' = ask
    BY <1>2, <2>1, ShowIs DEF Has
  <2> QED BY <1>2, <1>3, <1>4, <2>2 DEF PagesInv
<1>6. ShortPageExplained'
  BY <1>3 DEF ShortPageExplained
<1> QED BY <1>3, <1>5, <1>6, ShowIs, ReadFrame

LEMMA OverviewIs ==
  ASSUME TablesInv, NEW u
  PROVE  LET o == Overview(u)
         IN  /\ o.balance = o.toppedUp - o.gamesPaid
             /\ o.games \in Nat /\ o.games = Cardinality(GamePayments(u))
             /\ o.gamesPaid \in Int /\ o.gamesPaid = -SumOf(GamePayments(u))
             /\ o.receipts \in Nat /\ o.receipts <= Cardinality(ReceiptsOf(u))
<1> DEFINE P == GamePayments(u)
           T == Entries(u, {"receipt_credit", "receipt_reversal", "admin_adjustment"})
           c == {i \in DOMAIN receipts : receipts[i].user = u /\ receipts[i].status = "credited"}
           R == ReceiptsOf(u)
           o == Overview(u)
<1>1. /\ o.balance = (IF u \in DOMAIN balances THEN balances[u].amount ELSE 0)
      /\ o.games = Cardinality(P) /\ o.gamesPaid = -SumOf(P) /\ o.toppedUp = SumOf(T)
      /\ o.receipts = Cardinality(c)
  BY DEF Overview, ToppedUp, GamePayments
<1>2. EntriesFor(u) = T \cup P /\ T \cap P = {} /\ T \subseteq ledger /\ P \subseteq ledger
  BY DEF TablesInv, TablesTypeOK, EntryRow, EntriesFor, Entries, GamePayments
<1>3. c \subseteq R /\ R \subseteq DOMAIN receipts
  BY DEF ReceiptsOf
<1> HIDE DEF P, T, c, R
<1>4. IsFiniteSet(T) /\ IsFiniteSet(P) /\ \A e \in T \cup P : e.amount \in Int
  BY <1>2, LedgerRows
<1>5. /\ AmountSum(T \cup P) = AmountSum(T) + AmountSum(P)
      /\ AmountSum(T) \in Int /\ AmountSum(P) \in Int
  BY <1>2, <1>4, AmountsUnion, AmountsType
<1>6. o.balance = AmountSum(T \cup P)
  <2>1. CASE u \in DOMAIN balances
    BY <1>1, <1>2, <2>1, SumIsAmountSum DEF TablesInv, Books
  <2>2. CASE u \notin DOMAIN balances
    <3>1. EntriesFor(u) = {}
      BY <2>2 DEF TablesInv, Books, EntriesFor
    <3> QED BY <1>1, <1>2, <2>2, <3>1, AmountsEmpty
  <2> QED BY <2>1, <2>2
<1>7. /\ IsFiniteSet(R) /\ Cardinality(c) \in Nat /\ Cardinality(c) <= Cardinality(R)
      /\ Cardinality(P) \in Nat
  <2>1. IsFiniteSet(R)
    BY <1>3, FS_Subset DEF TablesInv, Ordered
  <2> QED BY <1>3, <1>4, <2>1, FS_Subset, FS_CardinalityType
<1>8. o.balance = o.toppedUp - o.gamesPaid /\ o.gamesPaid \in Int
  <2> HIDE DEF o
  <2> QED BY <1>1, <1>5, <1>6, SumIsAmountSum
<1> QED BY <1>1, <1>7, <1>8 DEF o, P, R

LEMMA OverviewStep ==
  ASSUME TablesInv, ReaderInv, ReadProps, GetUserOverview
  PROVE  TablesInv' /\ ReaderInv' /\ ReadProps'
<1>0. /\ Upcoming("overview") /\ Show("overview", Overview(ask.user))
      /\ ask.op = "dashboard" /\ at = 1 /\ at' = 2 /\ at' \in 1..Len(Path) + 1
  <2>1. Upcoming("overview") /\ Show("overview", Overview(ask.user)) /\ Progress
    BY DEF GetUserOverview, ReaderInv
  <2>2. at' = at + 1
    BY <2>1, ShowIs
  <2> QED BY <2>1, <2>2, PathIs
<1>1. /\ PagesInv' /\ ShortPageExplained' /\ TablesInv' /\ Has({"received", "offset"})'
      /\ ~Has({"first"})' /\ ~Has({"page"})'
  BY <1>0, PagesStay
<1>2. /\ DOMAIN shown' = DOMAIN shown \cup {"overview"} /\ shown'.overview = Overview(ask.user)
      /\ Quiet /\ games' = games /\ ask' = ask
  BY <1>0, ShowIs
<1>3. /\ Limit' = Limit /\ Path' = Path
      /\ \A u : /\ GamePayments(u)' = GamePayments(u) /\ ReceiptsOf(u)' = ReceiptsOf(u)
                /\ SumOf(GamePayments(u))' = SumOf(GamePayments(u))
  BY <1>2, ReadFrame
<1>4. /\ ~Has({"games"})' /\ ~Has({"receipts"})' /\ ~Has({"game"})' /\ ~Has({"players"})'
  BY <1>0, <1>2 DEF ReaderInv, Progress, Has
<1>5. Progress'
  BY <1>0, <1>1, <1>2, <1>3, <1>4 DEF ReaderInv, Progress
<1>6. OverviewInv' /\ OverviewAddsUp'
  <2> DEFINE o == Overview(ask.user)
  <2>1. /\ o.balance = o.toppedUp - o.gamesPaid
        /\ o.games \in Nat /\ o.games = Cardinality(GamePayments(ask.user))
        /\ o.gamesPaid \in Int /\ o.gamesPaid = -SumOf(GamePayments(ask.user))
        /\ o.receipts \in Nat /\ o.receipts <= Cardinality(ReceiptsOf(ask.user))
    BY <1>1, OverviewIs
  <2> HIDE DEF o
  <2>2. shown'.overview = o
    BY <1>2 DEF o
  <2>3. OverviewAddsUp'
    BY <2>1, <2>2 DEF OverviewAddsUp
  <2>4. OverviewInv'
    BY <1>2, <1>3, <2>1, <2>2 DEF OverviewInv
  <2> QED BY <2>3, <2>4
<1>7. PlayersInv' /\ PlayersComplete' /\ ListsCoverOverview'
  BY <1>4 DEF PlayersInv, PlayersComplete, ListsCoverOverview, Has
<1> QED BY <1>1, <1>5, <1>6, <1>7 DEF ReaderInv, ReadProps

\* The lists of a dashboard leave the overview as it was shown.
LEMMA ListKeeps ==
  ASSUME TablesInv, ReaderInv, ReadProps, NEW name, NEW rows, Upcoming(name), Show(name, rows),
         name \in {"games", "receipts", "adjustments"}
  PROVE  /\ TablesInv' /\ ReaderInv' /\ Limit' = Limit
         /\ OverviewAddsUp' /\ PlayersComplete' /\ ShortPageExplained'
         /\ Has({"overview"})' => Has({"overview"}) /\ shown'.overview = shown.overview
<1>0. Progress /\ at' = at + 1
  BY ShowIs DEF ReaderInv
<1>1. /\ ask.op = "dashboard" /\ at > 1 /\ at' > 1 /\ at' \in 1..Len(Path) + 1
  BY <1>0, PathIs
<1>2. /\ PagesInv' /\ ShortPageExplained' /\ TablesInv' /\ Has({"received", "offset"})'
      /\ ~Has({"first"})' /\ ~Has({"page"})'
  BY <1>1, PagesStay
<1>3. /\ DOMAIN shown' = DOMAIN shown \cup {name}
      /\ \A n \in DOMAIN shown \ {name} : shown'[n] = shown[n]
      /\ Quiet /\ games' = games /\ ask' = ask
  BY ShowIs
<1>4. /\ Limit' = Limit /\ Path' = Path
      /\ \A u : /\ GamePayments(u)' = GamePayments(u) /\ ReceiptsOf(u)' = ReceiptsOf(u)
                /\ SumOf(GamePayments(u))' = SumOf(GamePayments(u))
  BY <1>3, ReadFrame
<1>5. ~Has({"game"})' /\ ~Has({"players"})'
  BY <1>0, <1>1, <1>3 DEF Progress, Has
<1>6. Progress'
  BY <1>1, <1>2, <1>3, <1>4, <1>5, <1>0 DEF Progress
<1>7. Has({"overview"})' => Has({"overview"}) /\ shown'.overview = shown.overview
  BY <1>3 DEF Has
<1>8. OverviewInv'
  BY <1>3, <1>4, <1>7 DEF ReaderInv, OverviewInv
<1>9. OverviewAddsUp' /\ PlayersInv' /\ PlayersComplete'
  BY <1>5, <1>7 DEF ReadProps, OverviewAddsUp, PlayersInv, PlayersComplete, Has
<1> QED BY <1>2, <1>4, <1>6, <1>7, <1>8, <1>9 DEF ReaderInv

LEMMA PaymentsStep ==
  ASSUME TablesInv, ReaderInv, ReadProps, ListGamePayments
  PROVE  TablesInv' /\ ReaderInv' /\ ReadProps'
<1> DEFINE P == GamePayments(ask.user)
           o == shown.overview
<1>0. PICK rows \in FirstOf(P, Limit) : Upcoming("games") /\ Show("games", rows)
  BY DEF ListGamePayments, GamePayments
<1>1. /\ TablesInv' /\ ReaderInv' /\ Limit' = Limit
      /\ OverviewAddsUp' /\ PlayersComplete' /\ ShortPageExplained'
      /\ Has({"overview"})' => Has({"overview"}) /\ shown'.overview = o
  BY <1>0, ListKeeps
<1>2. /\ shown'.games = rows /\ DOMAIN shown' = DOMAIN shown \cup {"games"}
      /\ \A n \in DOMAIN shown \ {"games"} : shown'[n] = shown[n] /\ ask' = ask
  BY <1>0, ShowIs
<1>3. P \subseteq ledger
  BY DEF GamePayments, Entries
<1>4. Has({"overview"}) =>
        /\ o.games \in Nat /\ o.games <= Cardinality(P)
        /\ o.gamesPaid \in Int /\ o.gamesPaid <= -SumOf(P)
  BY DEF ReaderInv, OverviewInv
<1>5. Limit \in Nat /\ Limit >= 1
  BY LimitIs DEF ReaderInv, Progress
<1> HIDE DEF P, o
<1>6. IsFiniteSet(P) /\ Cardinality(P) \in Nat
  BY <1>3, LedgerRows, FS_CardinalityType
<1>7. /\ rows \in SUBSET P
      /\ Cardinality(rows) = (IF Cardinality(P) <= Limit THEN Cardinality(P) ELSE Limit)
  BY <1>0, <1>5, <1>6, MinOfTwo DEF FirstOf, kSubset
<1>8. Cardinality(rows) < Limit => rows = P
  <2>1. Cardinality(P) = Cardinality(rows) => rows = P
    BY <1>6, <1>7, FS_Subset
  <2> QED BY <1>5, <1>6, <1>7, <2>1
<1>9. Has({"overview", "games"})' /\ Cardinality(rows) < Limit =>
        Cardinality(rows) >= o.games /\ -SumOf(rows) >= o.gamesPaid
  <2> SUFFICES ASSUME Has({"overview", "games"})', Cardinality(rows) < Limit
               PROVE  Cardinality(rows) >= o.games /\ -SumOf(rows) >= o.gamesPaid
    OBVIOUS
  <2>1. Has({"overview"})
    BY <1>1 DEF Has
  <2>2. rows = P /\ SumOf(P) \in Int
    BY <1>3, <1>6, <1>8, LedgerRows, AmountsType, SumIsAmountSum
  <2> QED BY <1>4, <1>6, <2>1, <2>2
<1>10. Has({"overview", "receipts"})' => Has({"overview", "receipts"}) /\ shown'.receipts = shown.receipts
  BY <1>2 DEF Has
<1>11. Has({"overview", "receipts"})' => Cardinality(shown'.receipts) >= Min({Limit', shown'.overview.receipts})
  <2>1. Has({"overview", "receipts"}) => Cardinality(shown.receipts) >= Min({Limit, o.receipts})
    BY DEF ReadProps, ListsCoverOverview, o
  <2> QED BY <1>1, <1>10, <2>1 DEF Has
<1>12. ListsCoverOverview'
  <2>1. Has({"overview", "games"})' => shown'.overview = o
    BY <1>1 DEF Has
  <2>2. (-SumOf(shown.games))' = -SumOf(rows)
    BY <1>2 DEF SumOf
  <2> QED BY <1>1, <1>2, <1>9, <1>11, <2>1, <2>2 DEF ListsCoverOverview
<1> QED BY <1>1, <1>12 DEF ReadProps

LEMMA ReceiptsStep ==
  ASSUME TablesInv, ReaderInv, ReadProps, ListReceipts
  PROVE  TablesInv' /\ ReaderInv' /\ ReadProps'
<1> DEFINE R == ReceiptsOf(ask.user)
           rows == Page(R, 0, Limit)
           o == shown.overview
<1>0. Upcoming("receipts") /\ Show("receipts", rows)
  BY DEF ListReceipts
<1>1. /\ TablesInv' /\ ReaderInv' /\ Limit' = Limit
      /\ OverviewAddsUp' /\ PlayersComplete' /\ ShortPageExplained'
      /\ Has({"overview"})' => Has({"overview"}) /\ shown'.overview = o
  BY <1>0, ListKeeps
<1>2. /\ shown'.receipts = rows /\ DOMAIN shown' = DOMAIN shown \cup {"receipts"}
      /\ \A n \in DOMAIN shown \ {"receipts"} : shown'[n] = shown[n]
  BY <1>0, ShowIs
<1>3. Has({"overview"}) => o.receipts \in Nat /\ o.receipts <= Cardinality(R)
  BY DEF ReaderInv, OverviewInv
<1>4. Limit \in Nat /\ Limit >= 1
  BY LimitIs DEF ReaderInv, Progress
<1>5. R \in SUBSET DOMAIN receipts /\ Ordered
  BY DEF ReceiptsOf, TablesInv
<1>6. Cardinality(R) \in Nat
  BY <1>5, RankIs
<1>7. /\ Cardinality(rows) \in Nat
      /\ 0 + Limit <= Cardinality(R) => Cardinality(rows) = Limit
      /\ Cardinality(R) < 0 + Limit => 0 + Cardinality(rows) >= Cardinality(R)
  <2> HIDE DEF R
  <2>1. \A off \in Nat, n \in Nat : n >= 1 =>
          /\ Cardinality(Page(R, off, n)) \in Nat
          /\ off + n <= Cardinality(R) => Cardinality(Page(R, off, n)) = n
          /\ Cardinality(R) < off + n => off + Cardinality(Page(R, off, n)) >= Cardinality(R)
    BY <1>5, PageIs
  <2> QED BY <1>4, <2>1
<1> HIDE DEF R, rows, o
<1>8. Has({"overview", "receipts"})' => Cardinality(shown'.receipts) >= Min({Limit', shown'.overview.receipts})
  <2> SUFFICES ASSUME Has({"overview", "receipts"})'
               PROVE  Cardinality(rows) >= Min({Limit, o.receipts})
    BY <1>1, <1>2 DEF Has
  <2>1. Has({"overview"})
    BY <1>1 DEF Has
  <2>2. Min({Limit, o.receipts}) = IF Limit <= o.receipts THEN Limit ELSE o.receipts
    BY <1>3, <1>4, <2>1, MinOfTwo
  <2> QED BY <1>3, <1>4, <1>6, <1>7, <2>1, <2>2
<1>9. Has({"overview", "games"})' =>
        Has({"overview", "games"}) /\ shown'.games = shown.games /\ shown'.overview = o
  BY <1>1, <1>2 DEF Has
<1>10. ListsCoverOverview'
  <2>1. Has({"overview", "games"})' => (-SumOf(shown.games))' = -SumOf(shown.games)
    BY <1>9 DEF SumOf
  <2>2. Has({"overview", "games"}) /\ Cardinality(shown.games) < Limit =>
          Cardinality(shown.games) >= o.games /\ -SumOf(shown.games) >= o.gamesPaid
    BY DEF ReadProps, ListsCoverOverview, o
  <2> QED BY <1>1, <1>8, <1>9, <2>1, <2>2 DEF ListsCoverOverview
<1> QED BY <1>1, <1>10 DEF ReadProps

LEMMA AdjustmentsStep ==
  ASSUME TablesInv, ReaderInv, ReadProps, ListAdjustments
  PROVE  TablesInv' /\ ReaderInv' /\ ReadProps'
<1>0. PICK rows : Upcoming("adjustments") /\ Show("adjustments", rows)
  BY DEF ListAdjustments
<1>1. /\ TablesInv' /\ ReaderInv' /\ Limit' = Limit
      /\ OverviewAddsUp' /\ PlayersComplete' /\ ShortPageExplained'
  BY <1>0, ListKeeps
<1>2. \A n \in {"overview", "games", "receipts"} :
        n \in DOMAIN shown' => n \in DOMAIN shown /\ shown'[n] = shown[n]
  <2>1. /\ DOMAIN shown' = DOMAIN shown \cup {"adjustments"}
        /\ \A n \in DOMAIN shown \ {"adjustments"} : shown'[n] = shown[n]
    BY <1>0, ShowIs
  <2> QED BY <2>1
<1>3. /\ Has({"overview", "games"})' => /\ Has({"overview", "games"})
                                        /\ shown'.games = shown.games /\ shown'.overview = shown.overview
      /\ Has({"overview", "receipts"})' =>
           /\ Has({"overview", "receipts"})
           /\ shown'.receipts = shown.receipts /\ shown'.overview = shown.overview
  BY <1>2 DEF Has
<1>4. ListsCoverOverview'
  <2>1. Has({"overview", "games"})' => (-SumOf(shown.games))' = -SumOf(shown.games)
    BY <1>3 DEF SumOf
  <2> QED BY <1>1, <1>3, <2>1 DEF ReadProps, ListsCoverOverview
<1> QED BY <1>1, <1>4 DEF ReadProps

\* The two statements of the players of a game show nothing of a dashboard.
LEMMA PlayersFrame ==
  ASSUME TablesInv, ReaderInv, ReadProps, NEW name, NEW rows, Upcoming(name), Show(name, rows),
         name \in {"game", "players"}
  PROVE  /\ TablesInv' /\ Progress' /\ OverviewInv' /\ PagesInv'
         /\ OverviewAddsUp' /\ ListsCoverOverview' /\ ShortPageExplained'
         /\ DOMAIN shown' = DOMAIN shown \cup {name} /\ shown'[name] = rows
         /\ \A n \in DOMAIN shown \ {name} : shown'[n] = shown[n]
         /\ Quiet /\ games' = games /\ ask' = ask
<1>0. Progress /\ at' = at + 1
  BY ShowIs DEF ReaderInv
<1>1. /\ ask.op = "players" /\ at \in Nat /\ at' \in 1..Len(Path) + 1
      /\ name = "game" => at = 1
      /\ name = "players" => at = 2
  <2>1. at \in Nat
    BY <1>0 DEF Progress
  <2> QED BY <1>0, <2>1, PathIs
<1>2. /\ PagesInv' /\ ShortPageExplained' /\ TablesInv' /\ Has({"received", "offset"})'
      /\ ~Has({"first"})' /\ ~Has({"page"})'
  BY <1>1, PagesStay
<1>3. /\ DOMAIN shown' = DOMAIN shown \cup {name} /\ shown'[name] = rows
      /\ \A n \in DOMAIN shown \ {name} : shown'[n] = shown[n]
      /\ Quiet /\ games' = games /\ ask' = ask
  BY ShowIs
<1>4. Path' = Path
  BY <1>3, ReadFrame
<1>5. ~Has({"overview"})' /\ ~Has({"games"})' /\ ~Has({"receipts"})'
  BY <1>0, <1>1, <1>3 DEF Progress, Has
<1>6. Has({"players"})' => at' > 2
  BY <1>0, <1>1, <1>3 DEF Progress, Has
<1>7. Progress'
  BY <1>0, <1>1, <1>2, <1>3, <1>4, <1>5, <1>6 DEF Progress
<1>8. OverviewInv' /\ OverviewAddsUp' /\ ListsCoverOverview'
  BY <1>5 DEF OverviewInv, OverviewAddsUp, ListsCoverOverview, Has
<1> QED BY <1>2, <1>3, <1>7, <1>8

LEMMA GameStep ==
  ASSUME TablesInv, ReaderInv, ReadProps, GetGame
  PROVE  TablesInv' /\ ReaderInv' /\ ReadProps'
<1> DEFINE row == [id |-> ask.game, charged |-> ask.game \in charged]
<1>0. Upcoming("game") /\ Show("game", row)
  BY DEF GetGame
<1>1. /\ TablesInv' /\ Progress' /\ OverviewInv' /\ PagesInv'
      /\ OverviewAddsUp' /\ ListsCoverOverview' /\ ShortPageExplained'
      /\ DOMAIN shown' = DOMAIN shown \cup {"game"} /\ shown'["game"] = row
      /\ Quiet /\ games' = games /\ ask' = ask
  BY <1>0, PlayersFrame
<1>2. shown'.game.charged => ask.game \in charged
  <2>1. shown'.game = row
    BY <1>1
  <2>2. row.charged = (ask.game \in charged)
    BY Zenon
  <2> HIDE DEF row
  <2> QED BY <2>1, <2>2, Zenon
<1>3. PlayersInv'
  BY <1>1, <1>2 DEF PlayersInv, Quiet
<1>4. ~Has({"players"})'
  <2>1. at = 1
    BY <1>0, PathIs DEF ReaderInv
  <2>2. ~Has({"players"})
    BY <2>1 DEF ReaderInv, Progress
  <2> QED BY <1>1, <2>2 DEF Has
<1>5. PlayersComplete'
  BY <1>4 DEF PlayersComplete, Has
<1> QED BY <1>1, <1>3, <1>5 DEF ReaderInv, ReadProps

LEMMA PlayersStep ==
  ASSUME TablesInv, ReaderInv, ReadProps, ListGamePlayers
  PROVE  TablesInv' /\ ReaderInv' /\ ReadProps'
<1> DEFINE g == ask.game
           rows == PlayersOf(g)
<1>0. Upcoming("players") /\ Show("players", rows)
  BY DEF ListGamePlayers, PlayersOf
<1>1. /\ TablesInv' /\ Progress' /\ OverviewInv' /\ PagesInv'
      /\ OverviewAddsUp' /\ ListsCoverOverview' /\ ShortPageExplained'
      /\ DOMAIN shown' = DOMAIN shown \cup {"players"} /\ shown'["players"] = rows
      /\ \A n \in DOMAIN shown \ {"players"} : shown'[n] = shown[n]
      /\ Quiet /\ games' = games /\ ask' = ask
  BY <1>0, PlayersFrame
<1>2. Has({"game"})' => Has({"game"}) /\ shown'.game = shown.game
  BY <1>1 DEF Has
<1>3. PlayersInv'
  BY <1>1, <1>2 DEF PlayersInv, ReaderInv, Quiet
<1>4. ASSUME rows # {} PROVE g \in charged
  <2>1. PICK e \in ledger : e.ref = GameRef(g)
    BY <1>4 DEF PlayersOf
  <2>2. g \in Games
    BY <2>1 DEF TablesInv, TablesTypeOK, EntryRow, GameRef, ReceiptRef, NoRef
  <2> QED BY <1>4, <2>2 DEF TablesInv, GamesBooked
<1>5. ASSUME g \in charged
      PROVE  /\ rows # {}
             /\ \E r \in Requests :
                  /\ Is(r, "charge") /\ Arg[r].game = g
                  /\ {<<e.user, -e.amount>> : e \in rows}
                       = {<<u, Arg[r].shares[u]>> : u \in DOMAIN Arg[r].shares}
  <2>1. PICK r \in Requests : Is(r, "charge") /\ Arg[r].game = g /\ rows = ChargeOf(r)
    BY <1>5 DEF TablesInv, TablesTypeOK, GamesBooked
  <2> DEFINE s == Arg[r].shares
  <2>2. DOMAIN s # {} /\ \A u \in DOMAIN s : s[u] \in Nat
    BY <2>1, ArgIs
  <2>3. \A u : NewEntry(r, u).user = u /\ NewEntry(r, u).amount = -s[u]
    BY <2>1 DEF NewEntry, Delta
  <2>4. \A u \in DOMAIN s : -(-s[u]) = s[u]
    <3> HIDE DEF s
    <3> QED BY <2>2
  <2>5. rows = {NewEntry(r, u) : u \in DOMAIN s}
    BY <2>1 DEF ChargeOf
  <2>6. {<<e.user, -e.amount>> : e \in rows} = {<<u, s[u]>> : u \in DOMAIN s}
    <3> HIDE DEF s, rows
    <3> QED BY <2>3, <2>4, <2>5
  <2> QED BY <2>1, <2>2, <2>5, <2>6
<1>6. PlayersComplete'
  <2>1. Has({"game", "players"})' /\ shown'.game.charged => rows # {}
    <3> SUFFICES ASSUME Has({"game", "players"})', shown'.game.charged PROVE g \in charged
      BY <1>5
    <3>1. Has({"game"}) /\ shown.game.charged
      BY <1>2 DEF Has
    <3> QED BY <3>1 DEF ReaderInv, PlayersInv
  <2> HIDE DEF rows
  <2> QED BY <1>1, <1>4, <1>5, <2>1 DEF PlayersComplete, Is
<1> QED BY <1>1, <1>3, <1>6 DEF ReaderInv, ReadProps

\* The two statements of the pages show nothing of a dashboard or a game.
LEMMA PagesFrame ==
  ASSUME Progress, PlayersInv, ReadProps, ask' = ask, ask.op \notin {"dashboard", "players"},
         \A n \in {"overview", "games", "receipts", "game", "players"} :
           n \in DOMAIN shown' => n \in DOMAIN shown,
         Has({"received", "offset"})', at' \in 1..Len(Path) + 1, Path' = Path
  PROVE  /\ Progress' /\ OverviewInv' /\ PlayersInv'
         /\ OverviewAddsUp' /\ ListsCoverOverview' /\ PlayersComplete'
<1>1. /\ ~Has({"overview"})' /\ ~Has({"games"})' /\ ~Has({"receipts"})'
      /\ ~Has({"game"})' /\ ~Has({"players"})'
  BY DEF Progress, Has
<1>2. Progress'
  BY <1>1 DEF Progress
<1> QED BY <1>1, <1>2 DEF OverviewInv, PlayersInv, OverviewAddsUp, ListsCoverOverview, PlayersComplete, Has

LEMMA CountStep ==
  ASSUME TablesInv, ReaderInv, ReadProps, CountReceipts
  PROVE  TablesInv' /\ ReaderInv' /\ ReadProps'
<1>0. Upcoming("total") /\ Progress /\ at' = at + 1 /\ Quiet /\ games' = games /\ ask' = ask
  BY DEF CountReceipts, ReaderInv, Quiet, tables
<1>1. ask.op \notin {"dashboard", "players"} /\ at = 1 /\ at' = 2 /\ at' \in 1..Len(Path) + 1
  BY <1>0, PathIs
<1>2. /\ TablesInv' /\ Limit' = Limit /\ Path' = Path
      /\ Matching' = Matching /\ Total' = Total /\ Rejected' = Rejected
      /\ \A i : Rank(i, Matching)' = Rank(i, Matching) /\ (Matches(i)' <=> Matches(i))
  BY <1>0, ReadFrame
<1>3. /\ DOMAIN shown' = DOMAIN shown \cup {"total", "first", "rejected"}
      /\ shown'.total = Total
      /\ Has({"first", "rejected"}) => shown'.first = shown.first /\ shown'.rejected = shown.rejected
      /\ ~Has({"first"}) => shown'.first = Matching
      /\ ~Has({"rejected"}) => shown'.rejected = Rejected
      /\ \A n \in DOMAIN shown \ {"total"} : shown'[n] = shown[n]
  BY DEF CountReceipts, Overlay, Has
<1>4. /\ shown'.received = shown.received /\ shown'.offset = shown.offset
      /\ Has({"received", "offset"})'
  BY <1>0, <1>3 DEF Progress, Has
<1>5. /\ Progress' /\ OverviewInv' /\ PlayersInv'
      /\ OverviewAddsUp' /\ ListsCoverOverview' /\ PlayersComplete'
  <2>1. \A n \in {"overview", "games", "receipts", "game", "players"} :
          n \in DOMAIN shown' => n \in DOMAIN shown
    BY <1>3
  <2> QED BY <1>0, <1>1, <1>2, <1>4, <2>1, PagesFrame DEF ReaderInv
<1>6. ShortPageExplained'
  BY <1>1 DEF ShortPageExplained
<1>7. Matching \subseteq DOMAIN receipts /\ Rejected \subseteq DOMAIN receipts /\ Total \in Nat
      /\ receipts' = receipts
  <2>1. Matching \in SUBSET DOMAIN receipts /\ Ordered
    BY DEF Matching, TablesInv
  <2>2. Cardinality(Matching) \in Nat
    BY <2>1, RankIs
  <2> QED BY <1>0, <2>1, <2>2 DEF Rejected, Total, Quiet
<1>8. /\ shown'.first \subseteq DOMAIN receipts' /\ shown'.rejected \subseteq Rejected'
      /\ ask.status # "credited" => shown'.first \subseteq Matching'
      /\ Cardinality(Passed') <= Cardinality(LeftList')
  <2>1. CASE Has({"first"})
    <3>1. Has({"first", "rejected", "total"})
      BY <2>1 DEF ReaderInv, PagesInv, Has
    <3>2. shown'.first = shown.first /\ shown'.rejected = shown.rejected
      BY <1>3, <3>1 DEF Has
    <3>3. LeftList' = LeftList
      BY <1>0, <1>2, <3>2 DEF LeftList
    <3>4. Passed' = Passed
      BY <1>1, <1>2, <1>4, <3>2 DEF Passed
    <3> QED BY <1>2, <1>7, <2>1, <3>2, <3>3, <3>4 DEF ReaderInv, PagesInv
  <2>2. CASE ~Has({"first"})
    <3>1. shown.received = {} /\ shown.offset = 0 /\ ~Has({"rejected"})
      BY <2>2 DEF ReaderInv, PagesInv
    <3>2. Passed' = {}
      <4>1. \A i \in Matching : Rank(i, Matching) \in Nat
        <5>1. Matching \in SUBSET DOMAIN receipts /\ Ordered
          BY DEF Matching, TablesInv
        <5> QED BY <5>1, RankIs
      <4> QED BY <1>1, <1>2, <1>3, <1>4, <2>2, <3>1, <4>1 DEF Passed
    <3>3. shown'.first = Matching /\ shown'.rejected = Rejected
      BY <1>3, <2>2, <3>1
    <3>4. Cardinality(Passed') = 0
      BY <3>2, FS_EmptySet
    <3>5. Cardinality(LeftList') \in Nat
      <4>1. LeftList' \subseteq DOMAIN receipts'
        BY DEF LeftList, Rejected
      <4> QED BY <1>2, <4>1, FS_Subset, FS_CardinalityType DEF TablesInv, Ordered
    <3> QED BY <1>2, <1>7, <3>3, <3>4, <3>5
  <2> QED BY <2>1, <2>2
<1>9. PagesInv'
  <2>1. shown'.received \subseteq DOMAIN receipts' /\ shown'.offset \in Nat
    BY <1>4, <1>7 DEF ReaderInv, PagesInv
  <2>2. Has({"first"})' /\ Has({"rejected", "total"})'
    BY <1>3 DEF Has
  <2>3. shown'.total \in Nat /\ shown'.total <= Total'
    BY <1>2, <1>3, <1>7
  <2> QED BY <1>8, <2>1, <2>2, <2>3, <1>0 DEF PagesInv
<1> QED BY <1>2, <1>5, <1>6, <1>9 DEF ReaderInv, ReadProps

LEMMA PageStep ==
  ASSUME TablesInv, ReaderInv, ReadProps, PageReceipts
  PROVE  TablesInv' /\ ReaderInv' /\ ReadProps'
<1> DEFINE page == Page(Matching, shown.offset, Limit)
           offset == shown.offset
<1>0. Upcoming("page") /\ Progress /\ Quiet /\ games' = games /\ ask' = ask
  BY DEF PageReceipts, ReaderInv, Quiet, tables
<1>1. /\ ask.op \notin {"dashboard", "players"} /\ at = 2
      /\ at' = (IF page = {} THEN 3 ELSE 1) /\ at' \in 1..Len(Path) + 1
  <2>1. ask.op \notin {"dashboard", "players"} /\ at = 2
    BY <1>0, PathIs
  <2>2. Path = <<"total", "page">>
    BY <2>1 DEF Path
  <2>3. at' = (IF page = {} THEN 3 ELSE 1)
    BY <2>1 DEF PageReceipts
  <2> HIDE DEF page
  <2> QED BY <2>1, <2>2, <2>3
<1>2. /\ TablesInv' /\ Limit' = Limit /\ Path' = Path
      /\ Matching' = Matching /\ Total' = Total /\ Rejected' = Rejected /\ receipts' = receipts
      /\ \A i : Rank(i, Matching)' = Rank(i, Matching) /\ (Matches(i)' <=> Matches(i))
  BY <1>0, ReadFrame DEF Quiet
<1>3. /\ DOMAIN shown' = DOMAIN shown \cup {"page", "received", "offset"}
      /\ shown'.page = page /\ shown'.received = shown.received \cup page
      /\ shown'.offset = offset + Cardinality(page)
      /\ \A n \in DOMAIN shown \ {"page", "received", "offset"} : shown'[n] = shown[n]
  BY DEF PageReceipts, Overlay
<1>4. Has({"first", "rejected", "total"})
  BY <1>1 DEF ReaderInv, PagesInv, Has
<1>5. /\ shown'.first = shown.first /\ shown'.rejected = shown.rejected /\ shown'.total = shown.total
      /\ Has({"first"})' /\ Has({"rejected", "total"})' /\ Has({"received", "offset"})'
  BY <1>3, <1>4 DEF Has
<1>6. /\ Progress' /\ OverviewInv' /\ PlayersInv'
      /\ OverviewAddsUp' /\ ListsCoverOverview' /\ PlayersComplete'
  <2>1. \A n \in {"overview", "games", "receipts", "game", "players"} :
          n \in DOMAIN shown' => n \in DOMAIN shown
    BY <1>3
  <2> QED BY <1>0, <1>1, <1>2, <1>5, <2>1, PagesFrame DEF ReaderInv
<1>7. /\ Matching \in SUBSET DOMAIN receipts /\ Ordered /\ offset \in Nat
      /\ Limit \in Nat /\ Limit >= 1
  BY <1>0, LimitIs DEF Matching, TablesInv, ReaderInv, PagesInv, Progress
<1>8. /\ Cardinality(page) \in Nat
      /\ offset + Limit <= Total => Cardinality(page) = Limit
      /\ Total < offset + Limit => offset + Cardinality(page) >= Total
      /\ page = {} => Total <= offset /\ Cardinality(page) = 0
      /\ \A i \in Matching : Rank(i, Matching) < offset + Cardinality(page)
                               => Rank(i, Matching) < offset \/ i \in page
      /\ page \subseteq Matching
  <2>1. \A n \in Nat, off \in Nat : n >= 1 =>
          /\ Cardinality(Page(Matching, off, n)) \in Nat
          /\ off + n <= Total => Cardinality(Page(Matching, off, n)) = n
          /\ Total < off + n => off + Cardinality(Page(Matching, off, n)) >= Total
          /\ Page(Matching, off, n) = {} => Total <= off
          /\ \A i \in Matching :
               Rank(i, Matching) < off + Cardinality(Page(Matching, off, n))
                 => Rank(i, Matching) < off \/ i \in Page(Matching, off, n)
    BY <1>7, PageIs DEF Total
  <2>2. page \subseteq Matching
    BY DEF Page
  <2> HIDE DEF Matching
  <2> QED BY <1>7, <2>1, <2>2, FS_EmptySet
<1>9. /\ Total \in Nat /\ \A i \in Matching : Rank(i, Matching) \in Nat /\ Rank(i, Matching) < Total
  BY <1>7, RankIs DEF Total
<1>10. /\ shown.first \subseteq DOMAIN receipts /\ shown.rejected \subseteq Rejected
       /\ ask.status # "credited" => shown.first \subseteq Matching /\ shown.total <= Total
       /\ Cardinality(Passed) <= Cardinality(LeftList)
       /\ shown.total \in Nat /\ shown.received \subseteq DOMAIN receipts
  BY <1>1, <1>4 DEF ReaderInv, PagesInv, Has
<1>11. Cardinality(Passed') <= Cardinality(LeftList')
  <2>1. Passed' \subseteq Passed
    <3> SUFFICES ASSUME NEW i \in Passed' PROVE i \in Passed
      OBVIOUS
    <3>1. /\ i \in shown.first \ shown.received /\ i \notin page /\ Matches(i)
          /\ at' > 2 \/ Rank(i, Matching) < offset + Cardinality(page)
      BY <1>2, <1>3, <1>5 DEF Passed
    <3>2. i \in Matching
      BY <1>10, <3>1 DEF Matching
    <3>3. Rank(i, Matching) < offset
      <4>1. CASE page = {}
        <5>1. Total <= offset /\ Rank(i, Matching) < Total /\ Rank(i, Matching) \in Nat
          BY <1>8, <1>9, <3>2, <4>1
        <5> HIDE DEF page
        <5> QED BY <1>7, <1>9, <5>1
      <4>2. CASE page # {}
        <5>1. ~(at' > 2)
          BY <1>1, <4>2
        <5> QED BY <1>8, <3>1, <3>2, <5>1
      <4> QED BY <4>1, <4>2
    <3> QED BY <3>1, <3>3 DEF Passed
  <2>2. LeftList' = LeftList
    BY <1>0, <1>2, <1>5 DEF LeftList
  <2>3. IsFiniteSet(Passed) /\ IsFiniteSet(LeftList)
    BY <1>4, SetsAreFinite DEF ReaderInv, Has
  <2>4. Cardinality(Passed') <= Cardinality(Passed) /\ Cardinality(Passed') \in Nat
        /\ Cardinality(Passed) \in Nat /\ Cardinality(LeftList) \in Nat
    BY <2>1, <2>3, FS_Subset, FS_CardinalityType
  <2> QED BY <1>10, <2>2, <2>4
<1>12. PagesInv'
  <2>1. shown'.received \subseteq DOMAIN receipts' /\ shown'.offset \in Nat
    <3> HIDE DEF page
    <3> QED BY <1>2, <1>3, <1>7, <1>8, <1>10
  <2>2. at' # 2
    BY <1>1
  <2> QED BY <1>0, <1>2, <1>5, <1>10, <1>11, <2>1, <2>2 DEF PagesInv
<1>13. ShortPageExplained'
  <2>1. ask.status # "credited" =>
          /\ offset + Cardinality(page) >= Min({shown.total, Limit})
          /\ page = {} => offset + Cardinality(page) >= shown.total
    <3> SUFFICES ASSUME ask.status # "credited"
                 PROVE  /\ offset + Cardinality(page) >= Min({shown.total, Limit})
                        /\ page = {} => offset + Cardinality(page) >= shown.total
      OBVIOUS
    <3>1. shown.total \in Nat /\ shown.total <= Total
      BY <1>10
    <3>2. Min({shown.total, Limit}) = IF shown.total <= Limit THEN shown.total ELSE Limit
      BY <1>7, <3>1, MinOfTwo
    <3> HIDE DEF page, offset
    <3> QED BY <1>7, <1>8, <1>9, <3>1, <3>2
  <2> HIDE DEF page, offset
  <2> QED BY <1>0, <1>2, <1>3, <1>5, <2>1 DEF ShortPageExplained
<1> QED BY <1>2, <1>6, <1>12, <1>13 DEF ReaderInv, ReadProps

ReadsInv == TablesInv /\ ReaderInv /\ ReadProps

LEMMA ReadsStart == ReadsInit => ReadsInv
<1> SUFFICES ASSUME ReadsInit PROVE ReadsInv
  OBVIOUS
<1>1. TablesInv
  BY TablesStart
<1>2. ask \in Asks /\ at = 1 /\ DOMAIN shown = {"received", "offset"}
      /\ shown.received = {} /\ shown.offset = 0
  BY DEF ReadsInit
<1>3. 1 \in 1..Len(Path) + 1
  BY DEF Path
<1>4. Progress
  BY <1>2, <1>3 DEF Progress, Has
<1>5. OverviewInv /\ PlayersInv /\ PagesInv
  BY <1>2 DEF OverviewInv, PlayersInv, PagesInv, Has
<1>6. ReadProps
  BY <1>2 DEF ReadProps, OverviewAddsUp, ListsCoverOverview, PlayersComplete, ShortPageExplained, Has
<1> QED BY <1>1, <1>4, <1>5, <1>6 DEF ReadsInv, ReaderInv

LEMMA QuietKeeps ==
  ASSUME TablesInv, ReaderInv, ReadProps, Quiet, UNCHANGED <<ask, at, shown>>,
         games \subseteq games', games' \subseteq Games
  PROVE  TablesInv' /\ ReaderInv' /\ ReadProps'
<1>1. TablesInv'
  BY QuietTables
<1>2. Progress' /\ PlayersInv' /\ ReadProps'
  BY ShownStays DEF ReaderInv, Quiet
<1>3. OverviewInv'
  BY DEF ReaderInv, OverviewInv, Has, GamePayments, Entries, ReceiptsOf, SumOf, Quiet
<1>4. Rejected' = Rejected /\ (\A i : Matches(i)' <=> Matches(i))
  BY DEF Quiet, Rejected, Matches
<1>5. Matching' = Matching
  BY <1>4 DEF Quiet, Matching
<1>6. Total' = Total /\ (\A i : Rank(i, Matching)' = Rank(i, Matching))
  BY <1>5 DEF Total, Rank, Quiet
<1>7. Passed' = Passed /\ LeftList' = LeftList
  BY <1>4, <1>6 DEF Passed, LeftList
<1>8. PagesInv'
  BY <1>4, <1>5, <1>6, <1>7 DEF ReaderInv, PagesInv, Has, Quiet
<1> QED BY <1>1, <1>2, <1>3, <1>8 DEF ReaderInv

LEMMA ReadsKept == ReadsInv /\ [ReadsNext]_readVars => ReadsInv'
<1> SUFFICES ASSUME ReadsInv, [ReadsNext]_readVars PROVE ReadsInv'
  OBVIOUS
<1>0. TablesInv /\ ReaderInv /\ ReadProps
  BY DEF ReadsInv
<1>1. ASSUME NEW r \in Requests, Write(r) PROVE ReadsInv'
  BY <1>0, <1>1, RequestKeeps DEF ReadsInv
<1>2. ASSUME NEW g \in Games, CreateGame(g) PROVE ReadsInv'
  <2>1. Quiet /\ UNCHANGED <<ask, at, shown>> /\ games' = games \cup {g}
    BY <1>2 DEF CreateGame, Money!CreateGame, Quiet
  <2>2. games' \subseteq Games /\ games \subseteq games'
    BY <1>0, <2>1 DEF TablesInv, TablesTypeOK
  <2> QED BY <1>0, <2>1, <2>2, QuietKeeps DEF ReadsInv
<1>3. ASSUME Read PROVE ReadsInv'
  BY <1>0, <1>3, OverviewStep, PaymentsStep, ReceiptsStep, AdjustmentsStep, GameStep, PlayersStep,
     CountStep, PageStep DEF Read, ReadsInv
<1>4. CASE UNCHANGED readVars
  <2>1. Quiet /\ UNCHANGED <<ask, at, shown>> /\ games' = games
    BY <1>4 DEF readVars, tables, Quiet
  <2>2. games' \subseteq Games /\ games \subseteq games'
    BY <1>0, <2>1 DEF TablesInv, TablesTypeOK
  <2> QED BY <1>0, <2>1, <2>2, QuietKeeps DEF ReadsInv
<1> QED BY <1>1, <1>2, <1>3, <1>4 DEF ReadsNext

LEMMA ReadsInvariant == ReadsSpec => []ReadsInv
BY ReadsStart, ReadsKept, PTL DEF ReadsSpec

\* At the end of the pages every receipt of the first count that was not received
\* was passed over.
LEMMA SkippedFollows == ReadsInv => SkippedExplained
<1> SUFFICES ASSUME ReadsInv, Has({"page"}), at > 2
             PROVE  Cardinality({i \in shown.first \ shown.received : Matches(i)}) <= Cardinality(LeftList)
  BY DEF SkippedExplained, LeftList
<1>1. Has({"first"})
  BY DEF ReadsInv, ReaderInv, PagesInv
<1>2. Passed = {i \in shown.first \ shown.received : Matches(i)}
  BY DEF Passed
<1> QED BY <1>1, <1>2 DEF ReadsInv, ReaderInv, PagesInv

\* GetUserOverview reads balance and ledger in one statement: the balance it shows is
\* what was topped up less what was paid, for any requests in between.
THEOREM OverviewIsConsistent == ReadsSpec => []OverviewAddsUp
<1>1. ReadsInv => OverviewAddsUp
  BY DEF ReadsInv, ReadProps
<1> QED BY <1>1, ReadsInvariant, PTL

\* GetUserDashboard loads the lists after the overview, so that they cover it.
THEOREM ListsNeverFallBehind == ReadsSpec => []ListsCoverOverview
<1>1. ReadsInv => ListsCoverOverview
  BY DEF ReadsInv, ReadProps
<1> QED BY <1>1, ReadsInvariant, PTL

\* ListGamePlayers: a game shown as charged comes with all who paid and their shares.
THEOREM PlayersAreComplete == ReadsSpec => []PlayersComplete
<1>1. ReadsInv => PlayersComplete
  BY DEF ReadsInv, ReadProps
<1> QED BY <1>1, ReadsInvariant, PTL

\* ListAllReceipts: a page falls short of the count only under the filter "credited".
THEOREM ShortPagesHaveACause == ReadsSpec => []ShortPageExplained
<1>1. ReadsInv => ShortPageExplained
  BY DEF ReadsInv, ReadProps
<1> QED BY <1>1, ReadsInvariant, PTL

\* ListAllReceipts: paging by offset skips at most one receipt per receipt that left
\* the list, for any size of pages and any requests in between.
THEOREM SkippedHaveACause == ReadsSpec => []SkippedExplained
BY SkippedFollows, ReadsInvariant, PTL

\* The tables, the total order of the receipts and the reader stay what their types say.
THEOREM ReadsTypeCorrect == ReadsSpec => []ReadsTypeOK
<1>1. ReadsInv => ReadsTypeOK
  BY DEF ReadsInv, TablesInv, Ordered, ReaderInv, Progress, ReadsTypeOK
<1> QED BY <1>1, ReadsInvariant, PTL
=============================================================================
