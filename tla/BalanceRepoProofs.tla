------------------------- MODULE BalanceRepoProofs -------------------------
(***************************************************************************)
(* Theorems about BalanceRepo, for any users, requests, games and          *)
(* currencies, proved from the inductive invariant IInv.                   *)
(***************************************************************************)
EXTENDS BalanceRepoInvariant, SumProofs, TLAPS

(***************************************************************************)
(* What a request asks for, by operation.                                  *)
(***************************************************************************)
LEMMA ArgTypes ==
  ASSUME NEW r \in Requests
  PROVE  /\ Arg[r].op \in {"credit", "reverse", "adjust", "charge"}
         /\ Is(r, "credit") =>
              /\ Arg[r].user \in Users /\ Arg[r].amount \in Int
              /\ Arg[r].currency \in Currencies /\ Arg[r].hash \in Hashes
              /\ Arg[r].check \in CheckNumbers \cup {NoCheck}
         /\ Is(r, "reverse") => Arg[r].receipt \in Requests
         /\ Is(r, "adjust") =>
              /\ Arg[r].user \in Users /\ Arg[r].amount \in Int
              /\ Arg[r].currency \in Currencies
         /\ Is(r, "charge") =>
              /\ Arg[r].game \in Games
              /\ DOMAIN Arg[r].shares \subseteq Users
              /\ \A u \in DOMAIN Arg[r].shares : Arg[r].shares[u] \in Int
<1>1. CASE Arg[r] \in CreditArg
  BY <1>1 DEF CreditArg, Is
<1>2. CASE Arg[r] \in ReverseArg
  BY <1>2 DEF ReverseArg, Is
<1>3. CASE Arg[r] \in AdjustArg
  BY <1>3 DEF AdjustArg, Is
<1>4. CASE IsChargeArg(Arg[r])
  BY <1>4 DEF IsChargeArg, Is
<1> QED BY <1>1, <1>2, <1>3, <1>4, ArgAssumption

\* A reversal reads its receipt only while the receipt is there.
Readable(r) == Is(r, "reverse") => Arg[r].receipt \in DOMAIN receipts

LEMMA EntryTypes ==
  ASSUME NEW r \in Requests, TablesTypeOK, Readable(r), NEW u \in Payers(r)
  PROVE  /\ u \in Users
         /\ Delta(r, u) \in Int
         /\ CurrencyOf(r) \in Currencies
         /\ NewEntry(r, u) \in EntryRow
<1> USE ArgTypes, CurrencyAssumption
<1>1. u \in Users /\ Delta(r, u) \in Int
  BY DEF TablesTypeOK, Readable, Payers, Delta, ReceiptRow, Is
<1>2. CurrencyOf(r) \in Currencies
  BY DEF TablesTypeOK, Readable, CurrencyOf, ReceiptRow, Is
<1>3. /\ KindOf(r) \in {"receipt_credit", "receipt_reversal", "admin_adjustment", "game_charge"}
      /\ RefOf(r) \in {NoRef} \cup {ReceiptRef(i) : i \in Requests} \cup {GameRef(g) : g \in Games}
  BY DEF KindOf, RefOf, Is
<1> QED BY <1>1, <1>2, <1>3 DEF NewEntry, EntryRow

LEMMA UpsertedType ==
  ASSUME NEW r \in Requests, TablesTypeOK, Readable(r), NEW u \in Payers(r)
  PROVE  Upserted(r, u) \in BalanceRow
BY EntryTypes DEF Upserted, BalanceRow, TablesTypeOK

LEMMA OverlayFacts ==
  ASSUME NEW f, NEW g
  PROVE  /\ DOMAIN Overlay(f, g) = DOMAIN f \cup DOMAIN g
         /\ \A k \in DOMAIN f : Overlay(f, g)[k] = f[k]
         /\ \A k \in DOMAIN g \ DOMAIN f : Overlay(f, g)[k] = g[k]
         /\ Overlay(f, g) = [k \in DOMAIN Overlay(f, g) |-> Overlay(f, g)[k]]
BY DEF Overlay
(***************************************************************************)
(* Steps that change one transaction and no table.                         *)
(***************************************************************************)
LEMMA Frame ==
  ASSUME NEW s \in Requests, TxInv(s), UNCHANGED tables,
         pc'[s] = pc[s], locks'[s] = locks[s], writes'[s] = writes[s]
  PROVE  TxInv(s)'
<1> USE DEF tables, Is, Ended, WroteReceipt, HoldsHash, HoldsReceipt, HoldsGame
<1>1. AtOwnLabel(s)' /\ NothingHeldOutside(s)'
  BY DEF TxInv, AtOwnLabel, NothingHeldOutside
<1>2. CreditInv(s)'
  BY DEF TxInv, CreditInv, HashTaken, CheckTaken, NewReceipt
<1>3. ReverseInv(s)'
  BY DEF TxInv, ReverseInv
<1>4. ChargeInv(s)'
  BY DEF TxInv, ChargeInv
<1>5. BookInv(s)'
  BY DEF TxInv, BookInv, NewEntry, Payers, Delta, CurrencyOf
<1>6. KeyInv(s)'
  BY DEF TxInv, KeyInv
<1> QED BY <1>1, <1>2, <1>3, <1>4, <1>5, <1>6 DEF TxInv

LEMMA LocalStep ==
  ASSUME IInv, NEW r \in Requests, NEW l, NEW L, NEW W,
         UNCHANGED tables,
         pc' = [pc EXCEPT ![r] = l], pc[r] # "done",
         locks' = [locks EXCEPT ![r] = L], writes' = [writes EXCEPT ![r] = W],
         TypeOK', TxInv(r)',
         \A s \in Requests \ {r} : L \cap locks[s] = {}
  PROVE  IInv'
<1>1. ASSUME NEW s \in Requests PROVE TxInv(s)'
  <2>1. CASE s = r
    BY <2>1
  <2>2. CASE s # r
    <3>1. pc'[s] = pc[s] /\ locks'[s] = locks[s] /\ writes'[s] = writes[s]
      BY <2>2 DEF IInv, TypeOK
    <3> QED BY <3>1, Frame DEF IInv
  <2> QED BY <2>1, <2>2
<1>2. LocksExclusive'
  BY DEF IInv, TypeOK, LocksExclusive
<1>3. CommittedAtEnd'
  BY DEF IInv, TypeOK, TablesTypeOK, EntryRow, CommittedAtEnd, tables
<1>4. ReceiptsUnique' /\ ReceiptsBooked' /\ GameBookedOnce'
  BY DEF IInv, tables, ReceiptsUnique, ReceiptsBooked, GameBookedOnce, EntriesOf,
         NewEntry, Payers, Delta, CurrencyOf
<1> QED BY <1>1, <1>2, <1>3, <1>4 DEF IInv

LEMMA LocalType ==
  ASSUME TypeOK, NEW r \in Requests, UNCHANGED tables,
         NEW l \in Labels, NEW L \in SUBSET Lockable, NEW W, WritesTypeOK(W),
         outcome' \in [Requests -> {"none", "ok", "failed"} \cup Refusals],
         seen' \in [Requests -> SUBSET Users],
         pc' = [pc EXCEPT ![r] = l],
         locks' = [locks EXCEPT ![r] = L], writes' = [writes EXCEPT ![r] = W]
  PROVE  TypeOK'
<1>1. TablesTypeOK'
  BY DEF TypeOK, TablesTypeOK, tables
<1>2. /\ pc' \in [Requests -> Labels]
      /\ locks' \in [Requests -> SUBSET Lockable]
  BY DEF TypeOK
<1>3. writes' = [s \in Requests |-> writes'[s]] /\ \A s \in Requests : WritesTypeOK(writes'[s])
  BY DEF TypeOK
<1> QED BY <1>1, <1>2, <1>3 DEF TypeOK, WritesTypeOK

LEMMA NoWritesType == WritesTypeOK(NoWrites)
BY DEF WritesTypeOK, NoWrites

\* What r held stays as it was, said in the form of an update.
LEMMA SameAt ==
  ASSUME TypeOK, NEW r \in Requests
  PROVE  /\ locks = [locks EXCEPT ![r] = locks[r]]
         /\ writes = [writes EXCEPT ![r] = writes[r]]
         /\ locks[r] \in SUBSET Lockable
         /\ WritesTypeOK(writes[r])
         /\ outcome \in [Requests -> {"none", "ok", "failed"} \cup Refusals]
         /\ seen \in [Requests -> SUBSET Users]
BY DEF TypeOK

LEMMA RollbackStep ==
  ASSUME IInv, NEW r \in Requests, InFlight(r),
         NEW o \in {"failed"} \cup Refusals, Rollback(r, o)
  PROVE  IInv'
<1>1. TypeOK'
  <2>1. /\ outcome' \in [Requests -> {"none", "ok", "failed"} \cup Refusals]
        /\ seen' \in [Requests -> SUBSET Users]
    BY DEF IInv, TypeOK, Rollback, Finish
  <2> QED BY <2>1, LocalType, NoWritesType DEF IInv, Rollback, Finish, Labels
<1>2. TxInv(r)'
  <2>1. pc'[r] = "done" /\ locks'[r] = {} /\ writes'[r] = NoWrites
    BY DEF IInv, TypeOK, Rollback, Finish
  <2> QED
    BY <2>1 DEF TxInv, AtOwnLabel, LabelsOf, NothingHeldOutside, CreditInv, ReverseInv,
       ChargeInv, BookInv, KeyInv, Ended, WroteReceipt, HoldsHash, HoldsReceipt, HoldsGame,
       NoWrites, Is
<1> QED
  BY <1>1, <1>2, LocalStep DEF Rollback, Finish, InFlight

LEMMA BeginStep ==
  ASSUME IInv, NEW r \in Requests, Begin(r)
  PROVE  IInv'
<1> DEFINE l == FirstStatement(r)
<1>0. /\ TypeOK /\ pc[r] = "idle" /\ l \in Labels
      /\ pc' = [pc EXCEPT ![r] = l]
      /\ locks' = [locks EXCEPT ![r] = locks[r]] /\ writes' = [writes EXCEPT ![r] = writes[r]]
      /\ UNCHANGED <<tables, outcome, seen>>
      /\ TxInv(r)
  BY SameAt DEF Begin, Goto, IInv, FirstStatement, Labels
<1>1. TypeOK'
  BY <1>0, LocalType, SameAt
<1>2. TxInv(r)'
  <2>1. pc'[r] = l /\ locks'[r] = {} /\ writes'[r] = NoWrites
    BY <1>0 DEF TypeOK, TxInv, NothingHeldOutside, Ended
  <2> QED
    BY <2>1, ArgTypes DEF TxInv, AtOwnLabel, LabelsOf, NothingHeldOutside, CreditInv, ReverseInv,
       ChargeInv, BookInv, KeyInv, Ended, WroteReceipt, HoldsHash, HoldsReceipt, HoldsGame,
       NoWrites, Is, FirstStatement
<1>3. \A s \in Requests \ {r} : locks[r] \cap locks[s] = {}
  BY DEF IInv, LocksExclusive
<1> QED
  BY <1>0, <1>1, <1>2, <1>3, LocalStep

LEMMA CheckCurrencyStep ==
  ASSUME IInv, NEW r \in Requests, CheckCurrency(r)
  PROVE  IInv'
<1> DEFINE u == Arg[r].user
           next == IF Is(r, "credit") THEN "insertHash" ELSE "book"
<1>0. /\ pc[r] = "checkCurrency" /\ TypeOK /\ TxInv(r)
      /\ Is(r, "credit") \/ Is(r, "adjust")
      /\ next \in Labels /\ u \in Users
  BY ArgTypes DEF CheckCurrency, IInv, TxInv, AtOwnLabel, LabelsOf, Is, Labels
<1>1. CASE Rollback(r, "currency mismatch")
  BY <1>0, <1>1, RollbackStep DEF InFlight, Refusals
<1>2. ASSUME NEW L, L \in {locks[r], locks[r] \cup {BalanceLock(u)}},
             L # locks[r] => Free(r, BalanceLock(u)),
             pc' = [pc EXCEPT ![r] = next], locks' = [locks EXCEPT ![r] = L],
             seen' \in [Requests -> SUBSET Users], UNCHANGED <<tables, outcome, writes>>
      PROVE  IInv'
  <2>0. writes' = [writes EXCEPT ![r] = writes[r]]
    BY <1>0, <1>2, SameAt
  <2>1. L \in SUBSET Lockable
    BY <1>0, <1>2, SameAt DEF Lockable
  <2>2. TypeOK'
    BY <1>0, <1>2, <2>0, <2>1, LocalType, SameAt
  <2>3. pc'[r] = next /\ locks'[r] = L /\ writes'[r] = writes[r]
    BY <1>0, <1>2 DEF TypeOK
  <2>4. TxInv(r)'
    <3>1. AtOwnLabel(r)' /\ NothingHeldOutside(r)'
      <4>1. CASE Is(r, "credit")
        BY <2>3, <4>1 DEF AtOwnLabel, LabelsOf, NothingHeldOutside, Ended, Is
      <4>2. CASE Is(r, "adjust")
        BY <2>3, <4>2 DEF AtOwnLabel, LabelsOf, NothingHeldOutside, Ended, Is
      <4> QED BY <1>0, <4>1, <4>2
    <3>2. CreditInv(r)' /\ ReverseInv(r)' /\ ChargeInv(r)'
      <4>1. CreditInv(r)'
        BY <1>0, <2>3 DEF CreditInv, WroteReceipt, HoldsHash, Is
      <4>2. ReverseInv(r)'
        BY <1>0, <2>3 DEF ReverseInv, WroteReceipt, HoldsReceipt, Is
      <4>3. ChargeInv(r)'
        BY <1>0, <1>2, <2>3 DEF TxInv, ChargeInv, HoldsGame, Is
      <4> QED BY <4>1, <4>2, <4>3
    <3>3. BookInv(r)'
      BY <1>0, <1>2, <2>3 DEF tables, TxInv, BookInv, WroteReceipt, NewEntry, Payers, Is
    <3>4. KeyInv(r)'
      BY <1>0, <1>2, <2>3 DEF tables, TxInv, KeyInv, WroteReceipt, HoldsHash, Is,
         BalanceLock, HashKey, CheckKey
    <3> QED BY <3>1, <3>2, <3>3, <3>4 DEF TxInv
  <2>5. \A s \in Requests \ {r} : L \cap locks[s] = {}
    BY <1>2 DEF IInv, LocksExclusive, Free
  <2> QED
    BY <1>0, <1>2, <2>0, <2>2, <2>4, <2>5, LocalStep
<1>3. CASE Goto(r, next) /\ UNCHANGED <<tables, outcome, seen, locks, writes>>
  BY <1>0, <1>2, <1>3, SameAt DEF Goto
<1>4. CASE /\ Free(r, BalanceLock(u)) /\ Goto(r, next) /\ seen' = [seen EXCEPT ![r] = {u}]
           /\ Hold(r, {BalanceLock(u)}) /\ UNCHANGED <<tables, outcome, writes>>
  <2>1. seen' \in [Requests -> SUBSET Users]
    BY <1>0, <1>4, SameAt
  <2> QED BY <1>2, <1>4, <2>1 DEF Goto, Hold
<1> QED
  BY <1>1, <1>3, <1>4 DEF CheckCurrency

LEMMA InsertHashStep ==
  ASSUME IInv, NEW r \in Requests, InsertHash(r)
  PROVE  IInv'
<1> DEFINE h == Arg[r].hash
           L == locks[r] \cup {HashKey(h)}
<1>0. /\ pc[r] = "insertHash" /\ TypeOK /\ TxInv(r) /\ Is(r, "credit") /\ h \in Hashes
      /\ Free(r, HashKey(h))
  BY ArgTypes DEF InsertHash, IInv, TxInv, AtOwnLabel, LabelsOf, Is
<1>1. CASE Rollback(r, "duplicate file")
  BY <1>0, <1>1, RollbackStep DEF InFlight, Refusals
<1>2. CASE /\ ~HashTaken(h) /\ Goto(r, "insertCheck") /\ Hold(r, {HashKey(h)})
           /\ UNCHANGED <<tables, outcome, seen, writes>>
  <2>0. /\ pc' = [pc EXCEPT ![r] = "insertCheck"] /\ locks' = [locks EXCEPT ![r] = L]
        /\ writes' = [writes EXCEPT ![r] = writes[r]]
        /\ UNCHANGED <<tables, outcome, seen, writes>>
    BY <1>0, <1>2, SameAt DEF Goto, Hold
  <2>1. TypeOK'
    <3>1. L \in SUBSET Lockable /\ "insertCheck" \in Labels
      BY <1>0, SameAt DEF Lockable, Labels
    <3> QED BY <1>0, <2>0, <3>1, LocalType, SameAt
  <2>2. pc'[r] = "insertCheck" /\ locks'[r] = L /\ writes'[r] = writes[r]
    BY <1>0, <2>0 DEF TypeOK
  <2>3. TxInv(r)'
    <3>1. AtOwnLabel(r)' /\ NothingHeldOutside(r)' /\ CreditInv(r)' /\ ReverseInv(r)' /\ ChargeInv(r)'
      BY <1>0, <1>2, <2>0, <2>2 DEF tables, TxInv, AtOwnLabel, LabelsOf, NothingHeldOutside,
         CreditInv, ReverseInv, ChargeInv, Ended, WroteReceipt, HoldsHash,
         HoldsReceipt, HoldsGame, Is, HashTaken
    <3>2. BookInv(r)'
      BY <1>0, <2>0, <2>2 DEF tables, TxInv, BookInv, WroteReceipt, NewEntry, Payers, Is
    <3>3. KeyInv(r)'
      BY <1>0, <2>0, <2>2 DEF tables, TxInv, KeyInv, WroteReceipt, HoldsHash, Is,
         HashKey, CheckKey
    <3> QED BY <3>1, <3>2, <3>3 DEF TxInv
  <2>4. \A s \in Requests \ {r} : L \cap locks[s] = {}
    BY <1>0 DEF IInv, LocksExclusive, Free
  <2> QED
    BY <1>0, <2>0, <2>1, <2>3, <2>4, LocalStep
<1> QED
  BY <1>1, <1>2 DEF InsertHash

LEMMA InsertCheckStep ==
  ASSUME IInv, NEW r \in Requests, InsertCheck(r)
  PROVE  IInv'
<1> DEFINE k == Arg[r].check
           L == locks[r] \cup CheckKeys(k)
           W == [writes[r] EXCEPT !.receipts = [i \in {r} |-> NewReceipt(r)]]
<1>0. /\ pc[r] = "insertCheck" /\ TypeOK /\ TxInv(r) /\ Is(r, "credit")
      /\ k \in CheckNumbers \cup {NoCheck}
      /\ \A x \in CheckKeys(k) : Free(r, x)
  BY ArgTypes DEF InsertCheck, IInv, TxInv, AtOwnLabel, LabelsOf, Is
<1>1. CASE Rollback(r, "duplicate check number")
  BY <1>0, <1>1, RollbackStep DEF InFlight, Refusals
<1>2. CASE /\ ~CheckTaken(k) /\ Goto(r, "book") /\ Hold(r, CheckKeys(k))
           /\ writes' = [writes EXCEPT ![r].receipts = [i \in {r} |-> NewReceipt(r)]]
           /\ UNCHANGED <<tables, outcome, seen>>
  <2>0. /\ pc' = [pc EXCEPT ![r] = "book"] /\ locks' = [locks EXCEPT ![r] = L]
        /\ writes' = [writes EXCEPT ![r] = W]
        /\ UNCHANGED <<tables, outcome, seen>>
    BY <1>2 DEF Goto, Hold
  <2>w. /\ WritesTypeOK(writes[r])
        /\ W.receipts = [i \in {r} |-> NewReceipt(r)] /\ W.ledger = writes[r].ledger
        /\ W.balances = writes[r].balances /\ W.charged = writes[r].charged
        /\ DOMAIN W = DOMAIN writes[r]
    BY <1>0 DEF TypeOK, WritesTypeOK
  <2>1. TypeOK'
    <3>1. L \in SUBSET Lockable /\ "book" \in Labels
      BY <1>0, SameAt DEF Lockable, Labels, CheckKeys
    <3>2. WritesTypeOK(W)
      <4>1. NewReceipt(r) \in ReceiptRow
        BY <1>0, ArgTypes DEF NewReceipt, ReceiptRow
      <4> QED BY <2>w, <4>1 DEF WritesTypeOK
    <3> QED BY <1>0, <2>0, <3>1, <3>2, LocalType, SameAt
  <2>2. pc'[r] = "book" /\ locks'[r] = L /\ writes'[r] = W
    BY <1>0, <2>0 DEF TypeOK
  <2>3. TxInv(r)'
    <3>1. AtOwnLabel(r)' /\ NothingHeldOutside(r)' /\ ReverseInv(r)' /\ ChargeInv(r)'
      BY <1>0, <1>2, <2>0, <2>2, <2>w DEF tables, TxInv, AtOwnLabel, LabelsOf, NothingHeldOutside,
         ReverseInv, ChargeInv, Ended, WroteReceipt, HoldsReceipt, HoldsGame, Is
    <3>2. CreditInv(r)'
      BY <1>0, <1>2, <2>0, <2>2, <2>w DEF tables, TxInv, CreditInv, WroteReceipt, HoldsHash,
         HashTaken, CheckTaken, NewReceipt
    <3>3. BookInv(r)'
      BY <1>0, <2>0, <2>2, <2>w DEF tables, TxInv, BookInv, WroteReceipt, Is
    <3>4. KeyInv(r)'
      BY <1>0, <2>0, <2>2 DEF tables, TxInv, KeyInv, WroteReceipt, HoldsHash, Is,
         HashKey, CheckKey, CheckKeys
    <3> QED BY <3>1, <3>2, <3>3, <3>4 DEF TxInv
  <2>4. \A s \in Requests \ {r} : L \cap locks[s] = {}
    BY <1>0 DEF IInv, LocksExclusive, Free
  <2> QED
    BY <1>0, <2>0, <2>1, <2>3, <2>4, LocalStep
<1> QED
  BY <1>1, <1>2 DEF InsertCheck

LEMMA LockReceiptStep ==
  ASSUME IInv, NEW r \in Requests, LockReceipt(r)
  PROVE  IInv'
<1> DEFINE i == Arg[r].receipt
           L == locks[r] \cup {ReceiptRef(i)}
<1>0. pc[r] = "lockReceipt" /\ TypeOK /\ TxInv(r) /\ Is(r, "reverse") /\ i \in Requests
  BY ArgTypes DEF LockReceipt, IInv, TxInv, AtOwnLabel, LabelsOf, Is
<1>1. CASE Rollback(r, "receipt not found") \/ Rollback(r, "already reversed")
  BY <1>0, <1>1, RollbackStep DEF InFlight, Refusals
<1>2. CASE /\ i \in DOMAIN receipts /\ Free(r, ReceiptRef(i)) /\ receipts[i].status = "credited"
           /\ Goto(r, "markRejected") /\ Hold(r, {ReceiptRef(i)})
           /\ UNCHANGED <<tables, outcome, seen, writes>>
  <2>0. /\ pc' = [pc EXCEPT ![r] = "markRejected"] /\ locks' = [locks EXCEPT ![r] = L]
        /\ writes' = [writes EXCEPT ![r] = writes[r]]
        /\ UNCHANGED <<tables, outcome, seen, writes>>
    BY <1>0, <1>2, SameAt DEF Goto, Hold
  <2>1. TypeOK'
    <3>1. L \in SUBSET Lockable /\ "markRejected" \in Labels
      BY <1>0, SameAt DEF Lockable, Labels
    <3> QED BY <1>0, <2>0, <3>1, LocalType, SameAt
  <2>2. pc'[r] = "markRejected" /\ locks'[r] = L /\ writes'[r] = writes[r]
    BY <1>0, <2>0 DEF TypeOK
  <2>3. TxInv(r)'
    <3>1. AtOwnLabel(r)' /\ NothingHeldOutside(r)'
      BY <1>0, <2>2 DEF AtOwnLabel, LabelsOf, NothingHeldOutside, Ended, Is
    <3>2. CreditInv(r)' /\ ReverseInv(r)' /\ ChargeInv(r)'
      BY <1>0, <1>2, <2>0, <2>2 DEF tables, TxInv, CreditInv, ReverseInv, ChargeInv,
         WroteReceipt, HoldsHash, HoldsReceipt, HoldsGame, Is
    <3>3. BookInv(r)'
      BY <1>0, <2>0, <2>2 DEF tables, TxInv, BookInv, WroteReceipt
    <3>4. KeyInv(r)'
      BY <1>0, <2>0, <2>2 DEF tables, TxInv, KeyInv, WroteReceipt, HoldsHash, Is,
         ReceiptRef, HashKey, CheckKey
    <3> QED BY <3>1, <3>2, <3>3, <3>4 DEF TxInv
  <2>4. \A s \in Requests \ {r} : L \cap locks[s] = {}
    BY <1>2 DEF IInv, LocksExclusive, Free
  <2> QED
    BY <1>0, <2>0, <2>1, <2>3, <2>4, LocalStep
<1> QED
  BY <1>1, <1>2 DEF LockReceipt

\* The keys of a committed receipt are held by nobody but the transaction that
\* holds the receipt: an upload with such a key has been refused, and two
\* receipts never share one.
LEMMA KeysOfReceipt ==
  ASSUME IInv, NEW r \in Requests, NEW s \in Requests \ {r},
         HoldsReceipt(r), Is(r, "reverse"), NEW x \in ReceiptKeys(receipts[Arg[r].receipt])
  PROVE  x \notin locks[s]
<1> DEFINE i == Arg[r].receipt
           j == Arg[s].receipt
<1>1. /\ TxInv(r) /\ TxInv(s) /\ i \in DOMAIN receipts /\ ReceiptRef(i) \in locks[r]
      /\ receipts[i].hash \in Hashes /\ receipts[i].check \in CheckNumbers \cup {NoCheck}
  BY DEF IInv, TxInv, ReverseInv, TypeOK, TablesTypeOK, ReceiptRow
<1>2. ASSUME Is(s, "reverse"), WroteReceipt(s) PROVE j \in DOMAIN receipts /\ j # i
  <2>1. j \in DOMAIN receipts /\ ReceiptRef(j) \in locks[s]
    BY <1>1, <1>2 DEF TxInv, ReverseInv, HoldsReceipt
  <2> QED BY <1>1, <2>1 DEF IInv, LocksExclusive
<1>3. CASE x = HashKey(receipts[i].hash)
  <2>1. SUFFICES ASSUME x \in locks[s] PROVE FALSE
    OBVIOUS
  <2>2. CASE HoldsHash(s) /\ receipts[i].hash = Arg[s].hash
    BY <1>1, <2>2 DEF TxInv, CreditInv, HashTaken
  <2>3. CASE Is(s, "reverse") /\ WroteReceipt(s) /\ receipts[i].hash = receipts[j].hash
    BY <1>1, <1>2, <2>3 DEF IInv, ReceiptsUnique
  <2> QED BY <1>1, <1>3, <2>1, <2>2, <2>3 DEF TxInv, KeyInv
<1>4. ASSUME x \in CheckKeys(receipts[i].check), x \in locks[s] PROVE FALSE
  <2>0. receipts[i].check \in CheckNumbers /\ receipts[i].check # NoCheck
        /\ x = CheckKey(receipts[i].check)
    BY <1>1, <1>4, CheckAssumption DEF CheckKeys
  <2>2. CASE Is(s, "credit") /\ WroteReceipt(s) /\ receipts[i].check = Arg[s].check
    BY <1>1, <2>0, <2>2 DEF TxInv, CreditInv, CheckTaken
  <2>3. CASE Is(s, "reverse") /\ WroteReceipt(s) /\ receipts[i].check = receipts[j].check
    BY <1>1, <1>2, <2>0, <2>3 DEF IInv, ReceiptsUnique
  <2> QED BY <1>1, <1>4, <2>0, <2>2, <2>3 DEF TxInv, KeyInv
<1> QED BY <1>3, <1>4 DEF ReceiptKeys

LEMMA MarkRejectedStep ==
  ASSUME IInv, NEW r \in Requests, MarkRejected(r)
  PROVE  IInv'
<1> DEFINE i == Arg[r].receipt
           L == locks[r] \cup ReceiptKeys(receipts[i])
           row == [receipts[i] EXCEPT !.status = "rejected"]
           W == [writes[r] EXCEPT !.receipts = [j \in {i} |-> row]]
<1>0. /\ pc[r] = "markRejected" /\ TypeOK /\ TxInv(r) /\ Is(r, "reverse") /\ i \in Requests
      /\ HoldsReceipt(r)
  BY ArgTypes DEF MarkRejected, IInv, TxInv, AtOwnLabel, LabelsOf, Is, HoldsReceipt
<1>1. i \in DOMAIN receipts /\ receipts[i] \in ReceiptRow
  BY <1>0 DEF TxInv, ReverseInv, TypeOK, TablesTypeOK
<1>2. /\ pc' = [pc EXCEPT ![r] = "book"] /\ locks' = [locks EXCEPT ![r] = L]
      /\ writes' = [writes EXCEPT ![r] = W]
      /\ UNCHANGED <<tables, outcome, seen>>
  BY DEF MarkRejected, Goto, Hold
<1>3. /\ WritesTypeOK(writes[r])
      /\ W.receipts = [j \in {i} |-> row] /\ W.ledger = writes[r].ledger
      /\ W.balances = writes[r].balances /\ W.charged = writes[r].charged
      /\ DOMAIN W = DOMAIN writes[r]
  BY <1>0 DEF TypeOK, WritesTypeOK
<1>4. TypeOK'
  <2>1. L \in SUBSET Lockable /\ "book" \in Labels
    BY <1>0, <1>1, SameAt DEF Lockable, Labels, ReceiptKeys, CheckKeys, ReceiptRow
  <2>2. WritesTypeOK(W)
    <3>1. row \in ReceiptRow
      BY <1>1 DEF ReceiptRow
    <3> QED BY <1>0, <1>3, <3>1 DEF WritesTypeOK
  <2> QED BY <1>0, <1>2, <2>1, <2>2, LocalType, SameAt
<1>5. pc'[r] = "book" /\ locks'[r] = L /\ writes'[r] = W
  BY <1>0, <1>2 DEF TypeOK
<1>6. TxInv(r)'
  <2>1. AtOwnLabel(r)' /\ NothingHeldOutside(r)' /\ CreditInv(r)' /\ ChargeInv(r)'
    BY <1>0, <1>2, <1>3, <1>5 DEF tables, TxInv, AtOwnLabel, LabelsOf, NothingHeldOutside,
       CreditInv, ChargeInv, Ended, WroteReceipt, HoldsHash, HoldsGame, Is
  <2>2. ReverseInv(r)'
    BY <1>0, <1>1, <1>2, <1>3, <1>5 DEF tables, TxInv, ReverseInv, WroteReceipt, HoldsReceipt
  <2>3. BookInv(r)'
    BY <1>0, <1>2, <1>3, <1>5 DEF tables, TxInv, BookInv, WroteReceipt, Is
  <2>4. KeyInv(r)'
    BY <1>0, <1>1, <1>2, <1>5 DEF tables, TxInv, KeyInv, WroteReceipt, HoldsHash, Is,
       HashKey, CheckKey, ReceiptKeys, CheckKeys
  <2> QED BY <2>1, <2>2, <2>3, <2>4 DEF TxInv
<1>7. \A s \in Requests \ {r} : L \cap locks[s] = {}
  BY <1>0, KeysOfReceipt DEF IInv, LocksExclusive
<1> QED
  BY <1>0, <1>2, <1>4, <1>6, <1>7, LocalStep

LEMMA LockGameStep ==
  ASSUME IInv, NEW r \in Requests, LockGame(r)
  PROVE  IInv'
<1> DEFINE g == Arg[r].game
           L == locks[r] \cup {GameRef(g)}
<1>0. pc[r] = "lockGame" /\ TypeOK /\ TxInv(r) /\ Is(r, "charge") /\ g \in Games
  BY ArgTypes DEF LockGame, IInv, TxInv, AtOwnLabel, LabelsOf, Is
<1>1. CASE Rollback(r, "game not found") \/ Rollback(r, "already charged")
  BY <1>0, <1>1, RollbackStep DEF InFlight, Refusals
<1>2. CASE /\ g \in games /\ Free(r, GameRef(g)) /\ g \notin charged
           /\ Goto(r, "selectBalances") /\ Hold(r, {GameRef(g)})
           /\ UNCHANGED <<tables, outcome, seen, writes>>
  <2>0. /\ pc' = [pc EXCEPT ![r] = "selectBalances"] /\ locks' = [locks EXCEPT ![r] = L]
        /\ writes' = [writes EXCEPT ![r] = writes[r]]
        /\ UNCHANGED <<tables, outcome, seen, writes>>
    BY <1>0, <1>2, SameAt DEF Goto, Hold
  <2>1. TypeOK'
    <3>1. L \in SUBSET Lockable /\ "selectBalances" \in Labels
      BY <1>0, SameAt DEF Lockable, Labels
    <3> QED BY <1>0, <2>0, <3>1, LocalType, SameAt
  <2>2. pc'[r] = "selectBalances" /\ locks'[r] = L /\ writes'[r] = writes[r]
    BY <1>0, <2>0 DEF TypeOK
  <2>3. TxInv(r)'
    <3>1. AtOwnLabel(r)' /\ NothingHeldOutside(r)'
      BY <1>0, <2>2 DEF AtOwnLabel, LabelsOf, NothingHeldOutside, Ended, Is
    <3>2. CreditInv(r)' /\ ReverseInv(r)' /\ ChargeInv(r)'
      BY <1>0, <1>2, <2>0, <2>2 DEF tables, TxInv, CreditInv, ReverseInv, ChargeInv,
         WroteReceipt, HoldsHash, HoldsReceipt, HoldsGame, Is
    <3>3. BookInv(r)'
      BY <1>0, <2>0, <2>2 DEF tables, TxInv, BookInv, WroteReceipt
    <3>4. KeyInv(r)'
      BY <1>0, <2>0, <2>2 DEF tables, TxInv, KeyInv, WroteReceipt, HoldsHash, Is,
         GameRef, HashKey, CheckKey
    <3> QED BY <3>1, <3>2, <3>3, <3>4 DEF TxInv
  <2>4. \A s \in Requests \ {r} : L \cap locks[s] = {}
    BY <1>2 DEF IInv, LocksExclusive, Free
  <2> QED
    BY <1>0, <2>0, <2>1, <2>3, <2>4, LocalStep
<1> QED
  BY <1>1, <1>2 DEF LockGame

\* Between locking the game and booking, a charge only moves on, looks at rows
\* and takes balance locks.
LEMMA ChargeMovesOn ==
  ASSUME IInv, NEW r \in Requests, pc[r] \in {"selectBalances", "lockBalances"},
         NEW l \in {"lockBalances", "book"},
         NEW us \in SUBSET Users, \A u \in us : Free(r, BalanceLock(u)),
         pc' = [pc EXCEPT ![r] = l],
         locks' = [locks EXCEPT ![r] = locks[r] \cup {BalanceLock(u) : u \in us}],
         seen' \in [Requests -> SUBSET Users], UNCHANGED <<tables, outcome, writes>>
  PROVE  IInv'
<1> DEFINE L == locks[r] \cup {BalanceLock(u) : u \in us}
<1>0. TypeOK /\ TxInv(r) /\ Is(r, "charge")
  BY ArgTypes DEF IInv, TxInv, AtOwnLabel, LabelsOf, Is
<1>1. writes' = [writes EXCEPT ![r] = writes[r]]
  BY <1>0, SameAt
<1>2. TypeOK'
  <2>1. L \in SUBSET Lockable /\ l \in Labels
    BY <1>0, SameAt DEF Lockable, Labels
  <2> QED BY <1>0, <1>1, <2>1, LocalType, SameAt
<1>3. pc'[r] = l /\ locks'[r] = L /\ writes'[r] = writes[r]
  BY <1>0 DEF TypeOK
<1>4. TxInv(r)'
  <2>1. AtOwnLabel(r)' /\ NothingHeldOutside(r)'
    BY <1>0, <1>3 DEF AtOwnLabel, LabelsOf, NothingHeldOutside, Ended, Is
  <2>2. CreditInv(r)' /\ ReverseInv(r)'
    BY <1>0, <1>3 DEF CreditInv, ReverseInv, WroteReceipt, HoldsHash, HoldsReceipt, Is
  <2>3. ChargeInv(r)'
    BY <1>0, <1>3 DEF tables, TxInv, ChargeInv, HoldsGame, Is
  <2>4. BookInv(r)'
    BY <1>0, <1>3 DEF tables, TxInv, BookInv, WroteReceipt, Is
  <2>5. KeyInv(r)'
    BY <1>0, <1>3 DEF tables, TxInv, KeyInv, WroteReceipt, HoldsHash, Is,
       BalanceLock, HashKey, CheckKey
  <2> QED BY <2>1, <2>2, <2>3, <2>4, <2>5 DEF TxInv
<1>5. \A s \in Requests \ {r} : L \cap locks[s] = {}
  BY DEF IInv, LocksExclusive, Free
<1> QED
  BY <1>0, <1>1, <1>2, <1>4, <1>5, LocalStep

LEMMA SelectBalancesStep ==
  ASSUME IInv, NEW r \in Requests, SelectBalances(r)
  PROVE  IInv'
<1>1. TypeOK /\ locks' = [locks EXCEPT ![r] = locks[r] \cup {BalanceLock(u) : u \in {}}]
  BY SameAt DEF IInv, SelectBalances
<1>2. seen' \in [Requests -> SUBSET Users]
  BY <1>1 DEF SelectBalances, TypeOK, TablesTypeOK
<1>3. /\ pc[r] = "selectBalances" /\ pc' = [pc EXCEPT ![r] = "lockBalances"]
      /\ UNCHANGED <<tables, outcome, writes>>
      /\ {} \in SUBSET Users /\ \A u \in {} : Free(r, BalanceLock(u))
  BY DEF SelectBalances, Goto
<1> QED BY <1>1, <1>2, <1>3, ChargeMovesOn

LEMMA LockBalanceStep ==
  ASSUME IInv, NEW r \in Requests, LockBalance(r)
  PROVE  IInv'
<1>1. PICK u \in Unlocked(r) : Free(r, BalanceLock(u)) /\ Hold(r, {BalanceLock(u)})
  BY DEF LockBalance
<1>2. /\ TypeOK /\ u \in Users
      /\ pc[r] = "lockBalances" /\ pc' = [pc EXCEPT ![r] = "lockBalances"]
      /\ UNCHANGED <<tables, outcome, writes, seen>>
  BY <1>1 DEF IInv, LockBalance, TypeOK, Unlocked
<1>3. locks' = [locks EXCEPT ![r] = locks[r] \cup {BalanceLock(v) : v \in {u}}]
  BY <1>1, <1>2 DEF Hold
<1>4. \A v \in {u} : Free(r, BalanceLock(v))
  BY <1>1
<1>5. seen' \in [Requests -> SUBSET Users] /\ {u} \in SUBSET Users
  BY <1>2 DEF TypeOK
<1> QED BY <1>2, <1>3, <1>4, <1>5, ChargeMovesOn

LEMMA CheckCurrenciesStep ==
  ASSUME IInv, NEW r \in Requests, CheckCurrencies(r)
  PROVE  IInv'
<1>0. pc[r] = "lockBalances"
  BY DEF CheckCurrencies
<1>1. CASE Rollback(r, "currency mismatch")
  BY <1>0, <1>1, RollbackStep DEF InFlight, Refusals
<1>2. CASE Goto(r, "book") /\ UNCHANGED <<tables, outcome, seen, locks, writes>>
  <2>1. /\ locks' = [locks EXCEPT ![r] = locks[r] \cup {BalanceLock(u) : u \in {}}]
        /\ seen' \in [Requests -> SUBSET Users]
        /\ {} \in SUBSET Users /\ \A u \in {} : Free(r, BalanceLock(u))
    BY <1>2, SameAt DEF IInv
  <2>2. pc' = [pc EXCEPT ![r] = "book"] /\ UNCHANGED <<tables, outcome, writes>>
    BY <1>2 DEF Goto
  <2> QED BY <1>0, <2>1, <2>2, ChargeMovesOn
<1> QED BY <1>1, <1>2 DEF CheckCurrencies

LEMMA MarkChargedStep ==
  ASSUME IInv, NEW r \in Requests, MarkCharged(r)
  PROVE  IInv'
<1> DEFINE g == Arg[r].game
           W == [writes[r] EXCEPT !.charged = {g}]
<1>0. pc[r] = "markCharged" /\ TypeOK /\ TxInv(r) /\ Is(r, "charge") /\ g \in Games
  BY ArgTypes DEF MarkCharged, IInv, TxInv, AtOwnLabel, LabelsOf, Is
<1>1. /\ pc' = [pc EXCEPT ![r] = "commit"] /\ locks' = [locks EXCEPT ![r] = locks[r]]
      /\ writes' = [writes EXCEPT ![r] = W]
      /\ UNCHANGED <<tables, outcome, seen>>
  BY <1>0, SameAt DEF MarkCharged, Goto
<1>2. /\ WritesTypeOK(writes[r])
      /\ W.receipts = writes[r].receipts /\ W.ledger = writes[r].ledger
      /\ W.balances = writes[r].balances /\ W.charged = {g}
      /\ DOMAIN W = DOMAIN writes[r]
  BY <1>0 DEF TypeOK, WritesTypeOK
<1>3. TypeOK'
  <2>1. WritesTypeOK(W) /\ "commit" \in Labels
    BY <1>0, <1>2 DEF WritesTypeOK, Labels
  <2> QED BY <1>0, <1>1, <2>1, LocalType, SameAt
<1>4. pc'[r] = "commit" /\ locks'[r] = locks[r] /\ writes'[r] = W
  BY <1>0, <1>1 DEF TypeOK
<1>5. TxInv(r)'
  <2>1. AtOwnLabel(r)' /\ NothingHeldOutside(r)'
    BY <1>0, <1>4 DEF AtOwnLabel, LabelsOf, NothingHeldOutside, Ended, Is
  <2>2. CreditInv(r)' /\ ReverseInv(r)'
    BY <1>0, <1>4 DEF CreditInv, ReverseInv, WroteReceipt, HoldsHash, HoldsReceipt, Is
  <2>3. ChargeInv(r)'
    BY <1>0, <1>1, <1>2, <1>4 DEF tables, TxInv, ChargeInv, HoldsGame, Is
  <2>4. BookInv(r)'
    BY <1>0, <1>1, <1>2, <1>4 DEF tables, TxInv, BookInv, WroteReceipt, NewEntry, Payers,
       Delta, CurrencyOf, Is
  <2>5. KeyInv(r)'
    BY <1>0, <1>1, <1>4 DEF tables, TxInv, KeyInv, WroteReceipt, HoldsHash, Is
  <2> QED BY <2>1, <2>2, <2>3, <2>4, <2>5 DEF TxInv
<1>6. \A s \in Requests \ {r} : locks[r] \cap locks[s] = {}
  BY DEF IInv, LocksExclusive
<1> QED
  BY <1>0, <1>1, <1>3, <1>5, <1>6, LocalStep

LEMMA BookStep ==
  ASSUME IInv, NEW r \in Requests, Book(r)
  PROVE  IInv'
<1>1. PICK u \in Unbooked(r) :
        /\ Free(r, BalanceLock(u)) /\ Hold(r, {BalanceLock(u)})
        /\ writes' = [writes EXCEPT
                        ![r].ledger = @ \cup {NewEntry(r, u)},
                        ![r].balances = Overlay([v \in {u} |-> Upserted(r, v)], @)]
        /\ Goto(r, IF Unbooked(r) # {u} THEN "book"
                   ELSE IF Is(r, "charge") THEN "markCharged" ELSE "commit")
  BY DEF Book
<1> DEFINE l == IF Unbooked(r) # {u} THEN "book"
                ELSE IF Is(r, "charge") THEN "markCharged" ELSE "commit"
           L == locks[r] \cup {BalanceLock(u)}
           B == Overlay([v \in {u} |-> Upserted(r, v)], writes[r].balances)
           W == [writes[r] EXCEPT !.ledger = @ \cup {NewEntry(r, u)}, !.balances = B]
<1>2. /\ pc[r] = "book" /\ TypeOK /\ TablesTypeOK /\ TxInv(r) /\ u \in Payers(r)
      /\ UNCHANGED <<tables, outcome, seen>>
  BY DEF Book, IInv, TypeOK, Unbooked
<1>3. /\ pc' = [pc EXCEPT ![r] = l] /\ locks' = [locks EXCEPT ![r] = L]
      /\ writes' = [writes EXCEPT ![r] = W]
  BY <1>1 DEF Goto, Hold
<1>4. /\ WritesTypeOK(writes[r])
      /\ W.receipts = writes[r].receipts /\ W.ledger = writes[r].ledger \cup {NewEntry(r, u)}
      /\ W.balances = B /\ W.charged = writes[r].charged
      /\ DOMAIN W = DOMAIN writes[r]
  BY <1>2 DEF TypeOK, WritesTypeOK
<1>5. /\ DOMAIN B = DOMAIN writes[r].balances \cup {u}
      /\ \A v \in DOMAIN B : B[v] = IF v = u THEN Upserted(r, u) ELSE writes[r].balances[v]
  BY DEF Overlay
<1>6. Readable(r)
  BY <1>2 DEF Readable, TxInv, ReverseInv, HoldsReceipt, WroteReceipt
<1>7. u \in Users /\ NewEntry(r, u) \in EntryRow /\ Upserted(r, u) \in BalanceRow
  BY <1>2, <1>6, EntryTypes, UpsertedType
<1>8. TypeOK'
  <2>1. L \in SUBSET Lockable /\ l \in Labels
    BY <1>2, <1>7, SameAt DEF Lockable, Labels
  <2>2. WritesTypeOK(W)
    BY <1>4, <1>5, <1>7 DEF WritesTypeOK
  <2> QED BY <1>2, <1>3, <2>1, <2>2, LocalType, SameAt
<1>9. pc'[r] = l /\ locks'[r] = L /\ writes'[r] = W
  BY <1>2, <1>3 DEF TypeOK
<1>10. TxInv(r)'
  <2>0. l \in {"book", "markCharged", "commit"} /\ (l = "markCharged" => Is(r, "charge"))
        /\ (Is(r, "charge") => l # "commit")
    OBVIOUS
  <2>1. AtOwnLabel(r)' /\ NothingHeldOutside(r)'
    BY <1>2, <1>9, <2>0, ArgTypes DEF TxInv, AtOwnLabel, LabelsOf, NothingHeldOutside, Ended, Is
  <2>2. CreditInv(r)'
    BY <1>2, <1>4, <1>9, <2>0 DEF tables, TxInv, CreditInv, WroteReceipt, HoldsHash, HashTaken,
       CheckTaken, NewReceipt, Is
  <2>3. ReverseInv(r)'
    BY <1>2, <1>4, <1>9, <2>0 DEF tables, TxInv, ReverseInv, WroteReceipt, HoldsReceipt, Is
  <2>4. ChargeInv(r)'
    BY <1>2, <1>4, <1>9, <2>0 DEF tables, TxInv, ChargeInv, HoldsGame, Is
  <2>5. BookInv(r)'
    <3>1. /\ Payers(r)' = Payers(r)
          /\ \A v : NewEntry(r, v)' = NewEntry(r, v)
      BY <1>2 DEF tables, Payers, NewEntry, Delta, CurrencyOf
    <3>2. W.ledger = {NewEntry(r, v) : v \in DOMAIN W.balances}
      BY <1>2, <1>4, <1>5 DEF TxInv, BookInv
    <3>3. DOMAIN W.balances \subseteq Payers(r)
          /\ (l # "book" => DOMAIN W.balances = Payers(r))
      BY <1>1, <1>2, <1>4, <1>5 DEF TxInv, BookInv, Unbooked
    <3>4. W.receipts # [i \in {} |-> {}] => WroteReceipt(r)'
      BY <1>2, <1>4, <1>9, <2>0 DEF TxInv, BookInv, WroteReceipt, Is
    <3>5. writes'[r].ledger = {NewEntry(r, v)' : v \in DOMAIN writes'[r].balances}
      <4> HIDE DEF W
      <4>1. writes'[r].ledger = {NewEntry(r, v) : v \in DOMAIN writes'[r].balances}
        BY <1>9, <3>2
      <4>2. receipts' = receipts
        BY <1>2 DEF tables
      <4> QED BY <4>1, <4>2 DEF NewEntry, Delta, CurrencyOf
    <3>6. /\ DOMAIN writes'[r].balances \subseteq Payers(r)'
          /\ (l # "book" => DOMAIN writes'[r].balances = Payers(r)')
          /\ writes'[r].receipts # [i \in {} |-> {}] => WroteReceipt(r)'
      BY <1>9, <3>1, <3>3, <3>4
    <3> QED BY <1>9, <2>0, <3>5, <3>6 DEF BookInv
  <2>6. KeyInv(r)'
    BY <1>2, <1>9, <2>0 DEF tables, TxInv, KeyInv, WroteReceipt, HoldsHash, Is,
       BalanceLock, HashKey, CheckKey
  <2> QED BY <2>1, <2>2, <2>3, <2>4, <2>5, <2>6 DEF TxInv
<1>11. \A s \in Requests \ {r} : L \cap locks[s] = {}
  BY <1>1 DEF IInv, LocksExclusive, Free
<1> QED
  BY <1>2, <1>3, <1>8, <1>10, <1>11, LocalStep

(***************************************************************************)
(* COMMIT: what it changes in the tables, and that every other transaction *)
(* and the books stay right.                                               *)
(***************************************************************************)
CommitEffect(r) ==
  /\ DOMAIN receipts' = DOMAIN receipts \cup (IF Is(r, "credit") THEN {r} ELSE {})
  /\ Is(r, "credit") => r \notin DOMAIN receipts /\ receipts'[r] = NewReceipt(r)
  /\ Is(r, "reverse") =>
       /\ Arg[r].receipt \in DOMAIN receipts
       /\ receipts'[Arg[r].receipt] = [receipts[Arg[r].receipt] EXCEPT !.status = "rejected"]
  /\ \A j \in DOMAIN receipts :
       ~(Is(r, "reverse") /\ j = Arg[r].receipt) => receipts'[j] = receipts[j]
  /\ ledger' = ledger \cup {NewEntry(r, u) : u \in Payers(r)}
  /\ charged' = charged \cup (IF Is(r, "charge") THEN {Arg[r].game} ELSE {})
  /\ games' = games

LEMMA CommitTables ==
  ASSUME IInv, NEW r \in Requests, pc[r] = "commit", Install(r)
  PROVE  CommitEffect(r)
<1> USE DEF CommitEffect
<1>0. TxInv(r) /\ TypeOK /\ TablesTypeOK /\ CommittedAtEnd
  BY DEF IInv, TypeOK
<1>1. r \notin DOMAIN receipts
  BY <1>0 DEF CommittedAtEnd
<1>2. receipts' = Overlay(writes[r].receipts, receipts)
  BY DEF Install
<1>3. CASE Is(r, "credit")
  <2>1. writes[r].receipts = [i \in {r} |-> NewReceipt(r)]
    BY <1>0, <1>3 DEF TxInv, CreditInv, WroteReceipt
  <2>2. writes[r].charged = {} /\ writes[r].ledger = {NewEntry(r, u) : u \in Payers(r)}
    BY <1>0, <1>3 DEF TxInv, ChargeInv, BookInv, Is
  <2> QED BY <1>1, <1>2, <1>3, <2>1, <2>2 DEF Overlay, Install, Is
<1>4. CASE Is(r, "reverse")
  <2>1. /\ Arg[r].receipt \in DOMAIN receipts
        /\ writes[r].receipts
             = [j \in {Arg[r].receipt} |-> [receipts[Arg[r].receipt] EXCEPT !.status = "rejected"]]
    BY <1>0, <1>4 DEF TxInv, ReverseInv, WroteReceipt, HoldsReceipt
  <2>2. writes[r].charged = {} /\ writes[r].ledger = {NewEntry(r, u) : u \in Payers(r)}
    BY <1>0, <1>4 DEF TxInv, ChargeInv, BookInv, Is
  <2> QED BY <1>2, <1>4, <2>1, <2>2 DEF Overlay, Install, Is
<1>5. CASE ~Is(r, "credit") /\ ~Is(r, "reverse")
  <2>1. writes[r].receipts = [i \in {} |-> {}]
    BY <1>0, <1>5 DEF TxInv, BookInv, WroteReceipt
  <2>2. /\ writes[r].charged = IF Is(r, "charge") THEN {Arg[r].game} ELSE {}
        /\ writes[r].ledger = {NewEntry(r, u) : u \in Payers(r)}
    BY <1>0 DEF TxInv, ChargeInv, BookInv
  <2>3. DOMAIN receipts' = DOMAIN receipts /\ \A j \in DOMAIN receipts : receipts'[j] = receipts[j]
    BY <1>2, <2>1 DEF Overlay
  <2> QED BY <1>5, <2>2, <2>3 DEF Install
<1> QED BY <1>3, <1>4, <1>5

LEMMA InstallType ==
  ASSUME IInv, NEW r \in Requests, pc[r] = "commit", Install(r),
         NEW o \in {"ok", "failed"}, Finish(r, o)
  PROVE  TypeOK'
<1>0. TypeOK /\ TablesTypeOK /\ WritesTypeOK(writes[r]) /\ TxInv(r)
  BY DEF IInv, TypeOK
<1>1. /\ receipts' = [i \in DOMAIN receipts' |-> receipts'[i]]
      /\ DOMAIN receipts' \subseteq Requests
      /\ \A i \in DOMAIN receipts' : receipts'[i] \in ReceiptRow
  BY <1>0 DEF Install, Overlay, WritesTypeOK, TablesTypeOK
<1>2. /\ balances' = [u \in DOMAIN balances' |-> balances'[u]]
      /\ DOMAIN balances' \subseteq Users
      /\ \A u \in DOMAIN balances' : balances'[u] \in BalanceRow
  BY <1>0 DEF Install, Overlay, WritesTypeOK, TablesTypeOK
<1>3. ledger' \subseteq EntryRow /\ games' \subseteq Games
  BY <1>0 DEF Install, WritesTypeOK, TablesTypeOK
<1>4. charged' \subseteq games'
  <2>1. CommitEffect(r)
    BY CommitTables
  <2> QED BY <1>0, <2>1 DEF CommitEffect, TablesTypeOK, TxInv, ChargeInv, HoldsGame
<1>5. /\ pc' \in [Requests -> Labels]
      /\ outcome' \in [Requests -> {"none", "ok", "failed"} \cup Refusals]
      /\ seen' \in [Requests -> SUBSET Users]
      /\ locks' \in [Requests -> SUBSET Lockable]
  BY <1>0 DEF TypeOK, Finish, Install, Labels
<1>6. writes' = [s \in Requests |-> writes'[s]] /\ \A s \in Requests : WritesTypeOK(writes'[s])
  BY <1>0, NoWritesType DEF TypeOK, Finish
<1> QED BY <1>1, <1>2, <1>3, <1>4, <1>5, <1>6 DEF TypeOK, TablesTypeOK, WritesTypeOK

LEMMA CommitKeepsOthers ==
  ASSUME IInv, NEW r \in Requests, pc[r] = "commit", Install(r),
         NEW s \in Requests \ {r},
         pc'[s] = pc[s], locks'[s] = locks[s], writes'[s] = writes[s]
  PROVE  TxInv(s)'
<1> DEFINE i == Arg[r].receipt
           j == Arg[s].receipt
<1>0. /\ TxInv(r) /\ TxInv(s) /\ TablesTypeOK /\ locks[r] \cap locks[s] = {}
      /\ CommitEffect(r)
  BY CommitTables DEF IInv, TypeOK, LocksExclusive
<1>1. \A k \in DOMAIN receipts :
        /\ k \in DOMAIN receipts'
        /\ receipts'[k].hash = receipts[k].hash /\ receipts'[k].check = receipts[k].check
  <2>1. ASSUME NEW k \in DOMAIN receipts, Is(r, "reverse"), k = i
        PROVE  receipts'[k].hash = receipts[k].hash /\ receipts'[k].check = receipts[k].check
    BY <1>0, <2>1 DEF CommitEffect, TablesTypeOK, ReceiptRow
  <2> QED BY <1>0, <2>1 DEF CommitEffect
<1>2. \A k \in DOMAIN receipts' :
        k \in DOMAIN receipts \/ (Is(r, "credit") /\ k = r /\ receipts'[k] = NewReceipt(r))
  BY <1>0 DEF CommitEffect
<1>3. AtOwnLabel(s)' /\ NothingHeldOutside(s)'
  BY <1>0 DEF TxInv, AtOwnLabel, NothingHeldOutside, Ended
<1>4. CreditInv(s)'
  <2>1. ASSUME HoldsHash(s), HashTaken(Arg[s].hash)' PROVE FALSE
    <3>1. PICK k \in DOMAIN receipts' : receipts'[k].hash = Arg[s].hash
      BY <2>1 DEF HashTaken
    <3>2. CASE k \in DOMAIN receipts
      BY <1>0, <1>1, <2>1, <3>1, <3>2 DEF TxInv, CreditInv, HashTaken
    <3>3. CASE Is(r, "credit") /\ k = r /\ receipts'[k] = NewReceipt(r)
      BY <1>0, <2>1, <3>1, <3>3 DEF TxInv, CreditInv, HoldsHash, WroteReceipt, NewReceipt
    <3> QED BY <1>2, <3>2, <3>3
  <2>2. ASSUME Is(s, "credit"), WroteReceipt(s), CheckTaken(Arg[s].check)' PROVE FALSE
    <3>1. PICK k \in DOMAIN receipts' :
            receipts'[k].check = Arg[s].check /\ Arg[s].check # NoCheck
      BY <2>2 DEF CheckTaken
    <3>2. CASE k \in DOMAIN receipts
      BY <1>0, <1>1, <2>2, <3>1, <3>2 DEF TxInv, CreditInv, CheckTaken
    <3>3. CASE Is(r, "credit") /\ k = r /\ receipts'[k] = NewReceipt(r)
      BY <1>0, <2>2, <3>1, <3>3
         DEF TxInv, CreditInv, WroteReceipt, NewReceipt, CheckKeys
    <3> QED BY <1>2, <3>2, <3>3
  <2> QED
    BY <1>0, <2>1, <2>2 DEF TxInv, CreditInv, HoldsHash, WroteReceipt, NewReceipt, Is
<1>5. ASSUME HoldsReceipt(s)
      PROVE  j \in DOMAIN receipts /\ receipts'[j] = receipts[j] /\ j \in DOMAIN receipts'
  <2>1. j \in DOMAIN receipts /\ ReceiptRef(j) \in locks[s]
    BY <1>0, <1>5 DEF TxInv, ReverseInv
  <2>2. ~(Is(r, "reverse") /\ j = i)
    BY <1>0, <2>1 DEF TxInv, ReverseInv, HoldsReceipt, WroteReceipt
  <2> QED BY <1>0, <1>1, <2>1, <2>2 DEF CommitEffect
<1>6. ReverseInv(s)'
  BY <1>0, <1>5 DEF TxInv, ReverseInv, HoldsReceipt, WroteReceipt, Is
<1>7. ChargeInv(s)'
  <2>1. ASSUME HoldsGame(s) PROVE Arg[s].game \notin charged'
    <3>1. Arg[s].game \notin charged /\ GameRef(Arg[s].game) \in locks[s]
      BY <1>0, <2>1 DEF TxInv, ChargeInv
    <3>2. Is(r, "charge") => GameRef(Arg[r].game) \in locks[r]
      BY <1>0 DEF TxInv, ChargeInv, HoldsGame
    <3> QED BY <1>0, <3>1, <3>2 DEF CommitEffect
  <2> QED BY <1>0, <2>1 DEF CommitEffect, TxInv, ChargeInv, HoldsGame, Is
<1>8. BookInv(s)'
  <2>1. ASSUME pc[s] \in {"book", "markCharged", "commit"}
        PROVE  Payers(s)' = Payers(s) /\ \A v : NewEntry(s, v)' = NewEntry(s, v)
    <3>1. CASE Is(s, "reverse")
      <4>1. receipts'[j] = receipts[j]
        BY <1>0, <1>5, <2>1, <3>1
           DEF TxInv, AtOwnLabel, LabelsOf, HoldsReceipt, WroteReceipt, Is
      <4> QED BY <4>1 DEF Payers, NewEntry, Delta, CurrencyOf
    <3>2. CASE ~Is(s, "reverse")
      BY <3>2 DEF Payers, NewEntry, Delta, CurrencyOf, Is
    <3> QED BY <3>1, <3>2
  <2>2. writes'[s].ledger = {NewEntry(s, v)' : v \in DOMAIN writes'[s].balances}
    <3>1. CASE pc[s] \in {"book", "markCharged", "commit"}
      BY <1>0, <2>1, <3>1 DEF TxInv, BookInv
    <3>2. CASE pc[s] \notin {"book", "markCharged", "commit"}
      BY <1>0, <3>2 DEF TxInv, BookInv
    <3> QED BY <3>1, <3>2
  <2>3. pc[s] \in {"book", "markCharged", "commit"} =>
           DOMAIN writes'[s].balances \subseteq Payers(s)'
    BY <1>0, <2>1 DEF TxInv, BookInv
  <2>4. pc[s] \in {"markCharged", "commit"} => DOMAIN writes'[s].balances = Payers(s)'
    BY <1>0, <2>1 DEF TxInv, BookInv
  <2> QED BY <1>0, <2>2, <2>3, <2>4 DEF TxInv, BookInv, WroteReceipt, Is
<1>9. KeyInv(s)'
  BY <1>0, <1>5 DEF TxInv, KeyInv, HoldsReceipt, HoldsHash, WroteReceipt, Is
<1> QED BY <1>3, <1>4, <1>6, <1>7, <1>8, <1>9 DEF TxInv

\* What a commit adds to the entries of a receipt or a game.
LEMMA EntriesAfter ==
  ASSUME NEW r \in Requests, CommitEffect(r), NEW ref, NEW kind
  PROVE  /\ (ref # RefOf(r) \/ kind # KindOf(r)) => EntriesOf(ref, kind)' = EntriesOf(ref, kind)
         /\ ref = RefOf(r) /\ kind = KindOf(r) =>
              EntriesOf(ref, kind)' = EntriesOf(ref, kind) \cup {NewEntry(r, u) : u \in Payers(r)}
<1>1. \A u \in Payers(r) : NewEntry(r, u).ref = RefOf(r) /\ NewEntry(r, u).kind = KindOf(r)
  BY DEF NewEntry
<1>2. ledger' = ledger \cup {NewEntry(r, u) : u \in Payers(r)}
  BY DEF CommitEffect
<1> HIDE DEF CommitEffect
<1> QED BY <1>1, <1>2 DEF EntriesOf

LEMMA CommitReceiptsUnique ==
  ASSUME IInv, NEW r \in Requests, pc[r] = "commit", Install(r)
  PROVE  ReceiptsUnique'
<1>0. CommitEffect(r) /\ TxInv(r) /\ TablesTypeOK
  BY CommitTables DEF IInv, TypeOK
<1>1. \A k \in DOMAIN receipts :
        receipts'[k].hash = receipts[k].hash /\ receipts'[k].check = receipts[k].check
  BY <1>0 DEF CommitEffect, TablesTypeOK, ReceiptRow
<1>2. CASE Is(r, "credit")
  <2>1. \A k \in DOMAIN receipts :
          receipts[k].hash # Arg[r].hash
          /\ (Arg[r].check # NoCheck => receipts[k].check # Arg[r].check)
    BY <1>0, <1>2 DEF TxInv, CreditInv, HoldsHash, WroteReceipt, HashTaken, CheckTaken
  <2>2. receipts'[r].hash = Arg[r].hash /\ receipts'[r].check = Arg[r].check
        /\ DOMAIN receipts' = DOMAIN receipts \cup {r}
    BY <1>0, <1>2 DEF CommitEffect, NewReceipt
  <2> QED BY <1>1, <2>1, <2>2 DEF IInv, ReceiptsUnique
<1>3. CASE ~Is(r, "credit")
  BY <1>0, <1>1, <1>3 DEF CommitEffect, IInv, ReceiptsUnique
<1> QED BY <1>2, <1>3

LEMMA CommitGameBooked ==
  ASSUME IInv, NEW r \in Requests, pc[r] = "commit", Install(r)
  PROVE  GameBookedOnce'
<1>0. CommitEffect(r) /\ TxInv(r)
  BY CommitTables DEF IInv
<1> SUFFICES ASSUME NEW g \in Games
             PROVE  /\ g \notin charged' => EntriesOf(GameRef(g), "game_charge")' = {}
                    /\ g \in charged' =>
                         \E q \in Requests :
                           /\ Is(q, "charge") /\ Arg[q].game = g
                           /\ EntriesOf(GameRef(g), "game_charge")'
                                = {NewEntry(q, u) : u \in Payers(q)}'
  BY DEF GameBookedOnce, Is
<1>1. ASSUME NEW q \in Requests, Is(q, "charge")
      PROVE  {NewEntry(q, u) : u \in Payers(q)}' = {NewEntry(q, u) : u \in Payers(q)}
  BY <1>1 DEF NewEntry, Payers, Delta, CurrencyOf, KindOf, RefOf, Is
<1>2. /\ g \notin charged => EntriesOf(GameRef(g), "game_charge") = {}
      /\ g \in charged =>
           \E q \in Requests :
             /\ Is(q, "charge") /\ Arg[q].game = g
             /\ EntriesOf(GameRef(g), "game_charge") = {NewEntry(q, u) : u \in Payers(q)}
  BY DEF IInv, GameBookedOnce
<1>3. CASE Is(r, "charge") /\ Arg[r].game = g
  <2>1. EntriesOf(GameRef(g), "game_charge") = {}
    BY <1>0, <1>2, <1>3 DEF TxInv, ChargeInv, HoldsGame
  <2>2. EntriesOf(GameRef(g), "game_charge")' = {NewEntry(r, u) : u \in Payers(r)}
    BY <1>0, <1>3, <2>1, EntriesAfter DEF RefOf, KindOf, Is
  <2>3. g \in charged'
    BY <1>0, <1>3 DEF CommitEffect
  <2> QED BY <1>1, <1>3, <2>2, <2>3
<1>4. CASE ~(Is(r, "charge") /\ Arg[r].game = g)
  <2>1. g \in charged' <=> g \in charged
    BY <1>0, <1>4 DEF CommitEffect
  <2>2. GameRef(g) # RefOf(r) \/ "game_charge" # KindOf(r)
    BY <1>4 DEF RefOf, KindOf, GameRef
  <2>3. EntriesOf(GameRef(g), "game_charge")' = EntriesOf(GameRef(g), "game_charge")
    BY <1>0, <2>2, EntriesAfter
  <2> QED BY <1>1, <1>2, <2>1, <2>3
<1> QED BY <1>3, <1>4

LEMMA CommitReceiptsBooked ==
  ASSUME IInv, NEW r \in Requests, pc[r] = "commit", Install(r)
  PROVE  ReceiptsBooked'
<1> DEFINE Entry(i, row, q, amount, kind) ==
             [by |-> q, user |-> row.user, amount |-> amount, currency |-> row.currency,
              kind |-> kind, ref |-> ReceiptRef(i)]
           Credits(i) == EntriesOf(ReceiptRef(i), "receipt_credit")
           Reversals(i) == EntriesOf(ReceiptRef(i), "receipt_reversal")
           Booked(i, row, C, R) ==
             /\ C = {Entry(i, row, i, row.amount, "receipt_credit")}
             /\ row.status = "credited" => R = {}
             /\ row.status = "rejected" =>
                  \E q \in Requests : R = {Entry(i, row, q, -row.amount, "receipt_reversal")}
<1>0. CommitEffect(r) /\ TxInv(r) /\ TablesTypeOK
  BY CommitTables DEF IInv, TypeOK
<1>1. /\ \A i \in DOMAIN receipts : Booked(i, receipts[i], Credits(i), Reversals(i))
      /\ \A e \in ledger : e.kind \in {"receipt_credit", "receipt_reversal"} =>
           \E i \in DOMAIN receipts : e.ref = ReceiptRef(i)
  BY DEF IInv, ReceiptsBooked
<1>2. SUFFICES
        /\ \A i \in DOMAIN receipts' : Booked(i, receipts'[i], Credits(i)', Reversals(i)')
        /\ \A e \in ledger' : e.kind \in {"receipt_credit", "receipt_reversal"} =>
             \E i \in DOMAIN receipts' : e.ref = ReceiptRef(i)
  BY DEF ReceiptsBooked
<1>3. ASSUME NEW i \in DOMAIN receipts'
      PROVE  Booked(i, receipts'[i], Credits(i)', Reversals(i)')
  <2>1. CASE Is(r, "credit") /\ i = r
    <3>1. r \notin DOMAIN receipts /\ receipts'[r] = NewReceipt(r)
      BY <1>0, <2>1 DEF CommitEffect
    <3>2. Credits(r) = {} /\ Reversals(r) = {}
      BY <1>1, <3>1 DEF EntriesOf, ReceiptRef
    <3>3. /\ RefOf(r) = ReceiptRef(r) /\ KindOf(r) = "receipt_credit"
          /\ Payers(r) = {Arg[r].user}
          /\ NewEntry(r, Arg[r].user)
               = Entry(r, NewReceipt(r), r, NewReceipt(r).amount, "receipt_credit")
      BY <2>1 DEF RefOf, KindOf, Payers, NewEntry, NewReceipt, Delta, CurrencyOf, Is
    <3>4. Credits(r)' = {NewEntry(r, u) : u \in Payers(r)} /\ Reversals(r)' = {}
      BY <1>0, <3>2, <3>3, EntriesAfter
    <3>5. NewReceipt(r).status = "credited"
      BY DEF NewReceipt
    <3> QED BY <2>1, <3>1, <3>3, <3>4, <3>5
  <2>2. CASE Is(r, "reverse") /\ i = Arg[r].receipt
    <3>0. /\ i \in DOMAIN receipts /\ receipts[i].status = "credited"
          /\ receipts[i] \in ReceiptRow
      BY <1>0, <2>2 DEF TxInv, ReverseInv, HoldsReceipt, WroteReceipt, TablesTypeOK
    <3>1. receipts'[i] = [receipts[i] EXCEPT !.status = "rejected"]
      BY <1>0, <2>2 DEF CommitEffect
    <3>2. /\ receipts'[i].user = receipts[i].user /\ receipts'[i].amount = receipts[i].amount
          /\ receipts'[i].currency = receipts[i].currency /\ receipts'[i].status = "rejected"
      BY <3>0, <3>1 DEF ReceiptRow
    <3>3. /\ RefOf(r) = ReceiptRef(i) /\ KindOf(r) = "receipt_reversal"
          /\ Payers(r) = {receipts[i].user}
          /\ NewEntry(r, receipts[i].user)
               = Entry(i, receipts[i], r, -receipts[i].amount, "receipt_reversal")
      BY <2>2 DEF RefOf, KindOf, Payers, NewEntry, Delta, CurrencyOf, Is
    <3>4. /\ Reversals(i) = {}
          /\ Credits(i) = {Entry(i, receipts[i], i, receipts[i].amount, "receipt_credit")}
      BY <1>1, <3>0
    <3>5. Reversals(i)' = {NewEntry(r, u) : u \in Payers(r)} /\ Credits(i)' = Credits(i)
      BY <1>0, <3>3, <3>4, EntriesAfter
    <3> QED BY <3>2, <3>3, <3>4, <3>5
  <2>3. CASE ~(Is(r, "credit") /\ i = r) /\ ~(Is(r, "reverse") /\ i = Arg[r].receipt)
    <3>1. i \in DOMAIN receipts /\ receipts'[i] = receipts[i]
      BY <1>0, <2>3 DEF CommitEffect
    <3>2. /\ RefOf(r) # ReceiptRef(i) \/ KindOf(r) # "receipt_credit"
          /\ RefOf(r) # ReceiptRef(i) \/ KindOf(r) # "receipt_reversal"
      BY <2>3 DEF RefOf, KindOf, ReceiptRef
    <3>3. Credits(i)' = Credits(i) /\ Reversals(i)' = Reversals(i)
      BY <1>0, <3>2, EntriesAfter
    <3> QED BY <1>1, <3>1, <3>3
  <2> QED BY <2>1, <2>2, <2>3
<1>4. ASSUME NEW e \in ledger', e.kind \in {"receipt_credit", "receipt_reversal"}
      PROVE  \E i \in DOMAIN receipts' : e.ref = ReceiptRef(i)
  <2>1. CASE e \in ledger
    BY <1>0, <1>1, <1>4, <2>1 DEF CommitEffect
  <2>2. ASSUME NEW u \in Payers(r), e = NewEntry(r, u)
        PROVE  \E i \in DOMAIN receipts' : e.ref = ReceiptRef(i)
    <3>1. e.kind = KindOf(r) /\ e.ref = RefOf(r)
      BY <2>2 DEF NewEntry
    <3>2. CASE Is(r, "credit")
      BY <1>0, <3>1, <3>2 DEF CommitEffect, RefOf, Is
    <3>3. CASE Is(r, "reverse")
      BY <1>0, <3>1, <3>3 DEF CommitEffect, RefOf, Is
    <3> QED BY <1>4, <3>1, <3>2, <3>3 DEF KindOf
  <2> QED BY <1>0, <2>1, <2>2 DEF CommitEffect
<1> QED BY <1>2, <1>3, <1>4

LEMMA CommitStep ==
  ASSUME IInv, NEW r \in Requests, pc[r] = "commit", Install(r),
         NEW o \in {"ok", "failed"}, Finish(r, o)
  PROVE  IInv'
<1>0. TypeOK /\ CommitEffect(r)
  BY CommitTables DEF IInv
<1>1. TypeOK'
  BY InstallType
<1>2. ASSUME NEW s \in Requests PROVE TxInv(s)'
  <2>1. CASE s = r
    <3>1. pc'[r] = "done" /\ locks'[r] = {} /\ writes'[r] = NoWrites
      BY <1>0 DEF TypeOK, Finish
    <3> QED
      BY <2>1, <3>1 DEF TxInv, AtOwnLabel, LabelsOf, NothingHeldOutside, CreditInv, ReverseInv,
         ChargeInv, BookInv, KeyInv, Ended, WroteReceipt, HoldsHash, HoldsReceipt, HoldsGame,
         NoWrites, Is
  <2>2. CASE s # r
    <3>1. pc'[s] = pc[s] /\ locks'[s] = locks[s] /\ writes'[s] = writes[s]
      BY <1>0, <2>2 DEF TypeOK, Finish
    <3> QED BY <2>2, <3>1, CommitKeepsOthers
  <2> QED BY <2>1, <2>2
<1>3. LocksExclusive'
  BY <1>0 DEF IInv, TypeOK, LocksExclusive, Finish
<1>4. CommittedAtEnd'
  <2>1. \A s \in Requests : pc[s] = "done" => pc'[s] = "done"
    BY <1>0 DEF TypeOK, Finish
  <2>2. pc'[r] = "done" /\ \A u \in Payers(r) : NewEntry(r, u).by = r
    BY <1>0 DEF TypeOK, Finish, NewEntry
  <2>3. (\A i \in DOMAIN receipts : i \in Requests) /\ (\A e \in ledger : e.by \in Requests)
    BY <1>0 DEF TypeOK, TablesTypeOK, EntryRow
  <2>4. \A i \in DOMAIN receipts' : pc'[i] = "done"
    BY <1>0, <2>1, <2>2, <2>3 DEF IInv, CommittedAtEnd, CommitEffect
  <2>5. \A e \in ledger' : pc'[e.by] = "done"
    BY <1>0, <2>1, <2>2, <2>3 DEF IInv, CommittedAtEnd, CommitEffect
  <2> QED BY <2>4, <2>5 DEF CommittedAtEnd
<1> QED
  BY <1>1, <1>2, <1>3, <1>4, CommitReceiptsUnique, CommitReceiptsBooked, CommitGameBooked DEF IInv

LEMMA CreateGameStep ==
  ASSUME IInv, NEW g \in Games, CreateGame(g)
  PROVE  IInv'
<1>1. TypeOK'
  BY DEF IInv, TypeOK, TablesTypeOK, CreateGame, WritesTypeOK
<1>2. ASSUME NEW s \in Requests PROVE TxInv(s)'
  <2>0. TxInv(s) /\ UNCHANGED <<receipts, ledger, balances, charged, pc, locks, writes>>
        /\ games' = games \cup {g}
    BY DEF IInv, CreateGame
  <2>1. AtOwnLabel(s)' /\ NothingHeldOutside(s)' /\ KeyInv(s)'
    BY <2>0 DEF TxInv, AtOwnLabel, NothingHeldOutside, KeyInv, Ended, HoldsHash, WroteReceipt, Is
  <2>2. CreditInv(s)' /\ ReverseInv(s)'
    BY <2>0 DEF TxInv, CreditInv, ReverseInv, HoldsHash, HoldsReceipt, WroteReceipt, HashTaken,
       CheckTaken, NewReceipt, Is
  <2>3. ChargeInv(s)'
    BY <2>0 DEF TxInv, ChargeInv, HoldsGame, Is
  <2>4. BookInv(s)'
    BY <2>0 DEF TxInv, BookInv, WroteReceipt, NewEntry, Payers, Delta, CurrencyOf, Is
  <2> QED BY <2>1, <2>2, <2>3, <2>4 DEF TxInv
<1>3. LocksExclusive' /\ CommittedAtEnd'
  BY DEF IInv, CreateGame, LocksExclusive, CommittedAtEnd
<1>4. ReceiptsUnique' /\ ReceiptsBooked' /\ GameBookedOnce'
  BY DEF IInv, CreateGame, ReceiptsUnique, ReceiptsBooked, GameBookedOnce, EntriesOf,
     NewEntry, Payers, Delta, CurrencyOf, Is
<1> QED BY <1>1, <1>2, <1>3, <1>4 DEF IInv

(***************************************************************************)
(* The invariant, and the theorems.                                        *)
(***************************************************************************)
LEMMA InitInvariant == Init => IInv
<1> SUFFICES ASSUME Init PROVE IInv
  OBVIOUS
<1> USE DEF Init, TablesInit
<1>1. TypeOK
  BY NoWritesType DEF TypeOK, TablesTypeOK, Labels
<1>2. ASSUME NEW r \in Requests PROVE TxInv(r)
  BY DEF TxInv, AtOwnLabel, LabelsOf, NothingHeldOutside, CreditInv, ReverseInv,
     ChargeInv, BookInv, KeyInv, Ended, WroteReceipt, HoldsHash, HoldsReceipt, HoldsGame,
     NoWrites, Is
<1>3. LocksExclusive /\ CommittedAtEnd /\ ReceiptsUnique
  BY DEF LocksExclusive, CommittedAtEnd, ReceiptsUnique
<1>4. ReceiptsBooked /\ GameBookedOnce
  BY DEF ReceiptsBooked, GameBookedOnce, EntriesOf
<1> QED BY <1>1, <1>2, <1>3, <1>4 DEF IInv

LEMMA NextInvariant == IInv /\ [Next]_vars => IInv'
<1> SUFFICES ASSUME IInv, [Next]_vars PROVE IInv'
  OBVIOUS
<1>1. ASSUME NEW r \in Requests, Begin(r) PROVE IInv'
  BY <1>1, BeginStep
<1>2. ASSUME NEW r \in Requests, Statement(r) PROVE IInv'
  <2>1. CASE Commit(r)
    BY <2>1, CommitStep DEF Commit
  <2> QED
    BY <1>2, <2>1, CheckCurrencyStep, InsertHashStep, InsertCheckStep, LockReceiptStep,
       MarkRejectedStep, LockGameStep, SelectBalancesStep, LockBalanceStep,
       CheckCurrenciesStep, BookStep, MarkChargedStep DEF Statement
<1>3. ASSUME NEW r \in Requests, CommitUnacknowledged(r) PROVE IInv'
  BY <1>3, CommitStep DEF CommitUnacknowledged
<1>4. ASSUME NEW r \in Requests, Fail(r) \/ DeadlockAbort(r) PROVE IInv'
  BY <1>4, RollbackStep DEF Fail, DeadlockAbort
<1>5. ASSUME NEW g \in Games, CreateGame(g) PROVE IInv'
  BY <1>5, CreateGameStep
<1>6. CASE UNCHANGED vars
  <2>1. UNCHANGED <<tables, pc, outcome, seen, locks, writes>>
    BY <1>6 DEF vars
  <2>2. TypeOK'
    BY <2>1 DEF IInv, tables, TypeOK, TablesTypeOK, WritesTypeOK
  <2>3. \A s \in Requests : TxInv(s)'
    BY <2>1, Frame DEF IInv
  <2>4. LocksExclusive' /\ CommittedAtEnd' /\ ReceiptsUnique' /\ ReceiptsBooked' /\ GameBookedOnce'
    BY <2>1 DEF IInv, tables, LocksExclusive, CommittedAtEnd, ReceiptsUnique, ReceiptsBooked,
       GameBookedOnce, EntriesOf, NewEntry, Payers, Delta, CurrencyOf
  <2> QED BY <2>2, <2>3, <2>4 DEF IInv
<1> QED BY <1>1, <1>2, <1>3, <1>4, <1>5, <1>6 DEF Next

\* The inductive invariant holds in every reachable state of balance_repo.
THEOREM InvariantHolds == Spec => []IInv
<1> QED BY InitInvariant, NextInvariant, PTL DEF Spec

\* The rows of balance_repo, committed and in flight, are well formed.
THEOREM TypeCorrect == Spec => []TypeOK
<1>1. IInv => TypeOK
  BY DEF IInv
<1> QED BY <1>1, InvariantHolds, PTL

\* CreditReceipt: no file and no check number is ever credited twice, however
\* many uploads, rejections and failures interleave.
THEOREM NoReceiptTwice == Spec => []ReceiptsUnique
<1>1. IInv => ReceiptsUnique
  BY DEF IInv
<1> QED BY <1>1, InvariantHolds, PTL

\* CreditReceipt and ReverseReceipt: every receipt is credited exactly once in
\* the ledger, and taken back exactly once if and only if it is rejected.
THEOREM EveryReceiptBooked == Spec => []ReceiptsBooked
<1>1. IInv => ReceiptsBooked
  BY DEF IInv
<1> QED BY <1>1, InvariantHolds, PTL

\* ChargeGame: a game is charged by exactly one request, with all of its shares.
THEOREM GameChargedOnce == Spec => []GameBookedOnce
<1>1. IInv => GameBookedOnce
  BY DEF IInv
<1> QED BY <1>1, InvariantHolds, PTL

(***************************************************************************)
(* What the caller is told.  The entries of a request are all there or     *)
(* none, and they stay what the request asked for, since a receipt keeps   *)
(* its user, amount and currency.                                          *)
(***************************************************************************)
HasEntries(r) == \E e \in ledger : e.by = r

Recorded(e) ==
  /\ e.user \in Payers(e.by) /\ e = NewEntry(e.by, e.user)
  /\ Readable(e.by)
  /\ \A u \in Payers(e.by) : NewEntry(e.by, u) \in ledger
  /\ Is(e.by, "credit") => e.by \in DOMAIN receipts

OutcomeOf(r) ==
  /\ pc[r] # "done" => outcome[r] = "none"
  /\ outcome[r] = "ok" => HasEntries(r)
  /\ outcome[r] \in Refusals \cup {"none"} => ~HasEntries(r)

Tells ==
  /\ \A e \in ledger : Recorded(e)
  /\ \A r \in Requests : OutcomeOf(r)
  /\ \A i \in DOMAIN receipts : Is(i, "credit") /\ HasEntries(i)

LEMMA InitTells == Init => Tells
BY DEF Init, TablesInit, Tells, OutcomeOf, HasEntries, Recorded

\* A request that wrote a receipt, or that takes one back, reads the same later.
LEMMA EntriesStay ==
  ASSUME NEW q, Readable(q),
         \A j \in DOMAIN receipts :
           /\ j \in DOMAIN receipts' /\ receipts'[j].user = receipts[j].user
           /\ receipts'[j].amount = receipts[j].amount /\ receipts'[j].currency = receipts[j].currency
  PROVE  /\ Readable(q)' /\ Payers(q)' = Payers(q)
         /\ \A u : NewEntry(q, u)' = NewEntry(q, u)
BY DEF Readable, Payers, NewEntry, Delta, CurrencyOf, KindOf, RefOf, Is

\* A step that commits nothing: it may end a transaction, with an error.
Quiet ==
  /\ UNCHANGED <<receipts, ledger>>
  /\ \A s \in Requests :
       /\ \/ outcome'[s] = outcome[s]
          \/ pc[s] # "done" /\ outcome'[s] \in {"failed"} \cup Refusals
       /\ pc'[s] # "done" => pc[s] # "done" /\ outcome'[s] = outcome[s]

LEMMA OkIsNoRefusal == "ok" \notin {"failed"} \cup Refusals
BY Zenon DEF Refusals

LEMMA QuietTells == ASSUME IInv, Tells, Quiet PROVE Tells'
<1>1. ASSUME NEW e \in ledger PROVE Recorded(e)'
  <2>1. Recorded(e) /\ UNCHANGED <<receipts, ledger>>
    BY DEF Tells, Quiet
  <2>2. \A q, u : Payers(q)' = Payers(q) /\ NewEntry(q, u)' = NewEntry(q, u)
    BY <2>1 DEF Payers, NewEntry, Delta, CurrencyOf
  <2> QED BY <2>1, <2>2 DEF Recorded, Readable
<1>2. ASSUME NEW r \in Requests PROVE OutcomeOf(r)'
  <2>1. OutcomeOf(r) /\ (HasEntries(r)' <=> HasEntries(r)) /\ (HasEntries(r) => pc[r] = "done")
    BY DEF Tells, Quiet, HasEntries, IInv, CommittedAtEnd
  <2> HIDE DEF HasEntries
  <2>2. CASE outcome'[r] = outcome[r]
    BY <2>1, <2>2 DEF OutcomeOf, Quiet
  <2>3. CASE pc[r] # "done" /\ outcome'[r] \in {"failed"} \cup Refusals
    <3>1. outcome'[r] # "ok" /\ ~HasEntries(r)' /\ (pc'[r] # "done" => outcome'[r] = outcome[r])
      BY <2>1, <2>3, OkIsNoRefusal DEF Quiet
    <3> QED BY <2>1, <2>3, <3>1 DEF OutcomeOf
  <2> QED BY <2>2, <2>3 DEF Quiet
<1>3. \A i \in DOMAIN receipts : Is(i, "credit") /\ HasEntries(i)'
  BY DEF Tells, Quiet, HasEntries
<1>4. UNCHANGED <<receipts, ledger>>
  BY DEF Quiet
<1> QED BY <1>1, <1>2, <1>3, <1>4 DEF Tells, Is

LEMMA RollbackQuiet ==
  ASSUME TypeOK, NEW r \in Requests, NEW o \in {"failed"} \cup Refusals, pc[r] # "done", Rollback(r, o)
  PROVE  Quiet
BY DEF TypeOK, Rollback, Finish, tables, Quiet

LEMMA MoveQuiet ==
  ASSUME TypeOK, NEW r \in Requests, NEW l, pc[r] # "done", Goto(r, l),
         UNCHANGED <<tables, outcome>>
  PROVE  Quiet
BY DEF TypeOK, Goto, tables, Quiet

LEMMA StatementQuiet ==
  ASSUME IInv, NEW r \in Requests, Statement(r) \/ Begin(r), ~Commit(r)
  PROVE  Quiet
<1>0. TypeOK
  BY DEF IInv
<1>r. {"duplicate file", "duplicate check number", "currency mismatch", "receipt not found",
       "already reversed", "game not found", "already charged"} \subseteq Refusals
  BY Zenon DEF Refusals
<1>1. pc[r] # "done"
  BY DEF Statement, Begin, CheckCurrency, InsertHash, InsertCheck, LockReceipt, MarkRejected,
     LockGame, SelectBalances, LockBalance, CheckCurrencies, Book, MarkCharged, Commit
<1>2. ASSUME NEW o \in Refusals, Rollback(r, o) PROVE Quiet
  BY <1>0, <1>1, <1>2, RollbackQuiet
<1>3. ASSUME NEW l, Goto(r, l), UNCHANGED <<tables, outcome>> PROVE Quiet
  BY <1>0, <1>1, <1>3, MoveQuiet
<1>4. CASE CheckCurrency(r)
  BY <1>4, <1>2, <1>3, <1>r DEF CheckCurrency
<1>5. CASE InsertHash(r) \/ InsertCheck(r)
  BY <1>5, <1>2, <1>3, <1>r DEF InsertHash, InsertCheck
<1>6. CASE LockReceipt(r)
  BY <1>6, <1>2, <1>3, <1>r DEF LockReceipt
<1>7. CASE LockGame(r)
  BY <1>7, <1>2, <1>3, <1>r DEF LockGame
<1>8. CASE CheckCurrencies(r)
  BY <1>8, <1>2, <1>3, <1>r DEF CheckCurrencies
<1>9. CASE MarkRejected(r) \/ SelectBalances(r) \/ Book(r) \/ MarkCharged(r) \/ Begin(r)
  BY <1>9, <1>3 DEF MarkRejected, SelectBalances, Book, MarkCharged, Begin
<1>10. CASE LockBalance(r)
  BY <1>10 DEF LockBalance, tables, Quiet
<1> QED BY <1>4, <1>5, <1>6, <1>7, <1>8, <1>9, <1>10 DEF Statement

LEMMA CommitTells ==
  ASSUME IInv, Tells, NEW r \in Requests, pc[r] = "commit", Install(r),
         NEW o \in {"ok", "failed"}, Finish(r, o)
  PROVE  Tells'
<1>0. CommitEffect(r) /\ TypeOK /\ TablesTypeOK /\ TxInv(r)
  BY CommitTables DEF IInv, TypeOK
<1>1. \A j \in DOMAIN receipts :
        /\ j \in DOMAIN receipts' /\ receipts'[j].user = receipts[j].user
        /\ receipts'[j].amount = receipts[j].amount /\ receipts'[j].currency = receipts[j].currency
  BY <1>0 DEF CommitEffect, TablesTypeOK, ReceiptRow
<1>2. /\ ~HasEntries(r) /\ Readable(r) /\ Payers(r) # {}
      /\ ledger' = ledger \cup {NewEntry(r, u) : u \in Payers(r)}
      /\ Is(r, "credit") => r \in DOMAIN receipts'
  <2>1. ~HasEntries(r)
    BY DEF IInv, CommittedAtEnd, HasEntries
  <2>2. Payers(r) # {}
    BY ArgAssumption DEF Payers, IsChargeArg, Is, CreditArg, ReverseArg, AdjustArg
  <2> QED BY <1>0, <2>1, <2>2 DEF CommitEffect, Readable, Is
<1>3. Readable(r)' /\ Payers(r)' = Payers(r) /\ \A u : NewEntry(r, u)' = NewEntry(r, u)
  BY <1>1, <1>2, EntriesStay
<1>4. ASSUME NEW e \in ledger PROVE Recorded(e)'
  <2>1. Recorded(e)
    BY DEF Tells
  <2>2. /\ Readable(e.by)' /\ Payers(e.by)' = Payers(e.by)
        /\ \A u : NewEntry(e.by, u)' = NewEntry(e.by, u)
    BY <1>1, <2>1, EntriesStay DEF Recorded
  <2>3. ledger \subseteq ledger' /\ DOMAIN receipts \subseteq DOMAIN receipts'
    BY <1>1, <1>2
  <2> QED BY <2>1, <2>2, <2>3 DEF Recorded, Is
<1>5. \A e \in ledger' : Recorded(e)'
  <2>1. \A e : (\E u \in Payers(r) : e = NewEntry(r, u)) => Recorded(e)'
    <3> TAKE e
    <3> HAVE \E u \in Payers(r) : e = NewEntry(r, u)
    <3>1. PICK u \in Payers(r) : e = NewEntry(r, u)
      OBVIOUS
    <3>2. e.by = r /\ e.user = u
      BY <3>1 DEF NewEntry
    <3> HIDE DEF HasEntries
    <3> QED BY <1>2, <1>3, <3>1, <3>2 DEF Recorded, Is
  <2> QED BY <1>2, <1>4, <2>1
<1>6. /\ HasEntries(r)' /\ \A s \in Requests \ {r} : HasEntries(s)' <=> HasEntries(s)
  <2>1. \A u : NewEntry(r, u).by = r
    BY DEF NewEntry
  <2> QED BY <1>2, <2>1 DEF HasEntries
<1>7. ASSUME NEW s \in Requests PROVE OutcomeOf(s)'
  <2>1. CASE s = r
    <3>1. pc'[r] = "done" /\ outcome'[r] \in {"ok", "failed"}
      BY <1>0 DEF TypeOK, Finish
    <3>2. outcome'[r] \notin Refusals \cup {"none"}
      BY <3>1, Zenon DEF Refusals
    <3> QED BY <1>6, <2>1, <3>1, <3>2 DEF OutcomeOf
  <2>2. CASE s # r
    <3>1. pc'[s] = pc[s] /\ outcome'[s] = outcome[s] /\ OutcomeOf(s)
      BY <1>0, <2>2 DEF TypeOK, Finish, Tells
    <3> QED BY <1>6, <2>2, <3>1 DEF OutcomeOf
  <2> QED BY <2>1, <2>2
<1>8. \A i \in DOMAIN receipts' : Is(i, "credit") /\ HasEntries(i)'
  <2>1. \A i \in DOMAIN receipts' : i \in DOMAIN receipts \/ (i = r /\ Is(r, "credit"))
    BY <1>0 DEF CommitEffect
  <2>2. \A i \in DOMAIN receipts : Is(i, "credit") /\ HasEntries(i) /\ i \in Requests
    BY <1>0 DEF Tells, TablesTypeOK
  <2> QED BY <1>6, <2>1, <2>2
<1> QED BY <1>5, <1>7, <1>8 DEF Tells, Is

LEMMA NextTells == IInv /\ Tells /\ [Next]_vars => Tells'
<1> SUFFICES ASSUME IInv, Tells, [Next]_vars PROVE Tells'
  OBVIOUS
<1>1. ASSUME NEW r \in Requests, Commit(r) \/ CommitUnacknowledged(r) PROVE Tells'
  BY <1>1, CommitTells DEF Commit, CommitUnacknowledged
<1>2. ASSUME NEW r \in Requests, Begin(r) \/ Statement(r), ~Commit(r) PROVE Tells'
  BY <1>2, StatementQuiet, QuietTells
<1>3. ASSUME NEW r \in Requests, Fail(r) \/ DeadlockAbort(r) PROVE Tells'
  BY <1>3, RollbackQuiet, QuietTells DEF Fail, DeadlockAbort, InFlight, IInv
<1>4. ASSUME NEW g \in Games, CreateGame(g) PROVE Tells'
  BY <1>4, QuietTells DEF CreateGame, Quiet
<1>5. CASE UNCHANGED vars
  BY <1>5, QuietTells DEF vars, tables, Quiet
<1> QED BY <1>1, <1>2, <1>3, <1>4, <1>5 DEF Next

LEMMA TellsFollows == IInv /\ Tells => OutcomeTellsEffect
<1> SUFFICES ASSUME IInv, Tells, NEW r \in Requests
    PROVE LET mine == {e \in ledger : e.by = r}
          IN  /\ outcome[r] = "ok" => {e.user : e \in mine} = Payers(r)
              /\ outcome[r] \in Refusals \cup {"none"} => mine = {} /\ r \notin DOMAIN receipts
              /\ mine # {} => {e.user : e \in mine} = Payers(r)
              /\ (Is(r, "credit") /\ mine # {}) <=> r \in DOMAIN receipts
  BY DEF OutcomeTellsEffect
<1> DEFINE mine == {e \in ledger : e.by = r}
<1>1. mine # {} <=> HasEntries(r)
  BY DEF HasEntries
<1>2. mine # {} => {e.user : e \in mine} = Payers(r)
  <2>1. \A e \in mine : e.user \in Payers(r) /\ \A u \in Payers(r) : NewEntry(r, u) \in mine
    BY DEF Tells, Recorded, NewEntry
  <2>2. \A u : NewEntry(r, u).user = u
    BY DEF NewEntry
  <2> QED BY <2>1, <2>2
<1>3. (Is(r, "credit") /\ mine # {}) <=> r \in DOMAIN receipts
  BY <1>1 DEF Tells, Recorded
<1>4. OutcomeOf(r)
  BY DEF Tells
<1> HIDE DEF mine
<1>5. outcome[r] = "ok" => mine # {}
  BY <1>1, <1>4 DEF OutcomeOf
<1>6. outcome[r] \in Refusals \cup {"none"} => mine = {}
  BY <1>1, <1>4 DEF OutcomeOf
<1>7. outcome[r] \in Refusals \cup {"none"} => mine = {} /\ r \notin DOMAIN receipts
  BY <1>3, <1>6
<1> QED BY <1>2, <1>3, <1>5, <1>7 DEF mine

\* What balance_repo returns is true: success means that all entries of the request
\* are booked, a named error that none is and that no receipt was stored.
THEOREM CallerIsToldTheTruth == Spec => []OutcomeTellsEffect
<1>1. IInv /\ Tells /\ [Next]_vars => IInv' /\ Tells'
  BY NextInvariant, NextTells
<1> QED BY <1>1, TellsFollows, InitInvariant, InitTells, PTL DEF Spec

(***************************************************************************)
(* The currency checks.  A committed balance row stays and keeps its       *)
(* currency: an upsert adds to a row that exists, and the row lock lets    *)
(* nobody create the row that a transaction is about to install.  So what  *)
(* a check found stays true, and only the rows it did not find are open.   *)
(***************************************************************************)
Checked == {"insertHash", "insertCheck", "book", "markCharged", "commit"}

SeenOf(r) ==
  /\ pc[r] \in {"idle", "checkCurrency"} => seen[r] = {}
  /\ pc[r] = "lockBalances" => seen[r] \subseteq DOMAIN Arg[r].shares \cap DOMAIN balances
  /\ pc[r] \in Checked /\ ~Is(r, "reverse") =>
       \A u \in seen[r] : u \in DOMAIN balances /\ balances[u].currency = CurrencyOf(r)

\* r holds the lock of every row it wrote, so the row is what r would write now.
WroteOf(r) ==
  \A u \in DOMAIN writes[r].balances :
    /\ BalanceLock(u) \in locks[r]
    /\ writes[r].balances[u] = Upserted(r, u)

EntryChecked(e) ==
  /\ e.user \in DOMAIN balances
  /\ ~Is(e.by, "reverse") /\ e.user \in seen[e.by] => e.currency = balances[e.user].currency

CheckedInv ==
  /\ \A e \in ledger : EntryChecked(e)
  /\ \A r \in Requests : SeenOf(r) /\ WroteOf(r)

LEMMA InitChecked == Init => CheckedInv
BY DEF Init, TablesInit, NoWrites, CheckedInv, SeenOf, WroteOf, Checked

LEMMA CurrencyFixed == ASSUME NEW r, ~Is(r, "reverse") PROVE CurrencyOf(r)' = CurrencyOf(r)
BY DEF CurrencyOf, Is

LEMMA UpsertStays ==
  ASSUME UNCHANGED <<receipts, balances>>, NEW r
  PROVE  \A u : Upserted(r, u)' = Upserted(r, u)
BY DEF Upserted, Delta, CurrencyOf, Is

\* A step of one transaction that commits nothing keeps the invariant when it
\* keeps what that transaction has seen and written in order.
LEMMA LocalChecked ==
  ASSUME IInv, CheckedInv, NEW r \in Requests, pc[r] # "done",
         UNCHANGED <<receipts, balances, ledger>>, SeenOf(r)', WroteOf(r)',
         \A s \in Requests \ {r} : /\ pc'[s] = pc[s] /\ seen'[s] = seen[s]
                                   /\ locks'[s] = locks[s] /\ writes'[s] = writes[s]
  PROVE  CheckedInv'
<1>1. ASSUME NEW e \in ledger PROVE EntryChecked(e)'
  <2>1. e.by \in Requests /\ e.by # r
    BY DEF IInv, TypeOK, TablesTypeOK, EntryRow, CommittedAtEnd
  <2> QED BY <2>1 DEF CheckedInv, EntryChecked, Is
<1>2. ASSUME NEW s \in Requests \ {r} PROVE SeenOf(s)' /\ WroteOf(s)'
  <2>1. SeenOf(s) /\ WroteOf(s)
    BY DEF CheckedInv
  <2>2. ~Is(s, "reverse") => CurrencyOf(s)' = CurrencyOf(s)
    BY CurrencyFixed
  <2>3. SeenOf(s)'
    BY <2>1, <2>2 DEF SeenOf, Is
  <2>4. \A u : Upserted(s, u)' = Upserted(s, u)
    BY UpsertStays
  <2>5. WroteOf(s)'
    BY <2>1, <2>4 DEF WroteOf, BalanceLock
  <2> QED BY <2>3, <2>5
<1> QED BY <1>1, <1>2 DEF CheckedInv

\* Ended by an error: it has written nothing any more.
LEMMA RollbackChecked ==
  ASSUME IInv, CheckedInv, NEW r \in Requests, NEW o, pc[r] # "done", Rollback(r, o)
  PROVE  CheckedInv'
<1>1. pc'[r] = "done" /\ writes'[r] = NoWrites /\ UNCHANGED <<receipts, balances, ledger>>
  BY DEF IInv, TypeOK, Rollback, Finish, tables
<1>2. SeenOf(r)' /\ WroteOf(r)'
  BY <1>1 DEF SeenOf, WroteOf, Checked, NoWrites
<1>3. \A s \in Requests \ {r} : /\ pc'[s] = pc[s] /\ seen'[s] = seen[s]
                                /\ locks'[s] = locks[s] /\ writes'[s] = writes[s]
  BY DEF IInv, TypeOK, Rollback, Finish
<1> QED BY <1>1, <1>2, <1>3, LocalChecked

\* A statement that sees and writes no balance row, and goes on to l.
LEMMA MoveChecked ==
  ASSUME IInv, CheckedInv, NEW r \in Requests, NEW l, pc[r] # "done", Goto(r, l),
         UNCHANGED <<receipts, balances, ledger, seen>>,
         l = "checkCurrency" => pc[r] = "idle",
         l \notin {"idle", "lockBalances"},
         l \in Checked => pc[r] \in Checked \/ Is(r, "reverse"),
         NEW L, locks' = [locks EXCEPT ![r] = L], locks[r] \subseteq L,
         NEW W, writes' = [writes EXCEPT ![r] = W], W.balances = writes[r].balances
  PROVE  CheckedInv'
<1>1. /\ pc'[r] = l /\ seen'[r] = seen[r] /\ writes'[r].balances = writes[r].balances
      /\ locks[r] \subseteq locks'[r]
  BY DEF IInv, TypeOK, Goto
<1>2. SeenOf(r) /\ WroteOf(r)
  BY DEF CheckedInv
<1>3. SeenOf(r)'
  BY <1>1, <1>2, CurrencyFixed DEF SeenOf, Is
<1>4. WroteOf(r)'
  BY <1>1, <1>2, UpsertStays DEF WroteOf, BalanceLock
<1>5. \A s \in Requests \ {r} : /\ pc'[s] = pc[s] /\ seen'[s] = seen[s]
                                /\ locks'[s] = locks[s] /\ writes'[s] = writes[s]
  BY DEF IInv, TypeOK, Goto
<1> QED BY <1>3, <1>4, <1>5, LocalChecked

LEMMA CheckCurrencyChecked ==
  ASSUME IInv, CheckedInv, NEW r \in Requests, CheckCurrency(r)
  PROVE  CheckedInv'
<1>0. TypeOK /\ TxInv(r) /\ pc[r] = "checkCurrency" /\ SeenOf(r) /\ WroteOf(r)
  BY DEF IInv, CheckedInv, CheckCurrency
<1>1. /\ Is(r, "credit") \/ Is(r, "adjust")
      /\ seen[r] = {} /\ DOMAIN writes[r].balances = {}
  BY <1>0, ArgTypes DEF TxInv, AtOwnLabel, LabelsOf, BookInv, SeenOf, Is
<1>2. CurrencyOf(r) = Arg[r].currency /\ CurrencyOf(r)' = CurrencyOf(r) /\ ~Is(r, "reverse")
  BY <1>1 DEF CurrencyOf, Is
<1>3. CASE Rollback(r, "currency mismatch")
  BY <1>0, <1>3, RollbackChecked
<1>4. CASE ~Rollback(r, "currency mismatch")
  <2> DEFINE u == Arg[r].user
  <2>0. /\ Goto(r, IF Is(r, "credit") THEN "insertHash" ELSE "book")
        /\ UNCHANGED <<tables, outcome, writes>>
        /\ \/ seen' = seen
           \/ /\ u \in DOMAIN balances /\ balances[u].currency = Arg[r].currency
              /\ seen' = [seen EXCEPT ![r] = {u}]
    BY <1>4 DEF CheckCurrency
  <2>1. /\ pc'[r] \in {"insertHash", "book"} /\ writes' = writes
        /\ UNCHANGED <<receipts, balances, ledger>>
        /\ \A v \in seen'[r] : v \in DOMAIN balances /\ balances[v].currency = Arg[r].currency
    BY <1>0, <1>1, <2>0 DEF TypeOK, Goto, tables
  <2>2. SeenOf(r)' /\ WroteOf(r)'
    BY <1>1, <1>2, <2>1 DEF SeenOf, WroteOf
  <2>3. \A s \in Requests \ {r} : /\ pc'[s] = pc[s] /\ seen'[s] = seen[s]
                                  /\ locks'[s] = locks[s] /\ writes'[s] = writes[s]
    BY <1>0, <1>4 DEF CheckCurrency, TypeOK, Goto, Hold
  <2> QED BY <1>0, <2>1, <2>2, <2>3, LocalChecked
<1> QED BY <1>3, <1>4

\* The snapshot and the locks of ChargeGame's SELECT ... FOR UPDATE.
LEMMA SelectChecked ==
  ASSUME IInv, CheckedInv, NEW r \in Requests, SelectBalances(r) \/ LockBalance(r)
  PROVE  CheckedInv'
<1>0. TypeOK /\ TxInv(r) /\ SeenOf(r) /\ WroteOf(r)
  BY DEF IInv, CheckedInv
<1>1. /\ pc[r] \in {"selectBalances", "lockBalances"} /\ pc'[r] = "lockBalances"
      /\ seen'[r] \subseteq DOMAIN Arg[r].shares \cap DOMAIN balances /\ writes' = writes
      /\ UNCHANGED <<receipts, balances, ledger>>
  <2>1. pc[r] = "selectBalances" => Payers(r) = DOMAIN Arg[r].shares
    BY <1>0, ArgTypes DEF TxInv, AtOwnLabel, LabelsOf, Payers, Is
  <2> QED
    BY <1>0, <2>1 DEF SelectBalances, LockBalance, TypeOK, Goto, tables, SeenOf
<1>2. DOMAIN writes[r].balances = {}
  BY <1>0, <1>1 DEF TxInv, BookInv
<1>3. SeenOf(r)' /\ WroteOf(r)'
  BY <1>1, <1>2 DEF SeenOf, WroteOf, Checked
<1>4. \A s \in Requests \ {r} : /\ pc'[s] = pc[s] /\ seen'[s] = seen[s]
                                /\ locks'[s] = locks[s] /\ writes'[s] = writes[s]
  BY <1>0 DEF SelectBalances, LockBalance, TypeOK, Goto, Hold
<1> QED BY <1>1, <1>3, <1>4, LocalChecked

LEMMA CheckCurrenciesChecked ==
  ASSUME IInv, CheckedInv, NEW r \in Requests, CheckCurrencies(r)
  PROVE  CheckedInv'
<1>0. TypeOK /\ TxInv(r) /\ SeenOf(r) /\ pc[r] = "lockBalances"
  BY DEF IInv, CheckedInv, CheckCurrencies
<1>1. CASE Rollback(r, "currency mismatch")
  BY <1>0, <1>1, RollbackChecked
<1>2. CASE ~Rollback(r, "currency mismatch")
  <2>1. /\ pc'[r] = "book" /\ UNCHANGED <<receipts, balances, ledger, seen, writes, locks>>
        /\ \A u \in seen[r] : balances[u].currency = DefaultCurrency
    BY <1>0, <1>2 DEF CheckCurrencies, TypeOK, Goto, tables
  <2>2. Is(r, "charge") /\ DOMAIN writes[r].balances = {}
    BY <1>0, ArgTypes DEF TxInv, AtOwnLabel, LabelsOf, BookInv, Is
  <2>3. CurrencyOf(r)' = DefaultCurrency
    BY <2>2 DEF CurrencyOf, Is
  <2>4. SeenOf(r)' /\ WroteOf(r)'
    BY <1>0, <2>1, <2>2, <2>3 DEF SeenOf, WroteOf
  <2>5. \A s \in Requests \ {r} : pc'[s] = pc[s]
    BY <1>0, <1>2 DEF CheckCurrencies, TypeOK, Goto
  <2> QED BY <1>0, <2>1, <2>4, <2>5, LocalChecked
<1> QED BY <1>1, <1>2

LEMMA BookChecked ==
  ASSUME IInv, CheckedInv, NEW r \in Requests, Book(r)
  PROVE  CheckedInv'
<1>0. /\ TypeOK /\ TablesTypeOK /\ TxInv(r) /\ SeenOf(r) /\ WroteOf(r) /\ pc[r] = "book"
      /\ WritesTypeOK(writes[r])
  BY DEF IInv, TypeOK, CheckedInv, Book
<1>1. PICK u \in Unbooked(r) :
        /\ Hold(r, {BalanceLock(u)})
        /\ writes' = [writes EXCEPT
                        ![r].ledger = @ \cup {NewEntry(r, u)},
                        ![r].balances = Overlay([v \in {u} |-> Upserted(r, v)], @)]
        /\ Goto(r, IF Unbooked(r) # {u} THEN "book"
                   ELSE IF Is(r, "charge") THEN "markCharged" ELSE "commit")
  BY DEF Book
<1>2. UNCHANGED <<receipts, balances, ledger, seen>>
  BY DEF Book, tables
<1>3. /\ pc'[r] \in {"book", "markCharged", "commit"}
      /\ locks'[r] = locks[r] \cup {BalanceLock(u)}
  BY <1>0, <1>1 DEF TypeOK, Goto, Hold
<1>4. writes'[r].balances = Overlay([v \in {u} |-> Upserted(r, v)], writes[r].balances)
  BY <1>0, <1>1 DEF TypeOK, WritesTypeOK
<1>5. \A v : Upserted(r, v)' = Upserted(r, v)
  BY <1>2, UpsertStays
<1>6. WroteOf(r)'
  <2> SUFFICES ASSUME NEW v \in DOMAIN writes'[r].balances
      PROVE  /\ BalanceLock(v) \in locks'[r]
             /\ writes'[r].balances[v] = Upserted(r, v)
    BY <1>5 DEF WroteOf, BalanceLock
  <2>1. CASE v = u
    <3>1. writes'[r].balances[u] = Upserted(r, u)
      BY <1>4 DEF Overlay
    <3> QED BY <1>3, <2>1, <3>1
  <2>2. CASE v # u
    <3>1. v \in DOMAIN writes[r].balances /\ writes'[r].balances[v] = writes[r].balances[v]
      BY <1>4, <2>2, OverlayFacts DEF Overlay
    <3> QED BY <1>0, <1>3, <3>1 DEF WroteOf
  <2> QED BY <2>1, <2>2
<1>7. SeenOf(r)'
  BY <1>0, <1>2, <1>3, CurrencyFixed DEF SeenOf, Checked, Is
<1>8. \A s \in Requests \ {r} : /\ pc'[s] = pc[s] /\ seen'[s] = seen[s]
                                /\ locks'[s] = locks[s] /\ writes'[s] = writes[s]
  BY <1>0, <1>1, <1>2 DEF TypeOK, Goto, Hold
<1> QED BY <1>0, <1>2, <1>6, <1>7, <1>8, LocalChecked

LEMMA StatementChecked ==
  ASSUME IInv, CheckedInv, NEW r \in Requests, Statement(r) \/ Begin(r), ~Commit(r)
  PROVE  CheckedInv'
<1>0. /\ TypeOK /\ AtOwnLabel(r) /\ Arg[r].op \in {"credit", "reverse", "adjust", "charge"}
      /\ locks = [locks EXCEPT ![r] = locks[r]] /\ writes = [writes EXCEPT ![r] = writes[r]]
  BY ArgTypes, SameAt DEF IInv, TxInv
<1>1. ASSUME NEW o, Rollback(r, o), pc[r] # "done" PROVE CheckedInv'
  BY <1>1, RollbackChecked
<1>2. CASE Begin(r)
  BY <1>0, <1>2, MoveChecked DEF Begin, FirstStatement, Checked, tables
<1>3. CASE InsertHash(r)
  BY <1>0, <1>1, <1>3, MoveChecked DEF InsertHash, Checked, Hold, tables
<1>4. CASE InsertCheck(r)
  <2>1. CASE Rollback(r, "duplicate check number")
    BY <1>1, <1>4, <2>1 DEF InsertCheck
  <2>2. CASE ~Rollback(r, "duplicate check number")
    <3> DEFINE W == [writes[r] EXCEPT !.receipts = [i \in {r} |-> NewReceipt(r)]]
    <3>1. writes' = [writes EXCEPT ![r] = W] /\ W.balances = writes[r].balances
      BY <1>0, <1>4, <2>2 DEF InsertCheck, TypeOK, WritesTypeOK
    <3> QED BY <1>4, <2>2, <3>1, MoveChecked DEF InsertCheck, Checked, Hold, tables
  <2> QED BY <2>1, <2>2
<1>5. CASE LockReceipt(r)
  BY <1>0, <1>1, <1>5, MoveChecked DEF LockReceipt, Checked, Hold, tables
<1>6. CASE MarkRejected(r)
  <2> DEFINE i == Arg[r].receipt
             W == [writes[r] EXCEPT !.receipts =
                     [j \in {i} |-> [receipts[i] EXCEPT !.status = "rejected"]]]
  <2>1. writes' = [writes EXCEPT ![r] = W] /\ W.balances = writes[r].balances
    BY <1>0, <1>6 DEF MarkRejected, TypeOK, WritesTypeOK
  <2>2. Is(r, "reverse")
    BY <1>0, <1>6 DEF MarkRejected, AtOwnLabel, LabelsOf, Is
  <2> DEFINE L == locks[r] \cup ReceiptKeys(receipts[i])
  <2>3. /\ pc[r] = "markRejected" /\ Goto(r, "book") /\ UNCHANGED <<receipts, balances, ledger, seen>>
        /\ locks' = [locks EXCEPT ![r] = L] /\ locks[r] \subseteq L
    BY <1>6 DEF MarkRejected, Hold, tables
  <2> HIDE DEF W, L
  <2> QED BY <2>1, <2>2, <2>3, MoveChecked
<1>7. CASE LockGame(r)
  BY <1>0, <1>1, <1>7, MoveChecked DEF LockGame, Checked, Hold, tables
<1>8. CASE MarkCharged(r)
  <2> DEFINE W == [writes[r] EXCEPT !.charged = {Arg[r].game}]
  <2>1. writes' = [writes EXCEPT ![r] = W] /\ W.balances = writes[r].balances
    BY <1>0, <1>8 DEF MarkCharged, TypeOK, WritesTypeOK
  <2> QED BY <1>0, <1>8, <2>1, MoveChecked DEF MarkCharged, Checked, tables
<1> QED
  BY <1>2, <1>3, <1>4, <1>5, <1>6, <1>7, <1>8, CheckCurrencyChecked, SelectChecked,
     CheckCurrenciesChecked, BookChecked DEF Statement

LEMMA CommitChecked ==
  ASSUME IInv, CheckedInv, NEW r \in Requests, pc[r] = "commit", Install(r),
         NEW o \in {"ok", "failed"}, Finish(r, o)
  PROVE  CheckedInv'
<1>0. CommitEffect(r) /\ TypeOK /\ TablesTypeOK /\ TxInv(r) /\ SeenOf(r) /\ WroteOf(r)
  BY CommitTables DEF IInv, TypeOK, CheckedInv
<1>1. /\ balances' = Overlay(writes[r].balances, balances) /\ seen' = seen
      /\ Payers(r) = DOMAIN writes[r].balances
  BY <1>0 DEF Install, TxInv, BookInv
<1>2. /\ DOMAIN balances' = DOMAIN balances \cup Payers(r)
      /\ \A u \in DOMAIN balances : balances'[u].currency = balances[u].currency
  <2>1. DOMAIN balances' = DOMAIN balances \cup Payers(r)
    BY <1>1 DEF Overlay
  <2>2. ASSUME NEW u \in DOMAIN balances PROVE balances'[u].currency = balances[u].currency
    <3>1. CASE u \in Payers(r)
      <4>1. balances'[u] = Upserted(r, u)
        BY <1>0, <1>1, <3>1 DEF Overlay, WroteOf
      <4> QED BY <1>0, <4>1 DEF Upserted, TablesTypeOK, BalanceRow
    <3>2. CASE u \notin Payers(r)
      BY <1>1, <3>2 DEF Overlay
    <3> QED BY <3>1, <3>2
  <2> QED BY <2>1, <2>2
<1>3. ASSUME NEW e \in ledger PROVE EntryChecked(e)'
  BY <1>1, <1>2 DEF CheckedInv, EntryChecked, Is
<1>4. ASSUME NEW e, NEW u \in Payers(r), e = NewEntry(r, u) PROVE EntryChecked(e)'
  <2>1. e.by = r /\ e.user = u /\ e.currency = CurrencyOf(r)
    BY <1>4 DEF NewEntry
  <2>2. ~Is(r, "reverse") => \A v \in seen[r] : v \in DOMAIN balances
                                                /\ balances[v].currency = CurrencyOf(r)
    BY <1>0 DEF SeenOf, Checked
  <2> HIDE <1>4
  <2> QED BY <1>1, <1>2, <2>1, <2>2 DEF EntryChecked, Is
<1>5. \A e \in ledger' : EntryChecked(e)'
  <2>1. ledger' = ledger \cup {NewEntry(r, u) : u \in Payers(r)}
    BY <1>0 DEF CommitEffect
  <2> QED BY <1>3, <1>4, <2>1
<1>6. \A j \in DOMAIN receipts :
        /\ j \in DOMAIN receipts' /\ receipts'[j].user = receipts[j].user
        /\ receipts'[j].amount = receipts[j].amount /\ receipts'[j].currency = receipts[j].currency
  BY <1>0 DEF CommitEffect, TablesTypeOK, ReceiptRow
<1>7. ASSUME NEW s \in Requests PROVE SeenOf(s)' /\ WroteOf(s)'
  <2>1. CASE s = r
    <3>1. pc'[r] = "done" /\ writes'[r] = NoWrites
      BY <1>0 DEF TypeOK, Finish
    <3> QED BY <2>1, <3>1 DEF SeenOf, WroteOf, Checked, NoWrites
  <2>2. CASE s # r
    <3>1. /\ pc'[s] = pc[s] /\ seen'[s] = seen[s] /\ locks'[s] = locks[s] /\ writes'[s] = writes[s]
          /\ SeenOf(s) /\ WroteOf(s)
      BY <1>0, <1>1, <2>2 DEF TypeOK, Finish, CheckedInv
    <3>2. SeenOf(s)'
      BY <1>2, <3>1, CurrencyFixed DEF SeenOf, Is
    <3>3. \A u \in DOMAIN writes[s].balances : u \notin Payers(r)
      BY <1>0, <1>1, <2>2, <3>1 DEF WroteOf, IInv, LocksExclusive
    <3>4. ASSUME NEW u \in DOMAIN writes[s].balances PROVE Upserted(s, u)' = Upserted(s, u)
      <4>1. pc[s] \in {"book", "markCharged", "commit"} /\ TxInv(s)
        BY DEF IInv, TxInv, BookInv
      <4>2. Readable(s)
        BY <4>1, ArgTypes DEF TxInv, ReverseInv, AtOwnLabel, LabelsOf, HoldsReceipt, WroteReceipt,
           Readable, Is
      <4>3. NewEntry(s, u)' = NewEntry(s, u)
        BY <1>6, <4>2, EntriesStay
      <4>4. Delta(s, u)' = Delta(s, u) /\ CurrencyOf(s)' = CurrencyOf(s)
        BY <4>3 DEF NewEntry
      <4>5. /\ u \in DOMAIN balances' <=> u \in DOMAIN balances
            /\ u \in DOMAIN balances => balances'[u] = balances[u]
        BY <1>1, <1>2, <3>3 DEF Overlay
      <4> QED BY <4>4, <4>5 DEF Upserted
    <3>5. WroteOf(s)'
      BY <3>1, <3>4 DEF WroteOf, BalanceLock
    <3> QED BY <3>2, <3>5
  <2> QED BY <2>1, <2>2
<1> QED BY <1>5, <1>7 DEF CheckedInv

LEMMA NextChecked == IInv /\ CheckedInv /\ [Next]_vars => CheckedInv'
<1> SUFFICES ASSUME IInv, CheckedInv, [Next]_vars PROVE CheckedInv'
  OBVIOUS
<1>1. ASSUME NEW r \in Requests, Commit(r) \/ CommitUnacknowledged(r) PROVE CheckedInv'
  BY <1>1, CommitChecked DEF Commit, CommitUnacknowledged
<1>2. ASSUME NEW r \in Requests, Begin(r) \/ Statement(r), ~Commit(r) PROVE CheckedInv'
  BY <1>2, StatementChecked
<1>3. ASSUME NEW r \in Requests, Fail(r) \/ DeadlockAbort(r) PROVE CheckedInv'
  BY <1>3, RollbackChecked DEF Fail, DeadlockAbort, InFlight
<1>4. ASSUME UNCHANGED <<receipts, ledger, balances, pc, seen, locks, writes>> PROVE CheckedInv'
  BY <1>4, CurrencyFixed, UpsertStays DEF CheckedInv, EntryChecked, SeenOf, WroteOf, BalanceLock, Is
<1> QED BY <1>1, <1>2, <1>3, <1>4 DEF Next, CreateGame, vars, tables

LEMMA CheckedFollows == IInv /\ Tells /\ CheckedInv => MismatchNeedsMissingRow
<1> SUFFICES ASSUME IInv, Tells, CheckedInv, NEW e \in ledger,
                    e.currency # balances[e.user].currency
    PROVE  \/ e.user \notin seen[e.by] /\ ~Is(e.by, "reverse")
           \/ /\ Is(e.by, "reverse")
              /\ Arg[e.by].receipt \in Requests
              /\ e.user \notin seen[Arg[e.by].receipt]
  BY DEF MismatchNeedsMissingRow
<1>1. EntryChecked(e) /\ Recorded(e)
  BY DEF CheckedInv, Tells
<1>2. CASE ~Is(e.by, "reverse")
  BY <1>1, <1>2 DEF EntryChecked
<1>3. CASE Is(e.by, "reverse")
  <2> DEFINE i == Arg[e.by].receipt
             c == [by |-> i, user |-> receipts[i].user, amount |-> receipts[i].amount,
                   currency |-> receipts[i].currency, kind |-> "receipt_credit",
                   ref |-> ReceiptRef(i)]
  <2>1. i \in DOMAIN receipts /\ i \in Requests
    BY <1>1, <1>3 DEF Recorded, Readable, IInv, TypeOK, TablesTypeOK
  <2>2. e.user = receipts[i].user /\ e.currency = receipts[i].currency
    BY <1>1, <1>3 DEF Recorded, NewEntry, Payers, CurrencyOf, Is
  <2>3. c \in ledger
    BY <2>1 DEF IInv, ReceiptsBooked, EntriesOf
  <2>4. EntryChecked(c) /\ ~Is(i, "reverse")
    BY <2>1, <2>3 DEF CheckedInv, Tells, Is
  <2>5. c.by = i /\ c.user = e.user /\ c.currency = e.currency
    BY <2>2
  <2> HIDE DEF c
  <2>6. e.user \notin seen[i]
    BY <2>4, <2>5 DEF EntryChecked
  <2> QED BY <1>3, <2>1, <2>6
<1> QED BY <1>2, <1>3

\* checkBalanceCurrency and the check of ChargeGame: money is booked in another
\* currency than the balance's only by a request that found no row to check, or
\* when a receipt of such a request is taken back.
THEOREM ChecksLeaveOneGap == Spec => []MismatchNeedsMissingRow
<1>1. IInv /\ Tells /\ CheckedInv /\ [Next]_vars => IInv' /\ Tells' /\ CheckedInv'
  BY NextInvariant, NextTells, NextChecked
<1> QED BY <1>1, CheckedFollows, InitInvariant, InitTells, InitChecked, PTL DEF Spec

(***************************************************************************)
(* Waiting.  At the first statements nothing is held, and the rows of      *)
(* ChargeGame's query are locked in ascending order.  So in a circle with  *)
(* nobody stuck in applyBalanceDelta, nobody waits for a unique key, all   *)
(* wait for rows of that query, and whoever waits for the smallest of them *)
(* holds a smaller one still.                                              *)
(***************************************************************************)
\* What a transaction holds when it waits, and in which order it took it.
LockOrder(r) ==
  /\ pc[r] \in {"checkCurrency", "lockReceipt", "lockGame"} => locks[r] = {}
  /\ pc[r] = "selectBalances" => \A u \in Users : BalanceLock(u) \notin locks[r]
  /\ pc[r] = "lockBalances" =>
       \A u \in Users : BalanceLock(u) \in locks[r] =>
         u \in seen[r] /\ \A v \in Unlocked(r) : u < v
  /\ pc[r] \in Checked /\ ~Is(r, "reverse") => \A u \in seen[r] : BalanceLock(u) \in locks[r]

OrderInv == \A r \in Requests : LockOrder(r)

LEMMA InitOrder == Init => OrderInv
BY DEF Init, OrderInv, LockOrder, Checked

\* A step of one transaction that keeps its own locks in order.
LEMMA LocalOrder ==
  ASSUME IInv, OrderInv, NEW r \in Requests, LockOrder(r)',
         \A s \in Requests \ {r} :
           pc'[s] = pc[s] /\ seen'[s] = seen[s] /\ locks'[s] = locks[s]
  PROVE  OrderInv'
BY DEF OrderInv, LockOrder, Unlocked, BalanceLock, Is

\* Ended, whatever the outcome.
LEMMA FinishOrder ==
  ASSUME IInv, OrderInv, NEW r \in Requests, NEW o, Finish(r, o), UNCHANGED seen
  PROVE  OrderInv'
<1>1. pc'[r] = "done"
  BY DEF IInv, TypeOK, Finish
<1>2. LockOrder(r)'
  BY <1>1 DEF LockOrder, Checked
<1>3. \A s \in Requests \ {r} : pc'[s] = pc[s] /\ seen'[s] = seen[s] /\ locks'[s] = locks[s]
  BY DEF IInv, TypeOK, Finish
<1> QED BY <1>2, <1>3, LocalOrder

\* A statement that sees no balance row and takes no lock out of order.
LEMMA MoveOrder ==
  ASSUME IInv, OrderInv, NEW r \in Requests, seen' = seen,
         \A s \in Requests \ {r} : pc'[s] = pc[s] /\ locks'[s] = locks[s],
         locks[r] \subseteq locks'[r],
         pc'[r] \in {"checkCurrency", "lockReceipt", "lockGame"} => locks'[r] = {},
         pc'[r] = "selectBalances" => \A u \in Users : BalanceLock(u) \notin locks'[r],
         pc'[r] # "lockBalances",
         pc'[r] \in Checked => pc[r] \in Checked \/ Is(r, "reverse")
  PROVE  OrderInv'
<1>1. LockOrder(r)
  BY DEF OrderInv
<1>2. LockOrder(r)'
  BY <1>1 DEF LockOrder, BalanceLock, Is
<1>3. \A s \in Requests \ {r} : pc'[s] = pc[s] /\ seen'[s] = seen[s] /\ locks'[s] = locks[s]
  OBVIOUS
<1> QED BY <1>2, <1>3, LocalOrder

LEMMA CheckCurrencyOrder ==
  ASSUME IInv, CheckedInv, OrderInv, NEW r \in Requests, CheckCurrency(r)
  PROVE  OrderInv'
<1>0. TypeOK /\ pc[r] = "checkCurrency" /\ SeenOf(r) /\ LockOrder(r)
  BY DEF IInv, CheckedInv, OrderInv, CheckCurrency
<1>1. seen[r] = {} /\ locks[r] = {}
  BY <1>0 DEF SeenOf, LockOrder
<1>2. CASE Rollback(r, "currency mismatch")
  BY <1>2, FinishOrder DEF Rollback
<1>3. CASE ~Rollback(r, "currency mismatch")
  <2>1. /\ pc'[r] \in {"insertHash", "book"}
        /\ \A u \in seen'[r] : BalanceLock(u) \in locks'[r]
    <3> DEFINE u == Arg[r].user
    <3>1. /\ Goto(r, IF Is(r, "credit") THEN "insertHash" ELSE "book")
          /\ \/ UNCHANGED <<seen, locks>>
             \/ seen' = [seen EXCEPT ![r] = {u}] /\ Hold(r, {BalanceLock(u)})
      BY <1>3 DEF CheckCurrency
    <3>2. pc'[r] \in {"insertHash", "book"}
      BY <1>0, <3>1 DEF TypeOK, Goto
    <3>3. CASE UNCHANGED <<seen, locks>>
      BY <1>1, <3>2, <3>3
    <3>4. CASE seen' = [seen EXCEPT ![r] = {u}] /\ Hold(r, {BalanceLock(u)})
      BY <1>0, <3>2, <3>4 DEF TypeOK, Hold
    <3> QED BY <3>1, <3>3, <3>4
  <2>2. LockOrder(r)'
    BY <2>1 DEF LockOrder, BalanceLock
  <2>3. \A s \in Requests \ {r} : pc'[s] = pc[s] /\ seen'[s] = seen[s] /\ locks'[s] = locks[s]
    BY <1>0, <1>3 DEF CheckCurrency, TypeOK, Goto, Hold
  <2> QED BY <2>2, <2>3, LocalOrder
<1> QED BY <1>2, <1>3

\* ORDER BY user_id: the row locked next is above all rows locked before.
LEMMA LockBalanceOrder ==
  ASSUME IInv, OrderInv, NEW r \in Requests, SelectBalances(r) \/ LockBalance(r)
  PROVE  OrderInv'
<1>0. TypeOK /\ LockOrder(r) /\ seen[r] \subseteq Users
  BY DEF IInv, TypeOK, OrderInv
<1>1. \A s \in Requests \ {r} : pc'[s] = pc[s] /\ seen'[s] = seen[s] /\ locks'[s] = locks[s]
  BY <1>0 DEF SelectBalances, LockBalance, TypeOK, Goto, Hold
<1>2. CASE SelectBalances(r)
  <2>1. /\ pc'[r] = "lockBalances" /\ locks'[r] = locks[r]
        /\ \A u \in Users : BalanceLock(u) \notin locks[r]
    BY <1>0, <1>2 DEF SelectBalances, TypeOK, Goto, LockOrder
  <2>2. LockOrder(r)'
    BY <2>1 DEF LockOrder, BalanceLock, Checked
  <2> QED BY <1>1, <2>2, LocalOrder
<1>3. CASE LockBalance(r)
  <2>1. PICK u \in Unlocked(r) : /\ \A v \in Unlocked(r) : u <= v
                                 /\ Hold(r, {BalanceLock(u)})
    BY <1>3 DEF LockBalance
  <2>2. /\ pc[r] = "lockBalances" /\ pc'[r] = "lockBalances" /\ seen'[r] = seen[r]
        /\ locks'[r] = locks[r] \cup {BalanceLock(u)}
    BY <1>0, <1>3, <2>1 DEF LockBalance, TypeOK, Hold
  <2>3. Unlocked(r)' = Unlocked(r) \ {u}
    BY <2>2 DEF Unlocked, BalanceLock
  <2>4. Unlocked(r) \subseteq Nat /\ u \in seen[r]
    BY <1>0, UsersAssumption DEF Unlocked
  <2>5. ASSUME NEW v \in Users, BalanceLock(v) \in locks'[r]
        PROVE  v \in seen[r] /\ \A w \in Unlocked(r)' : v < w
    <3>1. CASE v = u
      BY <2>1, <2>3, <2>4, <3>1
    <3>2. CASE v # u
      <4>1. BalanceLock(v) \in locks[r]
        BY <2>2, <2>5, <3>2 DEF BalanceLock
      <4> QED BY <1>0, <2>2, <2>3, <4>1 DEF LockOrder
    <3> QED BY <3>1, <3>2
  <2>6. LockOrder(r)'
    BY <2>2, <2>5 DEF LockOrder, BalanceLock, Checked
  <2> QED BY <1>1, <2>6, LocalOrder
<1> QED BY <1>2, <1>3

LEMMA CheckCurrenciesOrder ==
  ASSUME IInv, OrderInv, NEW r \in Requests, CheckCurrencies(r)
  PROVE  OrderInv'
<1>1. CASE Rollback(r, "currency mismatch")
  BY <1>1, FinishOrder DEF Rollback
<1>2. CASE ~Rollback(r, "currency mismatch")
  <2>1. /\ pc'[r] = "book" /\ UNCHANGED <<seen, locks>>
        /\ \A s \in Requests \ {r} : pc'[s] = pc[s]
    BY <1>2 DEF CheckCurrencies, IInv, TypeOK, Goto
  <2>2. \A u \in seen[r] : BalanceLock(u) \in locks[r]
    BY DEF CheckCurrencies, Unlocked
  <2>3. LockOrder(r)'
    BY <2>1, <2>2 DEF LockOrder, BalanceLock
  <2> QED BY <2>1, <2>3, LocalOrder
<1> QED BY <1>1, <1>2

LEMMA StatementOrder ==
  ASSUME IInv, CheckedInv, OrderInv, NEW r \in Requests, Statement(r) \/ Begin(r)
  PROVE  OrderInv'
<1>0. /\ TypeOK /\ AtOwnLabel(r) /\ Arg[r].op \in {"credit", "reverse", "adjust", "charge"}
      /\ LockOrder(r) /\ NothingHeldOutside(r)
  BY ArgTypes DEF IInv, TxInv, OrderInv
<1>1. ASSUME NEW o, Rollback(r, o) PROVE OrderInv'
  BY <1>1, FinishOrder DEF Rollback
<1>2. CASE Begin(r)
  <2>1. /\ pc'[r] \in {"checkCurrency", "lockReceipt", "lockGame"}
        /\ locks' = locks /\ locks[r] = {} /\ seen' = seen
        /\ \A s \in Requests \ {r} : pc'[s] = pc[s]
    BY <1>0, <1>2 DEF Begin, FirstStatement, Goto, NothingHeldOutside, Ended, TypeOK
  <2> QED BY <2>1, MoveOrder DEF Checked
<1>3. ASSUME NEW l, NEW X, Goto(r, l), Hold(r, X), seen' = seen,
             l \in {"insertCheck", "markRejected", "book", "markCharged", "commit"},
             l \in Checked => pc[r] \in Checked \/ Is(r, "reverse")
      PROVE  OrderInv'
  <2>1. pc'[r] = l /\ locks'[r] = locks[r] \cup X
    BY <1>0, <1>3 DEF TypeOK, Goto, Hold
  <2>2. \A s \in Requests \ {r} : pc'[s] = pc[s] /\ locks'[s] = locks[s]
    BY <1>0, <1>3 DEF TypeOK, Goto, Hold
  <2> QED BY <1>3, <2>1, <2>2, MoveOrder
<1>4. CASE InsertHash(r)
  BY <1>1, <1>3, <1>4 DEF InsertHash, Checked
<1>5. CASE InsertCheck(r)
  BY <1>1, <1>3, <1>5 DEF InsertCheck, Checked
<1>6. CASE LockReceipt(r)
  BY <1>1, <1>3, <1>6 DEF LockReceipt, Checked
<1>7. CASE MarkRejected(r)
  <2>1. Is(r, "reverse")
    BY <1>0, <1>7 DEF MarkRejected, AtOwnLabel, LabelsOf, Is
  <2> QED BY <1>3, <1>7, <2>1 DEF MarkRejected
<1>8. CASE LockGame(r)
  <2>1. CASE \E o : Rollback(r, o)
    BY <1>1, <2>1
  <2>2. CASE ~\E o : Rollback(r, o)
    <3>1. /\ pc[r] = "lockGame" /\ Goto(r, "selectBalances") /\ seen' = seen
          /\ Hold(r, {GameRef(Arg[r].game)})
      BY <1>8, <2>2 DEF LockGame
    <3>2. /\ pc'[r] = "selectBalances" /\ locks[r] = {} /\ locks'[r] = {GameRef(Arg[r].game)}
          /\ \A s \in Requests \ {r} : pc'[s] = pc[s] /\ locks'[s] = locks[s]
      BY <1>0, <3>1 DEF TypeOK, Goto, Hold, LockOrder
    <3>3. \A u \in Users : BalanceLock(u) \notin locks'[r]
      BY <3>2 DEF BalanceLock, GameRef
    <3> QED BY <3>1, <3>2, <3>3, MoveOrder DEF Checked
  <2> QED BY <2>1, <2>2
<1>9. CASE Book(r)
  BY <1>3, <1>9 DEF Book, Checked
<1>10. CASE MarkCharged(r)
  <2>1. locks' = [locks EXCEPT ![r] = @ \cup {}]
    BY <1>0, <1>10 DEF MarkCharged, TypeOK
  <2> QED BY <1>3, <1>10, <2>1 DEF MarkCharged, Hold, Checked
<1>11. CASE Commit(r)
  BY <1>11, FinishOrder DEF Commit, Install
<1> QED
  BY <1>2, <1>4, <1>5, <1>6, <1>7, <1>8, <1>9, <1>10, <1>11, CheckCurrencyOrder,
     LockBalanceOrder, CheckCurrenciesOrder DEF Statement

LEMMA NextOrder == IInv /\ CheckedInv /\ OrderInv /\ [Next]_vars => OrderInv'
<1> SUFFICES ASSUME IInv, CheckedInv, OrderInv, [Next]_vars PROVE OrderInv'
  OBVIOUS
<1>1. ASSUME NEW r \in Requests, Begin(r) \/ Statement(r) PROVE OrderInv'
  BY <1>1, StatementOrder
<1>2. ASSUME NEW r \in Requests, Fail(r) \/ DeadlockAbort(r) \/ CommitUnacknowledged(r)
      PROVE  OrderInv'
  BY <1>2, FinishOrder DEF Fail, DeadlockAbort, Rollback, CommitUnacknowledged, Install
<1>3. ASSUME UNCHANGED <<pc, seen, locks>> PROVE OrderInv'
  BY <1>3 DEF OrderInv, LockOrder, Unlocked, BalanceLock, Is
<1> QED BY <1>1, <1>2, <1>3 DEF Next, CreateGame, vars

LEMMA OrderFollows == IInv /\ CheckedInv /\ OrderInv => CirclesNeedLateLock
<1> SUFFICES ASSUME IInv, OrderInv, NEW S \in Circles,
                    \A r \in S : ~(pc[r] = "book" /\ (Is(r, "reverse") \/ ~(Payers(r) \subseteq seen[r])))
    PROVE  FALSE
  BY DEF CirclesNeedLateLock
<1>1. /\ S \subseteq Requests /\ S # {}
      /\ \A r \in S : Blockers(r) # {} /\ Blockers(r) \subseteq S
      /\ \A s \in S : \E r \in S : s \in Blockers(r)
  BY DEF Circles, Waiting
<1>2. ASSUME NEW s \in S PROVE TxInv(s) /\ LockOrder(s) /\ locks[s] # {}
  BY <1>1 DEF IInv, OrderInv, Blockers
\* Nobody is stuck in applyBalanceDelta: the row is locked already.
<1>3. ASSUME NEW r \in S PROVE pc[r] # "book"
  <2> SUFFICES ASSUME pc[r] = "book" PROVE FALSE
    OBVIOUS
  <2>1. ~Is(r, "reverse") /\ \A u \in Payers(r) : BalanceLock(u) \in locks[r]
    BY <1>2 DEF LockOrder, Checked
  <2>2. PICK x \in Wanted(r), s \in S : x \in locks[s] /\ s # r
    BY <1>1 DEF Blockers
  <2>3. x \in locks[r]
    BY <2>1, <2>2 DEF Wanted, Unbooked
  <2> QED BY <1>1, <2>2, <2>3 DEF IInv, LocksExclusive
\* What a member waits for is held by another member.
<1>4. ASSUME NEW r \in S
      PROVE  \E s \in S, x \in Wanted(r) : s # r /\ x \in locks[s]
  BY <1>1 DEF Blockers
\* Who has written its receipt is booking or committing.
<1>5. ASSUME NEW r \in S PROVE ~WroteReceipt(r)
  BY <1>3, <1>4 DEF WroteReceipt, Wanted
<1>6. ASSUME NEW r \in S PROVE pc[r] # "insertCheck"
  <2> SUFFICES ASSUME pc[r] = "insertCheck" PROVE FALSE
    OBVIOUS
  <2>1. Arg[r].check \in CheckNumbers \cup {NoCheck}
    BY <1>1, <1>2, ArgTypes DEF TxInv, AtOwnLabel, LabelsOf, Is
  <2>2. PICK s \in S, k \in CheckNumbers : CheckKey(k) \in locks[s]
    BY <1>4, <2>1 DEF Wanted, CheckKeys
  <2> QED BY <1>2, <1>5, <2>2 DEF TxInv, KeyInv
<1>7. ASSUME NEW r \in S PROVE pc[r] # "insertHash"
  <2> SUFFICES ASSUME pc[r] = "insertHash" PROVE FALSE
    OBVIOUS
  <2>1. Arg[r].hash \in Hashes
    BY <1>1, <1>2, ArgTypes DEF TxInv, AtOwnLabel, LabelsOf, Is
  <2>2. PICK s \in S, h \in Hashes : HashKey(h) \in locks[s]
    BY <1>4, <2>1 DEF Wanted
  <2>3. HoldsHash(s)
    BY <1>2, <1>5, <2>2 DEF TxInv, KeyInv
  <2> QED BY <1>5, <1>6, <2>3 DEF HoldsHash
\* So all members are locking the rows of ChargeGame's query, the first ones have
\* nothing locked and the others none above the row they wait for.
<1>8. ASSUME NEW r \in S PROVE pc[r] = "lockBalances"
  BY <1>2, <1>3, <1>4, <1>6, <1>7 DEF Wanted, LockOrder
<1> DEFINE T == {u \in Users : \E r \in S : u \in Unlocked(r) /\ \A w \in Unlocked(r) : u <= w}
<1>9. ASSUME NEW r \in S
      PROVE  \E u \in T, s \in S : u \in Unlocked(r) /\ BalanceLock(u) \in locks[s]
  <2>1. PICK s \in S, x \in Wanted(r) : s # r /\ x \in locks[s]
    BY <1>4
  <2>2. PICK u \in Unlocked(r) : x = BalanceLock(u) /\ \A w \in Unlocked(r) : u <= w
    BY <1>8, <2>1 DEF Wanted
  <2>3. u \in Users
    BY <1>1, <2>2 DEF Unlocked, IInv, TypeOK
  <2> QED BY <2>1, <2>2, <2>3
<1>10. T # {} /\ T \subseteq Nat
  BY <1>1, <1>9, UsersAssumption
<1>11. PICK m \in T : \A u \in T : m <= u
  BY <1>10, LeastNat
<1>12. PICK r \in S : m \in Unlocked(r) /\ \A w \in Unlocked(r) : m <= w
  OBVIOUS
\* Somebody waits for a row that r holds: a smaller one.
<1>13. PICK q \in S : r \in Blockers(q)
  BY <1>1
<1>14. PICK u \in Unlocked(q) : BalanceLock(u) \in locks[r] /\ \A w \in Unlocked(q) : u <= w
  BY <1>8, <1>13 DEF Blockers, Wanted
<1>15. u \in Users
  BY <1>1, <1>14 DEF Unlocked, IInv, TypeOK
<1>16. u \in T /\ u < m
  BY <1>2, <1>8, <1>12, <1>14, <1>15 DEF LockOrder
<1> QED BY <1>10, <1>11, <1>16

\* ORDER BY user_id FOR UPDATE and the unique keys: transactions that wait for each
\* other in a circle include one that waits for a row its own check did not lock.
THEOREM LocksUpFrontMakeNoCircle == Spec => []CirclesNeedLateLock
<1>1. /\ Init => IInv /\ CheckedInv /\ OrderInv
      /\ IInv /\ CheckedInv /\ OrderInv /\ [Next]_vars => IInv' /\ CheckedInv' /\ OrderInv'
  BY InitInvariant, InitChecked, InitOrder, NextInvariant, NextChecked, NextOrder
<1> QED BY <1>1, OrderFollows, PTL DEF Spec

\* Whoever follows the waits meets nothing else: among finitely many transactions that
\* hold locks, and wait for none but each other, one waits for nobody, or some wait in a
\* circle, one of them for a row its own check did not lock.
WaitsHaveAnEnd ==
  \A R \in SUBSET {r \in Requests : locks[r] # {}} :
    R # {} /\ IsFiniteSet(R) /\ (\A r \in R : Blockers(r) \subseteq R) =>
      \/ \E r \in R : InFlight(r) /\ r \notin Waiting
      \/ \E S \in Circles : /\ S \subseteq R
                            /\ \E r \in S : /\ pc[r] = "book"
                                            /\ Is(r, "reverse") \/ ~(Payers(r) \subseteq seen[r])

\* A smallest set closed under the waits is a circle: what its members wait for is
\* closed too, so it is all of the set.
LEMMA ClosedHasCircle ==
  ASSUME NEW R \in SUBSET Waiting, R # {}, IsFiniteSet(R), \A r \in R : Blockers(r) \subseteq R
  PROVE  \E S \in Circles : S \subseteq R
<1> DEFINE Image(T) == UNION {Blockers(r) : r \in T}
           C == {T \in SUBSET R : T # {} /\ Image(T) \subseteq T}
<1>1. R \in C /\ \A T \in C : IsFiniteSet(T)
  BY FS_Subset
<1>2. PICK S \in C : \A T \in C : Cardinality(S) <= Cardinality(T)
  <2> HIDE DEF C
  <2> QED BY <1>1, SmallestSet
<1>3. S \subseteq Waiting /\ S # {} /\ Image(S) \subseteq S
  OBVIOUS
<1>4. Image(S) # {}
  BY <1>3 DEF Waiting
<1>5. Image(Image(S)) \subseteq Image(S)
  BY <1>3
<1>6. Image(S) \in C
  BY <1>3, <1>4, <1>5
<1>7. Cardinality(S) <= Cardinality(Image(S)) /\ IsFiniteSet(S)
  BY <1>1, <1>2, <1>6
<1>8. Cardinality(Image(S)) <= Cardinality(S) /\ (Cardinality(Image(S)) = Cardinality(S) => Image(S) = S)
  <2> HIDE DEF Image
  <2> QED BY <1>3, <1>7, FS_Subset
<1>9. Cardinality(S) \in Nat /\ Cardinality(Image(S)) \in Nat
  BY <1>1, <1>6, <1>7, FS_CardinalityType
<1>10. Image(S) = S
  BY <1>7, <1>8, <1>9
<1> QED BY <1>3, <1>10 DEF Circles

LEMMA EndFollows == IInv /\ CirclesNeedLateLock => WaitsHaveAnEnd
<1> SUFFICES ASSUME IInv, CirclesNeedLateLock,
                    NEW R \in SUBSET {r \in Requests : locks[r] # {}},
                    R # {}, IsFiniteSet(R), \A r \in R : Blockers(r) \subseteq R,
                    ~ \E r \in R : InFlight(r) /\ r \notin Waiting
    PROVE  \E S \in Circles : /\ S \subseteq R
                              /\ \E r \in S : /\ pc[r] = "book"
                                              /\ Is(r, "reverse") \/ ~(Payers(r) \subseteq seen[r])
  BY DEF WaitsHaveAnEnd
<1>1. \A r \in R : InFlight(r)
  BY DEF IInv, TxInv, NothingHeldOutside, Ended, InFlight
<1>2. PICK S \in Circles : S \subseteq R
  BY <1>1, ClosedHasCircle
<1> QED BY <1>2 DEF CirclesNeedLateLock

\* What PostgreSQL has to detect is the circles, and no transaction is stuck otherwise.
THEOREM WaitingEnds == Spec => []WaitsHaveAnEnd
<1>1. IInv /\ CheckedInv /\ OrderInv => WaitsHaveAnEnd
  BY OrderFollows, EndFollows
<1>2. /\ Init => IInv /\ CheckedInv /\ OrderInv
      /\ IInv /\ CheckedInv /\ OrderInv /\ [Next]_vars => IInv' /\ CheckedInv' /\ OrderInv'
  BY InitInvariant, InitChecked, InitOrder, NextInvariant, NextChecked, NextOrder
<1> QED BY <1>1, <1>2, PTL DEF Spec

(***************************************************************************)
(* The sum.  An upsert computes a row from the row committed now, the row  *)
(* lock keeps it until COMMIT, so COMMIT adds to a balance what it adds to *)
(* the user's entries.                                                     *)
(***************************************************************************)
EntriesFor(u) == {e \in ledger : e.user = u}

Summed == IsFiniteSet(ledger) /\ BalanceIsLedgerSum

LEMMA SumIsAmountSum == ASSUME NEW S PROVE SumOf(S) = AmountSum(S)
BY DEF SumOf, AmountSum

LEMMA PayersFinite == ASSUME NEW r \in Requests PROVE IsFiniteSet(Payers(r))
<1>1. CASE Is(r, "charge")
  <2>1. IsChargeArg(Arg[r])
    BY <1>1, ArgAssumption DEF Is, CreditArg, ReverseArg, AdjustArg
  <2> QED BY <1>1, <2>1 DEF Payers, IsChargeArg
<1>2. CASE ~Is(r, "charge")
  BY <1>2, FS_Singleton DEF Payers
<1> QED BY <1>1, <1>2

LEMMA InitSummed == Init => Summed
BY FS_EmptySet DEF Init, TablesInit, Summed, BalanceIsLedgerSum

\* What COMMIT adds to the entries of a user.
LEMMA CommitEntries ==
  ASSUME IInv, NEW r \in Requests, pc[r] = "commit", CommitEffect(r), NEW u
  PROVE  /\ u \notin Payers(r) => EntriesFor(u)' = EntriesFor(u)
         /\ u \in Payers(r) => /\ EntriesFor(u)' = EntriesFor(u) \cup {NewEntry(r, u)}
                               /\ NewEntry(r, u) \notin EntriesFor(u)
<1>1. ledger' = ledger \cup {NewEntry(r, v) : v \in Payers(r)}
  BY DEF CommitEffect
<1>2. \A v \in Payers(r) : NewEntry(r, v).user = v /\ NewEntry(r, v).by = r
  BY DEF NewEntry
<1>3. \A v \in Payers(r) : NewEntry(r, v) \notin ledger
  BY <1>2 DEF IInv, CommittedAtEnd
<1> QED BY <1>1, <1>2, <1>3 DEF EntriesFor

LEMMA CommitSummed ==
  ASSUME IInv, CheckedInv, Summed, NEW r \in Requests, pc[r] = "commit", Install(r)
  PROVE  Summed'
<1>0. /\ CommitEffect(r) /\ TypeOK /\ TablesTypeOK /\ TxInv(r) /\ WroteOf(r)
      /\ IsFiniteSet(ledger) /\ IsFiniteSet(Payers(r))
  BY CommitTables, PayersFinite DEF IInv, TypeOK, CheckedInv, Summed
<1>1. /\ balances' = Overlay(writes[r].balances, balances)
      /\ Payers(r) = DOMAIN writes[r].balances
  BY <1>0 DEF Install, TxInv, BookInv
<1>2. IsFiniteSet(ledger')
  <2> DEFINE new == {NewEntry(r, u) : u \in Payers(r)}
  <2>1. IsFiniteSet(new)
    <3> DEFINE f == [u \in Payers(r) |-> NewEntry(r, u)]
    <3>1. IsFiniteSet({f[u] : u \in Payers(r)})
      BY <1>0, FiniteImage
    <3>2. {f[u] : u \in Payers(r)} = new
      OBVIOUS
    <3> QED BY <3>1, <3>2
  <2>2. ledger' = ledger \cup new
    BY <1>0 DEF CommitEffect
  <2> HIDE DEF new
  <2> QED BY <1>0, <2>1, <2>2, FS_Union
<1>3. Readable(r)
  BY <1>0, ArgTypes DEF TxInv, ReverseInv, AtOwnLabel, LabelsOf, HoldsReceipt, WroteReceipt, Readable, Is
<1>4. ASSUME NEW u PROVE IsFiniteSet(EntriesFor(u)) /\ \A e \in EntriesFor(u) : e.amount \in Int
  <2>1. EntriesFor(u) \subseteq ledger
    BY DEF EntriesFor
  <2> QED BY <1>0, <2>1, FS_Subset DEF TablesTypeOK, EntryRow
<1>5. ASSUME NEW u \in DOMAIN balances' PROVE balances'[u].amount = SumOf(EntriesFor(u)')
  <2>1. CASE u \notin Payers(r)
    <3>1. u \in DOMAIN balances /\ balances'[u] = balances[u]
      BY <1>1, <2>1 DEF Overlay
    <3>2. EntriesFor(u)' = EntriesFor(u)
      BY <1>0, <2>1, CommitEntries
    <3>3. balances[u].amount = SumOf(EntriesFor(u))
      BY <3>1 DEF Summed, BalanceIsLedgerSum, EntriesFor
    <3> QED BY <3>1, <3>2, <3>3
  <2>2. CASE u \in Payers(r)
    <3> DEFINE E == EntriesFor(u)
               x == NewEntry(r, u)
    <3>1. EntriesFor(u)' = E \cup {x} /\ x \notin E
      BY <1>0, <2>2, CommitEntries
    <3>2. x.amount = Delta(r, u) /\ Delta(r, u) \in Int
      BY <1>0, <1>3, <2>2, EntryTypes DEF NewEntry
    <3>3. IsFiniteSet(E) /\ \A e \in E : e.amount \in Int
      BY <1>4
    <3>4. AmountSum(E \cup {x}) = Delta(r, u) + AmountSum(E) /\ AmountSum(E) \in Int
      <4> HIDE DEF E, x
      <4>1. \A e \in E \cup {x} : e.amount \in Int
        BY <3>2, <3>3
      <4> QED BY <3>1, <3>2, <3>3, <4>1, AmountsAdd, AmountsType
    <3>5. balances'[u] = Upserted(r, u)
      BY <1>0, <1>1, <2>2 DEF Overlay, WroteOf
    <3>6. CASE u \in DOMAIN balances
      <4>1. balances'[u].amount = balances[u].amount + Delta(r, u)
        BY <1>0, <3>5, <3>6 DEF Upserted, TablesTypeOK, BalanceRow
      <4>2. balances[u].amount = AmountSum(E)
        BY <3>6, SumIsAmountSum DEF Summed, BalanceIsLedgerSum, EntriesFor
      <4>3. balances'[u].amount = AmountSum(E \cup {x})
        <5> HIDE DEF E, x
        <5> QED BY <3>2, <3>4, <4>1, <4>2
      <4> QED BY <3>1, <4>3, SumIsAmountSum
    <3>7. CASE u \notin DOMAIN balances
      <4>1. balances'[u].amount = Delta(r, u)
        BY <3>5, <3>7 DEF Upserted
      <4>2. E = {}
        BY <3>7 DEF CheckedInv, EntryChecked, EntriesFor
      <4>3. balances'[u].amount = AmountSum(E \cup {x})
        <5> HIDE DEF E, x
        <5> QED BY <3>2, <3>4, <4>1, <4>2, AmountsEmpty
      <4> QED BY <3>1, <4>3, SumIsAmountSum
    <3> QED BY <3>6, <3>7
  <2> QED BY <2>1, <2>2
<1>6. \A e \in ledger' : e.user \in DOMAIN balances'
  <2>1. DOMAIN balances' = DOMAIN balances \cup Payers(r)
    BY <1>1 DEF Overlay
  <2>2. \A u \in Payers(r) : NewEntry(r, u).user = u
    BY DEF NewEntry
  <2> QED BY <1>0, <2>1, <2>2 DEF CommitEffect, CheckedInv, EntryChecked
<1> QED BY <1>2, <1>5, <1>6 DEF Summed, BalanceIsLedgerSum, EntriesFor, SumOf

LEMMA NextSummed == IInv /\ CheckedInv /\ Summed /\ [Next]_vars => Summed'
<1> SUFFICES ASSUME IInv, CheckedInv, Summed, [Next]_vars PROVE Summed'
  OBVIOUS
<1>1. ASSUME NEW r \in Requests, Commit(r) \/ CommitUnacknowledged(r) PROVE Summed'
  BY <1>1, CommitSummed DEF Commit, CommitUnacknowledged
<1>2. ASSUME UNCHANGED <<ledger, balances>> PROVE Summed'
  BY <1>2 DEF Summed, BalanceIsLedgerSum, SumOf
<1>3. ASSUME NEW r \in Requests, Begin(r) \/ Statement(r), ~Commit(r) PROVE UNCHANGED tables
  BY <1>3 DEF Begin, Statement, CheckCurrency, InsertHash, InsertCheck, LockReceipt, MarkRejected,
     LockGame, SelectBalances, LockBalance, CheckCurrencies, Book, MarkCharged, Rollback
<1>4. ASSUME NEW r \in Requests, Fail(r) \/ DeadlockAbort(r) PROVE UNCHANGED tables
  BY <1>4 DEF Fail, DeadlockAbort, Rollback
<1> QED BY <1>1, <1>2, <1>3, <1>4 DEF Next, CreateGame, vars, tables

\* applyBalanceDelta: no update of a balance is lost, however transactions interleave
\* and fail: the amount is the sum of the committed entries of the user.
THEOREM BalancesAddUp == Spec => []BalanceIsLedgerSum
<1>1. /\ Init => IInv /\ CheckedInv /\ Summed
      /\ IInv /\ CheckedInv /\ Summed /\ [Next]_vars => IInv' /\ CheckedInv' /\ Summed'
  BY InitInvariant, InitChecked, InitSummed, NextInvariant, NextChecked, NextSummed
<1>2. Summed => BalanceIsLedgerSum
  BY DEF Summed
<1> QED BY <1>1, <1>2, PTL DEF Spec

(***************************************************************************)
(* Atomicity.  A statement is a stutter of Ledger, a rollback one of its   *)
(* refusals, COMMIT its operation: the locks make what the transaction has *)
(* written, from rows read statements ago, what it would write at COMMIT.  *)
(***************************************************************************)
LEMMA SameTables ==
  ASSUME NEW r
  PROVE  /\ \A op : Abstract!Is(r, op) <=> Is(r, op)
         /\ Abstract!Payers(r) = Payers(r)
         /\ Abstract!CurrencyOf(r) = CurrencyOf(r)
         /\ Abstract!NewReceipt(r) = NewReceipt(r)
         /\ \A u : Abstract!NewEntry(r, u) = NewEntry(r, u) /\ Abstract!Upserted(r, u) = Upserted(r, u)
         /\ \A f, g : Abstract!Overlay(f, g) = Overlay(f, g)
         /\ \A h : Abstract!HashTaken(h) <=> HashTaken(h)
         /\ \A k : Abstract!CheckTaken(k) <=> CheckTaken(k)
<1>1. \A op : Abstract!Is(r, op) <=> Is(r, op)
  BY DEF Abstract!Is, Is
<1>2. Abstract!Payers(r) = Payers(r) /\ Abstract!CurrencyOf(r) = CurrencyOf(r)
  BY DEF Abstract!Is, Is, Abstract!Payers, Payers, Abstract!CurrencyOf, CurrencyOf
<1>3. \A u : Abstract!Delta(r, u) = Delta(r, u)
  BY DEF Abstract!Is, Is, Abstract!Delta, Delta
<1>4. Abstract!KindOf(r) = KindOf(r) /\ Abstract!RefOf(r) = RefOf(r)
  BY DEF Abstract!Is, Is, Abstract!KindOf, KindOf, Abstract!RefOf, RefOf, Abstract!ReceiptRef,
     ReceiptRef, Abstract!GameRef, GameRef, Abstract!NoRef, NoRef
<1>5. \A u : Abstract!NewEntry(r, u) = NewEntry(r, u) /\ Abstract!Upserted(r, u) = Upserted(r, u)
  BY <1>2, <1>3, <1>4 DEF Abstract!NewEntry, NewEntry, Abstract!Upserted, Upserted
<1>6. /\ Abstract!NewReceipt(r) = NewReceipt(r)
      /\ \A f, g : Abstract!Overlay(f, g) = Overlay(f, g)
      /\ \A h : Abstract!HashTaken(h) <=> HashTaken(h)
      /\ \A k : Abstract!CheckTaken(k) <=> CheckTaken(k)
  BY DEF Abstract!NewReceipt, NewReceipt, Abstract!Overlay, Overlay, Abstract!HashTaken, HashTaken,
     Abstract!CheckTaken, CheckTaken
<1> QED BY <1>1, <1>2, <1>5, <1>6

AbstractStep == [Abstract!Next]_Abstract!ledgerVars

LEMMA StutterMaps == ASSUME UNCHANGED <<tables, outcome>> PROVE AbstractStep
BY DEF AbstractStep, Abstract!ledgerVars, Abstract!tables, tables

LEMMA RefusalMaps ==
  ASSUME IInv, Tells, NEW r \in Requests, pc[r] # "done",
         NEW o \in Abstract!Refusal(r) \cup {"failed"}, Rollback(r, o)
  PROVE  AbstractStep
<1>1. outcome[r] = "none" /\ outcome' = [outcome EXCEPT ![r] = o] /\ UNCHANGED tables
  BY DEF Tells, OutcomeOf, Rollback, Finish
<1>2. Abstract!Refuse(r)
  BY <1>1 DEF Abstract!Refuse, Abstract!Answer, Abstract!tables, tables
<1> QED BY <1>2 DEF AbstractStep, Abstract!Next

LEMMA StatementMaps ==
  ASSUME IInv, Tells, CheckedInv, NEW r \in Requests, Statement(r) \/ Begin(r), ~Commit(r)
  PROVE  AbstractStep
<1>0. /\ TypeOK /\ AtOwnLabel(r) /\ SeenOf(r) /\ pc[r] # "done"
      /\ Arg[r].op \in {"credit", "reverse", "adjust", "charge"}
  BY ArgTypes DEF IInv, TxInv, CheckedInv, Statement, Begin, CheckCurrency, InsertHash,
     InsertCheck, LockReceipt, MarkRejected, LockGame, SelectBalances, LockBalance,
     CheckCurrencies, Book, MarkCharged, Commit
<1>1. ASSUME NEW o \in Abstract!Refusal(r), Rollback(r, o) PROVE AbstractStep
  BY <1>0, <1>1, RefusalMaps
<1>2. CASE CheckCurrency(r)
  <2>1. CASE UNCHANGED <<tables, outcome>>
    BY <2>1, StutterMaps
  <2>2. CASE ~UNCHANGED <<tables, outcome>>
    <3>1. /\ Rollback(r, "currency mismatch") /\ pc[r] = "checkCurrency"
          /\ Arg[r].user \in DOMAIN balances /\ balances[Arg[r].user].currency # Arg[r].currency
      BY <1>2, <2>2 DEF CheckCurrency
    <3>2. Is(r, "credit") \/ Is(r, "adjust")
      BY <1>0, <3>1 DEF AtOwnLabel, LabelsOf, Is
    <3>3. Payers(r) = {Arg[r].user} /\ CurrencyOf(r) = Arg[r].currency /\ ~Is(r, "reverse")
      BY <3>2 DEF Payers, CurrencyOf, Is
    <3>4. "currency mismatch" \in Abstract!Refusal(r)
      BY <3>1, <3>3, SameTables DEF Abstract!Refusal, Abstract!CurrencyFits
    <3> QED BY <1>1, <3>1, <3>4
  <2> QED BY <2>1, <2>2
<1>3. CASE InsertHash(r)
  <2>1. Is(r, "credit")
    BY <1>0, <1>3 DEF InsertHash, AtOwnLabel, LabelsOf, Is
  <2>2. HashTaken(Arg[r].hash) => "duplicate file" \in Abstract!Refusal(r)
    BY <2>1, SameTables DEF Abstract!Refusal
  <2> QED BY <1>1, <1>3, <2>2, StutterMaps DEF InsertHash
<1>4. CASE InsertCheck(r)
  <2>1. Is(r, "credit")
    BY <1>0, <1>4 DEF InsertCheck, AtOwnLabel, LabelsOf, Is
  <2>2. CheckTaken(Arg[r].check) => "duplicate check number" \in Abstract!Refusal(r)
    BY <2>1, SameTables DEF Abstract!Refusal
  <2> QED BY <1>1, <1>4, <2>2, StutterMaps DEF InsertCheck
<1>5. CASE LockReceipt(r)
  <2> DEFINE i == Arg[r].receipt
  <2>1. Is(r, "reverse")
    BY <1>0, <1>5 DEF LockReceipt, AtOwnLabel, LabelsOf, Is
  <2>2. i \notin DOMAIN receipts => "receipt not found" \in Abstract!Refusal(r)
    BY <2>1, SameTables DEF Abstract!Refusal
  <2>3. i \in DOMAIN receipts /\ receipts[i].status = "rejected"
          => "already reversed" \in Abstract!Refusal(r)
    BY <2>1, SameTables DEF Abstract!Refusal
  <2> QED BY <1>1, <1>5, <2>2, <2>3, StutterMaps DEF LockReceipt
<1>6. CASE LockGame(r)
  <2>1. Is(r, "charge")
    BY <1>0, <1>6 DEF LockGame, AtOwnLabel, LabelsOf, Is
  <2>2. Arg[r].game \notin games => "game not found" \in Abstract!Refusal(r)
    BY <2>1, SameTables DEF Abstract!Refusal
  <2>3. Arg[r].game \in charged => "already charged" \in Abstract!Refusal(r)
    BY <2>1, SameTables DEF Abstract!Refusal
  <2> QED BY <1>1, <1>6, <2>2, <2>3, StutterMaps DEF LockGame
<1>7. CASE CheckCurrencies(r)
  <2>1. CASE UNCHANGED <<tables, outcome>>
    BY <2>1, StutterMaps
  <2>2. CASE ~UNCHANGED <<tables, outcome>>
    <3>1. PICK u \in seen[r] : balances[u].currency # DefaultCurrency
      BY <1>7, <2>2 DEF CheckCurrencies
    <3>2. Rollback(r, "currency mismatch") /\ pc[r] = "lockBalances"
      BY <1>7, <2>2 DEF CheckCurrencies
    <3>3. Is(r, "charge") /\ u \in DOMAIN Arg[r].shares /\ u \in DOMAIN balances
      BY <1>0, <3>1, <3>2 DEF AtOwnLabel, LabelsOf, SeenOf, Is
    <3>4. u \in Payers(r) /\ CurrencyOf(r) = DefaultCurrency /\ ~Is(r, "reverse")
      BY <3>3 DEF Payers, CurrencyOf, Is
    <3>5. "currency mismatch" \in Abstract!Refusal(r)
      BY <3>1, <3>3, <3>4, SameTables DEF Abstract!Refusal, Abstract!CurrencyFits
    <3> QED BY <1>1, <3>2, <3>5
  <2> QED BY <2>1, <2>2
<1>8. CASE \/ MarkRejected(r) \/ SelectBalances(r) \/ LockBalance(r)
           \/ Book(r) \/ MarkCharged(r) \/ Begin(r)
  BY <1>8, StutterMaps DEF MarkRejected, SelectBalances, LockBalance, Book, MarkCharged, Begin
<1> QED BY <1>2, <1>3, <1>4, <1>5, <1>6, <1>7, <1>8 DEF Statement

LEMMA CommitMaps ==
  ASSUME IInv, Tells, CheckedInv, NEW r \in Requests, pc[r] = "commit", Install(r),
         NEW o \in {"ok", "failed"}, Finish(r, o)
  PROVE  AbstractStep
<1>0. CommitEffect(r) /\ TypeOK /\ TablesTypeOK /\ TxInv(r) /\ WroteOf(r)
  BY CommitTables DEF IInv, TypeOK, CheckedInv
<1>1. Abstract!Answer(r, {"ok", "failed"})
  BY DEF Abstract!Answer, Tells, OutcomeOf, Finish
<1>2. Abstract!BookAll(r)
  <2>1. Payers(r) = DOMAIN writes[r].balances
    BY <1>0 DEF TxInv, BookInv
  <2>2. balances' = Overlay([u \in Payers(r) |-> Upserted(r, u)], balances)
    BY <1>0, <2>1 DEF Install, Overlay, WroteOf
  <2>3. ledger' = ledger \cup {NewEntry(r, u) : u \in Payers(r)}
    BY <1>0 DEF CommitEffect
  <2> QED BY <2>2, <2>3, SameTables DEF Abstract!BookAll
<1>3. UNCHANGED games /\ receipts' = Overlay(writes[r].receipts, receipts)
  BY DEF Install
<1>4. CASE Is(r, "credit")
  <2>1. /\ ~HashTaken(Arg[r].hash) /\ ~CheckTaken(Arg[r].check)
        /\ writes[r].receipts = [i \in {r} |-> NewReceipt(r)]
    BY <1>0, <1>4 DEF TxInv, CreditInv, HoldsHash, WroteReceipt
  <2>2. UNCHANGED charged
    BY <1>0, <1>4 DEF CommitEffect, Is
  <2>3. Abstract!Credit(r)
    BY <1>1, <1>2, <1>3, <1>4, <2>1, <2>2, SameTables DEF Abstract!Credit
  <2> QED BY <2>3 DEF AbstractStep, Abstract!Next
<1>5. CASE Is(r, "reverse")
  <2> DEFINE i == Arg[r].receipt
  <2>1. /\ i \in DOMAIN receipts /\ receipts[i].status = "credited"
        /\ writes[r].receipts = [j \in {i} |-> [receipts[i] EXCEPT !.status = "rejected"]]
    BY <1>0, <1>5 DEF TxInv, ReverseInv, HoldsReceipt, WroteReceipt
  <2>2. receipts' = [receipts EXCEPT ![i].status = "rejected"]
    BY <1>0, <1>3, <2>1 DEF Overlay, TablesTypeOK
  <2>3. UNCHANGED charged
    BY <1>0, <1>5 DEF CommitEffect, Is
  <2>4. Abstract!Reverse(r)
    BY <1>1, <1>2, <1>3, <1>5, <2>1, <2>2, <2>3, SameTables DEF Abstract!Reverse
  <2> QED BY <2>4 DEF AbstractStep, Abstract!Next
<1>6. CASE ~Is(r, "credit") /\ ~Is(r, "reverse")
  <2>1. UNCHANGED receipts
    <3>1. writes[r].receipts = [i \in {} |-> {}]
      BY <1>0, <1>6 DEF TxInv, BookInv, WroteReceipt
    <3> QED BY <1>0, <1>3, <3>1 DEF Overlay, TablesTypeOK
  <2>2. CASE Is(r, "charge")
    <3>1. Arg[r].game \in games \ charged /\ charged' = charged \cup {Arg[r].game}
      BY <1>0, <2>2 DEF TxInv, ChargeInv, HoldsGame, CommitEffect
    <3>2. Abstract!Charge(r)
      BY <1>1, <1>2, <1>3, <2>1, <2>2, <3>1, SameTables DEF Abstract!Charge
    <3> QED BY <3>2 DEF AbstractStep, Abstract!Next
  <2>3. CASE ~Is(r, "charge")
    <3>1. Is(r, "adjust") /\ UNCHANGED charged
      BY <1>0, <1>6, <2>3, ArgTypes DEF CommitEffect, Is
    <3>2. Abstract!Adjust(r)
      BY <1>1, <1>2, <1>3, <2>1, <3>1, SameTables DEF Abstract!Adjust
    <3> QED BY <3>2 DEF AbstractStep, Abstract!Next
  <2> QED BY <2>2, <2>3
<1> QED BY <1>4, <1>5, <1>6

LEMMA NextMaps == IInv /\ Tells /\ CheckedInv /\ [Next]_vars => AbstractStep
<1> SUFFICES ASSUME IInv, Tells, CheckedInv, [Next]_vars PROVE AbstractStep
  OBVIOUS
<1>1. ASSUME NEW r \in Requests, Commit(r) \/ CommitUnacknowledged(r) PROVE AbstractStep
  BY <1>1, CommitMaps DEF Commit, CommitUnacknowledged
<1>2. ASSUME NEW r \in Requests, Begin(r) \/ Statement(r), ~Commit(r) PROVE AbstractStep
  BY <1>2, StatementMaps
<1>3. ASSUME NEW r \in Requests, Fail(r) \/ DeadlockAbort(r) PROVE AbstractStep
  BY <1>3, RefusalMaps DEF Fail, DeadlockAbort, InFlight
<1>4. ASSUME NEW g \in Games, CreateGame(g) PROVE AbstractStep
  BY <1>4 DEF CreateGame, AbstractStep, Abstract!Next, Abstract!CreateGame
<1>5. CASE UNCHANGED vars
  BY <1>5, StutterMaps DEF vars
<1> QED BY <1>1, <1>2, <1>3, <1>4, <1>5 DEF Next

LEMMA InitMaps == Init => Abstract!Init
BY DEF Init, Abstract!Init, TablesInit, Abstract!TablesInit

\* balance_repo keeps the promise of Ledger: every transaction takes effect at one
\* moment, in full or not at all, and its answer is true of the tables at one moment.
THEOREM TransactionsAreAtomic == Spec => ImplementsLedger
<1>1. IInv /\ Tells /\ CheckedInv /\ [Next]_vars => IInv' /\ Tells' /\ CheckedInv'
  BY NextInvariant, NextTells, NextChecked
<1>2. IInv /\ Tells /\ CheckedInv /\ [Next]_vars => [Abstract!Next]_Abstract!ledgerVars
  BY NextMaps DEF AbstractStep
<1> QED
  BY <1>1, <1>2, InitInvariant, InitTells, InitChecked, InitMaps, PTL
     DEF Spec, ImplementsLedger, Abstract!Spec
=============================================================================
