-------------------------- MODULE GameChargeProofs --------------------------
(***************************************************************************)
(* The split of a price is fair and without loss, and every game is billed *)
(* by such a split of a price in force meanwhile, whatever the prices, the *)
(* users and the interleaving of the requests.                             *)
(* The invariant says that a request past ReadPrice has ids and a price    *)
(* fit to be split, and that they do not change once it has billed a game. *)
(***************************************************************************)
EXTENDS GameCharge, SumProofs, FiniteSetTheorems, TLAPS

\* Everybody pays the base share or one more.
LEMMA ShareValue ==
  ASSUME NEW ids, NEW p \in Nat, NEW i \in ids
  PROVE  \/ Shares(ids, p)[i] = p \div Cardinality(ids) + 1
            /\ Index(ids, i) < p % Cardinality(ids)
         \/ Shares(ids, p)[i] = p \div Cardinality(ids) + 0
            /\ ~(Index(ids, i) < p % Cardinality(ids))
BY DEF Shares

\* A smaller id has a smaller index.
LEMMA IndexMonotone ==
  ASSUME NEW ids, ids \subseteq Int, IsFiniteSet(ids),
         NEW i \in ids, NEW j \in ids, i < j
  PROVE  Index(ids, i) \in Nat /\ Index(ids, j) \in Nat /\ Index(ids, i) <= Index(ids, j)
<1> DEFINE below(k) == {x \in ids : x < k}
<1>1. below(i) \subseteq below(j) /\ below(j) \subseteq ids
  <2>1. \A x \in ids : x \in Int /\ (x < i => x < j)
    OBVIOUS
  <2> QED BY <2>1
<1>2. IsFiniteSet(below(i)) /\ IsFiniteSet(below(j))
  BY <1>1, FS_Subset
<1>3. Cardinality(below(i)) \in Nat /\ Cardinality(below(j)) \in Nat
  BY <1>2, FS_CardinalityType
<1>4. Cardinality(below(i)) <= Cardinality(below(j))
  BY <1>1, <1>2, FS_Subset
<1> QED BY <1>3, <1>4 DEF Index

\* A price that gives every id at least one unit has a base share of at least one.
LEMMA BasePositive ==
  ASSUME NEW n \in Nat \ {0}, NEW p \in Nat, n <= p
  PROVE  p \div n \in Nat /\ p \div n >= 1
<1>1. p = n * (p \div n) + (p % n) /\ p % n \in 0..(n - 1) /\ p \div n \in Int
  OBVIOUS
<1>2. CASE p \div n <= 0
  <2>1. n * (p \div n) <= 0
    BY <1>1, <1>2
  <2> QED BY <1>1, <2>1
<1>3. CASE p \div n >= 1
  BY <1>1, <1>3
<1> QED BY <1>1, <1>2, <1>3

\* The split of BalanceService.ChargeGame gives everybody at least one minor
\* unit, nobody more than one unit more than another, and a smaller id never less.
THEOREM SplitIsFair ==
  ASSUME NEW ids, ids \subseteq Int, IsFiniteSet(ids), ids # {},
         NEW p \in Nat, Cardinality(ids) <= p
  PROVE  /\ DOMAIN Shares(ids, p) = ids
         /\ \A i \in ids : Shares(ids, p)[i] >= 1
         /\ \A i, j \in ids : i < j => Shares(ids, p)[i] - Shares(ids, p)[j] \in {0, 1}
<1>1. Cardinality(ids) \in Nat \ {0}
  BY FS_CardinalityType, FS_EmptySet
<1>2. p \div Cardinality(ids) \in Nat /\ p \div Cardinality(ids) >= 1
  BY <1>1, BasePositive
<1>3. DOMAIN Shares(ids, p) = ids
  BY DEF Shares
<1>4. \A i \in ids : Shares(ids, p)[i] >= 1
  BY <1>2, ShareValue
<1>5. ASSUME NEW i \in ids, NEW j \in ids, i < j
      PROVE  Shares(ids, p)[i] - Shares(ids, p)[j] \in {0, 1}
  <2>1. Index(ids, i) \in Nat /\ Index(ids, j) \in Nat /\ Index(ids, i) <= Index(ids, j)
    BY <1>5, IndexMonotone
  <2>2. p % Cardinality(ids) \in Int
    BY <1>1
  <2>3. Index(ids, j) < p % Cardinality(ids) => Index(ids, i) < p % Cardinality(ids)
    BY <2>1, <2>2
  <2> HIDE DEF Shares, Index
  <2> QED BY <1>2, <2>3, ShareValue
<1> QED BY <1>3, <1>4, <1>5

(***************************************************************************)
(* The sum of a split, by taking out the largest id: the last to get one   *)
(* unit of the remainder.                                                  *)
(***************************************************************************)
LEMMA LargestId ==
  ASSUME NEW ids, ids \subseteq Int, IsFiniteSet(ids), ids # {}
  PROVE  \E x \in ids : \A y \in ids : y <= x
<1> DEFINE HasLargest(s) == \E x \in s : \A y \in s : y <= x
           C == {s \in SUBSET ids : s # {} /\ ~HasLargest(s)}
<1>1. SUFFICES ASSUME C # {} PROVE FALSE
  OBVIOUS
<1>2. \A s \in C : IsFiniteSet(s)
  BY FS_Subset
<1>3. PICK s \in C : \A t \in C : Cardinality(s) <= Cardinality(t)
  BY <1>1, <1>2, SmallestSet
<1>4. PICK x \in s : TRUE
  OBVIOUS
<1> DEFINE t == s \ {x}
<1>5. t \notin C
  <2>1. /\ Cardinality(t) \in Nat /\ Cardinality(s) \in Nat
        /\ Cardinality(t) = Cardinality(s) - 1
    BY <1>2, <1>4, Smaller
  <2> HIDE DEF C, t
  <2> QED BY <1>3, <2>1
<1>6. CASE t = {}
  <2>1. \A y \in s : y <= x
    BY <1>4, <1>6
  <2> QED BY <1>4, <2>1
<1>7. CASE t # {}
  <2>1. PICK z \in t : \A y \in t : y <= z
    BY <1>5, <1>7
  <2>2. x \in Int /\ z \in Int
    BY <1>4
  <2>3. CASE x <= z
    BY <2>1, <2>3
  <2>4. CASE z <= x
    <3>1. \A y \in s : y <= x
      BY <2>1, <2>2, <2>4
    <3> QED BY <1>4, <3>1
  <2> QED BY <2>2, <2>3, <2>4
<1> QED BY <1>6, <1>7

\* What each of ids pays when the first m of them pay one more than q.
Split(ids, q, m) == [i \in ids |-> q + IF Index(ids, i) < m THEN 1 ELSE 0]

SplitTotal(ids, q, m) == SumFunctionOnSet(Split(ids, q, m), ids)

\* Without the largest id the indices stay, and it has the last one.
LEMMA IndexWithoutLargest ==
  ASSUME NEW s, s \subseteq Int, IsFiniteSet(s), NEW x \in s, \A y \in s : y <= x
  PROVE  /\ Index(s, x) = Cardinality(s \ {x})
         /\ \A i \in s \ {x} : /\ Index(s, i) = Index(s \ {x}, i)
                               /\ Index(s, i) \in Nat
                               /\ Index(s, i) < Cardinality(s \ {x})
<1> DEFINE t == s \ {x}
<1>0. IsFiniteSet(t) /\ Cardinality(t) \in Nat
  BY FS_Subset, FS_CardinalityType
<1>1. {j \in s : j < x} = t
  <2>1. \A j \in s : j \in Int /\ x \in Int /\ (j < x <=> j # x)
    OBVIOUS
  <2> QED BY <2>1
<1>2. ASSUME NEW i \in t
      PROVE  /\ {j \in s : j < i} = {j \in t : j < i}
             /\ IsFiniteSet({j \in t : j < i})
             /\ Cardinality({j \in t : j < i}) \in Nat
             /\ Cardinality({j \in t : j < i}) < Cardinality(t)
  <2> DEFINE b == {j \in t : j < i}
  <2>1. {j \in s : j < i} = b
    <3>1. ~(x < i)
      OBVIOUS
    <3> QED BY <3>1
  <2>2. b \subseteq t /\ b # t
    OBVIOUS
  <2> HIDE DEF b
  <2>3. IsFiniteSet(b) /\ Cardinality(b) \in Nat /\ Cardinality(b) <= Cardinality(t)
        /\ Cardinality(b) # Cardinality(t)
    BY <1>0, <2>2, FS_Subset, FS_CardinalityType
  <2>4. Cardinality(b) < Cardinality(t)
    BY <1>0, <2>3
  <2> QED BY <2>1, <2>3, <2>4 DEF b
<1> QED BY <1>1, <1>2 DEF Index

LEMMA SplitAddsUp ==
  ASSUME NEW ids, ids \subseteq Int, IsFiniteSet(ids), NEW q \in Int,
         NEW m \in 0..Cardinality(ids)
  PROVE  SplitTotal(ids, q, m) = Cardinality(ids) * q + m
<1> DEFINE AddsUp(s) == \A k \in 0..Cardinality(s) : SplitTotal(s, q, k) = Cardinality(s) * q + k
           C == {s \in SUBSET ids : ~AddsUp(s)}
<1>1. SUFFICES ASSUME C # {} PROVE FALSE
  OBVIOUS
<1>2. \A s \in SUBSET ids : IsFiniteSet(s) /\ Cardinality(s) \in Nat
  BY FS_Subset, FS_CardinalityType
<1>3. PICK s \in C : \A t \in C : Cardinality(s) <= Cardinality(t)
  BY <1>1, <1>2, SmallestSet
<1>4. s # {}
  <2>1. Cardinality({}) = 0 /\ \A k : SplitTotal({}, q, k) = 0
    BY FS_EmptySet, SumEmpty DEF SplitTotal
  <2>2. {} \notin C
    BY <2>1
  <2> QED BY <1>3, <2>2
<1>5. PICK x \in s : \A y \in s : y <= x
  BY <1>2, <1>4, LargestId
<1> DEFINE t == s \ {x}
<1>6. IsFiniteSet(s) /\ Cardinality(t) \in Nat /\ Cardinality(s) = Cardinality(t) + 1 /\ IsFiniteSet(t)
  <2>1. Cardinality(t) \in Nat /\ Cardinality(s) \in Nat /\ Cardinality(t) = Cardinality(s) - 1
    BY <1>2, <1>5, Smaller
  <2> QED BY <1>2, <2>1
<1>7. AddsUp(t)
  <2>1. t \notin C
    BY <1>3, <1>6
  <2> QED BY <2>1
<1>8. /\ Index(s, x) = Cardinality(t)
      /\ \A i \in t : Index(s, i) = Index(t, i) /\ Index(s, i) \in Nat /\ Index(s, i) < Cardinality(t)
  BY <1>2, <1>5, IndexWithoutLargest
<1>9. ASSUME NEW k \in 0..Cardinality(s) PROVE SplitTotal(s, q, k) = Cardinality(s) * q + k
  <2> DEFINE f == Split(s, q, k)
             l == IF k <= Cardinality(t) THEN k ELSE Cardinality(t)
             g == Split(t, q, l)
  <2>1. k \in Nat /\ k <= Cardinality(t) + 1
    BY <1>6
  <2>2. ASSUME NEW i \in t PROVE f[i] = g[i]
    <3>1. Index(s, i) < k <=> Index(t, i) < l
      BY <1>6, <1>8, <2>1
    <3>2. /\ f[i] = q + IF Index(s, i) < k THEN 1 ELSE 0
          /\ g[i] = q + IF Index(t, i) < l THEN 1 ELSE 0
      BY DEF Split
    <3> HIDE DEF f, g, l
    <3> QED BY <3>1, <3>2
  <2>3. \A i \in s : f[i] \in Int
    BY DEF Split
  <2>4. f[x] = q + (k - l)
    BY <1>6, <1>8, <2>1 DEF Split
  <2>5. SumFunctionOnSet(f, s) = f[x] + SumFunctionOnSet(f, t)
    <3> HIDE DEF f
    <3> QED BY <1>5, <1>6, <2>3, SumRemove
  <2>6. SumFunctionOnSet(f, t) = SumFunctionOnSet(g, t)
    <3> HIDE DEF f, g
    <3> QED BY <1>6, <2>2, SumSame
  <2>7. SumFunctionOnSet(g, t) = Cardinality(t) * q + l
    <3>1. l \in 0..Cardinality(t)
      BY <1>6, <2>1
    <3> HIDE DEF l
    <3> QED BY <1>7, <3>1 DEF SplitTotal
  <2>8. PICK c \in Nat : c = Cardinality(t)
    BY <1>6
  <2>9. (c + 1) * q = c * q + q /\ c * q \in Int
    OBVIOUS
  <2>10. SplitTotal(s, q, k) = (q + (k - l)) + (c * q + l)
    BY <2>4, <2>5, <2>6, <2>7, <2>8 DEF SplitTotal
  <2>11. l \in Int /\ k \in Int
    BY <1>6, <2>1
  <2> HIDE DEF l
  <2> QED BY <1>6, <2>8, <2>9, <2>10, <2>11
<1> QED BY <1>3, <1>9

\* BalanceService.ChargeGame splits without loss: the shares add up to the price.
THEOREM SplitLosesNothing ==
  ASSUME NEW ids, ids \subseteq Int, IsFiniteSet(ids), ids # {}, NEW p \in Nat
  PROVE  SumFunction(Shares(ids, p)) = p
<1> DEFINE n == Cardinality(ids)
           q == p \div n
           m == p % n
<1>1. n \in Nat \ {0}
  BY FS_CardinalityType, FS_EmptySet
<1>2. p = n * q + m /\ m \in 0..(n - 1) /\ q \in Int
  <2> HIDE DEF n
  <2> QED BY <1>1
<1>3. Shares(ids, p) = Split(ids, q, m)
  BY DEF Shares, Split
<1>4. DOMAIN Split(ids, q, m) = ids
  BY DEF Split
<1>5. SumFunctionOnSet(Split(ids, q, m), ids) = n * q + m
  <2>1. m \in 0..Cardinality(ids) /\ q \in Int
    BY <1>1, <1>2
  <2> HIDE DEF m, q
  <2> QED BY <2>1, SplitAddsUp DEF SplitTotal
<1> QED BY <1>2, <1>3, <1>4, <1>5 DEF SumFunction

(***************************************************************************)
(* The requests.                                                           *)
(***************************************************************************)
Types ==
  /\ price \subseteq Prices
  /\ step \in [Requests -> {"idle", "answered", "lost"} \cup Running]
  /\ asked \in [Requests -> [game : GameIDs \cup {0}, ids : SUBSET UserIDs]]
  /\ read \in [Requests -> Prices \cup {0}]

\* The request has read a price that gives everybody it names at least one unit.
Splittable(r) ==
  /\ asked[r].ids # {}
  /\ read[r] \in Prices
  /\ ~(read[r] < Cardinality(asked[r].ids))

Checked ==
  \A r \in Requests :
    /\ step[r] = "readPrice" => asked[r].ids # {}
    /\ step[r] \in {"findMissing", "charge"} => Splittable(r)

Billed ==
  \A g \in DOMAIN bills :
    LET r == bills[g].by
    IN  /\ r \in Requests /\ step[r] = "answered" /\ Splittable(r)
        /\ bills[g].shares = Shares(asked[r].ids, read[r])

Inductive == Types /\ Checked /\ Billed

LEMMA InitInductive == Init => Inductive
BY DEF Init, Inductive, Types, Checked, Billed, Running

\* A step of one request that bills nothing and whose end is as it must be.
LEMMA RequestStep ==
  ASSUME Inductive, NEW r \in Requests, step[r] # "answered",
         Types', UNCHANGED bills,
         \A s \in Requests \ {r} : step'[s] = step[s] /\ asked'[s] = asked[s] /\ read'[s] = read[s],
         step'[r] = "readPrice" => asked'[r].ids # {},
         step'[r] \in {"findMissing", "charge"} => Splittable(r)'
  PROVE  Inductive'
<1>1. Checked'
  BY DEF Inductive, Checked, Splittable
<1>2. Billed'
  BY DEF Inductive, Billed, Splittable
<1> QED BY <1>1, <1>2 DEF Inductive

\* A step of the environment, and of a request that only stops.
LEMMA QuietStep ==
  ASSUME Inductive, price' \subseteq Prices,
         step' \in [Requests -> {"idle", "answered", "lost"} \cup Running],
         \A r \in Requests : step'[r] \in {step[r], "lost"} /\ (step[r] = "answered" => step'[r] = step[r]),
         UNCHANGED <<bills, asked, read>>
  PROVE  Inductive'
BY DEF Inductive, Types, Checked, Billed, Splittable

LEMMA NextInductive == Inductive /\ [Next]_vars => Inductive'
<1> SUFFICES ASSUME Inductive, [Next]_vars PROVE Inductive'
  OBVIOUS
<1>t. Types /\ Checked /\ Billed
  BY DEF Inductive
<1>1. ASSUME NEW r \in Requests, Receive(r) PROVE Inductive'
  <2>1. PICK g \in GameIDs, ids \in SUBSET UserIDs :
          /\ asked' = [asked EXCEPT ![r] = [game |-> g, ids |-> ids]]
          /\ IF Valid(g, ids) THEN Goto(r, "readPrice") ELSE Respond(r, 400)
    BY <1>1 DEF Receive
  <2>2. /\ step[r] = "idle" /\ UNCHANGED <<price, bills, read>>
        /\ \/ step' = [step EXCEPT ![r] = "readPrice"] /\ ids # {}
           \/ step' = [step EXCEPT ![r] = "answered"]
    BY <1>1, <2>1 DEF Receive, env, Goto, Respond, Valid
  <2>3. Types'
    BY <2>1, <2>2, <1>t DEF Types, Running
  <2> QED BY <2>1, <2>2, <2>3, <1>t, RequestStep DEF Types
<1>2. ASSUME NEW r \in Requests, ReadPrice(r) PROVE Inductive'
  <2>1. step[r] = "readPrice" /\ UNCHANGED <<price, bills, asked>>
    BY <1>2 DEF ReadPrice, env
  <2>2. \/ \E p \in price :
             /\ read' = [read EXCEPT ![r] = p]
             /\ \/ step' = [step EXCEPT ![r] = "answered"]
                \/ ~(p < Cardinality(asked[r].ids)) /\ step' = [step EXCEPT ![r] = "findMissing"]
        \/ step' = [step EXCEPT ![r] = "answered"] /\ UNCHANGED read
    BY <1>2 DEF ReadPrice, Goto, Respond
  <2>3. Types'
    BY <2>1, <2>2, <1>t DEF Types, Running
  <2>4. asked[r].ids # {}
    BY <2>1, <1>t DEF Checked
  <2>5. step'[r] \in {"findMissing", "charge"} => Splittable(r)'
    BY <2>1, <2>2, <2>4, <1>t DEF Types, Splittable
  <2>6. \A s \in Requests \ {r} : step'[s] = step[s] /\ read'[s] = read[s]
    BY <2>2, <1>t DEF Types
  <2> QED BY <2>1, <2>3, <2>4, <2>5, <2>6, RequestStep
<1>3. ASSUME NEW r \in Requests, FindMissing(r) PROVE Inductive'
  <2>1. /\ step[r] = "findMissing" /\ UNCHANGED <<price, bills, asked, read>>
        /\ \E label \in {"answered", "charge"} : step' = [step EXCEPT ![r] = label]
    BY <1>3 DEF FindMissing, env, Goto, Respond
  <2>2. Types'
    BY <2>1, <1>t DEF Types, Running
  <2>3. Splittable(r)'
    BY <2>1, <1>t DEF Checked, Splittable
  <2> QED BY <2>1, <2>2, <2>3, <1>t, RequestStep DEF Types
<1>4. ASSUME NEW r \in Requests, ChargeGame(r) PROVE Inductive'
  <2>1. /\ step[r] = "charge" /\ UNCHANGED <<price, asked, read>>
        /\ step' = [step EXCEPT ![r] = "answered"]
        /\ bills' = bills \/ Bill(r, asked[r].game)
    BY <1>4 DEF ChargeGame, env, Respond
  <2>2. Types'
    BY <2>1, <1>t DEF Types
  <2>3. CASE bills' = bills
    BY <2>1, <2>2, <2>3, <1>t, RequestStep DEF Types
  <2>4. CASE Bill(r, asked[r].game)
    <3>1. Splittable(r)
      BY <2>1, <1>t DEF Checked
    <3>2. Checked'
      BY <2>1, <1>t DEF Types, Checked, Splittable
    <3>3. ASSUME NEW h \in DOMAIN bills'
          PROVE  /\ bills'[h].by \in Requests /\ step'[bills'[h].by] = "answered"
                 /\ Splittable(bills'[h].by)
                 /\ bills'[h].shares = Shares(asked[bills'[h].by].ids, read[bills'[h].by])
      <4>1. CASE h = asked[r].game
        BY <2>1, <2>4, <3>1, <4>1, <1>t DEF Bill, Types
      <4>2. CASE h # asked[r].game
        <5>1. h \in DOMAIN bills /\ bills'[h] = bills[h]
          BY <2>4, <4>2 DEF Bill
        <5> QED BY <5>1, <2>1, <1>t DEF Billed, Types
      <4> QED BY <4>1, <4>2
    <3>4. Billed'
      BY <2>1, <3>3 DEF Billed, Splittable
    <3> QED BY <2>2, <3>2, <3>4 DEF Inductive
  <2> QED BY <2>1, <2>3, <2>4
<1>5. ASSUME NEW r \in Requests, Abandon(r) PROVE Inductive'
  BY <1>5, <1>t, QuietStep DEF Abandon, env, Types, Running
<1>6. ASSUME NEW g \in Games, CreateGame(g) PROVE Inductive'
  BY <1>6, <1>t, QuietStep DEF CreateGame, Types
<1>7. ASSUME NEW p \in Prices, SetPrice(p) PROVE Inductive'
  BY <1>7, <1>t, QuietStep DEF SetPrice, Types
<1>8. ASSUME NEW u \in users, DeleteUser(u) PROVE Inductive'
  BY <1>8, <1>t, QuietStep DEF DeleteUser, Types
<1>9. CASE UNCHANGED vars
  BY <1>9, <1>t, QuietStep DEF vars, env, Types
<1> QED BY <1>1, <1>2, <1>3, <1>4, <1>5, <1>6, <1>7, <1>8, <1>9 DEF Next

\* The inductive invariant of the charge requests.
THEOREM InductiveHolds == Spec => []Inductive
<1>1. Init => Inductive BY InitInductive
<1>2. Inductive /\ [Next]_vars => Inductive' BY NextInductive
<1> QED BY <1>1, <1>2, PTL DEF Spec

\* Every charge books a share of at least one minor unit for everybody the
\* request named, and the shares differ by one at most, smaller ids paying more.
THEOREM BillsAreFair == Spec => []BillFair
<1>1. ASSUME Inductive PROVE BillFair
  <2> SUFFICES ASSUME NEW g \in DOMAIN bills
      PROVE LET share == bills[g].shares
            IN  /\ DOMAIN share = asked[bills[g].by].ids
                /\ \A i \in DOMAIN share : share[i] >= 1
                /\ \A i, j \in DOMAIN share : i < j => share[i] - share[j] \in {0, 1}
    BY DEF BillFair
  <2> DEFINE r == bills[g].by
             ids == asked[r].ids
  <2>1. /\ r \in Requests /\ bills[g].shares = Shares(ids, read[r])
        /\ ids # {} /\ read[r] \in Prices /\ ~(read[r] < Cardinality(ids))
    BY <1>1 DEF Inductive, Billed, Splittable
  <2>2. ids \subseteq UserIDs
    BY <1>1, <2>1 DEF Inductive, Types
  <2>3. ids \subseteq Int /\ IsFiniteSet(ids)
    BY <2>2, UsersAssumption, FiniteAssumption, FS_Subset
  <2>4. read[r] \in Nat /\ Cardinality(ids) <= read[r]
    <3>1. read[r] \in Nat /\ Cardinality(ids) \in Nat
      BY <2>1, <2>3, PricesAssumption, FS_CardinalityType
    <3> QED BY <2>1, <3>1
  <2>5. /\ DOMAIN bills[g].shares = ids
        /\ \A i \in ids : bills[g].shares[i] >= 1
        /\ \A i, j \in ids : i < j => bills[g].shares[i] - bills[g].shares[j] \in {0, 1}
    <3> HIDE DEF ids, r
    <3> QED BY <2>1, <2>3, <2>4, SplitIsFair
  <2> QED BY <2>5
<1> QED BY <1>1, InductiveHolds, PTL

(***************************************************************************)
(* What the administrator is told.  A price in force at any moment of a    *)
(* request stays among those it met, and a bill names a request that was   *)
(* answered with 200 or, when the commit was not acknowledged, with 500.   *)
(***************************************************************************)
ToldOf(r) ==
  /\ step[r] # "answered" => response[r] = 0
  /\ step[r] \in Running => price \subseteq inForce[r]
  /\ response[r] \in {200, 409} => asked[r].game \in DOMAIN bills
  /\ response[r] = 200 => bills[asked[r].game].by = r
  /\ response[r] = 400 /\ Valid(asked[r].game, asked[r].ids) =>
       \E p \in inForce[r] : p < Cardinality(asked[r].ids)

BillTold(h) == h = asked[bills[h].by].game /\ response[bills[h].by] \in {200, 500}

Told ==
  /\ response \in [Requests -> Int] /\ inForce \in [Requests -> SUBSET Prices]
  /\ \A h \in DOMAIN bills : BillTold(h)
  /\ \A r \in Requests : ToldOf(r)

LEMMA InitTold == Init => Told
BY DEF Init, Told, ToldOf, BillTold, Running

\* A step of one request that bills nothing.
LEMMA ToldStep ==
  ASSUME Inductive, Told, NEW r \in Requests, step[r] # "answered",
         UNCHANGED <<price, bills>>, ToldOf(r)',
         response' \in [Requests -> Int], inForce' \in [Requests -> SUBSET Prices],
         \A s \in Requests \ {r} : /\ step'[s] = step[s] /\ asked'[s] = asked[s]
                                   /\ response'[s] = response[s] /\ inForce'[s] = inForce[s]
  PROVE  Told'
<1>1. ASSUME NEW s \in Requests \ {r} PROVE ToldOf(s)'
  <2>1. ToldOf(s)
    BY DEF Told
  <2> QED BY <2>1 DEF ToldOf
<1>2. ASSUME NEW h \in DOMAIN bills PROVE BillTold(h)'
  <2>1. BillTold(h) /\ bills[h].by \in Requests \ {r}
    BY DEF Told, Inductive, Billed
  <2> QED BY <2>1 DEF BillTold
<1> QED BY <1>1, <1>2 DEF Told

\* A step of the environment, and of a request that only stops.
LEMMA ToldQuiet ==
  ASSUME Told, UNCHANGED <<bills, asked, response>>,
         \A r \in Requests : /\ step'[r] \in {step[r], "lost"} /\ (step[r] = "answered" => step'[r] = step[r])
                             /\ inForce[r] \subseteq inForce'[r]
                             /\ step'[r] \in Running => price' \subseteq inForce'[r],
         inForce' \in [Requests -> SUBSET Prices]
  PROVE  Told'
<1>1. ASSUME NEW r \in Requests PROVE ToldOf(r)'
  <2>1. ToldOf(r)
    BY DEF Told
  <2> QED BY <2>1 DEF ToldOf
<1>2. \A h \in DOMAIN bills : BillTold(h)'
  BY DEF Told, BillTold
<1> QED BY <1>1, <1>2 DEF Told

LEMMA NextTold == Inductive /\ Told /\ [Next]_vars => Told'
<1> SUFFICES ASSUME Inductive, Told, [Next]_vars PROVE Told'
  OBVIOUS
<1>t. /\ Types /\ response \in [Requests -> Int] /\ inForce \in [Requests -> SUBSET Prices]
      /\ \A r \in Requests : ToldOf(r)
  BY DEF Inductive, Told
<1>1. ASSUME NEW r \in Requests, Receive(r) PROVE Told'
  <2>1. PICK g \in GameIDs, ids \in SUBSET UserIDs :
          /\ asked' = [asked EXCEPT ![r] = [game |-> g, ids |-> ids]]
          /\ IF Valid(g, ids) THEN Goto(r, "readPrice") ELSE Respond(r, 400)
    BY <1>1 DEF Receive
  <2>2. /\ step[r] = "idle" /\ UNCHANGED <<price, bills>>
        /\ inForce' = [inForce EXCEPT ![r] = price]
    BY <1>1 DEF Receive, env
  <2>3. asked'[r].game = g /\ asked'[r].ids = ids /\ inForce'[r] = price /\ response[r] = 0
    BY <2>1, <2>2, <1>t DEF Types, ToldOf
  <2>4. CASE Valid(g, ids)
    <3>1. step' = [step EXCEPT ![r] = "readPrice"] /\ response' = response
      BY <2>1, <2>4 DEF Goto
    <3>2. ToldOf(r)'
      BY <3>1, <2>2, <2>3, <1>t DEF ToldOf
    <3> QED BY <3>1, <3>2, <2>1, <2>2, <1>t, ToldStep DEF Types
  <2>5. CASE ~Valid(g, ids)
    <3>1. step' = [step EXCEPT ![r] = "answered"] /\ response' = [response EXCEPT ![r] = 400]
      BY <2>1, <2>5 DEF Respond
    <3>2. step'[r] = "answered" /\ response'[r] = 400
      BY <3>1, <1>t DEF Types
    <3>3. ToldOf(r)'
      BY <3>2, <2>3, <2>5 DEF ToldOf, Running
    <3> QED BY <3>1, <3>3, <2>1, <2>2, <1>t, ToldStep DEF Types
  <2> QED BY <2>4, <2>5
<1>2. ASSUME NEW r \in Requests, ReadPrice(r) PROVE Told'
  <2>1. step[r] = "readPrice" /\ UNCHANGED <<price, bills, asked, inForce>>
    BY <1>2 DEF ReadPrice, env
  <2>2. \/ \E p \in price : /\ p < Cardinality(asked[r].ids)
                            /\ step' = [step EXCEPT ![r] = "answered"]
                            /\ response' = [response EXCEPT ![r] = 400]
        \/ step' = [step EXCEPT ![r] = "findMissing"] /\ response' = response
        \/ step' = [step EXCEPT ![r] = "answered"] /\ response' = [response EXCEPT ![r] = 500]
    BY <1>2 DEF ReadPrice, Goto, Respond
  <2>3. ToldOf(r) /\ price \subseteq inForce[r] /\ response[r] = 0
    BY <2>1, <1>t DEF ToldOf, Running
  <2>4. ToldOf(r)'
    BY <2>1, <2>2, <2>3, <1>t DEF ToldOf, Types, Running
  <2> QED BY <2>1, <2>2, <2>4, <1>t, ToldStep DEF Types
<1>3. ASSUME NEW r \in Requests, FindMissing(r) PROVE Told'
  <2>1. step[r] = "findMissing" /\ UNCHANGED <<price, bills, asked, inForce>>
    BY <1>3 DEF FindMissing, env
  <2>2. \/ step' = [step EXCEPT ![r] = "charge"] /\ response' = response
        \/ /\ step' = [step EXCEPT ![r] = "answered"]
           /\ \E status \in {404, 500} : response' = [response EXCEPT ![r] = status]
    BY <1>3 DEF FindMissing, Goto, Respond
  <2>3. ToldOf(r) /\ price \subseteq inForce[r] /\ response[r] = 0
    BY <2>1, <1>t DEF ToldOf, Running
  <2>4. ToldOf(r)'
    BY <2>1, <2>2, <2>3, <1>t DEF ToldOf, Types, Running
  <2> QED BY <2>1, <2>2, <2>4, <1>t, ToldStep DEF Types
<1>4. ASSUME NEW r \in Requests, ChargeGame(r) PROVE Told'
  <2> DEFINE g == asked[r].game
  <2>1. /\ step[r] = "charge" /\ UNCHANGED <<price, asked, inForce>>
        /\ step' = [step EXCEPT ![r] = "answered"]
    BY <1>4 DEF ChargeGame, env, Respond
  <2>2. \/ /\ UNCHANGED bills
           /\ \E status \in {404, 409, 422, 500} :
                /\ response' = [response EXCEPT ![r] = status]
                /\ status = 409 => g \in DOMAIN bills
        \/ /\ Bill(r, g) /\ g \notin DOMAIN bills
           /\ \E status \in {200, 500} : response' = [response EXCEPT ![r] = status]
    BY <1>4 DEF ChargeGame, Respond
  <2>3. step'[r] = "answered"
    BY <2>1, <1>t DEF Types
  <2>4. CASE UNCHANGED bills /\ ~(Bill(r, g) /\ g \notin DOMAIN bills)
    <3>1. PICK status \in {404, 409, 422, 500} :
            /\ response' = [response EXCEPT ![r] = status]
            /\ status = 409 => g \in DOMAIN bills
      BY <2>2, <2>4
    <3>2. ToldOf(r)'
      BY <2>1, <2>3, <2>4, <3>1, <1>t DEF ToldOf, Running
    <3> QED BY <2>1, <2>4, <3>1, <3>2, <1>t, ToldStep DEF Types
  <2>5. CASE Bill(r, g) /\ g \notin DOMAIN bills
    <3>1. g \in DOMAIN bills'
      BY <2>5 DEF Bill
    <3>2. PICK status \in {200, 404, 422, 500} : response' = [response EXCEPT ![r] = status]
      BY <2>2, <2>5, <3>1
    <3>3. /\ DOMAIN bills' = DOMAIN bills \cup {g} /\ bills'[g].by = r
          /\ \A h \in DOMAIN bills : bills'[h] = bills[h]
      BY <2>5 DEF Bill
    <3>4. response'[r] \in {200, 500}
      BY <2>2, <2>5, <3>1, <1>t
    <3>5. ToldOf(r)'
      BY <2>1, <2>3, <3>3, <3>4 DEF ToldOf, Running
    <3>6. ASSUME NEW s \in Requests \ {r} PROVE ToldOf(s)'
      <4>1. ToldOf(s) /\ step'[s] = step[s] /\ response'[s] = response[s]
        BY <2>1, <3>2, <1>t DEF Types
      <4> QED BY <4>1, <2>1, <3>3 DEF ToldOf
    <3>7. BillTold(g)'
      BY <2>1, <3>3, <3>4 DEF BillTold
    <3>8. ASSUME NEW h \in DOMAIN bills PROVE BillTold(h)'
      <4>1. BillTold(h) /\ bills[h].by \in Requests /\ step[bills[h].by] = "answered"
        BY DEF Told, Inductive, Billed
      <4>2. response'[bills[h].by] = response[bills[h].by]
        BY <4>1, <2>1, <3>2, <1>t
      <4> QED BY <4>1, <4>2, <2>1, <3>3 DEF BillTold
    <3> QED BY <2>1, <3>2, <3>3, <3>5, <3>6, <3>7, <3>8, <1>t DEF Told
  <2> QED BY <2>2, <2>4, <2>5
<1>5. ASSUME NEW r \in Requests, Abandon(r) PROVE Told'
  <2>1. /\ step[r] \in Running /\ step' = [step EXCEPT ![r] = "lost"]
        /\ UNCHANGED <<price, bills, asked, response, inForce>>
    BY <1>5 DEF Abandon, env
  <2>2. \A s \in Requests : /\ step'[s] \in {step[s], "lost"}
                            /\ step[s] = "answered" => step'[s] = step[s]
                            /\ step'[s] \in Running => price' \subseteq inForce'[s]
    BY <2>1, <1>t DEF Types, ToldOf, Running
  <2> QED BY <2>1, <2>2, <1>t, ToldQuiet
<1>6. ASSUME NEW g \in Games, CreateGame(g) PROVE Told'
  BY <1>6, <1>t, ToldQuiet DEF CreateGame, ToldOf
<1>7. ASSUME NEW p \in Prices, SetPrice(p) PROVE Told'
  <2>1. /\ price' = {p} /\ UNCHANGED <<bills, step, asked, response>>
        /\ inForce' = [r \in Requests |->
                         IF step[r] \in Running THEN inForce[r] \cup {p} ELSE inForce[r]]
    BY <1>7 DEF SetPrice
  <2> QED BY <2>1, <1>t, ToldQuiet
<1>8. ASSUME NEW u \in users, DeleteUser(u) PROVE Told'
  BY <1>8, <1>t, ToldQuiet DEF DeleteUser, ToldOf
<1>9. CASE UNCHANGED vars
  BY <1>9, <1>t, ToldQuiet DEF vars, env, ToldOf
<1> QED BY <1>1, <1>2, <1>3, <1>4, <1>5, <1>6, <1>7, <1>8, <1>9 DEF Next

\* 200 means that this request charged the game, 409 that another one did, and a
\* refusal that nothing was charged; a refusal for the price had a price to refuse.
THEOREM AdministratorIsToldTheTruth == Spec => []AnswerTellsEffect
<1>1. ASSUME Inductive, Told PROVE AnswerTellsEffect
  <2> SUFFICES ASSUME NEW r \in Requests
      PROVE LET g == asked[r].game
                mine == {h \in DOMAIN bills : bills[h].by = r}
            IN  /\ response[r] = 200 => mine = {g}
                /\ response[r] = 409 => g \in DOMAIN bills /\ mine = {}
                /\ response[r] \in {400, 404, 422} => mine = {}
                /\ response[r] = 400 /\ Valid(g, asked[r].ids) =>
                     \E p \in inForce[r] : p < Cardinality(asked[r].ids)
    BY DEF AnswerTellsEffect
  <2>1. ToldOf(r) /\ \A h \in DOMAIN bills : BillTold(h)
    BY <1>1 DEF Told
  <2>2. \A h \in DOMAIN bills : bills[h].by = r => h = asked[r].game /\ response[r] \in {200, 500}
    BY <2>1 DEF BillTold
  <2> QED BY <2>1, <2>2 DEF ToldOf
<1> QED BY <1>1, InitInductive, NextInductive, InitTold, NextTold, PTL DEF Spec

(***************************************************************************)
(* The price a request has read is one it met.                             *)
(***************************************************************************)
MetOf(r) ==
  /\ step[r] = "idle" => read[r] = 0
  /\ read[r] # 0 => read[r] \in inForce[r]

Met == \A r \in Requests : MetOf(r)

LEMMA InitMet == Init => Met
BY DEF Init, Met, MetOf

\* A step of one request.
LEMMA MetStep ==
  ASSUME Met, NEW r \in Requests, MetOf(r)',
         \A s \in Requests \ {r} : /\ step'[s] = step[s] /\ read'[s] = read[s]
                                   /\ inForce'[s] = inForce[s]
  PROVE  Met'
BY DEF Met, MetOf

LEMMA NextMet == Inductive /\ Told /\ Met /\ [Next]_vars => Met'
<1> SUFFICES ASSUME Inductive, Told, Met, [Next]_vars PROVE Met'
  OBVIOUS
<1>t. Types /\ inForce \in [Requests -> SUBSET Prices] /\ \A r \in Requests : ToldOf(r) /\ MetOf(r)
  BY DEF Inductive, Told, Met
<1>1. ASSUME NEW r \in Requests, Receive(r) PROVE Met'
  <2>1. step[r] = "idle" /\ read' = read /\ inForce' = [inForce EXCEPT ![r] = price]
    BY <1>1 DEF Receive
  <2>2. \E l : step' = [step EXCEPT ![r] = l]
    BY <1>1 DEF Receive, Goto, Respond
  <2>3. MetOf(r)'
    BY <2>1, <1>t DEF MetOf
  <2> QED BY <2>1, <2>2, <2>3, <1>t, MetStep DEF Types
<1>2. ASSUME NEW r \in Requests, ReadPrice(r) PROVE Met'
  <2>1. step[r] = "readPrice" /\ inForce' = inForce
    BY <1>2 DEF ReadPrice
  <2>2. \E l : l # "idle" /\ step' = [step EXCEPT ![r] = l]
    BY <1>2 DEF ReadPrice, Goto, Respond
  <2>3. read' = read \/ \E p \in price : read' = [read EXCEPT ![r] = p]
    BY <1>2 DEF ReadPrice
  <2>4. price \subseteq inForce[r]
    BY <2>1, <1>t DEF ToldOf, Running
  <2>5. MetOf(r)'
    BY <2>1, <2>2, <2>3, <2>4, <1>t DEF MetOf, Types
  <2>6. \A s \in Requests \ {r} : step'[s] = step[s] /\ read'[s] = read[s]
    BY <2>2, <2>3, <1>t DEF Types
  <2> QED BY <2>1, <2>5, <2>6, MetStep
<1>3. ASSUME NEW r \in Requests, FindMissing(r) \/ ChargeGame(r) \/ Abandon(r) PROVE Met'
  <2>1. step[r] # "idle" /\ UNCHANGED <<read, inForce>>
    BY <1>3 DEF FindMissing, ChargeGame, Abandon, Running
  <2>2. \E l : l # "idle" /\ step' = [step EXCEPT ![r] = l]
    BY <1>3 DEF FindMissing, ChargeGame, Abandon, Goto, Respond
  <2>3. MetOf(r)'
    BY <2>1, <2>2, <1>t DEF MetOf, Types
  <2> QED BY <2>1, <2>2, <2>3, <1>t, MetStep DEF Types
<1>4. ASSUME NEW p \in Prices, SetPrice(p) PROVE Met'
  BY <1>4, <1>t DEF SetPrice, Met, MetOf
<1>5. ASSUME UNCHANGED <<step, read, inForce>> PROVE Met'
  BY <1>5, <1>t DEF Met, MetOf
<1> QED BY <1>1, <1>2, <1>3, <1>4, <1>5 DEF Next, CreateGame, DeleteUser, vars

\* The shares of every bill add up to one price, in force while the request that
\* charged the game ran, however the price is edited in between.
THEOREM BillsAddUp == Spec => []BillAddsUp
<1>1. ASSUME Inductive, Met PROVE BillAddsUp
  <2> SUFFICES ASSUME NEW g \in DOMAIN bills
      PROVE SumFunction(bills[g].shares) \in inForce[bills[g].by]
    BY DEF BillAddsUp
  <2> DEFINE r == bills[g].by
             ids == asked[r].ids
  <2>1. /\ r \in Requests /\ bills[g].shares = Shares(ids, read[r])
        /\ ids # {} /\ read[r] \in Prices
    BY <1>1 DEF Inductive, Billed, Splittable
  <2>2. ids \subseteq UserIDs
    BY <1>1, <2>1 DEF Inductive, Types
  <2>3. ids \subseteq Int /\ IsFiniteSet(ids) /\ read[r] \in Nat \ {0}
    BY <2>1, <2>2, UsersAssumption, FiniteAssumption, PricesAssumption, FS_Subset
  <2>4. SumFunction(Shares(ids, read[r])) = read[r]
    <3> HIDE DEF ids, r
    <3> QED BY <2>1, <2>3, SplitLosesNothing
  <2>5. read[r] \in inForce[r]
    BY <1>1, <2>1, <2>3 DEF Met, MetOf
  <2> QED BY <2>1, <2>4, <2>5
<1>2. /\ Init => Inductive /\ Told /\ Met
      /\ Inductive /\ Told /\ Met /\ [Next]_vars => Inductive' /\ Told' /\ Met'
  BY InitInductive, InitTold, InitMet, NextInductive, NextTold, NextMet
<1> QED BY <1>1, <1>2, PTL DEF Spec

\* Only games that exist are billed, and the rest is what its type says.
THEOREM TypeCorrect == Spec => []TypeOK
<1> DEFINE Tables == /\ users \subseteq Users /\ games \subseteq Games /\ DOMAIN bills \subseteq games
                     /\ response \in [Requests -> {0, 200, 400, 404, 409, 422, 500}]
<1>1. Init => Tables
  BY DEF Init
<1>2. Tables /\ [Next]_vars => Tables'
  <2> SUFFICES ASSUME Tables, [Next]_vars PROVE Tables'
    OBVIOUS
  <2>1. ASSUME NEW r \in Requests, ChargeGame(r) PROVE Tables'
    <3>1. \/ UNCHANGED bills
          \/ asked[r].game \in games /\ Bill(r, asked[r].game)
      BY <2>1 DEF ChargeGame
    <3>2. DOMAIN bills' \subseteq games
      BY <3>1 DEF Bill
    <3> QED BY <2>1, <3>2 DEF ChargeGame, Respond, env
  <2>2. ASSUME NEW r \in Requests, Receive(r) \/ ReadPrice(r) \/ FindMissing(r) \/ Abandon(r)
        PROVE  Tables'
    BY <2>2 DEF Receive, ReadPrice, FindMissing, Abandon, Goto, Respond, env
  <2>3. CASE \/ \E g \in Games : CreateGame(g)
             \/ \E p \in Prices : SetPrice(p)
             \/ \E u \in users : DeleteUser(u)
             \/ UNCHANGED vars
    BY <2>3 DEF CreateGame, SetPrice, DeleteUser, vars, env
  <2> QED BY <2>1, <2>2, <2>3 DEF Next
<1>3. Inductive /\ Told /\ Tables => TypeOK
  BY DEF Inductive, Types, Told, TypeOK
<1> QED BY <1>1, <1>2, <1>3, InitInductive, NextInductive, InitTold, NextTold, PTL DEF Spec
=============================================================================
