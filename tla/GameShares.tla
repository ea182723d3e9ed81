----------------------------- MODULE GameShares -----------------------------
(***************************************************************************)
(* How BalanceService.ChargeGame splits the price of a game.  The clone,   *)
(* Sort and Compact of the ids make them a set, in which the index of an   *)
(* id is the number of smaller ones.                                       *)
(***************************************************************************)
EXTENDS Integers, FiniteSets

Index(ids, i) == Cardinality({j \in ids : j < i})

\* Mutant of Shares: the remainder is spread from index 1 on.
SharesOffByOne(ids, price) ==
  [i \in ids |-> price \div Cardinality(ids) +
                   IF Index(ids, i) <= price % Cardinality(ids) THEN 1 ELSE 0]

\* The base share, and one minor unit of the remainder for the first ids.
Shares(ids, price) ==
  [i \in ids |-> price \div Cardinality(ids) +
                   IF Index(ids, i) < price % Cardinality(ids) THEN 1 ELSE 0]
=============================================================================
