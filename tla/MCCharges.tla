----------------------------- MODULE MCCharges -----------------------------
(***************************************************************************)
(* The charges of games, for TLC.                                          *)
(***************************************************************************)
EXTENDS MCBalanceRepo

CONSTANTS one, two, otherGame, adjustment, dollars  \* the requests

\* Game 1 is charged twice, by requests that are alike, and game 2 once, all by the
\* same two users; one of them has no balance row, or one in another currency, when
\* they start, and the other may get one between the charges.
ChargeRequests == {one, two, otherGame, adjustment, dollars}
ChargeArg ==
  one :> charge(1, 1 :> 3 @@ 2 :> 2) @@ two :> charge(1, 1 :> 3 @@ 2 :> 2)
    @@ otherGame :> charge(2, 1 :> 4 @@ 2 :> 4)
    @@ adjustment :> adjust(2, 6, "RUB") @@ dollars :> adjust(1, 1, "USD")

AlikeSymmetry == Permutations({one, two})
=============================================================================
