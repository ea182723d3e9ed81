--------------------------- MODULE MCBalanceReads ---------------------------
(***************************************************************************)
(* The instance of BalanceReads for TLC: the money requests that run while *)
(* a reader reads.                                                         *)
(***************************************************************************)
EXTENDS BalanceReads, TLC

credit(u, a, h) ==
  [op |-> "credit", user |-> u, amount |-> a, currency |-> "RUB", hash |-> h, check |-> "nocheck"]
reverse(i) == [op |-> "reverse", receipt |-> i]
adjust(u, a) == [op |-> "adjust", user |-> u, amount |-> a, currency |-> "RUB"]
charge(g, s) == [op |-> "charge", game |-> g, shares |-> s]

\* Two receipts, one of which is rejected, two games and an adjustment, while a
\* reader asks for the dashboard of a user, with lists of one and of the largest
\* size allowed, for the receipts under each filter, by pages of one and of the
\* default size, or for the players of a game.
ReadRequests == {"r1", "r2", "reject", "game1", "game2", "adjust"}
ReadArg ==
  "r1" :> credit(1, 5, "h1") @@ "r2" :> credit(1, 5, "h2")
    @@ "reject" :> reverse("r1") @@ "adjust" :> adjust(1, 6)
    @@ "game1" :> charge(1, 1 :> 3 @@ 2 :> 2) @@ "game2" :> charge(2, 1 :> 4)
ReadAsks ==
  {[op |-> "dashboard", user |-> 1, limit |-> n] : n \in {1, 9}}
    \cup {[op |-> "players", game |-> 1, limit |-> 0]}
    \cup {[op |-> "receipts", status |-> s, limit |-> n] :
            s \in {"any", "credited", "rejected"}, n \in {1, -1}}
=============================================================================
