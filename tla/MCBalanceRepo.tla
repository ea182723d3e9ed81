--------------------------- MODULE MCBalanceRepo ---------------------------
(***************************************************************************)
(* BalanceRepo for TLC: the receipts asked for.                            *)
(***************************************************************************)
EXTENDS BalanceRepoInvariant, TLC

credit(u, a, c, h, k) ==
  [op |-> "credit", user |-> u, amount |-> a, currency |-> c, hash |-> h, check |-> k]
reverse(i) == [op |-> "reverse", receipt |-> i]
adjust(u, a, c) == [op |-> "adjust", user |-> u, amount |-> a, currency |-> c]
charge(g, s) == [op |-> "charge", game |-> g, shares |-> s]

\* Receipts: two uploads of one file, the second time without a check number
\* recognised, another file with the first one's check number and in another
\* currency, and two rejections of the first upload, all of one user.  A rejection
\* and the third upload can wait for each other.
ReceiptRequests == {"upload", "again", "sameCheck", "reject", "reject2"}
ReceiptArg ==
  "upload" :> credit(1, 5, "RUB", "h1", "k1") @@ "again" :> credit(1, 5, "RUB", "h1", NoCheck)
    @@ "sameCheck" :> credit(1, 7, "USD", "h2", "k1") @@ "reject" :> reverse("upload")
    @@ "reject2" :> reverse("upload")
=============================================================================
