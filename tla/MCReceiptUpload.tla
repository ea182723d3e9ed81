-------------------------- MODULE MCReceiptUpload --------------------------
(***************************************************************************)
(* Instance of ReceiptUpload: one user uploads a file and uploads it again *)
(* (a retry, for which the parser may read the check number differently),  *)
(* then another file with the first one's check number and another         *)
(* currency; administrators reject the first receipt, twice, and adjust    *)
(* the balance.  Any MaxMade of these six requests are made.               *)
(***************************************************************************)
EXTENDS ReceiptUpload, FiniteSets, TLC

CONSTANT MaxMade

UploadRequests == {"first", "retry", "other", "reject", "again", "adjust"}
UploadArg ==
  LET upload(c, h, k) ==
        [op |-> "credit", user |-> 1, amount |-> 5, currency |-> c, hash |-> h, check |-> k]
  IN  "first" :> upload("RUB", "h1", "k1") @@ "retry" :> upload("RUB", "h1", NoCheck)
        @@ "other" :> upload("USD", "h2", "k1")
        @@ "reject" :> [op |-> "reverse", receipt |-> "first"]
        @@ "again" :> [op |-> "reverse", receipt |-> "first"]
        @@ "adjust" :> [op |-> "adjust", user |-> 1, amount |-> -3, currency |-> "RUB"]

MCSpec ==
  Init /\ [][Next /\ Cardinality({r \in Requests : step[r] # "idle"})' <= MaxMade]_vars
=============================================================================
