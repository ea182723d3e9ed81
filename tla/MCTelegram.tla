----------------------------- MODULE MCTelegram -----------------------------
(***************************************************************************)
(* Instance of TelegramAccounts: two users link an account each and then   *)
(* the other one's.                                                        *)
(***************************************************************************)
EXTENDS TelegramAccounts, TLC

link(u, c) == [op |-> "link", user |-> u, chat |-> c]

\* Two users exchange their accounts, and one of them may unlink instead.
SwapRequests == {"ann", "bob", "annSwaps", "bobSwaps", "annLeaves"}
SwapArg ==
  "ann" :> link(1, "c1") @@ "bob" :> link(2, "c2")
    @@ "annSwaps" :> link(1, "c2") @@ "bobSwaps" :> link(2, "c1")
    @@ "annLeaves" :> [op |-> "unlink", user |-> 1]
=============================================================================
