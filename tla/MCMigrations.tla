---------------------------- MODULE MCMigrations ----------------------------
(***************************************************************************)
(* Instance of Migrations: what a deployment and an operator may type.     *)
(***************************************************************************)
EXTENDS Migrations

Bare(action) == [action |-> action, given |-> FALSE, all |-> FALSE, n |-> 0]
All(action) == [action |-> action, given |-> TRUE, all |-> TRUE, n |-> 0]
Number(action, n) == [action |-> action, given |-> TRUE, all |-> FALSE, n |-> n]

MCCommands ==
  {Bare(a) : a \in {"up", "down", "version", "unknown"}}
    \cup {All("down"), All("force"), Number("up", 2), Number("down", 2)}
    \cup {Number("force", v) : v \in Nil .. Last + 1}
=============================================================================
