----------------------------- MODULE Migrations -----------------------------
(***************************************************************************)
(* The command "migrate": Run of db/migrate.go, which hands its arguments  *)
(* to golang-migrate.  The library keeps one row with the version and a    *)
(* dirty flag, and an advisory lock of PostgreSQL while it works.  A file  *)
(* is sent as one query, which the server runs as one transaction; the     *)
(* version is written before and after it in transactions of their own.    *)
(* Several commands may run at once (a deployment and an operator), fail   *)
(* or be killed at any step.                                               *)
(***************************************************************************)
EXTENDS Integers

CONSTANTS
  Runners,
  Commands,  \* arguments: the action, and "all" or a number if one is given
  Last,      \* the files are 1 .. Last
  NoRunner

ASSUME LastAssumption == Last \in Nat \ {0}
ASSUME RunnersAssumption == NoRunner \notin Runners
ASSUME CommandsAssumption ==
  Commands \subseteq [action : {"up", "down", "version", "force", "unknown"},
                      given : BOOLEAN, all : BOOLEAN, n : Int]

VARIABLES
  version, dirty,   \* the row of schema_migrations
  schema,           \* the files whose effect is in the database
  lock,             \* the runner that holds the advisory lock
  command,          \* runner -> its arguments
  at,               \* runner -> "none", "begun", "next", "marked" or "ran"
  file,             \* runner -> the file it works on
  count,            \* runner -> the files it is through with
  answer,           \* runner -> what Run returned last
  misforced         \* ghost: the last force did not fit the schema

vars == <<version, dirty, schema, lock, command, at, file, count, answer, misforced>>

\* database.NilVersion: no row.
Nil == -1

Files == 1 .. Last
UpTo(v) == 1 .. v

Working == {"next", "marked", "ran"}

Init ==
  /\ version \in {Nil} \cup Files /\ schema = UpTo(version)
  /\ dirty = FALSE /\ lock = NoRunner
  /\ command \in [Runners -> Commands]
  /\ at = [r \in Runners |-> "none"] /\ answer = [r \in Runners |-> "none"]
  /\ file = [r \in Runners |-> 0] /\ count = [r \in Runners |-> 0]
  /\ misforced = FALSE

(***************************************************************************)
(* The arguments, as Run checks them.                                      *)
(***************************************************************************)
BadArguments(c) ==
  \/ c.action = "unknown"
  \/ c.action = "up" /\ c.n < 0
  \/ c.action = "down" /\ (~c.given \/ (~c.all /\ c.n <= 0))
  \/ c.action = "force" /\ (~c.given \/ c.n < Nil)

Goes(r, action) == command[r].action = action /\ ~BadArguments(command[r])
Moves(r) == Goes(r, "up") \/ Goes(r, "down")

\* Up and Down, rather than Steps.
Unlimited(r) == IF command[r].action = "up" THEN command[r].n = 0 ELSE command[r].all

Finish(r, a) ==
  /\ at' = [at EXCEPT ![r] = "none"]
  /\ answer' = [answer EXCEPT ![r] = a]
  /\ UNCHANGED <<command, file, count>>

Unlock(r) == lock' = IF lock = r THEN NoRunner ELSE lock

Begin(r) ==
  /\ at[r] = "none"
  /\ at' = [at EXCEPT ![r] = "begun"]
  /\ \E c \in Commands : command' = [command EXCEPT ![r] = c]
  /\ answer' = [answer EXCEPT ![r] = "none"]
  /\ file' = [file EXCEPT ![r] = 0] /\ count' = [count EXCEPT ![r] = 0]
  /\ UNCHANGED <<version, dirty, schema, lock, misforced>>

\* The arguments are refused after the database was reached, or it is not reached.
Refuse(r) ==
  /\ at[r] = "begun"
  /\ Finish(r, "error")
  /\ UNCHANGED <<version, dirty, schema, lock, misforced>>

ReadVersion(r) ==
  /\ at[r] = "begun" /\ Goes(r, "version")
  /\ Finish(r, "ok")
  /\ UNCHANGED <<version, dirty, schema, lock, misforced>>

\* Force, which looks at no file.  "force all" is parsed as version 0.  An error may
\* also mean that the version was written and the answer to its commit lost.
ForceVersion(r) ==
  /\ at[r] = "begun" /\ Goes(r, "force") /\ lock = NoRunner
  /\ version' = command[r].n /\ dirty' = FALSE
  /\ misforced' = (schema # UpTo(command[r].n))
  /\ Finish(r, "ok") \/ Finish(r, "error")
  /\ UNCHANGED <<schema, lock>>

(***************************************************************************)
(* Up, Down and Steps.                                                     *)
(***************************************************************************)
Take(r) ==
  /\ at[r] = "begun" /\ Moves(r) /\ lock = NoRunner
  /\ lock' = r /\ at' = [at EXCEPT ![r] = "next"]
  /\ UNCHANGED <<version, dirty, schema, command, file, count, answer, misforced>>

\* A dirty version stops every command but force: ErrDirty.
FindDirty(r) ==
  /\ at[r] = "begun" /\ Moves(r) /\ lock = NoRunner
  /\ Finish(r, "error")
  /\ UNCHANGED <<version, dirty, schema, lock, misforced>>

\* Mutant of Lock: a dirty version is not looked at.
LockDirty(r) == Take(r)

\* Mutant of Lock: ErrDirty is taken for ErrNoChange.
LockDirtyIsFine(r) ==
  \/ ~dirty /\ Take(r)
  \/ /\ dirty /\ at[r] = "begun" /\ Moves(r) /\ lock = NoRunner
     /\ Finish(r, "ok")
     /\ UNCHANGED <<version, dirty, schema, lock, misforced>>

Lock(r) ==
  \/ ~dirty /\ Take(r)
  \/ dirty /\ FindDirty(r)

\* Whether there is a file to work on: another version may have been forced.
Known == version = Nil \/ version \in Files
More(r) ==
  /\ Known
  /\ version # (IF command[r].action = "up" THEN Last ELSE Nil)
  /\ Unlimited(r) \/ count[r] < command[r].n

Below(v) == IF v = 1 THEN Nil ELSE v - 1
Above(v) == IF v = Nil THEN 1 ELSE v + 1

\* Mutant of Mark: the version is written once, before the file.
MarkClean(r) ==
  /\ at[r] = "next" /\ More(r)
  /\ IF command[r].action = "up"
       THEN file' = [file EXCEPT ![r] = Above(version)] /\ version' = Above(version)
       ELSE file' = [file EXCEPT ![r] = version] /\ version' = Below(version)
  /\ at' = [at EXCEPT ![r] = "marked"]
  /\ UNCHANGED <<dirty, schema, lock, command, count, answer, misforced>>

\* SetVersion(target, dirty)
Mark(r) ==
  /\ at[r] = "next" /\ More(r)
  /\ IF command[r].action = "up"
       THEN file' = [file EXCEPT ![r] = Above(version)] /\ version' = Above(version)
       ELSE file' = [file EXCEPT ![r] = version] /\ version' = Below(version)
  /\ dirty' = TRUE
  /\ at' = [at EXCEPT ![r] = "marked"]
  /\ UNCHANGED <<schema, lock, command, count, answer, misforced>>

\* The file runs, whole.  After a wrong force it may meet its own effect, or miss it:
\* whether it then runs or fails (Fail) depends on its SQL, an IF NOT EXISTS or an
\* UPDATE runs and most others do not.
RunFile(r) ==
  /\ at[r] = "marked"
  /\ IF command[r].action = "up"
       THEN schema' = schema \cup {file[r]}
       ELSE schema' = schema \ {file[r]}
  /\ at' = [at EXCEPT ![r] = "ran"]
  /\ UNCHANGED <<version, dirty, lock, command, file, count, answer, misforced>>

\* SetVersion(target, clean)
Clean(r) ==
  /\ at[r] = "ran"
  /\ dirty' = FALSE
  /\ count' = [count EXCEPT ![r] = @ + 1]
  /\ at' = [at EXCEPT ![r] = "next"]
  /\ UNCHANGED <<version, schema, lock, command, file, answer, misforced>>

\* Nothing is left: ErrNoChange counts as success, ErrShortLimit and a version
\* without a file do not.
End(r) ==
  /\ at[r] = "next" /\ ~More(r)
  /\ Finish(r, IF Known /\ (Unlimited(r) \/ count[r] = command[r].n) THEN "ok" ELSE "error")
  /\ Unlock(r)
  /\ UNCHANGED <<version, dirty, schema, misforced>>

\* A statement fails, or the wait for the lock does.
Fail(r) ==
  /\ at[r] \in Working \/ (at[r] = "begun" /\ lock # NoRunner)
  /\ Finish(r, "error")
  /\ Unlock(r)
  /\ UNCHANGED <<version, dirty, schema, misforced>>

\* The process is killed: its session ends, and with it the lock.
Crash(r) ==
  /\ at[r] \in Working
  /\ Finish(r, "none")
  /\ Unlock(r)
  /\ UNCHANGED <<version, dirty, schema, misforced>>

Next ==
  \E r \in Runners :
    \/ Begin(r) \/ Refuse(r) \/ ReadVersion(r) \/ ForceVersion(r)
    \/ Lock(r) \/ Mark(r) \/ RunFile(r) \/ Clean(r) \/ End(r)
    \/ Fail(r) \/ Crash(r)

Spec == Init /\ [][Next]_vars

(***************************************************************************)
(* Properties.                                                             *)
(***************************************************************************)
TypeOK ==
  /\ version \in Int /\ dirty \in BOOLEAN
  /\ schema \subseteq Files
  /\ lock \in Runners \cup {NoRunner}
  /\ command \in [Runners -> Commands]
  /\ at \in [Runners -> {"none", "begun"} \cup Working]
  /\ file \in [Runners -> Int] /\ count \in [Runners -> Nat]
  /\ answer \in [Runners -> {"none", "ok", "error"}]
  /\ misforced \in BOOLEAN

\* A version that is not dirty is the whole truth about the schema, unless the last
\* force was wrong: also when commands run at once, fail, or are killed at any step.
CleanVersionIsTrue ==
  ~dirty /\ ~misforced => schema = UpTo(version)

\* A dirty version is repairable: the schema is that of the version or of one of its
\* neighbours, so that the operator's force has a right argument.
DirtyIsOneFileAway ==
  dirty /\ ~misforced =>
    \E v \in {Below(version), version, Above(version)} : schema = UpTo(v)

\* What a deployment relies on when "migrate up" succeeds: every file is applied; and
\* none is when "migrate down all" does.
OkTellsSchema ==
  [][\A r \in Runners :
       answer[r] = "none" /\ answer'[r] = "ok" /\ Moves(r) /\ Unlimited(r) /\ ~misforced
         => schema' = (IF command[r].action = "up" THEN Files ELSE {})]_vars
=============================================================================
