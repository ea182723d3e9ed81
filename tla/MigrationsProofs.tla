-------------------------- MODULE MigrationsProofs --------------------------
(***************************************************************************)
(* What TLC checks of Migrations on three files and two runners, for every *)
(* number of files, every set of runners and every set of commands.  The   *)
(* argument: only the runner with the lock works, and at each of its steps *)
(* the version, the dirty flag and its file say what the schema is.        *)
(***************************************************************************)
EXTENDS Migrations, TLAPS

\* Only the runner that holds the lock is between two statements.
HolderWorks == \A r \in Runners : at[r] \in Working => lock = r

IsUp(r) == command[r].action = "up"

\* What a runner knows of the schema at each of its steps.
Knows(r) ==
  /\ at[r] = "next" => ~dirty
  /\ at[r] = "marked" =>
       /\ dirty
       /\ file[r] \in Files
       /\ version = (IF IsUp(r) THEN file[r] ELSE Below(file[r]))
       /\ ~misforced => schema = UpTo(IF IsUp(r) THEN Below(file[r]) ELSE file[r])
  /\ at[r] = "ran" =>
       /\ dirty
       /\ ~misforced => schema = UpTo(version)

IInv ==
  /\ TypeOK /\ HolderWorks
  /\ \A r \in Runners : Knows(r)
  /\ CleanVersionIsTrue /\ DirtyIsOneFileAway

USE LastAssumption, RunnersAssumption

\* Below and Above are each other's inverses on the files, and a file adds itself to
\* the schema of the version below it.
LEMMA Neighbours ==
  /\ \A v \in Files : /\ Below(v) \in Int /\ Above(Below(v)) = v
                      /\ v \notin UpTo(Below(v)) /\ UpTo(v) = UpTo(Below(v)) \cup {v}
                      /\ UpTo(v) \ {v} = UpTo(Below(v))
  /\ \A v \in Files \cup {Nil} :
       v # Last => Above(v) \in Files /\ Below(Above(v)) = v
BY DEF Files, UpTo, Below, Above, Nil

THEOREM InitInvariant == Init => IInv
<1> SUFFICES ASSUME Init PROVE IInv
  OBVIOUS
<1>1. version \in Int /\ schema \subseteq Files
  BY DEF Init, Files, UpTo, Nil
<1>2. TypeOK
  <2>1. at \in [Runners -> {"none", "begun"} \cup Working] /\ answer \in [Runners -> {"none", "ok", "error"}]
    BY DEF Init
  <2>2. file \in [Runners -> Int] /\ count \in [Runners -> Nat]
    BY DEF Init
  <2>3. dirty \in BOOLEAN /\ misforced \in BOOLEAN /\ lock \in Runners \cup {NoRunner}
    BY DEF Init
  <2> QED
    BY <1>1, <2>1, <2>2, <2>3 DEF Init, TypeOK
<1>3. HolderWorks /\ \A r \in Runners : Knows(r)
  BY DEF Init, HolderWorks, Knows, Working
<1>4. CleanVersionIsTrue /\ DirtyIsOneFileAway
  BY DEF Init, CleanVersionIsTrue, DirtyIsOneFileAway
<1> QED
  BY <1>2, <1>3, <1>4 DEF IInv

\* The steps that end a command, without touching the database.
LEMMA FinishKeeps ==
  ASSUME IInv, NEW r \in Runners, NEW a \in {"none", "ok", "error"}, Finish(r, a),
         UNCHANGED <<version, dirty, schema, misforced>>,
         at[r] \in Working => Unlock(r), at[r] \notin Working => UNCHANGED lock \/ Unlock(r)
  PROVE  IInv'
<1>1. TypeOK'
  BY DEF IInv, TypeOK, Finish, Unlock, Working
<1>2. HolderWorks'
  BY DEF IInv, HolderWorks, TypeOK, Finish, Unlock, Working
<1>3. \A q \in Runners : Knows(q)'
  BY DEF IInv, Knows, IsUp, TypeOK, Finish, Below, UpTo
<1>4. CleanVersionIsTrue' /\ DirtyIsOneFileAway'
  BY DEF IInv, CleanVersionIsTrue, DirtyIsOneFileAway, Below, Above, UpTo
<1> QED
  BY <1>1, <1>2, <1>3, <1>4 DEF IInv

\* Nobody else is at work when a runner is: the others know nothing that a step of
\* the holder could make false.
LEMMA Alone ==
  ASSUME HolderWorks, NEW r \in Runners, at[r] \in Working, NEW q \in Runners, q # r
  PROVE  at[q] \notin Working
BY DEF HolderWorks

THEOREM StepInvariant == IInv /\ [Next]_vars => IInv'
<1> SUFFICES ASSUME IInv, [Next]_vars PROVE IInv'
  OBVIOUS
<1>1. CASE UNCHANGED vars
  BY <1>1 DEF vars, IInv, TypeOK, HolderWorks, Knows, IsUp, CleanVersionIsTrue,
              DirtyIsOneFileAway, Below, Above, UpTo
<1>2. ASSUME NEW r \in Runners, Begin(r) PROVE IInv'
  <2>1. TypeOK' /\ HolderWorks'
    BY <1>2 DEF IInv, Begin, TypeOK, HolderWorks, Working
  <2>2. \A q \in Runners : Knows(q)'
    BY <1>2 DEF IInv, Begin, TypeOK, Knows, IsUp, Below, UpTo
  <2>3. CleanVersionIsTrue' /\ DirtyIsOneFileAway'
    BY <1>2 DEF IInv, Begin, CleanVersionIsTrue, DirtyIsOneFileAway, Below, Above, UpTo
  <2> QED
    BY <2>1, <2>2, <2>3 DEF IInv
<1>3. ASSUME NEW r \in Runners, Refuse(r) \/ ReadVersion(r) PROVE IInv'
  BY <1>3, FinishKeeps DEF Refuse, ReadVersion, Working
<1>4. ASSUME NEW r \in Runners, ForceVersion(r) PROVE IInv'
  <2>1. \A q \in Runners : at[q] \notin Working /\ at'[q] \notin Working
    <3>1. lock = NoRunner /\ at' = [at EXCEPT ![r] = "none"]
      BY <1>4 DEF ForceVersion, Finish
    <3> QED
      BY <3>1 DEF IInv, HolderWorks, TypeOK, Working
  <2>2. TypeOK'
    <3>1. version' \in Int /\ dirty' \in BOOLEAN /\ misforced' \in BOOLEAN
      <4>1. command[r] \in Commands
        BY DEF IInv, TypeOK
      <4>2. version' \in Int
        BY <1>4, <4>1, CommandsAssumption DEF ForceVersion
      <4>3. dirty' = FALSE /\ misforced' = (schema # UpTo(command[r].n))
        BY <1>4 DEF ForceVersion
      <4> QED
        BY <4>2, <4>3
    <3>2. at' \in [Runners -> {"none", "begun"} \cup Working]
      BY <1>4 DEF IInv, TypeOK, ForceVersion, Finish
    <3>3. answer' \in [Runners -> {"none", "ok", "error"}]
      BY <1>4 DEF IInv, TypeOK, ForceVersion, Finish
    <3>4. UNCHANGED <<schema, lock, command, file, count>>
      BY <1>4 DEF ForceVersion, Finish
    <3> QED
      BY <3>1, <3>2, <3>3, <3>4 DEF IInv, TypeOK
  <2>3. HolderWorks' /\ (\A q \in Runners : Knows(q)')
    BY <2>1 DEF HolderWorks, Knows, Working
  <2>4. CleanVersionIsTrue' /\ DirtyIsOneFileAway'
    <3>1. ~dirty' /\ version' = command[r].n /\ schema' = schema
      BY <1>4 DEF ForceVersion
    <3>2. ~misforced' => schema = UpTo(command[r].n)
      BY <1>4 DEF ForceVersion
    <3>3. ~misforced' => schema' = UpTo(version')
      BY <3>1, <3>2
    <3> QED
      BY <3>1, <3>3 DEF CleanVersionIsTrue, DirtyIsOneFileAway, UpTo
  <2> QED
    BY <2>2, <2>3, <2>4 DEF IInv
<1>5. ASSUME NEW r \in Runners, Lock(r) PROVE IInv'
  <2>1. CASE dirty /\ FindDirty(r)
    BY <2>1, FinishKeeps DEF FindDirty, Working
  <2>2. CASE ~dirty /\ Take(r)
    <3>1. TypeOK'
      BY <2>2 DEF IInv, TypeOK, Take, Working
    <3>2. HolderWorks'
      BY <2>2 DEF IInv, HolderWorks, TypeOK, Take, Working
    <3>3. \A q \in Runners : Knows(q)'
      BY <2>2 DEF IInv, TypeOK, Knows, IsUp, Take, Below, UpTo
    <3>4. CleanVersionIsTrue' /\ DirtyIsOneFileAway'
      BY <2>2 DEF IInv, CleanVersionIsTrue, DirtyIsOneFileAway, Take, Below, Above, UpTo
    <3> QED
      BY <3>1, <3>2, <3>3, <3>4 DEF IInv
  <2> QED
    BY <1>5, <2>1, <2>2 DEF Lock
<1>6. ASSUME NEW r \in Runners, Mark(r) PROVE IInv'
  <2>1. at[r] = "next" /\ ~dirty /\ at[r] \in Working /\ (~misforced => schema = UpTo(version))
    BY <1>6 DEF Mark, IInv, Knows, CleanVersionIsTrue, Working
  <2>2. version \in Files \cup {Nil} /\ (IsUp(r) => version # Last) /\ (~IsUp(r) => version \in Files)
    BY <1>6 DEF Mark, More, Known, IsUp
  <2>3. /\ file'[r] \in Files
        /\ version' = (IF IsUp(r) THEN file'[r] ELSE Below(file'[r]))
        /\ version = (IF IsUp(r) THEN Below(file'[r]) ELSE file'[r])
    BY <1>6, <2>2, Neighbours DEF Mark, IsUp, IInv, TypeOK
  <2>4. TypeOK'
    BY <1>6, <2>3, Neighbours DEF Mark, IInv, TypeOK, Files, Working
  <2>5. HolderWorks'
    BY <1>6, <2>1 DEF Mark, IInv, TypeOK, HolderWorks, Working
  <2>6. \A q \in Runners : Knows(q)'
    <3>1. Knows(r)'
      BY <1>6, <2>1, <2>3 DEF Mark, Knows, IsUp, IInv, TypeOK, UpTo, Below
    <3>2. \A q \in Runners : q # r => Knows(q)'
      BY <1>6, <2>1, Alone DEF Mark, Knows, IInv, TypeOK, Working
    <3> QED
      BY <3>1, <3>2
  <2>7. CleanVersionIsTrue' /\ DirtyIsOneFileAway'
    <3>1. dirty'
      BY <1>6 DEF Mark
    <3>2. ~misforced' => schema' = UpTo(version)
      BY <1>6, <2>1 DEF Mark
    <3>3. version \in {Below(version'), version', Above(version')}
      BY <2>3, Neighbours
    <3> QED
      BY <3>1, <3>2, <3>3 DEF CleanVersionIsTrue, DirtyIsOneFileAway, UpTo, Below, Above
  <2> QED
    BY <2>4, <2>5, <2>6, <2>7 DEF IInv
<1>7. ASSUME NEW r \in Runners, RunFile(r) PROVE IInv'
  <2>1. /\ at[r] = "marked" /\ at[r] \in Working /\ dirty /\ file[r] \in Files
        /\ version = (IF IsUp(r) THEN file[r] ELSE Below(file[r]))
        /\ ~misforced => schema = UpTo(IF IsUp(r) THEN Below(file[r]) ELSE file[r])
    BY <1>7 DEF RunFile, IInv, Knows, Working
  <2>2. ~misforced => schema' = UpTo(version)
    BY <1>7, <2>1, Neighbours DEF RunFile, IsUp
  <2>3. TypeOK'
    BY <1>7, <2>1 DEF RunFile, IInv, TypeOK, Working
  <2>4. HolderWorks'
    BY <1>7, <2>1 DEF RunFile, IInv, TypeOK, HolderWorks, Working
  <2>5. \A q \in Runners : Knows(q)'
    <3>1. Knows(r)'
      BY <1>7, <2>1, <2>2 DEF RunFile, Knows, IInv, TypeOK, UpTo
    <3>2. \A q \in Runners : q # r => Knows(q)'
      BY <1>7, <2>1, Alone DEF RunFile, Knows, IInv, TypeOK, Working
    <3> QED
      BY <3>1, <3>2
  <2>6. CleanVersionIsTrue' /\ DirtyIsOneFileAway'
    BY <1>7, <2>1, <2>2 DEF RunFile, CleanVersionIsTrue, DirtyIsOneFileAway, UpTo, Below, Above
  <2> QED
    BY <2>3, <2>4, <2>5, <2>6 DEF IInv
<1>8. ASSUME NEW r \in Runners, Clean(r) PROVE IInv'
  <2>1. at[r] = "ran" /\ at[r] \in Working /\ (~misforced => schema = UpTo(version))
    BY <1>8 DEF Clean, IInv, Knows, Working
  <2>2. TypeOK'
    <3>1. dirty' \in BOOLEAN
      BY <1>8 DEF Clean
    <3>3. count' \in [Runners -> Nat]
      <4>1. count \in [Runners -> Nat] /\ count' = [count EXCEPT ![r] = count[r] + 1]
        BY <1>8 DEF Clean, IInv, TypeOK
      <4>2. count[r] + 1 \in Nat
        BY <4>1
      <4> QED
        BY <4>1, <4>2
    <3>2. at' \in [Runners -> {"none", "begun"} \cup Working]
      BY <1>8 DEF Clean, IInv, TypeOK, Working
    <3> QED
      BY <1>8, <3>1, <3>2, <3>3 DEF Clean, IInv, TypeOK
  <2>3. HolderWorks'
    BY <1>8, <2>1 DEF Clean, IInv, TypeOK, HolderWorks, Working
  <2>4. \A q \in Runners : Knows(q)'
    BY <1>8, <2>1, Alone DEF Clean, Knows, IInv, TypeOK, Working
  <2>5. CleanVersionIsTrue' /\ DirtyIsOneFileAway'
    BY <1>8, <2>1 DEF Clean, CleanVersionIsTrue, DirtyIsOneFileAway, UpTo
  <2> QED
    BY <2>2, <2>3, <2>4, <2>5 DEF IInv
<1>9. ASSUME NEW r \in Runners, End(r) \/ Fail(r) \/ Crash(r) PROVE IInv'
  BY <1>9, FinishKeeps DEF End, Fail, Crash, Working
<1>10. CASE Next
  <2> PICK r \in Runners :
        \/ Begin(r) \/ Refuse(r) \/ ReadVersion(r) \/ ForceVersion(r)
        \/ Lock(r) \/ Mark(r) \/ RunFile(r) \/ Clean(r) \/ End(r)
        \/ Fail(r) \/ Crash(r)
    BY <1>10 DEF Next
  <2> QED
    BY <1>2, <1>3, <1>4, <1>5, <1>6, <1>7, <1>8, <1>9
<1> QED
  BY <1>1, <1>10

THEOREM InvariantHolds == Spec => []IInv
BY InitInvariant, StepInvariant, PTL DEF Spec

\* The version row, the lock and every runner stay what their types say.
THEOREM TypeCorrect == Spec => []TypeOK
<1>1. IInv => TypeOK
  BY DEF IInv
<1> QED
  BY <1>1, InvariantHolds, PTL

\* A clean version is the whole truth about the schema, for any number of files and of
\* runners, whatever they are told to do and wherever they are killed.
THEOREM CleanIsTrue == Spec => []CleanVersionIsTrue
<1>1. IInv => CleanVersionIsTrue
  BY DEF IInv
<1> QED
  BY <1>1, InvariantHolds, PTL

\* A dirty version is one file away from the schema at most.
THEOREM DirtyIsRepairable == Spec => []DirtyIsOneFileAway
<1>1. IInv => DirtyIsOneFileAway
  BY DEF IInv
<1> QED
  BY <1>1, InvariantHolds, PTL

\* "up" and "down all" tell the truth about the schema when they succeed.
THEOREM SuccessIsTrue == Spec => OkTellsSchema
<1> DEFINE Told == \A r \in Runners :
       answer[r] = "none" /\ answer'[r] = "ok" /\ Moves(r) /\ Unlimited(r) /\ ~misforced
         => schema' = (IF command[r].action = "up" THEN Files ELSE {})
<1>1. IInv /\ [Next]_vars => Told
  <2> SUFFICES ASSUME IInv, [Next]_vars, NEW r \in Runners,
                      answer[r] = "none", answer'[r] = "ok", Moves(r), Unlimited(r), ~misforced
               PROVE  schema' = (IF command[r].action = "up" THEN Files ELSE {})
    OBVIOUS
  <2>1. End(r) /\ at[r] = "next" /\ Known /\ ~More(r)
    <3>1. PICK q \in Runners :
            \/ Begin(q) \/ Refuse(q) \/ ReadVersion(q) \/ ForceVersion(q)
            \/ Lock(q) \/ Mark(q) \/ RunFile(q) \/ Clean(q) \/ End(q)
            \/ Fail(q) \/ Crash(q)
      BY DEF Next, vars
    <3>2. answer'[r] # answer[r] /\ answer \in [Runners -> {"none", "ok", "error"}]
      BY DEF IInv, TypeOK
    <3>3. ~Begin(q)
      BY <3>2 DEF Begin
    <3>4. ~Refuse(q) /\ ~Fail(q) /\ ~Crash(q)
      BY <3>2 DEF Refuse, Fail, Crash, Finish
    <3>5. ~ReadVersion(q) /\ ~ForceVersion(q)
      BY <3>2 DEF ReadVersion, ForceVersion, Finish, Goes, Moves
    <3>6. ~Lock(q)
      BY <3>2 DEF Lock, Take, FindDirty, Finish
    <3>7. ~Mark(q) /\ ~RunFile(q) /\ ~Clean(q)
      BY <3>2 DEF Mark, RunFile, Clean
    <3>8. End(q)
      BY <3>1, <3>3, <3>4, <3>5, <3>6, <3>7
    <3>9. q = r
      BY <3>2, <3>8 DEF End, Finish
    <3>10. (IF Known /\ (Unlimited(r) \/ count[r] = command[r].n) THEN "ok" ELSE "error") = "ok"
      BY <3>2, <3>8, <3>9 DEF End, Finish
    <3> QED
      BY <3>8, <3>9, <3>10 DEF End
  <2>2. version = (IF command[r].action = "up" THEN Last ELSE Nil)
    BY <2>1 DEF More
  <2>3. schema = UpTo(version) /\ schema' = schema
    BY <2>1 DEF End, IInv, Knows, CleanVersionIsTrue
  <2> QED
    BY <2>2, <2>3 DEF UpTo, Files, Nil
<1>2. Spec => [][Told]_vars
  BY <1>1, InvariantHolds, PTL DEF Spec
<1> QED
  BY <1>2 DEF OkTellsSchema
=============================================================================
