---------------------------- MODULE ServerProofs ----------------------------
(***************************************************************************)
(* What TLC checks of Server on two clients and one connection, for every  *)
(* set of clients and every size of the pool.                              *)
(***************************************************************************)
EXTENDS Server, FiniteSetTheorems, TLAPS

\* The pool is closed by a deferred call as long as it can be used, and only a pool
\* that is not closed has connections out.
Resources ==
  /\ pool \in {"open", "closing"} => Has("pool")
  /\ holds # {} => pool \in {"open", "closing"}
  /\ stage = "exited" => deferred = <<>>

AllIdle == \A r \in Clients : at[r] = "idle"

\* What the main goroutine knows of the rest at each stage.
Stages ==
  /\ stage = "setup" =>
       /\ next \in 1 .. 8 /\ result = "none" /\ listener = "off" /\ AllIdle
       /\ next > 4 => pool = "open"
       /\ next > 5 => Has("auth")
  /\ stage \in {"serving", "draining"} => pool = "open" /\ Has("auth") /\ result = "none"
  /\ stage \in {"setup", "serving", "draining"} => refused = {} /\ result = "none"
  /\ result = "nil" =>
       stage \in {"returning", "exited"} /\ listener = "closed" /\ AllIdle /\ refused = {}

\* Whoever is an administrator now was one since the request came.
Admins == \A r \in Clients : route[r] = "admin" /\ isAdmin => wasAdmin[r]

USE WorkersAssumption

\* Head, Tail and concatenation of the list of deferred calls.
LEMMA DeferredList ==
  /\ deferred \in Seq(Defers) /\ deferred # <<>> =>
       /\ Tail(deferred) \in Seq(Defers)
       /\ \A s : Has(s) /\ s # Head(deferred) => \E i \in DOMAIN Tail(deferred) : Tail(deferred)[i] = s
  /\ \A s \in Defers : deferred \in Seq(Defers) =>
       /\ <<s>> \o deferred \in Seq(Defers)
       /\ \E i \in DOMAIN (<<s>> \o deferred) : (<<s>> \o deferred)[i] = s
       /\ \A q : Has(q) => \E i \in DOMAIN (<<s>> \o deferred) : (<<s>> \o deferred)[i] = q
<1>1. ASSUME deferred \in Seq(Defers), deferred # <<>>
      PROVE  /\ Tail(deferred) \in Seq(Defers)
             /\ \A s : Has(s) /\ s # Head(deferred) =>
                  \E i \in DOMAIN Tail(deferred) : Tail(deferred)[i] = s
  <2>1. Tail(deferred) \in Seq(Defers)
    BY <1>1
  <2>2. ASSUME NEW s, NEW i \in DOMAIN deferred, deferred[i] = s, s # Head(deferred)
        PROVE  i - 1 \in DOMAIN Tail(deferred) /\ Tail(deferred)[i - 1] = s
    BY <1>1, <2>2
  <2> QED
    BY <2>1, <2>2 DEF Has
<1>2. ASSUME NEW s \in Defers, deferred \in Seq(Defers)
      PROVE  /\ <<s>> \o deferred \in Seq(Defers)
             /\ \E i \in DOMAIN (<<s>> \o deferred) : (<<s>> \o deferred)[i] = s
             /\ \A q : Has(q) => \E i \in DOMAIN (<<s>> \o deferred) : (<<s>> \o deferred)[i] = q
  <2>1. <<s>> \o deferred \in Seq(Defers)
    BY <1>2
  <2>2. 1 \in DOMAIN (<<s>> \o deferred) /\ (<<s>> \o deferred)[1] = s
    BY <1>2
  <2>3. ASSUME NEW i \in DOMAIN deferred
        PROVE  i + 1 \in DOMAIN (<<s>> \o deferred) /\ (<<s>> \o deferred)[i + 1] = deferred[i]
    BY <1>2, <2>3
  <2> QED
    BY <2>1, <2>2, <2>3 DEF Has
<1> QED
  BY <1>1, <1>2

AtOK == at \in [Workers -> {"idle", "waiting", "reading", "writing"} \cup Querying]

IInv == deferred \in Seq(Defers) /\ AtOK /\ Resources /\ Stages

LEMMA StepsAre ==
  /\ Steps[1] = "config" /\ Steps[2] = "logger" /\ Steps[3] = "signals" /\ Steps[4] = "pool"
  /\ Steps[5] = "auth" /\ Steps[6] = "buckets" /\ Steps[7] = "notifier" /\ Steps[8] = "serve"
BY DEF Steps

THEOREM InitInvariant == Init => IInv /\ Admins
<1>1. Init => deferred \in Seq(Defers) /\ AtOK
  BY DEF Init, AtOK
<1>2. Init => Resources
  BY DEF Init, Resources
<1>3. Init => Stages
  BY DEF Init, Stages, AllIdle, Workers
<1>4. Init => Admins
  BY DEF Init, Admins
<1> QED
  BY <1>1, <1>2, <1>3, <1>4 DEF IInv

\* The steps of the setup.
LEMMA SetUpKeeps == IInv /\ SetUp => IInv'
<1> SUFFICES ASSUME IInv, SetUp PROVE IInv'
  OBVIOUS
<1> DEFINE s == Steps[next]
<1>1. stage = "setup" /\ next \in 1 .. 8
  BY DEF SetUp, IInv, Stages
<1>2. deferred' \in Seq(Defers) /\ \A q : Has(q) => Has(q)'
  <2>1. CASE s \in Defers
    BY <2>1, DeferredList DEF SetUp, IInv, Has
  <2>2. CASE s \notin Defers
    BY <2>2 DEF SetUp, IInv, Has
  <2> QED
    BY <2>1, <2>2
<1>3. \A q \in Defers : q = s => Has(q)'
  <2> SUFFICES ASSUME NEW q \in Defers, q = s PROVE Has(q)'
    OBVIOUS
  <2>1. deferred' = <<q>> \o deferred /\ deferred \in Seq(Defers)
    BY DEF SetUp, IInv
  <2> QED
    BY <2>1, DeferredList DEF Has
<1>4. Resources'
  <2>1. pool' \in {"open", "closing"} => Has("pool")'
    <3>1. CASE s = "pool"
      BY <1>3, <3>1 DEF Defers
    <3>2. CASE s # "pool"
      BY <1>2, <3>2 DEF SetUp, IInv, Resources
    <3> QED
      BY <3>1, <3>2
  <2>2. holds' # {} => pool' \in {"open", "closing"}
    BY DEF SetUp, IInv, Resources
  <2>3. stage' # "exited"
    BY <1>1 DEF SetUp
  <2> QED
    BY <2>1, <2>2, <2>3 DEF Resources
<1>5. Stages'
  <2>1. at' = at \/ at' = [at EXCEPT ![Notifier] = "waiting"]
    BY DEF SetUp
  <2>2. AllIdle'
    BY <1>1, <2>1 DEF IInv, AtOK, Workers, Stages, AllIdle
  <2>3. CASE next = 8
    BY <1>1, <1>2, <2>2, <2>3, StepsAre DEF SetUp, IInv, Stages, requests
  <2>4. CASE next # 8
    <3>1. s # "serve" /\ next' \in 1 .. 8 /\ stage' = "setup" /\ listener' = "off"
      BY <1>1, <2>4, StepsAre DEF SetUp, IInv, Stages
    <3>2. next' > 4 => pool' = "open"
      BY <1>1, StepsAre DEF SetUp, IInv, Stages
    <3>3. next' > 5 => Has("auth")'
      <4>1. CASE next = 5
        BY <1>3, <4>1, StepsAre DEF Defers
      <4>2. CASE next # 5
        BY <1>1, <1>2, <4>2 DEF SetUp, IInv, Stages
      <4> QED
        BY <4>1, <4>2
    <3> QED
      BY <1>1, <2>2, <3>1, <3>2, <3>3 DEF SetUp, IInv, Stages, requests
  <2> QED
    BY <2>3, <2>4
<1> QED
  <2>1. AtOK'
    BY DEF SetUp, IInv, AtOK, Workers
  <2> QED
    BY <2>1, <1>2, <1>4, <1>5 DEF IInv

\* run() returns, from any stage.
LEMMA ReturnKeeps ==
  IInv /\ (SetUpFails \/ ServeFailed \/ Shutdown \/ Drained \/ DrainTimeout) => IInv'
<1> SUFFICES ASSUME IInv, SetUpFails \/ ServeFailed \/ Shutdown \/ Drained \/ DrainTimeout
             PROVE  IInv'
  OBVIOUS
<1>1. UNCHANGED <<deferred, next, pool, holds, at, refused>> /\ stage' # "exited"
  BY DEF SetUpFails, ServeFailed, Shutdown, Drained, DrainTimeout, Return, requests
<1>2. deferred' \in Seq(Defers) /\ AtOK' /\ Resources'
  BY <1>1 DEF IInv, AtOK, Resources, Has
<1>3. Stages'
  <2>1. CASE SetUpFails \/ ServeFailed \/ DrainTimeout
    BY <1>1, <2>1 DEF SetUpFails, ServeFailed, DrainTimeout, Return, IInv, Stages
  <2>2. CASE Shutdown
    BY <1>1, <2>2 DEF Shutdown, IInv, Stages, Has
  <2>3. CASE Drained
    BY <1>1, <2>3 DEF Drained, Return, IInv, Stages, AllIdle, InFlight
  <2> QED
    BY <2>1, <2>2, <2>3
<1> QED
  BY <1>2, <1>3 DEF IInv

\* The deferred calls.
LEMMA DeferredKeeps == IInv /\ (BeginClose \/ RunDeferred \/ Exit) => IInv'
<1> SUFFICES ASSUME IInv, BeginClose \/ RunDeferred \/ Exit PROVE IInv'
  OBVIOUS
<1>1. Stages' /\ AtOK'
  BY DEF BeginClose, RunDeferred, Exit, IInv, AtOK, Stages, AllIdle, main, requests
<1>2. CASE BeginClose
  BY <1>1, <1>2 DEF BeginClose, IInv, Resources, Has, main
<1>3. CASE RunDeferred
  <2>1. deferred' \in Seq(Defers) /\ \A q : Has(q) /\ q # Head(deferred) => Has(q)'
    BY <1>3, DeferredList DEF RunDeferred, IInv, Has
  <2>2. Resources'
    BY <1>3, <2>1 DEF RunDeferred, PoolClosed, IInv, Resources
  <2> QED
    BY <1>1, <2>1, <2>2 DEF IInv
<1>4. CASE Exit
  BY <1>1, <1>4 DEF Exit, IInv, Resources, Has
<1> QED
  BY <1>2, <1>3, <1>4

\* What the others do leaves the main goroutine and the pool alone.
LEMMA OthersKeep ==
  ASSUME IInv, UNCHANGED <<stage, next, deferred, result, pool>>, AtOK',
         holds' \subseteq holds \/ pool = "open",
         listener' = listener \/ listener \in {"starting", "on"},
         AllIdle => AllIdle' \/ listener \in {"on", "broken", "closing"},
         refused' = refused \/ (~AllIdle /\ (pool # "open" \/ ~Has("auth")))
  PROVE  IInv'
<1>1. deferred' \in Seq(Defers) /\ Resources'
  BY DEF IInv, Resources, Has
<1>2. \A s : Has(s)' <=> Has(s)
  BY DEF Has
<1>3. Stages'
  BY <1>2 DEF IInv, Stages
<1> QED
  BY <1>1, <1>3 DEF IInv

THEOREM StepInvariant == IInv /\ [Next]_vars => IInv'
<1> SUFFICES ASSUME IInv, [Next]_vars PROVE IInv'
  OBVIOUS
<1>1. CASE Main
  BY <1>1, SetUpKeeps, ReturnKeeps, DeferredKeeps DEF Main
<1>2. CASE Restart
  <2>1. deferred' \in Seq(Defers) /\ AtOK' /\ Resources'
    BY <1>2 DEF Restart, AtOK, Resources
  <2>2. Stages'
    BY <1>2 DEF Restart, Stages, AllIdle, Workers
  <2> QED
    BY <2>1, <2>2 DEF IInv
<1>3. CASE UNCHANGED vars \/ Signal \/ SetRole \/ Listen \/ ListenFails
  BY <1>3, OthersKeep DEF vars, Signal, SetRole, Listen, ListenFails, main, requests, AllIdle,
                          IInv, AtOK
<1>4. CASE NotifierStep
  <2>1. AtOK' /\ (AllIdle => AllIdle')
    BY <1>4 DEF NotifierStep, AllIdle, IInv, AtOK, Workers, Querying
  <2> QED
    BY <1>4, <2>1, OthersKeep DEF NotifierStep, Release, main, requests
<1>5. CASE \E r \in Clients : Arrive(r) \/ RequestRead(r) \/ AnswerWritten(r)
  <2> PICK r \in Clients : Arrive(r) \/ RequestRead(r) \/ AnswerWritten(r)
    BY <1>5
  <2>1. AllIdle => AllIdle' \/ listener \in {"on", "broken", "closing"}
    BY DEF Arrive, RequestRead, AnswerWritten, AllIdle
  <2>2. AtOK'
    BY DEF Arrive, RequestRead, AnswerWritten, IInv, AtOK, Workers, Querying
  <2> QED
    BY <2>1, <2>2, OthersKeep DEF Arrive, RequestRead, AnswerWritten, main, requests
<1>6. CASE \E r \in Clients : Ends(r)
  <2> PICK r \in Clients : Ends(r)
    BY <1>6
  <2>1. ~AllIdle
    BY DEF Ends, SessionRead, RoleRead, QueryDone, Refuse, AllIdle, Querying
  <2>2. holds' \subseteq holds /\ UNCHANGED <<stage, next, deferred, result, pool, listener>>
    BY DEF Ends, SessionRead, RoleRead, QueryDone, Refuse, Release, main
  <2>3. refused' = refused \/ pool # "open" \/ ~Has("auth")
    BY DEF Ends, SessionRead, RoleRead, QueryDone, Refuse, Usable, requests
  <2>4. AtOK'
    BY DEF Ends, SessionRead, RoleRead, QueryDone, Refuse, Answer, Advance, IInv, AtOK,
           Workers, Querying
  <2> QED
    BY <2>1, <2>2, <2>3, <2>4, OthersKeep
<1>7. CASE \E w \in Workers : Acquire(w)
  BY <1>7, OthersKeep DEF Acquire, Usable, main, requests, AllIdle, IInv, AtOK
<1> QED
  BY <1>1, <1>2, <1>3, <1>4, <1>5, <1>6, <1>7 DEF Next

THEOREM InvariantHolds == Spec => []IInv
<1>1. Init => IInv
  BY InitInvariant
<1> QED
  BY <1>1, StepInvariant, PTL DEF Spec

\* However run() returns, no transaction is open when the process exits.
THEOREM NoTransactionIsCut == Spec => []ExitCutsNoTransaction
<1>1. IInv => ExitCutsNoTransaction
  BY DEF IInv, Resources, ExitCutsNoTransaction, Has
<1> QED
  BY <1>1, InvariantHolds, PTL

\* A shutdown that returns nil has spared every request.
THEOREM GracefulExit == Spec => []GracefulExitSparesRequests
<1>1. IInv => GracefulExitSparesRequests
  BY DEF IInv, Stages, AllIdle, InFlight, GracefulExitSparesRequests
<1> QED
  BY <1>1, InvariantHolds, PTL

\* What makes AdminActsAsAdmin inductive: the ghost remembers every moment at which
\* the caller was an administrator, this one included.
AdminInv ==
  /\ route \in [Clients -> {"open", "user", "admin"}]
  /\ wasAdmin \in [Clients -> BOOLEAN]
  /\ Admins /\ AdminActsAsAdmin

LEMMA AdminStep == IInv /\ AdminInv /\ [Next]_vars => AdminInv'
<1> SUFFICES ASSUME IInv, AdminInv, [Next]_vars PROVE AdminInv'
  OBVIOUS
<1>1. CASE UNCHANGED <<at, route, isAdmin, wasAdmin>>
  BY <1>1 DEF AdminInv, Admins, AdminActsAsAdmin
<1>2. CASE SetUp \/ NotifierStep
  <2>1. \A r \in Clients : at'[r] = at[r]
    BY <1>2 DEF SetUp, NotifierStep, IInv, AtOK, Workers
  <2>2. UNCHANGED <<route, isAdmin, wasAdmin>>
    BY <1>2 DEF SetUp, NotifierStep, requests
  <2> QED
    BY <2>1, <2>2 DEF AdminInv, Admins, AdminActsAsAdmin
<1>3. CASE Restart
  BY <1>3 DEF Restart, AdminInv, Admins, AdminActsAsAdmin
<1>4. CASE SetRole
  <2>1. UNCHANGED <<at, route>> /\ wasAdmin' = [r \in Clients |-> wasAdmin[r] \/ (isAdmin' /\ route[r] = "admin")]
    BY <1>4 DEF SetRole, requests
  <2>2. wasAdmin' \in [Clients -> BOOLEAN]
    BY <2>1
  <2>3. Admins' /\ AdminActsAsAdmin'
    BY <2>1 DEF AdminInv, Admins, AdminActsAsAdmin
  <2> QED
    BY <2>1, <2>2, <2>3 DEF AdminInv
<1>5. ASSUME NEW r \in Clients, Arrive(r) PROVE AdminInv'
  <2> PICK class \in {"open", "user", "admin"} :
         /\ route' = [route EXCEPT ![r] = class]
         /\ at' = [at EXCEPT ![r] = IF class = "open" THEN "reading" ELSE "session"]
         /\ wasAdmin' = [wasAdmin EXCEPT ![r] = class = "admin" /\ isAdmin]
    BY <1>5 DEF Arrive
  <2>1. isAdmin' = isAdmin
    BY <1>5 DEF Arrive
  <2>2. route' \in [Clients -> {"open", "user", "admin"}] /\ wasAdmin' \in [Clients -> BOOLEAN]
    BY DEF AdminInv
  <2>3. \A q \in Clients : q # r =>
          at'[q] = at[q] /\ route'[q] = route[q] /\ (wasAdmin'[q] <=> wasAdmin[q])
    BY DEF AdminInv, IInv, AtOK, Workers
  <2>4. /\ route'[r] = class /\ (wasAdmin'[r] <=> class = "admin" /\ isAdmin)
        /\ class = "admin" => at'[r] = "session"
    BY DEF AdminInv, IInv, AtOK, Workers
  <2> QED
    BY <2>1, <2>2, <2>3, <2>4 DEF AdminInv, Admins, AdminActsAsAdmin
<1>6. ASSUME NEW r \in Clients, AnswerWritten(r) PROVE AdminInv'
  <2>1. /\ at' = [at EXCEPT ![r] = "idle"] /\ route' = [route EXCEPT ![r] = "open"]
        /\ wasAdmin' = [wasAdmin EXCEPT ![r] = FALSE] /\ isAdmin' = isAdmin
    BY <1>6 DEF AnswerWritten
  <2>2. route' \in [Clients -> {"open", "user", "admin"}] /\ wasAdmin' \in [Clients -> BOOLEAN]
    BY <2>1 DEF AdminInv
  <2>3. route'[r] = "open" /\ \A q \in Clients : q # r =>
          at'[q] = at[q] /\ route'[q] = route[q] /\ (wasAdmin'[q] <=> wasAdmin[q])
    BY <2>1 DEF AdminInv, IInv, AtOK, Workers
  <2> QED
    BY <2>1, <2>2, <2>3 DEF AdminInv, Admins, AdminActsAsAdmin
<1>7. ASSUME NEW r \in Clients, RequestRead(r) \/ Ends(r) PROVE AdminInv'
  <2>1. UNCHANGED <<route, isAdmin, wasAdmin>>
    BY <1>7 DEF RequestRead, Ends, SessionRead, RoleRead, QueryDone, Refuse, requests
  <2>2. \A q \in Clients : q # r => at'[q] = at[q]
    BY <1>7 DEF RequestRead, Ends, SessionRead, RoleRead, QueryDone, Refuse, Answer, Advance,
                IInv, AtOK, Workers
  <2>3. route[r] = "admin" /\ at'[r] \in {"reading", "query"} => at[r] \in {"reading", "query"} \/ isAdmin
    BY <1>7 DEF RequestRead, Ends, SessionRead, RoleRead, QueryDone, Refuse, Answer, Advance,
                IInv, AtOK, Workers
  <2> QED
    BY <2>1, <2>2, <2>3 DEF AdminInv, Admins, AdminActsAsAdmin
<1>8. CASE \E w \in Workers : Acquire(w)
  BY <1>8, <1>1 DEF Acquire, requests
<1>9. CASE Main /\ ~SetUp
  BY <1>9, <1>1 DEF Main, SetUpFails, ServeFailed, Shutdown, Drained, DrainTimeout, BeginClose,
                    RunDeferred, Exit, requests
<1>10. CASE UNCHANGED vars \/ Signal \/ Listen \/ ListenFails
  BY <1>10, <1>1 DEF vars, Signal, Listen, ListenFails, requests
<1> QED
  BY <1>2, <1>3, <1>4, <1>5, <1>6, <1>7, <1>8, <1>9, <1>10 DEF Next, Main

\* An administrator's route is served only for someone who was an administrator since
\* the request came, for any number of clients and changes of roles.
THEOREM AdminsOnly == Spec => []AdminActsAsAdmin
<1>1. Init => AdminInv
  BY InitInvariant DEF Init, AdminInv, AdminActsAsAdmin
<1>2. AdminInv => AdminActsAsAdmin
  BY DEF AdminInv
<1> QED
  BY <1>1, <1>2, AdminStep, InvariantHolds, PTL DEF Spec

(***************************************************************************)
(* The connections.  WaitersServed counts on their coming back; that rests *)
(* on nobody keeping one while he waits for something but the database.    *)
(***************************************************************************)
\* No more connections are out than the pool has, each with a goroutine that is in a
\* query: none is kept while a request is read or an answer written.
ConnectionsInv ==
  /\ holds \subseteq Workers /\ IsFiniteSet(holds) /\ Cardinality(holds) <= MaxConns
  /\ \A w \in holds : at[w] \in Querying

\* The notifier's goroutine is not there before its step of the setup.
NotifierAbsent == stage = "setup" /\ next < 8 => at[Notifier] = "idle"

LEMMA Released ==
  ASSUME ConnectionsInv, NEW w, Release(w), \A v \in holds \ {w} : at'[v] = at[v]
  PROVE  ConnectionsInv'
<1>1. holds' = holds \ {w} /\ holds' \subseteq holds
  BY DEF Release
<1>2. IsFiniteSet(holds') /\ Cardinality(holds') <= Cardinality(holds)
  BY <1>1, FS_Subset DEF ConnectionsInv
<1>3. Cardinality(holds') \in Nat /\ Cardinality(holds) \in Nat
  BY <1>2, FS_CardinalityType DEF ConnectionsInv
<1>4. Cardinality(holds') <= MaxConns
  BY <1>2, <1>3, PoolAssumption DEF ConnectionsInv
<1>5. holds' \subseteq Workers /\ \A v \in holds' : at'[v] \in Querying
  BY <1>1 DEF ConnectionsInv
<1> QED BY <1>2, <1>4, <1>5 DEF ConnectionsInv, Workers, Querying

LEMMA AcquireKeeps == ASSUME ConnectionsInv, NEW w \in Workers, Acquire(w) PROVE ConnectionsInv'
<1>1. /\ holds' = holds \cup {w} /\ w \notin holds /\ at[w] \in Querying /\ UNCHANGED at
      /\ Cardinality(holds) < MaxConns
  BY DEF Acquire
<1>2. IsFiniteSet(holds') /\ Cardinality(holds') = Cardinality(holds) + 1
  BY <1>1, FS_AddElement DEF ConnectionsInv
<1>3. Cardinality(holds') <= MaxConns
  BY <1>1, <1>2, FS_CardinalityType, PoolAssumption DEF ConnectionsInv
<1>4. holds' \subseteq Workers /\ \A v \in holds' : at'[v] \in Querying
  BY <1>1 DEF ConnectionsInv
<1> QED BY <1>2, <1>3, <1>4 DEF ConnectionsInv, Workers, Querying

\* Who changes what he does without giving a connection back has none.
LEMMA Elsewhere ==
  ASSUME ConnectionsInv, UNCHANGED holds, \A v \in holds : at'[v] \in Querying
  PROVE  ConnectionsInv'
BY DEF ConnectionsInv, Workers, Querying

LEMMA ConnectionsStep ==
  IInv /\ ConnectionsInv /\ NotifierAbsent /\ [Next]_vars => ConnectionsInv' /\ NotifierAbsent'
<1> SUFFICES ASSUME IInv, ConnectionsInv, NotifierAbsent, [Next]_vars
             PROVE  ConnectionsInv' /\ NotifierAbsent'
  OBVIOUS
<1> USE DEF main, requests
<1>1. CASE SetUp
  <2>1. stage = "setup" /\ next \in 1 .. 8 /\ next' = next + 1 /\ UNCHANGED holds
    BY <1>1 DEF SetUp, IInv, Stages
  <2>2. at' = at \/ (next = 7 /\ at' = [at EXCEPT ![Notifier] = "waiting"])
    BY <1>1, <2>1, StepsAre DEF SetUp
  <2>3. next = 7 => Notifier \notin holds
    BY <2>1 DEF NotifierAbsent, ConnectionsInv, Querying
  <2>4. \A v \in holds : at'[v] = at[v]
    BY <2>2, <2>3 DEF ConnectionsInv, IInv, AtOK
  <2>5. NotifierAbsent'
    BY <2>1, <2>2 DEF NotifierAbsent
  <2> QED BY <2>1, <2>4, <2>5, Elsewhere DEF ConnectionsInv
<1>2. CASE \/ SetUpFails \/ ServeFailed \/ Shutdown \/ Drained \/ DrainTimeout \/ BeginClose
           \/ RunDeferred \/ Exit \/ Signal \/ Listen \/ ListenFails \/ SetRole \/ UNCHANGED vars
  <2>1. UNCHANGED <<at, holds>>
    BY <1>2 DEF SetUpFails, ServeFailed, Shutdown, Drained, DrainTimeout, BeginClose,
                RunDeferred, Exit, Signal, Listen, ListenFails, SetRole, vars
  <2>2. stage' = "setup" => UNCHANGED <<stage, next>>
    BY <1>2 DEF SetUpFails, ServeFailed, Shutdown, Drained, DrainTimeout, BeginClose, Return,
                RunDeferred, Exit, Signal, Listen, ListenFails, SetRole, vars
  <2> QED BY <2>1, <2>2, Elsewhere DEF ConnectionsInv, NotifierAbsent
<1>3. CASE Restart
  BY <1>3, FS_EmptySet, PoolAssumption DEF Restart, ConnectionsInv, NotifierAbsent, Workers
<1>4. CASE NotifierStep
  <2>1. at[Notifier] \in {"waiting", "query"} /\ UNCHANGED <<stage, next>>
    BY <1>4 DEF NotifierStep
  <2>2. NotifierAbsent'
    BY <2>1 DEF NotifierAbsent
  <2>3. \A v \in holds \ {Notifier} : at'[v] = at[v]
    BY <1>4 DEF NotifierStep, IInv, AtOK, ConnectionsInv
  <2>4. CASE Release(Notifier)
    BY <2>2, <2>3, <2>4, Released
  <2>5. CASE at[Notifier] = "waiting" /\ UNCHANGED holds
    <3>1. Notifier \notin holds
      BY <2>5 DEF ConnectionsInv, Querying
    <3> QED BY <2>2, <2>3, <2>5, <3>1, Elsewhere DEF ConnectionsInv
  <2> QED BY <1>4, <2>4, <2>5 DEF NotifierStep
<1>5. ASSUME NEW r \in Clients, Arrive(r) \/ RequestRead(r) \/ AnswerWritten(r) \/ Ends(r)
      PROVE  ConnectionsInv' /\ NotifierAbsent'
  <2>1. UNCHANGED <<stage, next>> /\ \A v \in Workers \ {r} : at'[v] = at[v]
    BY <1>5 DEF Arrive, RequestRead, AnswerWritten, Ends, SessionRead, RoleRead, QueryDone,
                Refuse, Answer, Advance, IInv, AtOK
  <2>2. NotifierAbsent'
    BY <2>1 DEF NotifierAbsent, Workers
  <2>3. CASE Arrive(r) \/ RequestRead(r) \/ AnswerWritten(r) \/ Refuse(r)
    <3>1. r \notin holds /\ UNCHANGED holds
      BY <2>3 DEF Arrive, RequestRead, AnswerWritten, Refuse, ConnectionsInv, Querying
    <3> QED BY <2>1, <2>2, <3>1, Elsewhere DEF ConnectionsInv
  <2>4. CASE SessionRead(r) \/ RoleRead(r) \/ QueryDone(r)
    <3>1. Release(r)
      BY <2>4 DEF SessionRead, RoleRead, QueryDone
    <3>2. \A v \in holds \ {r} : at'[v] = at[v]
      BY <2>1 DEF ConnectionsInv
    <3> QED BY <2>2, <3>1, <3>2, Released
  <2> QED BY <1>5, <2>3, <2>4 DEF Ends
<1>6. ASSUME NEW w \in Workers, Acquire(w) PROVE ConnectionsInv' /\ NotifierAbsent'
  BY <1>6, AcquireKeeps DEF Acquire, NotifierAbsent
<1> QED BY <1>1, <1>2, <1>3, <1>4, <1>5, <1>6 DEF Next, Main

\* For a pool of any size and any number of clients, no more connections are out than
\* it has, and whoever has one is in a query: a slow client keeps none.
THEOREM PoolIsNeverOverdrawn == Spec => []ConnectionsInv
<1>1. Init => ConnectionsInv /\ NotifierAbsent
  BY FS_EmptySet, PoolAssumption DEF Init, ConnectionsInv, NotifierAbsent, Workers
<1> QED BY <1>1, ConnectionsStep, InvariantHolds, PTL DEF Spec

(***************************************************************************)
(* Types.                                                                  *)
(***************************************************************************)
ProcessTypes ==
  /\ stage \in {"setup", "serving", "draining", "returning", "exited"}
  /\ next \in 1 .. 9
  /\ result \in {"none", "nil", "error"}
  /\ signalled \in BOOLEAN
  /\ listener \in {"off", "starting", "on", "failed", "broken", "closing", "closed"}
  /\ pool \in {"none", "open", "closing", "closed"}
  /\ isAdmin \in BOOLEAN
  /\ refused \subseteq Clients

LEMMA ProcessTypesStep == IInv /\ ProcessTypes /\ [Next]_vars => ProcessTypes'
<1> SUFFICES ASSUME IInv, ProcessTypes, [Next]_vars PROVE ProcessTypes'
  OBVIOUS
<1> USE DEF main, requests
<1>1. CASE Main
  <2>1. CASE SetUp
    <3>1. next \in 1 .. 8
      BY <2>1 DEF SetUp, IInv, Stages
    <3>2. next' \in 1 .. 9
      BY <2>1, <3>1 DEF SetUp
    <3> QED BY <2>1, <3>2 DEF SetUp, ProcessTypes
  <2>2. CASE ~SetUp
    BY <1>1, <2>2 DEF Main, SetUpFails, ServeFailed, Shutdown, Drained, DrainTimeout, Return,
                      BeginClose, RunDeferred, Exit, ProcessTypes
  <2> QED BY <2>1, <2>2
<1>2. CASE Signal \/ Restart \/ Listen \/ ListenFails \/ NotifierStep \/ UNCHANGED vars
  <2>1. signalled' \in BOOLEAN /\ isAdmin' = isAdmin
    BY <1>2, Zenon DEF Signal, Restart, Listen, ListenFails, NotifierStep, vars, ProcessTypes
  <2>2. CASE Signal \/ Listen \/ ListenFails
    BY <2>1, <2>2 DEF Signal, Listen, ListenFails, ProcessTypes
  <2>3. CASE Restart
    BY <2>1, <2>3 DEF Restart, ProcessTypes
  <2>4. CASE NotifierStep \/ UNCHANGED vars
    BY <2>1, <2>4 DEF NotifierStep, vars, ProcessTypes
  <2> QED BY <1>2, <2>2, <2>3, <2>4
<1>5. CASE SetRole
  <2>1. isAdmin' \in BOOLEAN
    BY <1>5, Zenon DEF SetRole
  <2>2. UNCHANGED <<main, signalled, listener, pool, refused>>
    BY <1>5 DEF SetRole
  <2> QED BY <2>1, <2>2 DEF ProcessTypes
<1>3. ASSUME NEW r \in Clients, Arrive(r) \/ RequestRead(r) \/ AnswerWritten(r) \/ Ends(r)
      PROVE  ProcessTypes'
  BY <1>3 DEF Arrive, RequestRead, AnswerWritten, Ends, SessionRead, RoleRead, QueryDone,
              Refuse, ProcessTypes
<1>4. ASSUME NEW w \in Workers, Acquire(w) PROVE ProcessTypes'
  BY <1>4 DEF Acquire, ProcessTypes
<1> QED BY <1>1, <1>2, <1>3, <1>4, <1>5 DEF Next

\* Every variable keeps its type.
THEOREM TypeCorrect == Spec => []TypeOK
<1>1. ASSUME Init PROVE ProcessTypes
  <2>1. signalled \in BOOLEAN /\ isAdmin \in BOOLEAN
    BY <1>1, Zenon DEF Init
  <2> QED BY <1>1, <2>1 DEF Init, ProcessTypes
<1>2. Init => AdminInv /\ ConnectionsInv /\ NotifierAbsent
  BY InitInvariant, FS_EmptySet, PoolAssumption
     DEF Init, AdminInv, AdminActsAsAdmin, ConnectionsInv, NotifierAbsent, Workers
<1>3. IInv /\ AdminInv /\ ConnectionsInv /\ ProcessTypes => TypeOK
  <2>1. Len(Steps) + 1 = 9
    BY DEF Steps
  <2> QED BY <2>1 DEF IInv, AtOK, AdminInv, ConnectionsInv, ProcessTypes, TypeOK
<1> QED
  BY <1>1, <1>2, <1>3, AdminStep, ConnectionsStep, ProcessTypesStep, InvariantHolds, PTL DEF Spec
=============================================================================
