------------------------------- MODULE Server -------------------------------
(***************************************************************************)
(* The life of one process: run() of routes/server.go, from the steps of   *)
(* its setup to its deferred calls, with the requests it serves, the       *)
(* notifier's goroutine and the connections of the one database pool that  *)
(* sessions, roles, handlers and the notifier share.  What a handler does  *)
(* with a connection is the subject of the other modules: here it reads    *)
(* the request, makes some queries (statements or transactions), each on a *)
(* connection of its own, and writes the answer.                           *)
(***************************************************************************)
EXTENDS Naturals, Sequences, FiniteSets

CONSTANTS
  Clients,    \* connections to the server, each with one request at a time
  Notifier,
  MaxConns    \* the size of the pool

ASSUME WorkersAssumption == Notifier \notin Clients
ASSUME PoolAssumption == MaxConns \in Nat \ {0}

VARIABLES
  stage,      \* what the main goroutine does
  next,       \* the step of the setup it takes next
  deferred,   \* its deferred calls, the next one first
  result,     \* what run() returns
  signalled,  \* ctx is done
  listener,   \* the goroutine of ListenAndServe
  pool,
  isAdmin,    \* role = 'admin' in the callers' row of users
  at,         \* worker -> what its goroutine does
  holds,      \* the workers that hold a connection
  route,      \* client -> "open", "user" or "admin", what its request is for
  wasAdmin,   \* ghost: client -> the caller of its request was an administrator since it came
  refused     \* ghost: the clients with a request that a closed pool refused

main == <<stage, next, deferred, result>>
requests == <<route, refused>>
vars == <<main, signalled, listener, pool, isAdmin, at, holds, requests, wasAdmin>>

Workers == Clients \cup {Notifier}

\* The setup, by what each step sets up.
Steps == <<"config", "logger", "signals", "pool", "auth", "buckets", "notifier", "serve">>
NeedsSignalContext == {"pool", "buckets"}   \* calls that are given ctx
CanFail == {"config", "logger", "pool", "auth", "buckets", "notifier"}
Defers == {"logger", "signals", "pool", "auth"}

Running == stage # "exited"

\* What waits for a connection, or uses one.
Querying == {"session", "role", "query"}
InFlight(r) == at[r] # "idle"

Init ==
  /\ stage = "setup" /\ next = 1 /\ deferred = <<>> /\ result = "none"
  /\ signalled = FALSE /\ listener = "off" /\ pool = "none"
  /\ isAdmin \in BOOLEAN
  /\ at = [w \in Workers |-> "idle"] /\ holds = {}
  /\ route = [r \in Clients |-> "open"]
  /\ wasAdmin = [r \in Clients |-> FALSE] /\ refused = {}

(***************************************************************************)
(* The main goroutine.                                                     *)
(***************************************************************************)
Return(value) == stage' = "returning" /\ result' = value /\ UNCHANGED <<next, deferred>>

SetUp ==
  LET s == Steps[next]
  IN  /\ stage = "setup"
      /\ s \in NeedsSignalContext => ~signalled
      /\ next' = next + 1
      /\ deferred' = IF s \in Defers THEN <<s>> \o deferred ELSE deferred
      /\ stage' = IF s = "serve" THEN "serving" ELSE stage
      /\ pool' = IF s = "pool" THEN "open" ELSE pool
      /\ listener' = IF s = "serve" THEN "starting" ELSE listener
      /\ \/ s = "notifier" /\ at' = [at EXCEPT ![Notifier] = "waiting"]
         \/ UNCHANGED at   \* also a notifier without a bot token
      /\ UNCHANGED <<result, signalled, isAdmin, holds, requests, wasAdmin>>

SetUpFails ==
  /\ stage = "setup" /\ Steps[next] \in CanFail
  /\ Return("error")
  /\ UNCHANGED <<signalled, listener, pool, isAdmin, at, holds, requests, wasAdmin>>

\* The select of run().
ServeFailed ==
  /\ stage = "serving" /\ listener \in {"failed", "broken"}
  /\ Return("error")
  /\ UNCHANGED <<signalled, listener, pool, isAdmin, at, holds, requests, wasAdmin>>

\* Shutdown closes the listener, if there is one by now, and waits for the connections
\* with a request, or that may still bring their first one ...
Shutdown ==
  /\ stage = "serving" /\ signalled
  /\ stage' = "draining"
  /\ listener' = IF listener \in {"on", "broken"} THEN "closing" ELSE "closed"
  /\ UNCHANGED <<next, deferred, result, signalled, pool, isAdmin, at, holds, requests, wasAdmin>>

\* Mutant of Drained: Shutdown is called and not waited for.
DrainedAtOnce ==
  /\ stage = "draining"
  /\ Return("nil")
  /\ listener' = "closed"
  /\ UNCHANGED <<signalled, pool, isAdmin, at, holds, requests, wasAdmin>>

Drained ==
  /\ stage = "draining" /\ \A r \in Clients : ~InFlight(r)
  /\ Return("nil")
  /\ listener' = "closed"
  /\ UNCHANGED <<signalled, pool, isAdmin, at, holds, requests, wasAdmin>>

\* Mutant of DrainTimeout: Shutdown is given a context without a deadline.
NoDrainTimeout == FALSE /\ UNCHANGED vars

\* ... for shutdownTimeout: then it returns, and leaves them running.
DrainTimeout ==
  /\ stage = "draining" /\ \E r \in Clients : InFlight(r)
  /\ Return("error")
  /\ UNCHANGED <<signalled, listener, pool, isAdmin, at, holds, requests, wasAdmin>>

\* pool.Close refuses new calls and blocks until the connections are back.
BeginClose ==
  /\ stage = "returning" /\ deferred # <<>> /\ Head(deferred) = "pool" /\ pool = "open"
  /\ pool' = "closing"
  /\ UNCHANGED <<main, signalled, listener, isAdmin, at, holds, requests, wasAdmin>>

\* Mutant of PoolClosed: the process does not wait for the connections.
PoolClosedAtOnce == pool = "closing"

PoolClosed == pool = "closing" /\ holds = {}

\* A deferred call returns: closeLogger has a deadline, the others do not block.
RunDeferred ==
  /\ stage = "returning" /\ deferred # <<>>
  /\ Head(deferred) = "pool" => PoolClosed
  /\ pool' = IF Head(deferred) = "pool" THEN "closed" ELSE pool
  /\ deferred' = Tail(deferred)
  /\ UNCHANGED <<stage, next, result, signalled, listener, isAdmin, at, holds, requests, wasAdmin>>

\* RunApp returns or calls os.Exit: every goroutine ends with the process.
Exit ==
  /\ stage = "returning" /\ deferred = <<>>
  /\ stage' = "exited"
  /\ UNCHANGED <<next, deferred, result, signalled, listener, pool>>
  /\ UNCHANGED <<isAdmin, at, holds, requests, wasAdmin>>

Main ==
  \/ SetUp \/ SetUpFails \/ ServeFailed \/ Shutdown \/ Drained \/ DrainTimeout
  \/ BeginClose \/ RunDeferred \/ Exit

(***************************************************************************)
(* The environment: signals, the listener, the table of users.             *)
(***************************************************************************)
Has(s) == \E i \in DOMAIN deferred : deferred[i] = s

\* The first signal cancels ctx; later ones are swallowed until stop() has run.
Signal ==
  /\ Running /\ Has("signals") /\ ~signalled
  /\ signalled' = TRUE
  /\ UNCHANGED <<main, listener, pool, isAdmin, at, holds, requests, wasAdmin>>

\* The container is started again: after an exit, a crash, a SIGKILL, or a signal when
\* NotifyContext is not or no longer in place.
Restart ==
  /\ stage' = "setup" /\ next' = 1 /\ deferred' = <<>> /\ result' = "none"
  /\ signalled' = FALSE /\ listener' = "off" /\ pool' = "none"
  /\ at' = [w \in Workers |-> "idle"] /\ holds' = {}
  /\ route' = [r \in Clients |-> "open"]
  /\ wasAdmin' = [r \in Clients |-> FALSE] /\ refused' = {}
  /\ UNCHANGED isAdmin

\* The goroutine of ListenAndServe, which may run only after Shutdown was called.
Listen ==
  /\ Running /\ listener = "starting"
  /\ listener' = "on"
  /\ UNCHANGED <<main, signalled, pool, isAdmin, at, holds, requests, wasAdmin>>

ListenFails ==
  /\ Running /\ listener \in {"starting", "on"}
  /\ listener' = IF listener = "on" THEN "broken" ELSE "failed"
  /\ UNCHANGED <<main, signalled, pool, isAdmin, at, holds, requests, wasAdmin>>

\* Roles are changed in the database: the program has no route for it.
SetRole ==
  /\ Running
  /\ isAdmin' = ~isAdmin
  /\ wasAdmin' = [r \in Clients |-> wasAdmin[r] \/ (isAdmin' /\ route[r] = "admin")]
  /\ UNCHANGED <<main, signalled, listener, pool, at, holds, requests>>

(***************************************************************************)
(* Clients and the notifier.                                               *)
(***************************************************************************)
\* A connection outlives the listener, also when Shutdown has not waited for it.
Arrive(r) ==
  /\ Running /\ listener \in {"on", "broken", "closing"} /\ at[r] = "idle"
  /\ \E class \in {"open", "user", "admin"} :
       /\ route' = [route EXCEPT ![r] = class]
       /\ at' = [at EXCEPT ![r] = IF class = "open" THEN "reading" ELSE "session"]
       /\ wasAdmin' = [wasAdmin EXCEPT ![r] = class = "admin" /\ isAdmin]
  /\ UNCHANGED <<main, signalled, listener, pool, isAdmin, holds, refused>>

\* The handler has read the request: some answer without a query.
RequestRead(r) ==
  /\ Running /\ at[r] = "reading"
  /\ \E s \in {"query", "writing"} : at' = [at EXCEPT ![r] = s]
  /\ UNCHANGED <<main, signalled, listener, pool, isAdmin, holds, requests, wasAdmin>>

\* The client has the answer.
AnswerWritten(r) ==
  /\ Running /\ at[r] = "writing"
  /\ at' = [at EXCEPT ![r] = "idle"]
  /\ route' = [route EXCEPT ![r] = "open"]
  /\ wasAdmin' = [wasAdmin EXCEPT ![r] = FALSE]
  /\ UNCHANGED <<main, signalled, listener, pool, isAdmin, holds, refused>>

\* Sessions are looked up, and login and the routes of the auth library served,
\* through authDB, which is closed before its pool.
UsesAuthDB(w) == at[w] = "session" \/ (w \in Clients /\ route[w] = "open")
Usable(w) == pool = "open" /\ (UsesAuthDB(w) => Has("auth"))

Acquire(w) ==
  /\ Running /\ at[w] \in Querying /\ w \notin holds
  /\ Usable(w) /\ Cardinality(holds) < MaxConns
  /\ holds' = holds \cup {w}
  /\ UNCHANGED <<main, signalled, listener, pool, isAdmin, at, requests, wasAdmin>>

Answer(r) == at' = [at EXCEPT ![r] = "writing"]

\* 503 from RequireAuth, 500 from RequireAdmin and the handlers.
Refuse(r) ==
  /\ Running /\ at[r] \in Querying /\ r \notin holds /\ ~Usable(r)
  /\ Answer(r)
  /\ refused' = refused \cup {r}
  /\ UNCHANGED <<main, signalled, listener, pool, isAdmin, holds, route, wasAdmin>>

Release(w) == holds' = holds \ {w}

Advance(r) ==
  at' = [at EXCEPT ![r] = IF at[r] = "session" /\ route[r] = "admin" THEN "role" ELSE "reading"]

\* Mutant of SessionRead: the connection is kept for the role's query, and its
\* own is one more.
SessionReadKept(r) ==
  /\ Running /\ r \in holds /\ at[r] = "session"
  /\ route[r] = "admin" => Cardinality(holds) < MaxConns
  /\ Release(r)
  /\ Advance(r) \/ Answer(r)
  /\ UNCHANGED <<main, signalled, listener, pool, isAdmin, requests, wasAdmin>>

\* RequireAuth: the session is unknown, expired, or names the caller.
SessionRead(r) ==
  /\ Running /\ r \in holds /\ at[r] = "session"
  /\ Release(r)
  /\ Advance(r) \/ Answer(r)
  /\ UNCHANGED <<main, signalled, listener, pool, isAdmin, requests, wasAdmin>>

\* Mutant of RoleRead: a query that failed lets the request pass.
RoleReadOrPass(r) ==
  /\ Running /\ r \in holds /\ at[r] = "role"
  /\ Release(r)
  /\ Advance(r) \/ Answer(r)
  /\ UNCHANGED <<main, signalled, listener, pool, isAdmin, requests, wasAdmin>>

\* RequireAdmin: 401 without a row, 403 for a user, 500 when the query failed.
RoleRead(r) ==
  /\ Running /\ r \in holds /\ at[r] = "role"
  /\ Release(r)
  /\ (isAdmin /\ Advance(r)) \/ Answer(r)
  /\ UNCHANGED <<main, signalled, listener, pool, isAdmin, requests, wasAdmin>>

\* A statement or a transaction of the handler ends, well or not.
QueryDone(r) ==
  /\ Running /\ r \in holds /\ at[r] = "query"
  /\ Release(r)
  /\ UNCHANGED at \/ Answer(r)   \* the next query, or the answer
  /\ UNCHANGED <<main, signalled, listener, pool, isAdmin, requests, wasAdmin>>

\* A round of the notifier needs its list; ctx ends its wait and its query.
NotifierStep ==
  /\ Running
  /\ \/ /\ at[Notifier] = "waiting" /\ ~signalled /\ at' = [at EXCEPT ![Notifier] = "query"]
        /\ UNCHANGED holds
     \/ /\ at[Notifier] = "query" /\ (Notifier \in holds \/ ~Usable(Notifier))
        /\ at' = [at EXCEPT ![Notifier] = "waiting"] /\ Release(Notifier)
     \/ /\ at[Notifier] \in {"waiting", "query"} /\ signalled
        /\ at' = [at EXCEPT ![Notifier] = "idle"] /\ Release(Notifier)
  /\ UNCHANGED <<main, signalled, listener, pool, isAdmin, requests, wasAdmin>>

Ends(r) == SessionRead(r) \/ RoleRead(r) \/ QueryDone(r) \/ Refuse(r)

Next ==
  \/ Main \/ Signal \/ Restart \/ Listen \/ ListenFails \/ SetRole \/ NotifierStep
  \/ \E r \in Clients : Arrive(r) \/ RequestRead(r) \/ AnswerWritten(r) \/ Ends(r)
  \/ \E w \in Workers : Acquire(w)

Spec == Init /\ [][Next]_vars

(***************************************************************************)
(* The main goroutine runs, a connection's query ends, and a goroutine     *)
(* that waits for a connection gets one when they keep coming back (the    *)
(* pool's waiters queue).  Nothing is assumed of clients: the server sets  *)
(* no read or write timeout.                                               *)
(***************************************************************************)
FairSpec ==
  /\ Spec /\ WF_vars(Main) /\ WF_vars(NotifierStep)
  /\ \A r \in Clients : WF_vars(Ends(r))
  /\ \A w \in Workers : SF_vars(Acquire(w))

(***************************************************************************)
(* Properties.                                                             *)
(***************************************************************************)
TypeOK ==
  /\ stage \in {"setup", "serving", "draining", "returning", "exited"}
  /\ next \in 1 .. Len(Steps) + 1 /\ deferred \in Seq(Defers)
  /\ result \in {"none", "nil", "error"}
  /\ signalled \in BOOLEAN
  /\ listener \in {"off", "starting", "on", "failed", "broken", "closing", "closed"}
  /\ pool \in {"none", "open", "closing", "closed"}
  /\ isAdmin \in BOOLEAN
  /\ at \in [Workers -> {"idle", "waiting", "reading", "writing"} \cup Querying]
  /\ holds \subseteq Workers
  /\ route \in [Clients -> {"open", "user", "admin"}]
  /\ wasAdmin \in [Clients -> BOOLEAN]
  /\ refused \subseteq Clients

\* However run() returns (a signal, a shutdown that ran out of time, a failed
\* listener, a failed setup), the process ends with no transaction open: pool.Close
\* runs after everything that can still use the pool and waits for it.
ExitCutsNoTransaction ==
  stage = "exited" => holds = {}

\* When run() returns nil every request that came was handled to its end, and none
\* was refused by a pool that was closed under it: the pool outlives the server.
GracefulExitSparesRequests ==
  result = "nil" => refused = {} /\ \A r \in Clients : ~InFlight(r)

\* What an administrator's route does is done for someone who was an administrator
\* at some moment since the request came, however roles change meanwhile.
AdminActsAsAdmin ==
  \A r \in Clients : route[r] = "admin" /\ at[r] \in {"reading", "query"} => wasAdmin[r]

\* A signal ends the process, whatever the clients do: no request that hangs on its
\* client, no notifier and no connection that is out keeps it for ever.
SignalEndsProcess == signalled ~> (stage = "exited" \/ ~signalled)

\* Whoever needs a connection gets one or is refused: goroutines that wait for the
\* pool do not wait for each other, however small the pool is.
WaitersServed ==
  \A r \in Clients :
    at[r] \in Querying /\ r \notin holds ~> ~Running \/ r \in holds \/ at[r] \notin Querying
=============================================================================
