------------------------------- MODULE ApiServer -------------------------------
(***************************************************************************)
(* The API process: server.ts, the routes and their middleware, and the    *)
(* tenant's webhook settings (tenant.service.ts).  A request passes rate   *)
(* limit, authentication, role and validation, and then its service runs:  *)
(* transactions on pooled connections (TenantContext) and calls to storage *)
(* or a queue, one after the other.  The client may hang up meanwhile; the *)
(* service runs on.  A signal drains the process.                          *)
(*                                                                         *)
(* Node's HTTP server and pg's pool are modelled by what server.ts relies  *)
(* on.  What the services do to documents is in the pipeline's modules; of *)
(* it, here are the transactions it takes.  Status codes are left out.     *)
(***************************************************************************)
EXTENDS Naturals, Sequences, TenantContext

CONSTANTS
  Users,      \* who holds a valid access token: tenant and role
  Nobody,     \* who does not
  Ops,        \* the routes used
  Faults      \* "store": a statement, or closing a subsystem, fails

Roles == {"admin", "reviewer", "viewer"}
Reviewing == {"admin", "reviewer"}

\* The roles a route is for, and what its service awaits, in order.
Route(roles, steps) == [roles |-> roles, steps |-> steps]
DocumentRoutes == [
  upload    |-> Route(Roles, <<"tx", "call", "tx", "tx", "call">>),
  list      |-> Route(Roles, <<"tx">>),
  get       |-> Route(Roles, <<"tx", "tx">>),
  file      |-> Route(Roles, <<"tx", "call">>),
  decide    |-> Route(Reviewing, <<"tx", "tx", "call">>),
  edit      |-> Route(Reviewing, <<"tx">>),
  reprocess |-> Route(Reviewing, <<"tx", "call">>)]
TenantRoutes == [
  configured |-> Route(Roles, <<"tx">>),
  update     |-> Route({"admin"}, <<"tx", "tx">>),
  rotate     |-> Route({"admin"}, <<"tx", "tx">>)]
Routes == [op \in DOMAIN DocumentRoutes \cup DOMAIN TenantRoutes |->
             IF op \in DOMAIN TenantRoutes THEN TenantRoutes[op] ELSE DocumentRoutes[op]]

ASSUME ApiAssumption ==
  /\ Users \subseteq [tenant : Tenants, role : Roles] /\ Nobody \notin Users
  /\ Ops \subseteq DOMAIN Routes
  /\ Faults \subseteq {"store"}

VARIABLES
  server,     \* what the process does, or the code it has exited with
  signals,    \* how many it has received
  socket,     \* a client's connection: closed, idle, or with a request on it
  request,    \* what the service of a connection is at
  config,     \* what is set of a tenant's webhookUrl and webhookSecret
  overtaken   \* history: the tenants whose URL was last cleared while a
              \* rotation that had seen it was under way

process == <<server, signals>>
settings == <<config, overtaken>>
apiVars == <<vars, process, socket, request, settings>>

NoRequest == [at |-> 0]
RequestRecords == {NoRequest} \cup
  [at : Nat, op : Ops, user : Users \cup {Nobody}, result : {"none", "go", "stop"}]

\* Every variable stays in its range.
ApiTypeOK ==
  /\ TypeOK
  /\ server \in {"up", "draining", "closing", "exit 0", "exit 1"}
  /\ signals \in 0 .. 2
  /\ socket \in [Requests -> {"closed", "idle", "busy"}]
  /\ request \in [Requests -> RequestRecords]
  /\ config \in [Tenants -> SUBSET {"url", "secret"}]
  /\ overtaken \subseteq Tenants

ApiInit == /\ Init
           /\ server = "up" /\ signals = 0
           /\ socket = [r \in Requests |-> "closed"]
           /\ request = [r \in Requests |-> NoRequest]
           /\ config = [t \in Tenants |-> {}] /\ overtaken = {}

Running == server \in {"up", "draining", "closing"}
At(r) == request[r].at
Op(r) == request[r].op
Tenant(r) == request[r].user.tenant
Config(r) == config[Tenant(r)]
\* An upload that failed has a sixth step.
Awaits(r, step) ==
  At(r) # 0 /\ step = IF At(r) = 6 THEN "tx" ELSE Routes[Op(r)].steps[At(r)]

-----------------------------------------------------------------------------
(* Connections.  Until it is answered, a request has its client's connection*)
(* to itself; an idle one is kept open for a while, and reused.            *)

Connect(r) == /\ server = "up" /\ socket[r] = "closed" /\ request[r] = NoRequest
              /\ socket' = [socket EXCEPT ![r] = "idle"]
              /\ UNCHANGED <<vars, process, request, settings>>

Send(r, op, user) ==
  /\ Running /\ socket[r] = "idle" /\ request[r] = NoRequest
  /\ socket' = [socket EXCEPT ![r] = "busy"]
  /\ request' = [request EXCEPT ![r] = [at |-> 0, op |-> op, user |-> user,
                                        result |-> "none"]]
  /\ UNCHANGED <<vars, process, settings>>

\* The client hangs up, or an idle connection has timed out.
HangUp(r) == /\ Running /\ socket[r] # "closed"
             /\ socket' = [socket EXCEPT ![r] = "closed"]
             /\ UNCHANGED <<vars, process, request, settings>>

\* The service of r is at another step, or has the result of a statement.
Goes(r, at, result) ==
  request' = [request EXCEPT ![r] = [at |-> at, op |-> Op(r), user |-> request[r].user,
                                     result |-> result]]
Answer(r) == /\ request' = [request EXCEPT ![r] = NoRequest]
             /\ socket' = [socket EXCEPT ![r] = IF @ = "busy" THEN "idle" ELSE @]

-----------------------------------------------------------------------------
(* Middleware and services.                                                *)

Arrived(r) == Running /\ request[r] # NoRequest /\ At(r) = 0

\* 429, 401, 400 or 403: the rate limit, a missing token, a bad file, a role
\* that is not enough, a body or parameter that does not validate.
Refuse(r) == /\ Arrived(r) /\ Answer(r)
             /\ UNCHANGED <<vars, process, settings>>

\* requireAuth and requireRole.
Authenticated(r) == request[r].user # Nobody
\* (Mutant: the route does not ask for the role.)
HasRole_Any(r) == TRUE
HasRole(r) == request[r].user.role \in Routes[Op(r)].roles

Admit(r) == /\ Arrived(r) /\ Authenticated(r) /\ HasRole(r)
            /\ Goes(r, 1, "none")
            /\ UNCHANGED <<vars, process, socket, settings>>

\* The service goes on to its next step, or answers.
Advance(r) ==
  IF At(r) < Len(Routes[Op(r)].steps)
  THEN Goes(r, At(r) + 1, "none") /\ UNCHANGED socket
  ELSE Answer(r)

\* (Mutant: a route that does not pass its error on.)
Fail_Unhandled(r) == Goes(r, At(r), "stop") /\ UNCHANGED socket
\* An error goes to the error handler, which answers; an upload marks its
\* document as failed first, in a transaction of its own.
Fail(r) == IF Op(r) = "upload" /\ At(r) \in 2 .. 5
           THEN Goes(r, 6, "none") /\ UNCHANGED socket
           ELSE Answer(r)

BeginTx(r) == /\ server \in {"up", "draining"}
              /\ Awaits(r, "tx") /\ request[r].result = "none"
              /\ \E c \in Connections : Begin(r, Tenant(r), c)
              /\ UNCHANGED <<process, socket, request, settings>>

\* connect() rejects: after 5 seconds, or because the pool has been ended.
NoConnection(r) == /\ Running /\ (server = "closing" \/ Connections \subseteq InUse)
                   /\ Awaits(r, "tx") /\ tx[r] = Idle /\ request[r].result = "none"
                   /\ Fail(r)
                   /\ UNCHANGED <<vars, process, settings>>

Scope(r) == Running /\ SetContext(r) /\ UNCHANGED <<process, socket, request, settings>>

\* Whether the service goes on after its statement: a rotation and the
\* webhook of a decision need a URL; a document may not exist, or have
\* another status, and the last transaction of the rest only reads or logs.
Results(r) ==
  IF \/ Op(r) = "rotate" /\ At(r) = 1
     \/ Op(r) = "decide" /\ At(r) = 2
  THEN IF "url" \in Config(r) THEN {"go"} ELSE {"stop"}
  ELSE IF Op(r) \in {"get", "file", "decide", "edit", "reprocess"} /\ At(r) = 1
       THEN {"go", "stop"} ELSE {"go"}
Statement(r) == /\ Running /\ tx[r].pc = "scoped" /\ request[r].result = "none"
                /\ \E result \in Results(r) : Goes(r, At(r), result)
                /\ UNCHANGED <<vars, process, socket, settings>>

\* (Mutant: clearing the URL keeps the secret.)
Settings_Kept(r) ==
  IF Op(r) = "update" /\ At(r) = 1
  THEN {Config(r), Config(r) \cup {"url"}, Config(r) \ {"url"}}
  ELSE {IF Op(r) = "rotate" /\ At(r) = 2 THEN Config(r) \cup {"secret"} ELSE Config(r)}
\* What a commit makes of the tenant's settings.  An update may set the URL,
\* or clear it, and the secret with it; a rotation sets a new secret.
Settings(r) ==
  IF Op(r) = "update" /\ At(r) = 1
  THEN {Config(r), Config(r) \cup {"url"}, {}}
  ELSE {IF Op(r) = "rotate" /\ At(r) = 2 THEN Config(r) \cup {"secret"} ELSE Config(r)}
\* A rotation has seen the URL and not set its secret yet.
Rotating(t) ==
  \E r \in Requests :
    /\ At(r) # 0 /\ Op(r) = "rotate" /\ Tenant(r) = t
    /\ At(r) = 2 \/ request[r].result = "go"
Commit(r) == /\ Running /\ tx[r].pc = "scoped" /\ request[r].result = "go"
             /\ EndTx(r)
             /\ \E new \in Settings(r) :
                  /\ config' = [config EXCEPT ![Tenant(r)] = new]
                  /\ overtaken' =
                       IF "url" \in new \/ (new = {} /\ ~ Rotating(Tenant(r)))
                       THEN overtaken \ {Tenant(r)}
                       ELSE IF new = {} THEN overtaken \cup {Tenant(r)} ELSE overtaken
             /\ Advance(r)
             /\ UNCHANGED process

\* The service stops, or a statement fails.
Rollback(r) == /\ Running /\ tx[r] # Idle
               /\ request[r].result = "stop" \/ "store" \in Faults
               /\ EndTx(r) /\ Fail(r)
               /\ UNCHANGED <<process, settings>>

\* Storage or a queue: done, or failed.
Call(r) == /\ Running /\ Awaits(r, "call") /\ (Advance(r) \/ Fail(r))
           /\ UNCHANGED <<vars, process, settings>>

-----------------------------------------------------------------------------
(* server.ts: the end of the process.                                      *)

\* httpServer.close: no new connections, and idle ones are closed.
Signal == /\ Running /\ signals < 2
          /\ signals' = signals + 1
          /\ server' = IF server = "up" THEN "draining" ELSE server
          /\ socket' = [r \in Requests |->
                          IF socket[r] = "idle" THEN "closed" ELSE socket[r]]
          /\ UNCHANGED <<vars, request, settings>>

\* All connections are closed: now pool, Redis client and queues are.
Drained == /\ server = "draining" /\ \A r \in Requests : socket[r] = "closed"
           /\ server' = "closing"
           /\ UNCHANGED <<vars, signals, socket, request, settings>>

Exit(code) == /\ server' = code
              /\ socket' = [r \in Requests |-> "closed"]
              /\ request' = [r \in Requests |-> NoRequest]
              /\ UNCHANGED <<vars, signals, settings>>
\* pool.end waits for the connections that are in use.
Finish == server = "closing" /\ signals = 1 /\ InUse = {} /\ Exit("exit 0")
\* Closing fails: certainly when a second signal makes it happen twice.
Break == /\ server = "closing" /\ (signals = 2 \/ "store" \in Faults)
         /\ Exit("exit 1")
\* (Mutant: there is no timer.)
Timeout_None == FALSE /\ UNCHANGED apiVars
\* The timer of 10 seconds.
Timeout == server \in {"draining", "closing"} /\ Exit("exit 1")

\* Postgres rolls back what a process that has exited left open.
Lost(r) == /\ ~ Running /\ EndTx(r)
           /\ UNCHANGED <<process, socket, request, settings>>

-----------------------------------------------------------------------------
Progress(r) == \/ Refuse(r) \/ Admit(r) \/ BeginTx(r) \/ NoConnection(r) \/ Scope(r)
               \/ Statement(r) \/ Commit(r) \/ Rollback(r) \/ Call(r)

ApiNext == \/ \E r \in Requests :
                \/ Connect(r) \/ HangUp(r) \/ Progress(r) \/ Lost(r)
                \/ \E op \in Ops, user \in Users \cup {Nobody} : Send(r, op, user)
           \/ Signal \/ Drained \/ Finish \/ Break \/ Timeout

ApiSpec == ApiInit /\ [][ApiNext]_apiVars

\* What a service awaits settles, and the timer goes off.  Clients need not
\* do anything, nor stop.
ApiFairSpec == /\ ApiSpec /\ WF_apiVars(Timeout)
               /\ \A r \in Requests : WF_apiVars(Progress(r))

-----------------------------------------------------------------------------
\* Whatever transaction runs on whatever connection, and however the request
\* got there: it is of a user whose role may do this, on rows of the user's
\* own tenant.
ChangesAreAuthorised ==
  \A r \in Requests :
    Running /\ tx[r].pc = "scoped" =>
      /\ request[r].user.role \in Routes[Op(r)].roles
      /\ setting[tx[r].conn] = Tenant(r)

\* "An orphaned secret with no URL to sign for is just dead sensitive data":
\* there is none, unless the URL was cleared between the two transactions of
\* a rotation.
NoOrphanSecret ==
  \A t \in Tenants :
    "secret" \in config[t] /\ "url" \notin config[t] => t \in overtaken

\* A process that is told to stop does, whatever its clients do meanwhile,
\* and however often they send another request on a connection they keep.
StopsInTime == signals > 0 ~> ~ Running

\* Every request comes to an end, also when the pool is exhausted or has
\* been ended, and when something fails.
RequestsEnd ==
  \A r \in Requests : request[r] # NoRequest ~> request[r] = NoRequest
=============================================================================
