---------------------------- MODULE ApiServer_proofs ----------------------------
(***************************************************************************)
(* Theorems about ApiServer, for any tenants, users, clients, connections  *)
(* and routes in use, and whatever fails.                                  *)
(***************************************************************************)
EXTENDS ApiServer, TenantContext_proofs

USE ApiAssumption

\* A request past the middleware is at one of the steps of its route, which
\* is one for its user's role.
OnRoute(q) == \/ q.at \in 1 .. Len(Routes[q.op].steps)
              \/ q.op = "upload" /\ q.at = 6
Admitted(q) == q.at # 0 => /\ q # NoRequest /\ q.user \in Users /\ OnRoute(q)
                           /\ q.user.role \in Routes[q.op].roles

\* A transaction is one of the step its request is at, for its own tenant.
Owned(r) == tx[r] # Idle => /\ At(r) # 0 /\ Awaits(r, "tx")
                            /\ tx[r].tenant = Tenant(r)

\* A rotation that goes on has seen a URL; if there is none, it was cleared.
GoesOn(r) ==
  At(r) # 0 /\ Op(r) = "rotate" /\ (At(r) = 2 \/ request[r].result = "go")
SeenUrl(r) ==
  GoesOn(r) => "url" \in Config(r) \/ Tenant(r) \in overtaken

\* The inductive invariant, on top of that of TenantContext.
ApiIInv == /\ IInv /\ ApiTypeOK /\ NoOrphanSecret
           /\ \A r \in Requests : Admitted(request[r]) /\ SeenUrl(r)
           /\ Running => \A r \in Requests : Owned(r)

\* The kinds of records a request can be.
LEMMA RequestCases ==
  ASSUME NEW q \in RequestRecords
  PROVE  \/ q = NoRequest /\ q.at = 0
         \/ /\ q # NoRequest /\ q.at \in Nat /\ q.op \in Ops
            /\ q.user \in Users \cup {Nobody} /\ q.result \in {"none", "go", "stop"}
            /\ q = [at |-> q.at, op |-> q.op, user |-> q.user, result |-> q.result]
<1> DEFINE Full == [at : Nat, op : Ops, user : Users \cup {Nobody},
                    result : {"none", "go", "stop"}]
<1>1. CASE q = NoRequest
  BY <1>1 DEF NoRequest
<1>2. CASE q \in Full
  <2>1. /\ q.at \in Nat /\ q.op \in Ops /\ q.user \in Users \cup {Nobody}
        /\ q.result \in {"none", "go", "stop"}
        /\ q = [at |-> q.at, op |-> q.op, user |-> q.user, result |-> q.result]
    BY <1>2
  <2>2. DOMAIN q = {"at", "op", "user", "result"} /\ DOMAIN NoRequest = {"at"}
    BY <1>2 DEF NoRequest
  <2>3. q # NoRequest
    BY <2>2
  <2> QED BY <2>1, <2>3
<1> QED BY <1>1, <1>2 DEF RequestRecords

LEMMA ApiInitIInv == ApiInit => ApiIInv
<1> SUFFICES ASSUME ApiInit PROVE ApiIInv
  OBVIOUS
<1>1. \A r \in Requests : request[r] = NoRequest /\ At(r) = 0 /\ tx[r] = Idle
  BY DEF ApiInit, Init, NoRequest, At
<1>2. ApiTypeOK
  BY DEF ApiInit, Init, ApiTypeOK, TypeOK, Transactions, RequestRecords
<1>3. NoOrphanSecret
  BY DEF ApiInit, NoOrphanSecret
<1>5. IInv
  BY InitIInv DEF ApiInit
<1>4. \A r \in Requests : Admitted(request[r]) /\ SeenUrl(r) /\ Owned(r)
  BY <1>1 DEF Admitted, NoRequest, SeenUrl, GoesOn, Owned
<1> QED BY <1>2, <1>3, <1>4, <1>5 DEF ApiIInv

-----------------------------------------------------------------------------
\* What the API does with connections is what TenantContext allows.
LEMMA ContextStep ==
  ASSUME ApiIInv, [ApiNext]_apiVars
  PROVE  [Next]_vars
<1>1. CASE UNCHANGED apiVars
  BY <1>1 DEF apiVars
<1>2. ASSUME NEW r \in Requests, BeginTx(r) PROVE Next
  <2>1. request[r].user \in Users
    BY <1>2 DEF ApiIInv, Admitted, BeginTx, Awaits, At
  <2>2. Tenant(r) \in Tenants
    BY <2>1 DEF Tenant
  <2> QED BY <1>2, <2>2 DEF BeginTx, Next
<1>3. ASSUME NEW r \in Requests, Scope(r) PROVE Next
  BY <1>3 DEF Scope, Next
<1>4. ASSUME NEW r \in Requests, Commit(r) \/ Rollback(r) \/ Lost(r) PROVE Next
  BY <1>4 DEF Commit, Rollback, Lost, Next
<1>5. ASSUME NEW r \in Requests,
             \/ Connect(r) \/ HangUp(r) \/ Refuse(r) \/ Admit(r)
             \/ NoConnection(r) \/ Statement(r) \/ Call(r)
             \/ \E op \in Ops, user \in Users \cup {Nobody} : Send(r, op, user)
      PROVE  UNCHANGED vars
  BY <1>5 DEF Connect, HangUp, Refuse, Admit, NoConnection, Statement, Call, Send
<1>6. CASE Signal \/ Drained \/ Finish \/ Break \/ Timeout
  BY <1>6 DEF Signal, Drained, Finish, Break, Timeout, Exit
<1> QED BY <1>1, <1>2, <1>3, <1>4, <1>5, <1>6 DEF ApiNext, Progress

\* What a step of a service makes of its request: q becomes p.
Follows(q, p) == \/ p = NoRequest
                 \/ /\ p # NoRequest /\ OnRoute(p) /\ p.result = "none"
                    /\ p.op = q.op /\ p.user = q.user

\* Every route takes a step.
LEMMA RouteLengths ==
  \A op \in DOMAIN Routes : Len(Routes[op].steps) \in Nat \ {0}
<1>1. /\ Len(<<"tx">>) = 1 /\ Len(<<"tx", "tx">>) = 2 /\ Len(<<"tx", "call">>) = 2
      /\ Len(<<"tx", "tx", "call">>) = 3
      /\ Len(<<"tx", "call", "tx", "tx", "call">>) = 5
  OBVIOUS
<1>2. \A op \in {"list", "edit", "configured"} : Routes[op].steps = <<"tx">>
  BY DEF Routes, DocumentRoutes, TenantRoutes, Route
<1>3. \A op \in {"get", "update", "rotate"} : Routes[op].steps = <<"tx", "tx">>
  BY DEF Routes, DocumentRoutes, TenantRoutes, Route
<1>4. /\ Routes["reprocess"].steps = <<"tx", "call">>
      /\ Routes["file"].steps = <<"tx", "call">>
      /\ Routes["decide"].steps = <<"tx", "tx", "call">>
      /\ Routes["upload"].steps = <<"tx", "call", "tx", "tx", "call">>
  BY DEF Routes, DocumentRoutes, TenantRoutes, Route
<1>5. DOMAIN Routes = {"list", "edit", "configured", "get", "update", "rotate",
                       "reprocess", "file", "decide", "upload"}
  BY DEF Routes, DocumentRoutes, TenantRoutes
<1> HIDE DEF Routes
<1>6. \A op \in DOMAIN Routes : Len(Routes[op].steps) \in {1, 2, 3, 5}
  <2> SUFFICES ASSUME NEW op \in DOMAIN Routes
               PROVE  Len(Routes[op].steps) \in {1, 2, 3, 5}
    OBVIOUS
  <2>1. CASE op \in {"list", "edit", "configured"}
    <3>1. Routes[op].steps = <<"tx">>
      BY <1>2, <2>1
    <3> QED BY <1>1, <3>1
  <2>2. CASE op \in {"get", "update", "rotate"}
    <3>1. Routes[op].steps = <<"tx", "tx">>
      BY <1>3, <2>2
    <3> QED BY <1>1, <3>1
  <2>3. CASE op \in {"reprocess", "file", "decide", "upload"}
    BY <1>1, <1>4, <2>3
  <2> QED BY <1>5, <2>1, <2>2, <2>3
<1>7. {1, 2, 3, 5} \subseteq Nat \ {0}
  OBVIOUS
<1> QED BY <1>6, <1>7, Zenon

\* A request at another step, or with a result, is a request.
LEMMA Moved ==
  ASSUME NEW q \in RequestRecords, q # NoRequest,
         NEW a \in Nat, NEW x \in {"none", "go", "stop"}, NEW p,
         p = [at |-> a, op |-> q.op, user |-> q.user, result |-> x]
  PROVE  /\ p \in RequestRecords /\ p # NoRequest
         /\ p.at = a /\ p.result = x /\ p.op = q.op /\ p.user = q.user
<1>1. p \in [at : Nat, op : Ops, user : Users \cup {Nobody},
             result : {"none", "go", "stop"}]
  BY RequestCases
<1>2. p # NoRequest
  <2>1. DOMAIN p = {"at", "op", "user", "result"} /\ DOMAIN NoRequest = {"at"}
    BY DEF NoRequest
  <2> QED BY <2>1
<1> QED BY <1>1, <1>2 DEF RequestRecords

\* A service goes on, fails or answers.
LEMMA ServiceEffect ==
  ASSUME ApiIInv, NEW r \in Requests, At(r) # 0, Advance(r) \/ Fail(r)
  PROVE  /\ \E q \in RequestRecords :
              /\ request' = [request EXCEPT ![r] = q]
              /\ Follows(request[r], q)
              /\ q # NoRequest => Op(r) = "upload" \/ Advance(r)
         /\ socket' \in [Requests -> {"closed", "idle", "busy"}]
<1>1. /\ request[r] \in RequestRecords /\ request \in [Requests -> RequestRecords]
      /\ socket \in [Requests -> {"closed", "idle", "busy"}]
  BY DEF ApiIInv, ApiTypeOK
<1>2. request[r] # NoRequest /\ At(r) \in Nat
  BY <1>1, RequestCases DEF At
<1>3. CASE Answer(r)
  <2>1. NoRequest \in RequestRecords /\ Follows(request[r], NoRequest)
    BY DEF RequestRecords, Follows
  <2> QED BY <1>1, <1>3, <2>1 DEF Answer
<1>4. ASSUME NEW a \in Nat, Goes(r, a, "none"), socket' = socket,
             \/ a \in 1 .. Len(Routes[Op(r)].steps) /\ Advance(r)
             \/ Op(r) = "upload" /\ a = 6
      PROVE  \E q \in RequestRecords :
              /\ request' = [request EXCEPT ![r] = q]
              /\ Follows(request[r], q)
              /\ q # NoRequest => Op(r) = "upload" \/ Advance(r)
  <2> DEFINE q == [at |-> a, op |-> request[r].op, user |-> request[r].user,
                   result |-> "none"]
  <2>1. /\ q \in RequestRecords /\ q # NoRequest /\ q.at = a /\ q.result = "none"
        /\ q.op = request[r].op /\ q.user = request[r].user
    <3>1. "none" \in {"none", "go", "stop"}
      OBVIOUS
    <3>2. q = [at |-> a, op |-> request[r].op, user |-> request[r].user,
               result |-> "none"]
      OBVIOUS
    <3> HIDE DEF q
    <3> QED BY <1>1, <1>2, <3>1, <3>2, Moved
  <2>2. request' = [request EXCEPT ![r] = q]
    BY <1>4 DEF Goes, Op
  <2> HIDE DEF q
  <2>3. Follows(request[r], q)
    BY <1>4, <2>1 DEF Follows, OnRoute, Op
  <2> QED BY <1>4, <2>1, <2>2, <2>3
<1>5. CASE Advance(r) /\ ~ Answer(r)
  <2>2. Len(Routes[Op(r)].steps) \in Nat
    <3>1. Op(r) \in DOMAIN Routes
      BY <1>1, <1>2, RequestCases DEF Op
    <3> QED BY <3>1, RouteLengths
  <2>3. /\ At(r) < Len(Routes[Op(r)].steps) /\ Goes(r, At(r) + 1, "none")
        /\ socket' = socket
    BY <1>5 DEF Advance
  <2>4. At(r) + 1 \in 1 .. Len(Routes[Op(r)].steps)
    BY <1>2, <2>2, <2>3
  <2>5. At(r) + 1 \in Nat
    BY <1>2
  <2> HIDE DEF Routes
  <2> QED BY <1>1, <1>4, <1>5, <2>3, <2>4, <2>5
<1>6. CASE Fail(r) /\ ~ Answer(r)
  BY <1>1, <1>4, <1>6 DEF Fail
<1> QED BY <1>3, <1>5, <1>6

\* Only an upload goes on after an error.
LEMMA FailEffect ==
  ASSUME ApiIInv, NEW r \in Requests, At(r) # 0, Fail(r)
  PROVE  \E q \in RequestRecords :
           /\ request' = [request EXCEPT ![r] = q] /\ Follows(request[r], q)
           /\ q # NoRequest => Op(r) # "rotate"
<1>1. CASE Op(r) = "upload"
  BY <1>1, ServiceEffect
<1>2. CASE Op(r) # "upload"
  <2>1. NoRequest \in RequestRecords /\ Follows(request[r], NoRequest)
    BY DEF RequestRecords, Follows
  <2> QED BY <1>2, <2>1 DEF Fail, Answer
<1> QED BY <1>1, <1>2

-----------------------------------------------------------------------------
SettingsOK ==
  /\ config \in [Tenants -> SUBSET {"url", "secret"}] /\ overtaken \subseteq Tenants
  /\ NoOrphanSecret
  /\ \A r \in Requests : SeenUrl(r)

\* A step that moves one request, and does not change the settings.
LEMMA SameSettings ==
  ASSUME ApiIInv, NEW r \in Requests, NEW q \in RequestRecords,
         request' = [request EXCEPT ![r] = q], UNCHANGED settings,
         q # request[r] =>
           \/ q.at = 0 \/ q.op # "rotate" \/ (q.at # 2 /\ q.result # "go")
           \/ "url" \in config[q.user.tenant] \/ q.user.tenant \in overtaken
  PROVE  SettingsOK'
<1>1. request \in [Requests -> RequestRecords] /\ SettingsOK
  BY DEF ApiIInv, ApiTypeOK, SettingsOK
<1>2. request'[r] = q /\ \A s \in Requests \ {r} : request'[s] = request[s]
  BY <1>1
<1>3. \A s \in Requests : SeenUrl(s)'
  <2> SUFFICES ASSUME NEW s \in Requests PROVE SeenUrl(s)'
    OBVIOUS
  <2>1. CASE request'[s] = request[s]
    BY <1>1, <2>1 DEF SettingsOK, SeenUrl, GoesOn, Config, At, Op, Tenant, settings
  <2>2. CASE request'[s] # request[s]
    BY <1>2, <2>2 DEF SeenUrl, GoesOn, Config, At, Op, Tenant, settings
  <2> QED BY <2>1, <2>2
<1> QED BY <1>1, <1>3 DEF SettingsOK, NoOrphanSecret, settings

\* A step of one request in a process that goes on.
LEMMA ServiceStep ==
  ASSUME ApiIInv, IInv', Running, NEW r \in Requests, NEW q \in RequestRecords,
         request' = [request EXCEPT ![r] = q], Admitted(q),
         \A s \in Requests \ {r} : tx'[s] = tx[s], Owned(r)',
         UNCHANGED process,
         socket' \in [Requests -> {"closed", "idle", "busy"}],
         SettingsOK'
  PROVE  ApiIInv'
<1>1. request \in [Requests -> RequestRecords]
  BY DEF ApiIInv, ApiTypeOK
<1>2. request'[r] = q /\ \A s \in Requests \ {r} : request'[s] = request[s]
  BY <1>1
<1>3. ApiTypeOK'
  BY <1>1 DEF ApiIInv, ApiTypeOK, IInv, SettingsOK, process
<1>5. \A s \in Requests : Admitted(request'[s])
  BY <1>2 DEF ApiIInv
<1>6. \A s \in Requests : Owned(s)'
  BY <1>2 DEF ApiIInv, Owned, Awaits, At, Op, Tenant
<1> QED BY <1>3, <1>5, <1>6 DEF ApiIInv, SettingsOK

\* Before a request is admitted it has no transaction.
LEMMA IdleFirst ==
  ASSUME ApiIInv, Running, NEW r \in Requests, At(r) = 0
  PROVE  tx[r] = Idle
BY DEF ApiIInv, Owned

\* Clients and the middleware.
LEMMA ClientKeeps ==
  ASSUME ApiIInv, IInv', NEW r \in Requests,
         \/ Connect(r) \/ HangUp(r)
         \/ \E op \in Ops, user \in Users \cup {Nobody} : Send(r, op, user)
  PROVE  ApiIInv'
<1>1. /\ request \in [Requests -> RequestRecords] /\ request[r] \in RequestRecords
      /\ socket \in [Requests -> {"closed", "idle", "busy"}]
  BY DEF ApiIInv, ApiTypeOK
<1>2. CASE Connect(r) \/ HangUp(r)
  <2>1. /\ Running /\ UNCHANGED <<vars, process, request, settings>>
        /\ socket' \in [Requests -> {"closed", "idle", "busy"}]
    BY <1>1, <1>2 DEF Connect, HangUp, Running
  <2>2. request' = [request EXCEPT ![r] = request[r]]
    BY <1>1, <2>1
  <2>3. SettingsOK'
    BY <1>1, <2>1, <2>2, SameSettings
  <2>4. Owned(r)' /\ Admitted(request[r]) /\ \A s \in Requests \ {r} : tx'[s] = tx[s]
    BY <2>1 DEF ApiIInv, Owned, Awaits, At, Op, Tenant, vars
  <2> QED BY <1>1, <2>1, <2>2, <2>3, <2>4, ServiceStep
<1>3. ASSUME NEW op \in Ops, NEW user \in Users \cup {Nobody}, Send(r, op, user)
      PROVE  ApiIInv'
  <2> DEFINE q == [at |-> 0, op |-> op, user |-> user, result |-> "none"]
  <2>1. /\ q \in RequestRecords /\ q.at = 0 /\ Admitted(q)
        /\ request' = [request EXCEPT ![r] = q]
    BY <1>3 DEF RequestRecords, Admitted, Send
  <2> HIDE DEF q
  <2>2. /\ Running /\ UNCHANGED <<vars, process, settings>>
        /\ socket' \in [Requests -> {"closed", "idle", "busy"}]
        /\ request[r] = NoRequest
    BY <1>1, <1>3 DEF Send
  <2>3. SettingsOK'
    BY <2>1, <2>2, SameSettings
  <2>4. tx[r] = Idle /\ tx' = tx
    BY <2>2, IdleFirst DEF At, NoRequest, vars
  <2>5. Owned(r)'
    BY <2>4 DEF Owned
  <2> QED BY <2>1, <2>2, <2>3, <2>4, <2>5, ServiceStep
<1> QED BY <1>2, <1>3

LEMMA RefuseKeeps ==
  ASSUME ApiIInv, IInv', NEW r \in Requests, Refuse(r)
  PROVE  ApiIInv'
<1>1. /\ request \in [Requests -> RequestRecords]
      /\ socket \in [Requests -> {"closed", "idle", "busy"}]
  BY DEF ApiIInv, ApiTypeOK
<1>2. NoRequest \in RequestRecords /\ NoRequest.at = 0 /\ Admitted(NoRequest)
  BY DEF RequestRecords, NoRequest, Admitted
<1>3. /\ Running /\ UNCHANGED <<vars, process, settings>> /\ At(r) = 0
      /\ request' = [request EXCEPT ![r] = NoRequest]
      /\ socket' \in [Requests -> {"closed", "idle", "busy"}]
  BY <1>1 DEF Refuse, Arrived, Answer
<1>4. SettingsOK'
  BY <1>2, <1>3, SameSettings
<1>5. tx' = tx /\ Owned(r)'
  BY <1>3, IdleFirst DEF Owned, vars
<1> QED BY <1>2, <1>3, <1>4, <1>5, ServiceStep

LEMMA AdmitKeeps ==
  ASSUME ApiIInv, IInv', NEW r \in Requests, Admit(r)
  PROVE  ApiIInv'
<1>1. /\ request \in [Requests -> RequestRecords] /\ request[r] \in RequestRecords
      /\ socket \in [Requests -> {"closed", "idle", "busy"}]
  BY DEF ApiIInv, ApiTypeOK
<1> DEFINE q == [at |-> 1, op |-> request[r].op, user |-> request[r].user,
                 result |-> "none"]
<1>2. /\ Running /\ UNCHANGED <<vars, process, socket, settings>> /\ At(r) = 0
      /\ request[r] # NoRequest /\ request[r].user # Nobody
      /\ request[r].user.role \in Routes[Op(r)].roles
      /\ request' = [request EXCEPT ![r] = q]
  BY DEF Admit, Authenticated, HasRole, Arrived, Goes, Op
<1>3. /\ q \in RequestRecords /\ q # NoRequest /\ q.at = 1 /\ q.result = "none"
      /\ q.op = request[r].op /\ q.user = request[r].user
  <2>1. "none" \in {"none", "go", "stop"} /\ 1 \in Nat
    OBVIOUS
  <2>2. q = [at |-> 1, op |-> request[r].op, user |-> request[r].user,
             result |-> "none"]
    OBVIOUS
  <2> HIDE DEF q
  <2> QED BY <1>1, <1>2, <2>1, <2>2, Moved
<1> HIDE DEF q
<1>4. q.op \in DOMAIN Routes /\ q.user \in Users
  BY <1>1, <1>2, <1>3, RequestCases
<1>5. OnRoute(q)
  <2>1. 1 \in 1 .. Len(Routes[q.op].steps)
    BY <1>4, RouteLengths
  <2> QED BY <1>3, <2>1 DEF OnRoute
<1>6. Admitted(q)
  BY <1>2, <1>3, <1>4, <1>5 DEF Admitted, Op
<1>7. SettingsOK'
  <2>1. q.at # 2 /\ q.result # "go"
    BY <1>3
  <2> QED BY <1>2, <1>3, <2>1, SameSettings
<1>8. tx' = tx /\ Owned(r)'
  BY <1>2, IdleFirst DEF Owned, vars
<1> QED BY <1>1, <1>2, <1>3, <1>6, <1>7, <1>8, ServiceStep

\* What a request that follows another one of a service satisfies.
LEMMA FollowsAdmitted ==
  ASSUME NEW q, NEW p, Admitted(q), q.at # 0, Follows(q, p)
  PROVE  Admitted(p)
BY DEF Admitted, Follows, NoRequest

\* A step that leaves the request without a transaction, the settings alone.
LEMMA EffectKeeps ==
  ASSUME ApiIInv, IInv', NEW r \in Requests, Running, At(r) # 0,
         Fail(r) \/ (Advance(r) /\ Op(r) # "rotate"),
         UNCHANGED <<process, settings>>, tx'[r] = Idle,
         \A s \in Requests \ {r} : tx'[s] = tx[s]
  PROVE  ApiIInv'
<1>1. PICK q \in RequestRecords :
        /\ request' = [request EXCEPT ![r] = q] /\ Follows(request[r], q)
        /\ q # NoRequest => Op(r) # "rotate"
  <2>1. CASE Fail(r)
    BY <2>1, FailEffect
  <2>2. CASE Advance(r) /\ Op(r) # "rotate"
    BY <2>2, ServiceEffect
  <2> QED BY <2>1, <2>2
<1>2. socket' \in [Requests -> {"closed", "idle", "busy"}]
  BY ServiceEffect
<1>3. Admitted(q)
  BY <1>1, FollowsAdmitted DEF ApiIInv, At
<1>4. q.at = 0 \/ q.op # "rotate"
  BY <1>1 DEF Follows, NoRequest, Op
<1>5. SettingsOK'
  BY <1>1, <1>4, SameSettings
<1>6. Owned(r)'
  BY DEF Owned
<1> QED BY <1>1, <1>2, <1>3, <1>5, <1>6, ServiceStep

LEMMA NoConnectionKeeps ==
  ASSUME ApiIInv, IInv', NEW r \in Requests, NoConnection(r)
  PROVE  ApiIInv'
<1>1. /\ Running /\ At(r) # 0 /\ Fail(r) /\ UNCHANGED <<process, settings>>
      /\ tx[r] = Idle /\ tx' = tx
  BY DEF NoConnection, Awaits, vars
<1> QED BY <1>1, EffectKeeps

\* A rotation has two steps, both of them transactions.
LEMMA RotationSteps ==
  ASSUME ApiIInv, NEW r \in Requests, At(r) # 0, Op(r) = "rotate"
  PROVE  (At(r) = 1 \/ At(r) = 2) /\ Routes[Op(r)].steps[At(r)] = "tx"
<1>1. Routes["rotate"].steps = <<"tx", "tx">>
  BY DEF Routes, DocumentRoutes, TenantRoutes, Route
<1>2. At(r) \in 1 .. Len(Routes["rotate"].steps)
  <2>1. OnRoute(request[r])
    BY DEF ApiIInv, Admitted, At
  <2>2. request[r].op = "rotate" /\ At(r) = request[r].at
    BY DEF Op, At
  <2> QED BY <2>1, <2>2 DEF OnRoute
<1>3. At(r) = 1 \/ At(r) = 2
  <2>1. Len(<<"tx", "tx">>) = 2
    OBVIOUS
  <2>2. At(r) \in 1 .. 2
    BY <1>1, <1>2, <2>1
  <2> QED BY <2>2
<1>4. <<"tx", "tx">>[1] = "tx" /\ <<"tx", "tx">>[2] = "tx"
  OBVIOUS
<1> QED BY <1>1, <1>3, <1>4

LEMMA CallKeeps ==
  ASSUME ApiIInv, IInv', NEW r \in Requests, Call(r)
  PROVE  ApiIInv'
<1>1. /\ Running /\ At(r) # 0 /\ Awaits(r, "call")
      /\ Fail(r) \/ Advance(r)
      /\ UNCHANGED <<process, settings>> /\ tx' = tx
  BY DEF Call, Awaits, vars
<1>2. tx[r] = Idle
  <2>1. ~ Awaits(r, "tx")
    BY <1>1 DEF Awaits
  <2> QED BY <1>1, <2>1 DEF ApiIInv, Owned
<1>3. Op(r) # "rotate"
  <2> SUFFICES ASSUME Op(r) = "rotate" PROVE FALSE
    OBVIOUS
  <2>1. (At(r) = 1 \/ At(r) = 2) /\ Routes[Op(r)].steps[At(r)] = "tx"
    BY <1>1, RotationSteps
  <2> QED BY <1>1, <2>1 DEF Awaits
<1> QED BY <1>1, <1>2, <1>3, EffectKeeps

LEMMA RollbackKeeps ==
  ASSUME ApiIInv, IInv', NEW r \in Requests, Rollback(r)
  PROVE  ApiIInv'
<1>1. /\ Running /\ tx[r] # Idle /\ Fail(r) /\ UNCHANGED <<process, settings>>
      /\ tx' = [tx EXCEPT ![r] = Idle] /\ tx \in [Requests -> Transactions]
  BY DEF Rollback, EndTx, ApiIInv, IInv, TypeOK
<1>2. At(r) # 0
  BY <1>1 DEF ApiIInv, Owned
<1>3. tx'[r] = Idle /\ \A s \in Requests \ {r} : tx'[s] = tx[s]
  BY <1>1
<1> QED BY <1>1, <1>2, <1>3, EffectKeeps

\* A transaction begins or is scoped; the service waits.
LEMMA TransactionKeeps ==
  ASSUME ApiIInv, IInv', NEW r \in Requests, BeginTx(r) \/ Scope(r)
  PROVE  ApiIInv'
<1>1. /\ request \in [Requests -> RequestRecords] /\ request[r] \in RequestRecords
      /\ socket \in [Requests -> {"closed", "idle", "busy"}]
      /\ tx \in [Requests -> Transactions]
  BY DEF ApiIInv, ApiTypeOK, TypeOK
<1>2. Running /\ UNCHANGED <<process, socket, request, settings>>
  BY DEF BeginTx, Scope, Running
<1>3. request' = [request EXCEPT ![r] = request[r]]
  BY <1>1, <1>2
<1>4. SettingsOK'
  BY <1>1, <1>2, <1>3, SameSettings
<1>5. Owned(r)' /\ \A s \in Requests \ {r} : tx'[s] = tx[s]
  <2>1. CASE BeginTx(r)
    <3>1. PICK c \in Connections : Begin(r, Tenant(r), c)
      BY <2>1 DEF BeginTx
    <3>2. /\ tx'[r].tenant = Tenant(r) /\ Awaits(r, "tx")
          /\ \A s \in Requests \ {r} : tx'[s] = tx[s]
      BY <1>1, <2>1, <3>1 DEF Begin, BeginTx
    <3> QED BY <1>2, <3>2 DEF Owned, Awaits, At, Op, Tenant
  <2>2. CASE Scope(r)
    <3>1. /\ tx' = [tx EXCEPT ![r] = [tx[r] EXCEPT !.pc = "scoped"]]
          /\ tx[r].pc = "begun"
      BY <2>2 DEF Scope, SetContext
    <3>2. tx[r] # Idle
      BY <3>1 DEF Idle
    <3>3. Owned(r)
      BY <1>2 DEF ApiIInv
    <3>4. tx[r] \in [pc : {"begun", "scoped"}, tenant : Tenants, conn : Connections]
      BY <1>1, <3>2 DEF Transactions
    <3>5. tx'[r].tenant = tx[r].tenant /\ \A s \in Requests \ {r} : tx'[s] = tx[s]
      BY <1>1, <3>1, <3>4
    <3> QED BY <1>2, <3>2, <3>3, <3>5 DEF Owned, Awaits, At, Op, Tenant
  <2> QED BY <2>1, <2>2
<1>6. Admitted(request[r])
  BY DEF ApiIInv
<1> QED BY <1>1, <1>2, <1>3, <1>4, <1>5, <1>6, ServiceStep

\* A statement answers: a rotation only goes on when there is a URL.
LEMMA StatementKeeps ==
  ASSUME ApiIInv, IInv', NEW r \in Requests, Statement(r)
  PROVE  ApiIInv'
<1>1. /\ request \in [Requests -> RequestRecords] /\ request[r] \in RequestRecords
      /\ socket \in [Requests -> {"closed", "idle", "busy"}]
  BY DEF ApiIInv, ApiTypeOK
<1>2. /\ Running /\ tx[r].pc = "scoped" /\ UNCHANGED <<vars, process, socket, settings>>
      /\ tx' = tx
  BY DEF Statement, vars
<1>3. tx[r] # Idle /\ Owned(r)
  BY <1>2 DEF Idle, ApiIInv
<1>4. At(r) # 0 /\ At(r) \in Nat /\ request[r] # NoRequest
  BY <1>1, <1>3, RequestCases DEF Owned, At
<1>5. PICK x \in Results(r) : Goes(r, At(r), x)
  BY DEF Statement
<1>6. x \in {"none", "go", "stop"}
  BY <1>5 DEF Results
<1> DEFINE q == [at |-> At(r), op |-> request[r].op, user |-> request[r].user,
                 result |-> x]
<1>7. request' = [request EXCEPT ![r] = q]
  BY <1>5 DEF Goes, Op
<1>8. q = [at |-> At(r), op |-> request[r].op, user |-> request[r].user,
           result |-> x]
  OBVIOUS
<1> HIDE DEF q
<1>9. /\ q \in RequestRecords /\ q # NoRequest /\ q.at = At(r) /\ q.result = x
      /\ q.op = request[r].op /\ q.user = request[r].user
  BY <1>1, <1>4, <1>6, <1>8, Moved
<1>10. Admitted(q)
  BY <1>9 DEF ApiIInv, Admitted, OnRoute, At
<1>11. Owned(r)'
  BY <1>1, <1>2, <1>3, <1>7, <1>9 DEF Owned, Awaits, At, Op, Tenant
<1>12. \/ q.op # "rotate" \/ (q.at # 2 /\ q.result # "go")
       \/ "url" \in config[q.user.tenant] \/ q.user.tenant \in overtaken
  <2> SUFFICES ASSUME q.op = "rotate", q.at = 2 \/ q.result = "go"
               PROVE  "url" \in config[q.user.tenant] \/ q.user.tenant \in overtaken
    OBVIOUS
  <2>1. CASE q.at = 2
    <3>1. GoesOn(r)
      BY <1>9, <2>1 DEF GoesOn, Op
    <3>2. SeenUrl(r)
      BY DEF ApiIInv
    <3> QED BY <1>9, <3>1, <3>2 DEF SeenUrl, Config, Tenant
  <2>2. CASE q.at # 2
    <3>1. Op(r) = "rotate" /\ x = "go" /\ At(r) # 2
      BY <1>9, <2>2 DEF Op
    <3>2. CASE At(r) = 1
      BY <1>5, <1>9, <3>1, <3>2 DEF Results, Config, Tenant
    <3>3. CASE At(r) # 1
      BY <1>3, <1>4, <3>1, <3>3, RotationSteps DEF ApiIInv
    <3> QED BY <3>2, <3>3
  <2> QED BY <2>1, <2>2
<1>13. SettingsOK'
  BY <1>2, <1>7, <1>9, <1>12, SameSettings
<1> QED BY <1>1, <1>2, <1>7, <1>9, <1>10, <1>11, <1>13, ServiceStep

\* What a commit makes of the settings of a tenant.
LEMMA CommitSettings ==
  ASSUME ApiIInv, NEW r \in Requests, At(r) # 0, Tenant(r) \in Tenants,
         request[r].result = "go", NEW new \in Settings(r)
  PROVE  /\ new \subseteq {"url", "secret"}
         /\ "url" \in new \/ new = {} \/ (new = {"secret"} /\ Tenant(r) \in overtaken)
         /\ "url" \in Config(r) => "url" \in new \/ new = {}
<1>1. Config(r) \subseteq {"url", "secret"}
  BY DEF ApiIInv, ApiTypeOK, Config
<1>2. new \subseteq {"url", "secret"}
  BY <1>1 DEF Settings
<1>3. "url" \in Config(r) => "url" \in new \/ new = {}
  BY DEF Settings
<1>4. ASSUME "url" \notin new, new # {} PROVE new = {"secret"} /\ Tenant(r) \in overtaken
  <2>1. new = {"secret"}
    BY <1>2, <1>4
  <2>2. CASE Op(r) = "rotate" /\ At(r) = 2
    <3>1. SeenUrl(r)
      BY DEF ApiIInv
    <3> QED BY <1>3, <1>4, <2>1, <2>2, <3>1 DEF SeenUrl, GoesOn
  <2>3. CASE ~ (Op(r) = "rotate" /\ At(r) = 2)
    <3>1. new = Config(r)
      BY <1>4, <2>3 DEF Settings
    <3> QED BY <2>1, <3>1 DEF ApiIInv, NoOrphanSecret, Config
  <2> QED BY <2>2, <2>3
<1> QED BY <1>2, <1>3, <1>4

LEMMA CommitKeeps ==
  ASSUME ApiIInv, IInv', NEW r \in Requests, Commit(r)
  PROVE  ApiIInv'
<1>1. /\ request \in [Requests -> RequestRecords]
      /\ socket \in [Requests -> {"closed", "idle", "busy"}]
      /\ tx \in [Requests -> Transactions]
      /\ config \in [Tenants -> SUBSET {"url", "secret"}] /\ overtaken \subseteq Tenants
      /\ NoOrphanSecret
  BY DEF ApiIInv, ApiTypeOK, TypeOK
<1>2. /\ Running /\ tx[r].pc = "scoped" /\ UNCHANGED process /\ Advance(r)
      /\ request[r].result = "go" /\ tx' = [tx EXCEPT ![r] = Idle]
  BY DEF Commit, EndTx
<1>3. At(r) # 0
  <2>1. tx[r] # Idle
    BY <1>2 DEF Idle
  <2> QED BY <1>2, <2>1 DEF ApiIInv, Owned
<1> DEFINE t == Tenant(r)
<1>4. t \in Tenants
  BY <1>3 DEF ApiIInv, Admitted, At, Tenant
<1>5. PICK new \in Settings(r) :
        /\ config' = [config EXCEPT ![t] = new]
        /\ overtaken' = IF "url" \in new \/ (new = {} /\ ~ Rotating(t))
                        THEN overtaken \ {t}
                        ELSE IF new = {} THEN overtaken \cup {t} ELSE overtaken
  BY DEF Commit
<1>6. /\ new \subseteq {"url", "secret"}
      /\ "url" \in new \/ new = {} \/ (new = {"secret"} /\ t \in overtaken)
      /\ "url" \in config[t] => "url" \in new \/ new = {}
  BY <1>2, <1>3, <1>4, CommitSettings DEF Config
<1>7. PICK q \in RequestRecords :
        request' = [request EXCEPT ![r] = q] /\ Follows(request[r], q)
  BY <1>2, <1>3, ServiceEffect
<1>8. socket' \in [Requests -> {"closed", "idle", "busy"}]
  BY <1>2, <1>3, ServiceEffect
<1>9. Admitted(q)
  BY <1>3, <1>7, FollowsAdmitted DEF ApiIInv, At
<1>10. Owned(r)' /\ \A s \in Requests \ {r} : tx'[s] = tx[s]
  BY <1>1, <1>2 DEF Owned
<1> HIDE DEF t
<1>11. config' \in [Tenants -> SUBSET {"url", "secret"}] /\ overtaken' \subseteq Tenants
  BY <1>1, <1>4, <1>5, <1>6
<1>12. /\ config'[t] = new
       /\ \A u \in Tenants \ {t} : /\ config'[u] = config[u]
                                   /\ u \in overtaken => u \in overtaken'
  BY <1>1, <1>4, <1>5
<1>13. "url" \in new \/ new = {} \/ t \in overtaken'
  BY <1>5, <1>6
<1>14. NoOrphanSecret'
  BY <1>1, <1>12, <1>13 DEF NoOrphanSecret
<1>15. ASSUME NEW s \in Requests, GoesOn(s)
       PROVE  "url" \in config'[Tenant(s)] \/ Tenant(s) \in overtaken'
  <2>1. Tenant(s) \in Tenants
    BY <1>15 DEF GoesOn, ApiIInv, Admitted, At, Tenant
  <2>2. "url" \in config[Tenant(s)] \/ Tenant(s) \in overtaken
    BY <1>15 DEF ApiIInv, SeenUrl, Config
  <2>3. CASE Tenant(s) = t
    <3>1. Rotating(t)
      BY <1>15, <2>3 DEF Rotating, GoesOn
    <3> QED BY <1>5, <1>6, <1>12, <2>2, <2>3, <3>1
  <2>4. CASE Tenant(s) # t
    BY <1>12, <2>1, <2>2, <2>4
  <2> QED BY <2>3, <2>4
<1>16. \A s \in Requests : SeenUrl(s)'
  <2> SUFFICES ASSUME NEW s \in Requests, GoesOn(s)'
               PROVE  GoesOn(s) /\ Tenant(s)' = Tenant(s)
    BY <1>15 DEF SeenUrl, Config
  <2>1. CASE s = r
    <3>1. request'[s] = q /\ q # NoRequest
      BY <1>1, <1>7, <2>1 DEF GoesOn, At, NoRequest
    <3> QED BY <1>2, <1>3, <1>7, <2>1, <3>1 DEF Follows, GoesOn, Op, Tenant, At
  <2>2. CASE s # r
    BY <1>1, <1>7, <2>2 DEF GoesOn, Op, Tenant, At
  <2> QED BY <2>1, <2>2
<1>17. SettingsOK'
  BY <1>11, <1>14, <1>16 DEF SettingsOK
<1> QED BY <1>2, <1>7, <1>8, <1>9, <1>10, <1>17, ServiceStep

-----------------------------------------------------------------------------
\* The steps of the process.
LEMMA StopKeeps ==
  ASSUME ApiIInv, IInv', Signal \/ Drained
  PROVE  ApiIInv'
<1>1. /\ UNCHANGED <<vars, request, settings>> /\ Running
      /\ signals' \in 0 .. 2 /\ server' \in {"draining", "closing"}
      /\ socket' \in [Requests -> {"closed", "idle", "busy"}]
  <2>1. signals \in 0 .. 2 /\ socket \in [Requests -> {"closed", "idle", "busy"}]
    BY DEF ApiIInv, ApiTypeOK
  <2>2. CASE Signal
    <3>1. signals' \in 0 .. 2
      BY <2>1, <2>2 DEF Signal
    <3>2. socket' \in [Requests -> {"closed", "idle", "busy"}]
      BY <2>1, <2>2 DEF Signal
    <3> QED BY <2>2, <3>1, <3>2 DEF Signal, Running
  <2>3. CASE Drained
    BY <2>1, <2>3 DEF Drained, Running
  <2> QED BY <2>2, <2>3
<1>2. ApiTypeOK'
  BY <1>1 DEF ApiIInv, ApiTypeOK, IInv, settings
<1>3. NoOrphanSecret'
  BY <1>1 DEF ApiIInv, NoOrphanSecret, settings
<1>4. \A r \in Requests : Admitted(request'[r]) /\ SeenUrl(r)' /\ Owned(r)'
  BY <1>1 DEF ApiIInv, SeenUrl, GoesOn, Owned, Awaits, At, Op, Tenant, Config, vars,
     settings
<1> QED BY <1>2, <1>3, <1>4 DEF ApiIInv

LEMMA ExitKeeps ==
  ASSUME ApiIInv, IInv', Finish \/ Break \/ Timeout
  PROVE  ApiIInv'
<1>1. PICK code \in {"exit 0", "exit 1"} : Exit(code)
  BY DEF Finish, Break, Timeout
<1>2. /\ UNCHANGED <<vars, signals, settings>> /\ server' = code /\ ~ Running'
      /\ request' = [r \in Requests |-> NoRequest]
      /\ socket' = [r \in Requests |-> "closed"]
  BY <1>1 DEF Exit, Running
<1>3. ApiTypeOK'
  BY <1>2 DEF ApiIInv, ApiTypeOK, IInv, RequestRecords, settings
<1>4. NoOrphanSecret'
  BY <1>2 DEF ApiIInv, NoOrphanSecret, settings
<1>5. \A r \in Requests : Admitted(request'[r]) /\ SeenUrl(r)'
  BY <1>2 DEF Admitted, SeenUrl, GoesOn, At, NoRequest
<1> QED BY <1>2, <1>3, <1>4, <1>5 DEF ApiIInv

LEMMA LostKeeps ==
  ASSUME ApiIInv, IInv', NEW r \in Requests, Lost(r)
  PROVE  ApiIInv'
<1>1. /\ UNCHANGED <<process, socket, request, settings>> /\ ~ Running /\ ~ Running'
      /\ tx' = [tx EXCEPT ![r] = Idle]
  BY DEF Lost, EndTx, Running, process
<1>2. ApiTypeOK'
  BY <1>1 DEF ApiIInv, ApiTypeOK, IInv, process, settings
<1>3. NoOrphanSecret'
  BY <1>1 DEF ApiIInv, NoOrphanSecret, settings
<1>4. \A s \in Requests : Admitted(request'[s]) /\ SeenUrl(s)'
  BY <1>1 DEF ApiIInv, SeenUrl, GoesOn, At, Op, Tenant, Config, settings
<1> QED BY <1>1, <1>2, <1>3, <1>4 DEF ApiIInv

LEMMA ApiStepKeeps == ASSUME ApiIInv, [ApiNext]_apiVars PROVE ApiIInv'
<1>1. IInv'
  BY ContextStep, StepKeeps DEF ApiIInv
<1>2. CASE UNCHANGED apiVars
  <2>1. /\ UNCHANGED <<server, signals, socket, request, config, overtaken>>
        /\ UNCHANGED <<setting, tx>>
    BY <1>2 DEF apiVars, vars, process, settings
  <2>2. ApiTypeOK'
    BY <2>1 DEF ApiIInv, ApiTypeOK, TypeOK
  <2>4. NoOrphanSecret'
    BY <2>1 DEF ApiIInv, NoOrphanSecret
  <2>3. /\ \A r \in Requests : Admitted(request'[r]) /\ SeenUrl(r)'
        /\ Running' => \A r \in Requests : Owned(r)'
    BY <2>1 DEF ApiIInv, SeenUrl, GoesOn, Owned, Awaits, At, Op, Tenant, Config, Running
  <2> QED BY <1>1, <2>2, <2>3, <2>4 DEF ApiIInv
<1>3. ASSUME NEW r \in Requests, Progress(r) PROVE ApiIInv'
  BY <1>1, <1>3, RefuseKeeps, AdmitKeeps, TransactionKeeps, NoConnectionKeeps,
     StatementKeeps, CommitKeeps, RollbackKeeps, CallKeeps DEF Progress
<1>4. ASSUME NEW r \in Requests,
             \/ Connect(r) \/ HangUp(r) \/ Lost(r)
             \/ \E op \in Ops, user \in Users \cup {Nobody} : Send(r, op, user)
      PROVE  ApiIInv'
  BY <1>1, <1>4, ClientKeeps, LostKeeps
<1>5. CASE Signal \/ Drained \/ Finish \/ Break \/ Timeout
  BY <1>1, <1>5, StopKeeps, ExitKeeps
<1> QED BY <1>2, <1>3, <1>4, <1>5 DEF ApiNext

-----------------------------------------------------------------------------
\* The inductive invariant: every transaction is one of an admitted request,
\* and a rotation's URL is there, or was cleared under it.
THEOREM ApiInvariance == ApiSpec => []ApiIInv
BY ApiInitIInv, ApiStepKeeps, PTL DEF ApiSpec

\* To the database the API is one of the clients TenantContext describes:
\* routes, errors, hung-up clients and the end of the process included.
THEOREM ApiImplementsContext == ApiSpec => Spec
<1>1. ApiInit => Init
  BY DEF ApiInit
<1>2. ApiIInv /\ [ApiNext]_apiVars => [Next]_vars
  BY ContextStep
<1> QED BY <1>1, <1>2, ApiInvariance, PTL DEF ApiSpec, Spec

\* So the isolation of the tenants carries over (db/index.ts, migration 0007).
THEOREM ApiIsolation == ApiSpec => [](NoContextLeak /\ TenantsAreIsolated)
BY ApiImplementsContext, NoLeak, Isolation, PTL

\* What runs on a connection is of a user whose role may do it, on the rows
\* of that user's tenant (requireRole.ts, withTenantContext).
THEOREM Authorisation == ApiSpec => []ChangesAreAuthorised
<1>1. ApiIInv => ChangesAreAuthorised
  <2> SUFFICES ASSUME ApiIInv, NEW r \in Requests, Running, tx[r].pc = "scoped"
               PROVE  /\ request[r].user.role \in Routes[Op(r)].roles
                      /\ setting[tx[r].conn] = Tenant(r)
    BY DEF ChangesAreAuthorised
  <2>1. tx[r] # Idle
    BY DEF Idle
  <2>2. Owned(r)
    BY DEF ApiIInv
  <2> QED BY <2>1, <2>2 DEF Owned, ApiIInv, Admitted, At, Op, IInv, SettingIsOwn
<1> QED BY <1>1, ApiInvariance, PTL

\* Every variable stays in its range, whatever clients, routes and signals do.
THEOREM ApiTypeCorrectness == ApiSpec => []ApiTypeOK
<1>1. ApiIInv => ApiTypeOK
  BY DEF ApiIInv
<1> QED BY <1>1, ApiInvariance, PTL

\* A secret without a URL is the doing of a rotation that was overtaken
\* (tenant.service.ts).
THEOREM SecretsHaveUrls == ApiSpec => []NoOrphanSecret
<1>1. ApiIInv => NoOrphanSecret
  BY DEF ApiIInv
<1> QED BY <1>1, ApiInvariance, PTL
=============================================================================
