--------------------------- MODULE RateLimiter_proofs ---------------------------
(***************************************************************************)
(* Theorems about RateLimiter.  Its types hold always.  The limit holds as *)
(* far as LimitHolds says, and denies nobody it should not, for one        *)
(* limiter in front of a path and one API process, whatever limit and      *)
(* window it has: with more of either it does not (README).                *)
(***************************************************************************)
EXTENDS RateLimiter, FiniteSetTheorems, TLAPS

USE LimiterAssumption

LEMMA PassedIsPlace ==
  ASSUME TypeOK, NEW r \in Requests
  PROVE  Passed(r) \in Places /\ Passed(r).state \in {"ready", "served"}
<1>1. at[r] \in Places /\ Len(Limiters) \in Nat \ {0}
  BY DEF TypeOK
<1>2. CASE at[r].stage < Len(Limiters)
  BY <1>1, <1>2 DEF Passed, Places, Stages
<1>3. CASE ~ (at[r].stage < Len(Limiters))
  BY <1>1, <1>3 DEF Passed, Places
<1> QED BY <1>2, <1>3

LEMMA LimiterAt ==
  ASSUME NEW i \in Stages
  PROVE  Limiters[i].limit \in Nat \ {0} /\ Limiters[i].window \in Nat \ {0}
<1> DEFINE T == [limit : Nat \ {0}, window : Nat \ {0}]
<1>1. Limiters \in Seq(T) /\ i \in 1 .. Len(Limiters)
  BY DEF Stages
<1> HIDE DEF T
<1>2. Limiters[i] \in T
  BY <1>1
<1> QED BY <1>2 DEF T

LEMMA ScriptType ==
  ASSUME TypeOK, NEW r \in Requests
  PROVE  Script(r) \in Scripts
BY DEF TypeOK, Script, Scripts, Places

LEMMA SendType ==
  ASSUME TypeOK, NEW r \in Requests, Send(r)
  PROVE  TypeOK'
<1> DEFINE p == route[r].process
<1>1. p \in Processes
  BY DEF TypeOK
<1>2. sent' = [sent EXCEPT ![p] = Append(@, Script(r))] /\ Append(sent[p], Script(r)) \in Seq(Scripts)
  BY <1>1, ScriptType DEF Send, TypeOK
<1>3. at' \in [Requests -> Places]
  BY DEF Send, TypeOK, Places
<1> HIDE DEF p
<1>4. sent' \in [Processes -> Seq(Scripts)]
  BY <1>1, <1>2 DEF TypeOK
<1> QED BY <1>3, <1>4 DEF TypeOK, Send

LEMMA GoOnType ==
  ASSUME TypeOK, NEW s \in Scripts, GoOn(s)
  PROVE  at' \in [Requests -> Places] /\ passed' \subseteq Scripts
<1>1. s.req \in Requests
  BY DEF Scripts
<1> QED BY <1>1, PassedIsPlace DEF GoOn, TypeOK

LEMMA RunType ==
  ASSUME TypeOK, NEW s \in Scripts,
         RunBelow(s) \/ RunOver(s) \/ UNCHANGED <<hits, expires, added>>
  PROVE  /\ hits' \subseteq Scripts /\ expires' \in [Paths -> Nat]
         /\ added' \in [Requests -> [Stages -> Times \cup {Never}]]
<1>1. s.req \in Requests /\ s.stage \in Stages
  BY DEF Scripts
<1>2. CASE RunBelow(s)
  <2>1. hits' \subseteq Scripts
    BY <1>2 DEF RunBelow, Counted, Kept, TypeOK
  <2>2. clock + Limiters[s.stage].window \in Nat
    <3>1. clock \in Nat
      BY DEF TypeOK, Times
    <3>2. Limiters[s.stage].window \in Nat
      BY <1>1, LimiterAt
    <3> QED BY <3>1, <3>2
  <2>3. expires' \in [Paths -> Nat]
    BY <1>2, <2>2 DEF RunBelow, TypeOK
  <2>4. added[s.req] \in [Stages -> Times \cup {Never}] /\ clock \in Times
    BY <1>1 DEF TypeOK
  <2>5. added' = [added EXCEPT ![s.req] = [added[s.req] EXCEPT ![s.stage] = clock]]
    BY <1>2 DEF RunBelow
  <2>6. [added[s.req] EXCEPT ![s.stage] = clock] \in [Stages -> Times \cup {Never}]
    BY <1>1, <2>4
  <2>7. added' \in [Requests -> [Stages -> Times \cup {Never}]]
    BY <1>1, <2>5, <2>6 DEF TypeOK
  <2> QED BY <2>1, <2>3, <2>7
<1>3. CASE RunOver(s)
  BY <1>3 DEF RunOver, Kept, TypeOK
<1>4. CASE UNCHANGED <<hits, expires, added>>
  BY <1>4 DEF TypeOK
<1> QED BY <1>2, <1>3, <1>4

LEMMA EvalType ==
  ASSUME TypeOK, NEW p \in Processes, Eval(p) \/ FailOpen(p)
  PROVE  TypeOK'
<1> DEFINE s == Head(sent[p])
<1>1. sent[p] # <<>> /\ sent[p] \in Seq(Scripts) /\ sent' = [sent EXCEPT ![p] = Tail(@)]
  BY DEF Eval, FailOpen, TypeOK
<1>2. s \in Scripts /\ Tail(sent[p]) \in Seq(Scripts) /\ s.req \in Requests
  <2>1. s \in Scripts /\ Tail(sent[p]) \in Seq(Scripts)
    BY <1>1
  <2> QED BY <2>1 DEF Scripts
<1>3. sent' \in [Processes -> Seq(Scripts)]
  BY <1>1, <1>2 DEF TypeOK
<1>4. at' \in [Requests -> Places] /\ passed' \subseteq Scripts
  <2>1. [at[s.req] EXCEPT !.state = "denied"] \in Places
    BY <1>2 DEF TypeOK, Places
  <2>2. \/ at' = [at EXCEPT ![s.req] = [at[s.req] EXCEPT !.state = "denied"]] /\ passed' = passed
        \/ GoOn(s)
    BY <1>2 DEF Eval, FailOpen, TypeOK
  <2> QED BY <1>2, <2>1, <2>2, GoOnType DEF TypeOK
<1>5. /\ hits' \subseteq Scripts /\ expires' \in [Paths -> Nat]
      /\ added' \in [Requests -> [Stages -> Times \cup {Never}]]
  <2>1. RunBelow(s) \/ RunOver(s) \/ UNCHANGED <<hits, expires, added>>
    BY DEF Eval, FailOpen
  <2> QED BY <1>2, <2>1, RunType
<1>6. clock' = clock /\ route' = route
  BY DEF Eval, FailOpen
<1> QED BY <1>3, <1>4, <1>5, <1>6 DEF TypeOK

LEMMA UnsentType ==
  ASSUME TypeOK, NEW r \in Requests, Unsent(r)
  PROVE  TypeOK'
<1>1. at' \in [Requests -> Places] /\ passed' \subseteq Scripts
  BY ScriptType, GoOnType DEF Unsent
<1> QED BY <1>1 DEF Unsent, TypeOK

\* Every variable stays in its range, for any limiters and processes.
THEOREM TypeCorrectness == Spec => []TypeOK
<1>1. Init => TypeOK
  BY DEF Init, TypeOK, Times, Places, Stages
<1>2. TypeOK /\ [Next]_vars => TypeOK'
  <2> SUFFICES ASSUME TypeOK, [Next]_vars PROVE TypeOK'
    OBVIOUS
  <2>1. CASE Tick
    BY <2>1 DEF Tick, TypeOK, Times
  <2>2. CASE UNCHANGED vars
    BY <2>2 DEF vars, TypeOK
  <2> QED BY <2>1, <2>2, SendType, EvalType, UnsentType DEF Next
<1> QED BY <1>1, <1>2, PTL DEF Spec

-----------------------------------------------------------------------------
(* The limit.  The inductive invariant says that Redis has forgotten no    *)
(* request that a script to come would count: what left a set by its score *)
(* is too old for them, and what vanished with its key was added more than *)
(* a window ago.                                                           *)

\* One API process and one limiter in front of every path.
Alone(api) == Processes = {api} /\ Len(Limiters) = 1

Limit == Limiters[1].limit
Window == Limiters[1].window

\* What the limiter has counted, and what it has forgotten though its script
\* may still be within a window of those to come.
Members == {x \in passed : Added(x) # Never}
Forgotten == {x \in Members \ hits : clock <= Added(x) + Window}

\* At time c, with the queue q of scripts, the requests at a, what is counted
\* P and what is forgotten F:
\* Redis runs the scripts in the order of their clocks,
InOrder(c, q) ==
  \A i \in 1 .. Len(q) : /\ q[i].now <= c
                         /\ \A j \in 1 .. Len(q) : i <= j => q[i].now <= q[j].now
\* what is counted is not of the future, for the clock or for a script,
InThePast(c, q, P) ==
  \A x \in P : x.now <= c /\ \A i \in 1 .. Len(q) : x.now <= q[i].now
\* what is forgotten no later script would count,
Over(c, q, F) ==
  \A x \in F :
    x.now + Window <= c /\ \A i \in 1 .. Len(q) : x.now + Window <= q[i].now
\* and a script is of a request that waits for it, and for no other.
Awaited(a, q) ==
  \A i \in 1 .. Len(q) :
    /\ a[q[i].req].state = "waits"
    /\ \A j \in 1 .. Len(q) : i # j => q[i].req # q[j].req

\* A key outlives the windows of its members, as seen from Redis.
KeysLive ==
  /\ \A x \in Members : Added(x) <= clock
  /\ \A h \in hits : h \in Members /\ Added(h) + Window <= expires[route[h.req].path]

\* A request that has not gone on is not counted.
Fresh == \A r \in Requests :
           at[r].state # "served" =>
             (\A i \in Stages : added[r][i] = Never) /\ \A x \in passed : x.req # r

IInv(api) == /\ TypeOK
             /\ InOrder(clock, sent[api])
             /\ InThePast(clock, sent[api], Members)
             /\ Over(clock, sent[api], Forgotten)
             /\ Awaited(at, sent[api])
             /\ KeysLive /\ Fresh /\ IsFiniteSet(passed)
             /\ LimitHolds

LEMMA LimiterFacts ==
  ASSUME NEW api, Alone(api)
  PROVE  /\ Limit \in Nat \ {0} /\ Window \in Nat \ {0} /\ Stages = {1}
         /\ \A s \in Scripts : s.stage = 1 /\ s.now \in Nat /\ s.req \in Requests
<1>1. Limiters[1].limit \in Nat \ {0} /\ Limiters[1].window \in Nat \ {0}
  BY LimiterAt DEF Alone, Stages
<1>2. Stages = {1}
  BY DEF Alone, Stages
<1>3. \A s \in Scripts : s.stage \in Stages /\ s.now \in Times /\ s.req \in Requests
  BY DEF Scripts
<1>4. \A n \in Times : n \in Nat
  BY DEF Times
<1>5. Limit \in Nat \ {0} /\ Window \in Nat \ {0}
  BY <1>1 DEF Limit, Window
<1> QED BY <1>2, <1>3, <1>4, <1>5

\* Time goes by: the order stays.
LEMMA LaterOrder ==
  ASSUME NEW api, Alone(api), NEW c \in Nat, NEW q \in Seq(Scripts),
         NEW P \in SUBSET Scripts, NEW F \in SUBSET Scripts,
         InOrder(c, q), InThePast(c, q, P), Over(c, q, F)
  PROVE  InOrder(c + 1, q) /\ InThePast(c + 1, q, P) /\ Over(c + 1, q, F)
<1>1. \A i \in 1 .. Len(q) : q[i] \in Scripts
  OBVIOUS
<1>2. (\A i \in 1 .. Len(q) : q[i].now \in Nat) /\ (\A x \in P \cup F : x.now \in Nat)
      /\ Window \in Nat
  BY <1>1, LimiterFacts
<1>3. InOrder(c + 1, q)
  BY <1>2 DEF InOrder
<1>4. InThePast(c + 1, q, P)
  BY <1>2 DEF InThePast
<1>5. Over(c + 1, q, F)
  BY <1>2 DEF Over
<1> QED BY <1>3, <1>4, <1>5

\* A script sent now is the last in the order.
LEMMA AppendOrder ==
  ASSUME NEW api, Alone(api), NEW c \in Nat, NEW q \in Seq(Scripts),
         NEW P \in SUBSET Scripts, NEW F \in SUBSET Scripts,
         NEW s \in Scripts, s.now = c,
         InOrder(c, q), InThePast(c, q, P), Over(c, q, F)
  PROVE  /\ InOrder(c, Append(q, s)) /\ InThePast(c, Append(q, s), P)
         /\ Over(c, Append(q, s), F)
<1> PICK Q : Q = Append(q, s)
  OBVIOUS
<1>1. /\ Len(Q) = Len(q) + 1 /\ Len(q) \in Nat /\ Q[Len(q) + 1] = s
      /\ \A i \in 1 .. Len(q) : Q[i] = q[i] /\ q[i] \in Scripts
  OBVIOUS
<1>2. \A i \in 1 .. Len(Q) : i \in 1 .. Len(q) \/ (i = Len(q) + 1 /\ Q[i].now = c)
  BY <1>1
<1>3. \A i \in 1 .. Len(q) : q[i].now \in Nat
  BY <1>1, LimiterFacts
<1>4. InOrder(c, Q)
  <2>1. \A i \in 1 .. Len(q) : q[i].now <= c /\ \A j \in 1 .. Len(q) : i <= j => q[i].now <= q[j].now
    BY DEF InOrder
  <2>2. \A i \in 1 .. Len(Q) : Q[i].now <= c
    BY <1>1, <1>2, <2>1
  <2>3. ASSUME NEW i \in 1 .. Len(Q), NEW j \in 1 .. Len(Q), i <= j
        PROVE  Q[i].now <= Q[j].now
    <3>1. CASE j = Len(q) + 1
      BY <1>1, <2>2, <3>1
    <3>2. CASE j \in 1 .. Len(q)
      BY <1>1, <2>1, <2>3, <3>2
    <3> QED BY <1>2, <3>1, <3>2
  <2> QED BY <2>2, <2>3 DEF InOrder
<1>5. InThePast(c, Q, P)
  BY <1>1, <1>2 DEF InThePast
<1>6. Over(c, Q, F)
  BY <1>1, <1>2 DEF Over
<1> QED BY <1>4, <1>5, <1>6

\* A request that was ready waits for its script alone.
LEMMA AppendAwaited ==
  ASSUME NEW q \in Seq(Scripts), NEW s \in Scripts, NEW a, NEW b,
         Awaited(a, q), a[s.req].state = "ready", b[s.req].state = "waits",
         \A o \in Requests \ {s.req} : b[o] = a[o]
  PROVE  Awaited(b, Append(q, s))
<1> PICK Q : Q = Append(q, s)
  OBVIOUS
<1>1. /\ Len(Q) = Len(q) + 1 /\ Len(q) \in Nat /\ Q[Len(q) + 1] = s
      /\ \A i \in 1 .. Len(q) : Q[i] = q[i] /\ q[i] \in Scripts
  OBVIOUS
<1>2. \A i \in 1 .. Len(Q) : i \in 1 .. Len(q) \/ (i = Len(q) + 1 /\ Q[i] = s)
  BY <1>1
<1>3. \A i \in 1 .. Len(q) : q[i].req \in Requests \ {s.req}
  <2>1. \A x \in Scripts : x.req \in Requests
    BY DEF Scripts
  <2>2. \A i \in 1 .. Len(q) : a[q[i].req].state = "waits"
    BY DEF Awaited
  <2> QED BY <1>1, <2>1, <2>2
<1>4. \A i \in 1 .. Len(Q) : b[Q[i].req].state = "waits"
  <2>1. \A i \in 1 .. Len(q) : b[q[i].req].state = "waits"
    BY <1>3 DEF Awaited
  <2> QED BY <1>1, <1>2, <2>1
<1>5. \A i, j \in 1 .. Len(Q) : i # j => Q[i].req # Q[j].req
  <2>1. \A i, j \in 1 .. Len(q) : i # j => q[i].req # q[j].req
    BY DEF Awaited
  <2> QED BY <1>1, <1>2, <1>3, <2>1
<1> QED BY <1>4, <1>5 DEF Awaited

\* A script that has run leaves the order of the others.
LEMMA TailOrder ==
  ASSUME NEW c, NEW q \in Seq(Scripts), NEW P, NEW F, NEW a, NEW b, q # <<>>,
         InOrder(c, q), InThePast(c, q, P), Over(c, q, F), Awaited(a, q),
         \A o \in Requests \ {Head(q).req} : b[o] = a[o]
  PROVE  /\ InOrder(c, Tail(q)) /\ InThePast(c, Tail(q), P) /\ Over(c, Tail(q), F)
         /\ Awaited(b, Tail(q))
         /\ Head(q).now <= c
         /\ \A i \in 1 .. Len(Tail(q)) : Head(q).now <= Tail(q)[i].now
<1> PICK Q : Q = Tail(q)
  OBVIOUS
<1>1. /\ Len(q) \in Nat \ {0} /\ Head(q) = q[1] /\ Len(Q) = Len(q) - 1
      /\ \A i \in 1 .. Len(Q) : Q[i] = q[i + 1] /\ i + 1 \in 1 .. Len(q)
      /\ 1 \in 1 .. Len(q)
  OBVIOUS
<1>2. InOrder(c, Q)
  BY <1>1 DEF InOrder
<1>3. InThePast(c, Q, P)
  BY <1>1 DEF InThePast
<1>4. Over(c, Q, F)
  BY <1>1 DEF Over
<1>5. Awaited(b, Q)
  <2>1. \A i \in 1 .. Len(Q) : Q[i].req # q[1].req /\ a[Q[i].req].state = "waits"
    BY <1>1 DEF Awaited
  <2>2. \A i \in 1 .. Len(Q) : Q[i].req \in Requests
    <3>1. \A i \in 1 .. Len(q) : q[i] \in Scripts
      OBVIOUS
    <3>2. \A x \in Scripts : x.req \in Requests
      BY DEF Scripts
    <3> QED BY <1>1, <3>1, <3>2
  <2>3. \A i, j \in 1 .. Len(Q) : i # j => Q[i].req # Q[j].req
    BY <1>1 DEF Awaited
  <2>4. \A i \in 1 .. Len(Q) : b[Q[i].req] = a[Q[i].req]
    BY <1>1, <2>1, <2>2
  <2> QED BY <2>1, <2>3, <2>4 DEF Awaited
<1>6. Head(q).now <= c /\ \A i \in 1 .. Len(Q) : Head(q).now <= Q[i].now
  BY <1>1 DEF InOrder
<1> QED BY <1>2, <1>3, <1>4, <1>5, <1>6

\* A member that has left the window of the script at the head of the order
\* is over for the scripts behind it.
LEMMA ForgetOrder ==
  ASSUME NEW api, Alone(api), NEW c \in Nat, NEW q \in Seq(Scripts),
         NEW F \in SUBSET Scripts, NEW E \in SUBSET Scripts,
         NEW n \in Nat, n <= c, \A i \in 1 .. Len(q) : n <= q[i].now,
         Over(c, q, F), \A x \in E : x.now <= n - Window
  PROVE  Over(c, q, F \cup E)
<1>1. \A i \in 1 .. Len(q) : q[i] \in Scripts
  OBVIOUS
<1>2. /\ \A i \in 1 .. Len(q) : q[i].now \in Nat
      /\ \A x \in E : x.now \in Nat
      /\ Window \in Nat
  BY <1>1, LimiterFacts
<1>3. \A x \in E : x.now + Window <= c /\ \A i \in 1 .. Len(q) : x.now + Window <= q[i].now
  BY <1>2
<1> QED BY <1>3 DEF Over

\* The members of a script's record, at any time.
LEMMA MemberFacts ==
  ASSUME NEW api, Alone(api), TypeOK
  PROVE  /\ clock \in Nat /\ Window \in Nat /\ Limit \in Nat \ {0}
         /\ passed \subseteq Scripts /\ hits \subseteq Scripts /\ Members \subseteq passed
         /\ \A x \in Scripts : /\ x.now \in Nat /\ x.stage = 1 /\ x.req \in Requests
                               /\ Limiters[x.stage].window = Window
                               /\ Limiters[x.stage].limit = Limit
                               /\ Added(x) \in Nat \cup {Never}
                               /\ route[x.req].path \in Paths
         /\ \A x \in Members : Added(x) \in Nat
         /\ \A p \in Paths : expires[p] \in Nat
<1>1. clock \in Nat /\ passed \subseteq Scripts /\ hits \subseteq Scripts /\ Members \subseteq passed
  BY DEF TypeOK, Times, Members
<1>2. ASSUME NEW x \in Scripts
      PROVE  /\ x.now \in Nat /\ x.stage = 1 /\ x.req \in Requests
             /\ Limiters[x.stage].window = Window /\ Limiters[x.stage].limit = Limit
             /\ Added(x) \in Nat \cup {Never} /\ route[x.req].path \in Paths
  <2>1. x.now \in Nat /\ x.stage = 1 /\ x.req \in Requests /\ x.stage \in Stages
    BY LimiterFacts DEF Scripts
  <2>2. Added(x) \in Times \cup {Never}
    BY <2>1 DEF TypeOK, Added
  <2>3. route[x.req].path \in Paths
    BY <2>1 DEF TypeOK
  <2>4. Added(x) \in Nat \cup {Never}
    BY <2>2 DEF Times
  <2> QED BY <2>1, <2>3, <2>4 DEF Window, Limit
<1>3. \A x \in Members : Added(x) \in Nat
  BY <1>1, <1>2 DEF Members
<1>4. \A p \in Paths : expires[p] \in Nat
  BY DEF TypeOK
<1> QED BY <1>1, <1>2, <1>3, <1>4, LimiterFacts

\* A request that goes on from the only limiter is served.
LEMMA ServedAlone ==
  ASSUME NEW api, Alone(api), TypeOK, NEW r \in Requests
  PROVE  Passed(r).state = "served" /\ Passed(r).stage = at[r].stage
<1>1. at[r] \in Places /\ Stages = {1}
  BY LimiterFacts DEF TypeOK
<1>2. ~ (at[r].stage < Len(Limiters))
  BY <1>1 DEF Places, Alone
<1> QED BY <1>1, <1>2 DEF Passed, Places

\* What the script at the head of the order finds to count is in its window.
LEMMA CountedWithin ==
  ASSUME NEW api, Alone(api), IInv(api), sent[api] # <<>>,
         NEW s \in Scripts, s = Head(sent[api])
  PROVE  {h \in Kept(s) : SameKey(h, s)} \subseteq PassedWithin(s)
<1>1. 1 \in 1 .. Len(sent[api]) /\ s = sent[api][1]
  BY DEF Alone, IInv, TypeOK
<1>2. \A x \in Members : x.now <= s.now
  BY <1>1 DEF IInv, InThePast
<1>3. TypeOK
  BY DEF IInv
<1> SUFFICES ASSUME NEW h \in Kept(s), SameKey(h, s) PROVE h \in PassedWithin(s)
  OBVIOUS
<1>4. h \in Members /\ ~ (h.now <= s.now - Window)
  BY <1>3, MemberFacts DEF Kept, Expired, IInv, KeysLive
<1>5. h \in passed /\ Added(h) # Never /\ h.stage = s.stage
  BY <1>3, <1>4, MemberFacts DEF Members
<1>6. s.now - Window < h.now /\ h.now <= s.now
  BY <1>2, <1>3, <1>4, <1>5, MemberFacts
<1> QED BY <1>3, <1>5, <1>6, MemberFacts DEF PassedWithin

\* It finds all those of its window that were added within a window, too.
LEMMA WithinCounted ==
  ASSUME NEW api, Alone(api), IInv(api), sent[api] # <<>>,
         NEW s \in Scripts, s = Head(sent[api]),
         NEW x \in PassedWithin(s), clock <= Added(x) + Window
  PROVE  x \in Kept(s) /\ SameKey(x, s)
<1>1. 1 \in 1 .. Len(sent[api]) /\ s = sent[api][1] /\ TypeOK
  BY DEF Alone, IInv, TypeOK
<1>2. /\ x \in Members /\ SameKey(x, s) /\ x \in Scripts
      /\ s.now - Window < x.now
  BY <1>1, MemberFacts DEF PassedWithin, Members
<1>3. x.now \in Nat /\ s.now \in Nat /\ Window \in Nat /\ clock \in Nat /\ Added(x) \in Nat
  BY <1>1, <1>2, MemberFacts
<1>4. x \in hits
  <2> SUFFICES ASSUME x \notin hits PROVE FALSE
    OBVIOUS
  <2>1. x \in Forgotten
    BY <1>2 DEF Forgotten
  <2>2. x.now + Window <= s.now
    BY <1>1, <2>1 DEF IInv, Over
  <2> QED BY <1>2, <1>3, <2>2
<1>5. x \notin Expired(s)
  <2>1. Limiters[s.stage].window = Window
    BY <1>1, MemberFacts
  <2>2. \A m, n, w \in Nat : n - w < m => ~ (m <= n - w)
    OBVIOUS
  <2>3. ~ (x.now <= s.now - Window)
    BY <1>2, <1>3, <2>2
  <2> QED BY <2>1, <2>3 DEF Expired
<1>6. x \notin Vanished
  <2>1. Added(x) + Window <= expires[route[x.req].path]
    BY <1>4 DEF IInv, KeysLive
  <2>2. expires[route[x.req].path] \in Nat
    BY <1>1, <1>2, MemberFacts
  <2>3. ~ (expires[route[x.req].path] < clock)
    BY <1>3, <2>1, <2>2
  <2> QED BY <2>3 DEF Vanished
<1> QED BY <1>2, <1>4, <1>5, <1>6 DEF Kept

\* A step that counts nothing keeps the invariant if it keeps the order.
LEMMA UncountedKeeps ==
  ASSUME NEW api, Alone(api), IInv(api), TypeOK', NEW s \in Scripts,
         clock <= clock', UNCHANGED <<route, expires, added>>,
         \/ hits' = hits
         \/ /\ hits' = Kept(s) /\ s.now <= clock'
            /\ \A i \in 1 .. Len(sent'[api]) : s.now <= sent'[api][i].now,
         \/ passed' = passed
         \/ passed' = passed \cup {s} /\ Added(s) = Never,
         InOrder(clock', sent'[api]), InThePast(clock', sent'[api], Members),
         Over(clock', sent'[api], Forgotten), Awaited(at', sent'[api]), Fresh'
  PROVE  IInv(api)'
<1>1. /\ TypeOK /\ clock \in Nat /\ clock' \in Nat /\ sent'[api] \in Seq(Scripts)
      /\ passed \subseteq Scripts /\ hits \subseteq Scripts /\ IsFiniteSet(passed)
  BY DEF Alone, IInv, TypeOK, Times
<1>2. Members' = Members
  BY DEF Members, Added
<1>3. Over(clock', sent'[api], Forgotten')
  <2>1. CASE hits' = hits
    <3>1. \A x \in Members : Added(x) \in Nat
      BY <1>1, MemberFacts
    <3>2. Forgotten' \subseteq Forgotten
      BY <1>1, <1>2, <2>1, <3>1, MemberFacts DEF Forgotten, Added
    <3> QED BY <3>2 DEF Over
  <2>2. CASE hits' # hits
    <3>1. Forgotten \subseteq Scripts /\ Expired(s) \subseteq Scripts
      BY <1>1, MemberFacts DEF Forgotten, Expired
    <3>2. s.now \in Nat /\ \A x \in Expired(s) : x.now <= s.now - Window
      BY <1>1, MemberFacts DEF Expired
    <3>3. Over(clock', sent'[api], Forgotten \cup Expired(s))
      BY <1>1, <2>2, <3>1, <3>2, ForgetOrder
    <3>4. \A h \in hits : h \in Vanished => ~ (clock' <= Added(h) + Window)
      <4> SUFFICES ASSUME NEW h \in hits, h \in Vanished
                   PROVE  ~ (clock' <= Added(h) + Window)
        OBVIOUS
      <4>1. Added(h) + Window <= expires[route[h.req].path] /\ h \in Members
        BY DEF IInv, KeysLive
      <4>2. Added(h) \in Nat /\ Window \in Nat /\ expires[route[h.req].path] \in Nat
        BY <1>1, <4>1, MemberFacts
      <4>3. expires[route[h.req].path] < clock
        BY DEF Vanished
      <4> QED BY <1>1, <4>1, <4>2, <4>3
    <3>5. \A x \in Members : Added(x) \in Nat /\ Window \in Nat
      BY <1>1, MemberFacts
    <3>6. Forgotten' \subseteq Forgotten \cup Expired(s)
      <4> SUFFICES ASSUME NEW x \in Members, x \notin hits', clock' <= Added(x) + Window
                   PROVE  x \in Forgotten \cup Expired(s)
        BY <1>2 DEF Forgotten, Added
      <4>1. CASE x \in hits
        BY <2>2, <3>4, <4>1 DEF Kept
      <4>2. CASE x \notin hits
        BY <1>1, <3>5, <4>2 DEF Forgotten
      <4> QED BY <4>1, <4>2
    <3> QED BY <3>3, <3>6 DEF Over
  <2> QED BY <2>1, <2>2
<1>4. KeysLive'
  <2>1. \A x \in Members : Added(x) <= clock /\ Added(x) \in Nat
    BY <1>1, MemberFacts DEF IInv, KeysLive
  <2>2. \A x \in Members' : Added(x)' <= clock'
    BY <1>1, <1>2, <2>1 DEF Added
  <2>3. hits' \subseteq hits
    BY DEF Kept
  <2> QED BY <1>2, <2>2, <2>3 DEF IInv, KeysLive, Added
<1>5. IsFiniteSet(passed')
  BY <1>1, FS_AddElement
<1>6. LimitHolds'
  <2> SUFFICES ASSUME NEW x \in passed', Added(x)' # Never
               PROVE  Cardinality(AddedWithin(x)') <= Limiters[x.stage].limit
    BY DEF LimitHolds
  <2>1. x \in passed /\ Added(x) # Never
    BY DEF Added
  <2>2. PassedWithin(x)' = PassedWithin(x)
    BY DEF PassedWithin, SameKey, Added
  <2>3. AddedWithin(x)' = AddedWithin(x)
    BY <2>2 DEF AddedWithin, Added
  <2> QED BY <2>1, <2>3 DEF IInv, LimitHolds
<1> QED BY <1>2, <1>3, <1>4, <1>5, <1>6 DEF IInv

LEMMA TickStep ==
  ASSUME NEW api, Alone(api), IInv(api), Tick
  PROVE  IInv(api)'
<1>1. clock \in Nat /\ clock' = clock + 1 /\ UNCHANGED <<route, at, sent, hits, expires, passed, added>>
  BY DEF Tick, IInv, TypeOK, Times
<1>2. sent[api] \in Seq(Scripts) /\ Members \subseteq Scripts /\ Forgotten \subseteq Scripts
  BY DEF Alone, IInv, TypeOK, Members, Forgotten
<1>3. TypeOK'
  BY DEF Tick, IInv, TypeOK, Times
<1>4. /\ InOrder(clock', sent'[api]) /\ InThePast(clock', sent'[api], Members)
      /\ Over(clock', sent'[api], Forgotten)
  BY <1>1, <1>2, LaterOrder DEF IInv
<1>5. Fresh' /\ Awaited(at', sent'[api])
  BY <1>1 DEF IInv, Fresh
<1>6. CASE Scripts # {}
  <2>1. PICK s \in Scripts : TRUE
    BY <1>6
  <2> QED BY <1>1, <1>3, <1>4, <1>5, <2>1, UncountedKeeps
<1>7. CASE Scripts = {}
  <2>1. Requests = {}
    <3>1. \A r \in Requests : Script(r) \in Scripts
      BY ScriptType DEF IInv
    <3> QED BY <1>7, <3>1
  <2>2. passed' = {} /\ hits' = {} /\ Members' = {} /\ Forgotten' = {} /\ IsFiniteSet(passed')
    BY <1>3, <1>7, FS_EmptySet DEF TypeOK, Members, Forgotten
  <2>3. KeysLive' /\ LimitHolds' /\ Over(clock', sent'[api], Forgotten')
        /\ InThePast(clock', sent'[api], Members')
    BY <2>2 DEF KeysLive, LimitHolds, Over, InThePast
  <2> QED BY <1>3, <1>4, <1>5, <2>2, <2>3 DEF IInv
<1> QED BY <1>6, <1>7

LEMMA SendStep ==
  ASSUME NEW api, Alone(api), IInv(api), NEW r \in Requests, Send(r)
  PROVE  IInv(api)'
<1> PICK s : s = Script(r)
  OBVIOUS
<1>1. clock \in Nat /\ UNCHANGED <<clock, route, hits, expires, passed, added>>
  BY DEF Send, IInv, TypeOK, Times
<1>2. TypeOK'
  BY SendType DEF IInv
<1>3. sent'[api] = Append(sent[api], s) /\ s \in Scripts /\ s.now = clock /\ s.req = r
  <2>1. route[r].process = api /\ api \in Processes
    BY DEF IInv, TypeOK, Alone
  <2>2. sent'[api] = Append(sent[api], s)
    BY <2>1 DEF Send, IInv, TypeOK
  <2>3. s \in Scripts
    BY ScriptType DEF IInv
  <2> QED BY <2>2, <2>3 DEF Script
<1>4. sent[api] \in Seq(Scripts) /\ Members \subseteq Scripts /\ Forgotten \subseteq Scripts
  BY DEF Alone, IInv, TypeOK, Members, Forgotten
<1>5. at[r].state = "ready" /\ at'[r].state = "waits"
      /\ \A o \in Requests \ {r} : at'[o] = at[o]
  BY DEF Send, IInv, TypeOK, Places
<1>6. /\ InOrder(clock, Append(sent[api], s))
      /\ InThePast(clock, Append(sent[api], s), Members)
      /\ Over(clock, Append(sent[api], s), Forgotten)
  BY <1>1, <1>3, <1>4, AppendOrder DEF IInv
<1>7. Awaited(at', Append(sent[api], s))
  BY <1>3, <1>4, <1>5, AppendAwaited DEF IInv
<1>8. Fresh'
  BY <1>1, <1>5 DEF IInv, Fresh
<1>9. /\ clock <= clock' /\ InOrder(clock', sent'[api]) /\ InThePast(clock', sent'[api], Members)
      /\ Over(clock', sent'[api], Forgotten) /\ Awaited(at', sent'[api])
  BY <1>1, <1>3, <1>6, <1>7
<1>10. UNCHANGED <<route, expires, added>> /\ hits' = hits /\ passed' = passed /\ s \in Scripts
  BY <1>1, <1>3
<1> QED BY <1>2, <1>8, <1>9, <1>10, UncountedKeeps

LEMMA UnsentStep ==
  ASSUME NEW api, Alone(api), IInv(api), NEW r \in Requests, Unsent(r)
  PROVE  IInv(api)'
<1> PICK s : s = Script(r)
  OBVIOUS
<1>1. /\ UNCHANGED <<clock, route, sent, hits, expires, added>>
      /\ s \in Scripts /\ s.req = r /\ s.stage = at[r].stage /\ TypeOK
      /\ at[r].state = "ready" /\ passed' = passed \cup {s}
      /\ at' = [at EXCEPT ![r] = Passed(r)]
  BY ScriptType DEF Unsent, GoOn, Script, IInv
<1>2. TypeOK'
  BY UnsentType DEF IInv
<1>3. Added(s) = Never
  <2>1. s.stage \in Stages
    BY <1>1 DEF Scripts
  <2> QED BY <1>1, <2>1 DEF IInv, Fresh, Added
<1>4. at'[r].state = "served" /\ \A o \in Requests \ {r} : at'[o] = at[o]
  BY <1>1, ServedAlone DEF TypeOK
<1>5. Fresh'
  BY <1>1, <1>4 DEF IInv, Fresh
<1>6. Awaited(at', sent'[api])
  <2>1. \A i \in 1 .. Len(sent[api]) : sent[api][i].req \in Requests /\ sent[api][i].req # r
    <3>1. \A i \in 1 .. Len(sent[api]) : sent[api][i] \in Scripts
      BY <1>1 DEF TypeOK, Alone
    <3> QED BY <1>1, <3>1, LimiterFacts DEF IInv, Awaited
  <2> QED BY <1>1, <1>4, <2>1 DEF IInv, Awaited
<1>7. clock <= clock' /\ clock' = clock /\ sent' = sent
  BY <1>1 DEF TypeOK, Times
<1>8. /\ InOrder(clock', sent'[api]) /\ InThePast(clock', sent'[api], Members)
      /\ Over(clock', sent'[api], Forgotten)
  BY <1>7 DEF IInv
<1>9. UNCHANGED <<route, expires, added>> /\ hits' = hits
  BY <1>1
<1> QED BY <1>1, <1>2, <1>3, <1>5, <1>6, <1>7, <1>8, <1>9, UncountedKeeps

\* The script at the head of the order, and the order without it.
LEMMA HeadFacts ==
  ASSUME NEW api, Alone(api), IInv(api), Eval(api) \/ FailOpen(api),
         NEW s, s = Head(sent[api])
  PROVE  /\ TypeOK' /\ clock' = clock /\ route' = route
         /\ sent[api] # <<>> /\ sent'[api] = Tail(sent[api]) /\ s \in Scripts
         /\ s.req \in Requests /\ s.stage = 1 /\ s.stage \in Stages
         /\ at[s.req].state = "waits" /\ Added(s) = Never /\ \A x \in passed : x.req # s.req
         /\ InOrder(clock', sent'[api]) /\ InThePast(clock', sent'[api], Members)
         /\ Over(clock', sent'[api], Forgotten) /\ Awaited(at', sent'[api])
         /\ s.now <= clock' /\ \A i \in 1 .. Len(sent'[api]) : s.now <= sent'[api][i].now
         /\ \A o \in Requests \ {s.req} : at'[o] = at[o]
<1>1. /\ sent[api] # <<>> /\ sent' = [sent EXCEPT ![api] = Tail(@)] /\ clock' = clock /\ route' = route
      /\ TypeOK /\ api \in Processes
  BY DEF Eval, FailOpen, Alone, IInv
<1>2. /\ sent[api] \in Seq(Scripts) /\ s \in Scripts /\ sent'[api] = Tail(sent[api])
      /\ 1 \in 1 .. Len(sent[api]) /\ s = sent[api][1]
  BY <1>1 DEF TypeOK
<1>3. s.req \in Requests /\ s.stage = 1 /\ s.stage \in Stages
  BY <1>2, LimiterFacts DEF Scripts
<1>4. at[s.req].state = "waits"
  BY <1>2 DEF IInv, Awaited
<1>5. Added(s) = Never /\ \A x \in passed : x.req # s.req
  BY <1>3, <1>4 DEF IInv, Fresh, Added
<1>6. \A o \in Requests \ {s.req} : at'[o] = at[o]
  <2>1. \/ at' = [at EXCEPT ![s.req] = [at[s.req] EXCEPT !.state = "denied"]]
        \/ at' = [at EXCEPT ![s.req] = Passed(s.req)]
    BY DEF Eval, FailOpen, GoOn
  <2> QED BY <1>1, <2>1 DEF TypeOK
<1>7. TypeOK'
  BY <1>1, EvalType
<1>8. /\ InOrder(clock, Tail(sent[api])) /\ InThePast(clock, Tail(sent[api]), Members)
      /\ Over(clock, Tail(sent[api]), Forgotten) /\ Awaited(at', Tail(sent[api]))
      /\ s.now <= clock /\ \A i \in 1 .. Len(Tail(sent[api])) : s.now <= Tail(sent[api])[i].now
  BY <1>1, <1>2, <1>6, TailOrder DEF IInv
<1> QED BY <1>1, <1>2, <1>3, <1>4, <1>5, <1>6, <1>7, <1>8

\* A script that is counted keeps the limit: what was added within the window
\* that ends with it left room for it, and no earlier window contains it.
LEMMA RoomForOne ==
  ASSUME NEW api, Alone(api), IInv(api), sent[api] # <<>>,
         NEW s \in Scripts, s = Head(sent[api]), s.stage = 1,
         ~ AtLimit(s), Added(s) = Never, Added(s)' = clock,
         \A x \in passed : Added(x)' = Added(x),
         passed' = passed \cup {s}, route' = route
  PROVE  LimitHolds'
<1>1. TypeOK /\ passed \subseteq Scripts /\ IsFiniteSet(passed) /\ s \notin Members
  BY DEF IInv, TypeOK, Members
<1>2. /\ clock \in Nat /\ s.now \in Nat /\ Window \in Nat /\ Limit \in Nat \ {0}
      /\ Limiters[s.stage].limit = Limit /\ Limiters[s.stage].window = Window
      /\ \A x \in passed : /\ x.stage = 1 /\ x.now \in Nat
                           /\ Limiters[x.stage].limit = Limit
                           /\ Limiters[x.stage].window = Window
                           /\ Added(x) \in Nat \cup {Never}
  BY <1>1, MemberFacts
<1>3. \A x \in Members : x.now <= s.now /\ Added(x) <= clock /\ Added(x) \in Nat
  <2>1. 1 \in 1 .. Len(sent[api]) /\ s = sent[api][1]
    BY <1>1 DEF TypeOK, Alone
  <2> QED BY <1>1, <2>1, MemberFacts DEF IInv, InThePast, KeysLive
<1> DEFINE W == {h \in Kept(s) : SameKey(h, s)}
<1>4. IsFiniteSet(W) /\ Cardinality(W) \in Nat /\ Cardinality(W) < Limit
  <2>1. W \subseteq passed
    BY CountedWithin DEF PassedWithin
  <2>2. IsFiniteSet(W) /\ Cardinality(W) \in Nat
    BY <1>1, <2>1, FS_Subset, FS_CardinalityType
  <2>3. ~ (Cardinality(W) >= Limit)
    BY <1>2 DEF AtLimit
  <2> HIDE DEF W
  <2> QED BY <1>2, <2>2, <2>3
<1>5. IsFiniteSet(W \cup {s}) /\ Cardinality(W \cup {s}) <= Limit
  <2> HIDE DEF W
  <2>1. /\ IsFiniteSet(W \cup {s})
        /\ Cardinality(W \cup {s}) = IF s \in W THEN Cardinality(W) ELSE Cardinality(W) + 1
    BY <1>4, FS_AddElement
  <2> QED BY <1>2, <1>4, <2>1
<1>6. \A S : S \subseteq W \cup {s} => Cardinality(S) <= Limit
  <2> HIDE DEF W
  <2> QED BY <1>2, <1>5, FS_Subset, FS_CardinalityType
\* What the window of s contains, and that of any x with the same times.
<1>7. ASSUME NEW x \in passed', SameKey(x, s), x.now = s.now, Added(x)' = clock
      PROVE  Cardinality(AddedWithin(x)') <= Limit
  <2> SUFFICES ASSUME NEW y \in AddedWithin(x)', y # s PROVE y \in W
    BY <1>6
  <2>1. /\ y \in passed /\ Added(y)' = Added(y) /\ Added(y) # Never
        /\ y.stage = s.stage /\ SameKey(y, s) /\ x.stage = 1 /\ Limiters[x.stage].window = Window
        /\ s.now - Window < y.now /\ y.now <= s.now /\ clock - Window <= Added(y)
    BY <1>2, <1>7 DEF AddedWithin, PassedWithin, SameKey
  <2>2. y \in PassedWithin(s)
    BY <1>2, <2>1 DEF PassedWithin
  <2>3. clock <= Added(y) + Window
    BY <1>2, <2>1
  <2> QED BY <2>2, <2>3, WithinCounted
<1>8. ASSUME NEW x \in passed, Added(x) # Never
      PROVE  Cardinality(AddedWithin(x)') <= Limit
  <2>1. x \in Members /\ Added(x)' = Added(x) /\ x.now <= s.now /\ Added(x) <= clock
    BY <1>3, <1>8 DEF Members
  <2>2. CASE SameKey(x, s) /\ x.now = s.now /\ Added(x) = clock
    BY <1>7, <2>1, <2>2
  <2>3. CASE ~ (SameKey(x, s) /\ x.now = s.now /\ Added(x) = clock)
    <3>1. s \notin AddedWithin(x)'
      <4> SUFFICES ASSUME s \in AddedWithin(x)' PROVE FALSE
        OBVIOUS
      <4>1. SameKey(x, s) /\ s.now <= x.now /\ clock <= Added(x)
        BY <2>1 DEF AddedWithin, PassedWithin, SameKey
      <4>2. x.now \in Nat /\ Added(x) \in Nat
        BY <1>2, <1>3, <2>1
      <4> QED BY <1>2, <2>1, <2>3, <4>1, <4>2
    <3>2. AddedWithin(x)' \subseteq AddedWithin(x)
      <4> SUFFICES ASSUME NEW y \in AddedWithin(x)' PROVE y \in AddedWithin(x)
        OBVIOUS
      <4>1. y \in passed /\ Added(y)' = Added(y)
        BY <3>1 DEF AddedWithin, PassedWithin
      <4> QED BY <2>1, <4>1 DEF AddedWithin, PassedWithin, SameKey
    <3>3. /\ IsFiniteSet(AddedWithin(x)) /\ Cardinality(AddedWithin(x)) \in Nat
          /\ Cardinality(AddedWithin(x)) <= Limit
      <4>1. AddedWithin(x) \subseteq passed
        BY DEF AddedWithin, PassedWithin
      <4> QED BY <1>1, <1>2, <1>8, <4>1, FS_Subset, FS_CardinalityType DEF IInv, LimitHolds
    <3>4. /\ Cardinality(AddedWithin(x)') <= Cardinality(AddedWithin(x))
          /\ Cardinality(AddedWithin(x)') \in Nat
      BY <3>2, <3>3, FS_Subset, FS_CardinalityType
    <3> QED BY <1>2, <3>3, <3>4
  <2> QED BY <2>2, <2>3
<1>9. Cardinality(AddedWithin(s)') <= Limit
  <2>1. SameKey(s, s)
    BY DEF SameKey
  <2> QED BY <1>7, <2>1
<1>10. ASSUME NEW x \in passed', Added(x)' # Never
       PROVE  Cardinality(AddedWithin(x)') <= Limiters[x.stage].limit
  BY <1>2, <1>8, <1>9, <1>10
<1> QED BY <1>10 DEF LimitHolds

\* The script at the head is counted, and its request goes on.
LEMMA CountedKeeps ==
  ASSUME NEW api, Alone(api), IInv(api), Eval(api) \/ FailOpen(api),
         RunBelow(Head(sent[api])), GoOn(Head(sent[api]))
  PROVE  IInv(api)'
<1> PICK s : s = Head(sent[api])
  OBVIOUS
<1>1. /\ TypeOK' /\ clock' = clock /\ route' = route
      /\ sent[api] # <<>> /\ s \in Scripts
      /\ s.req \in Requests /\ s.stage = 1 /\ s.stage \in Stages
      /\ Added(s) = Never /\ \A x \in passed : x.req # s.req
      /\ InOrder(clock', sent'[api]) /\ InThePast(clock', sent'[api], Members)
      /\ Over(clock', sent'[api], Forgotten) /\ Awaited(at', sent'[api])
      /\ s.now <= clock' /\ \A i \in 1 .. Len(sent'[api]) : s.now <= sent'[api][i].now
      /\ \A o \in Requests \ {s.req} : at'[o] = at[o]
  BY HeadFacts
<1>2. /\ ~ AtLimit(s) /\ hits' = Kept(s) \cup {s} /\ passed' = passed \cup {s}
      /\ expires' = [expires EXCEPT ![route[s.req].path] = clock + Limiters[s.stage].window]
      /\ added' = [added EXCEPT ![s.req][s.stage] = clock]
      /\ at' = [at EXCEPT ![s.req] = Passed(s.req)]
  BY DEF RunBelow, GoOn, Counted
<1>3. /\ TypeOK /\ clock \in Nat /\ Window \in Nat /\ passed \subseteq Scripts
      /\ hits \subseteq Scripts /\ Limiters[s.stage].window = Window
      /\ \A x \in Scripts : x.req \in Requests /\ x.stage = 1 /\ route[x.req].path \in Paths
                            /\ x.now \in Nat
      /\ \A x \in Members : Added(x) \in Nat
      /\ \A p \in Paths : expires[p] \in Nat
  BY <1>1, MemberFacts DEF IInv
<1>4. Added(s)' = clock /\ \A x \in passed : Added(x)' = Added(x)
  <2>1. added[s.req] \in [Stages -> Times \cup {Never}] /\ added \in [Requests -> [Stages -> Times \cup {Never}]]
    BY <1>1, <1>3 DEF TypeOK
  <2>2. \A x \in passed : x.req \in Requests /\ x.req # s.req
    BY <1>1, <1>3
  <2> QED BY <1>1, <1>2, <2>1, <2>2 DEF Added
<1>5. Members' = Members \cup {s}
  <2>1. clock # Never
    BY <1>3, LimiterAssumption
  <2> QED BY <1>2, <1>4, <2>1 DEF Members
<1>6. LimitHolds'
  BY <1>1, <1>2, <1>4, RoomForOne
<1>7. KeysLive'
  <2>1. \A x \in Members' : Added(x)' <= clock'
    BY <1>1, <1>3, <1>4, <1>5 DEF IInv, KeysLive, Members
  <2>2. ASSUME NEW h \in hits'
        PROVE  h \in Members' /\ Added(h)' + Window <= expires'[route'[h.req].path]
    <3>1. expires \in [Paths -> Nat] /\ route[s.req].path \in Paths
      BY <1>1, <1>3 DEF TypeOK
    <3>2. CASE h = s
      <4>1. expires'[route[s.req].path] = clock + Window
        BY <1>2, <1>3, <3>1
      <4> QED BY <1>1, <1>3, <1>4, <1>5, <3>2, <4>1
    <3>3. CASE h # s
      <4>1. h \in hits /\ h \in Members /\ Added(h) + Window <= expires[route[h.req].path]
        BY <1>2, <2>2, <3>3 DEF Kept, IInv, KeysLive
      <4>2. Added(h)' = Added(h) /\ Added(h) \in Nat /\ Added(h) <= clock /\ route[h.req].path \in Paths
        BY <1>3, <1>4, <4>1 DEF Members, IInv, KeysLive
      <4>3. CASE route[h.req].path = route[s.req].path
        <5>1. expires'[route[h.req].path] = clock + Window
          BY <1>2, <1>3, <3>1, <4>3
        <5> QED BY <1>1, <1>3, <1>5, <4>1, <4>2, <5>1
      <4>4. CASE route[h.req].path # route[s.req].path
        <5>1. expires'[route[h.req].path] = expires[route[h.req].path]
          BY <1>2, <3>1, <4>2, <4>4
        <5> QED BY <1>1, <1>5, <4>1, <4>2, <5>1
      <4> QED BY <4>3, <4>4
    <3> QED BY <3>2, <3>3
  <2> QED BY <2>1, <2>2 DEF KeysLive
<1>8. Over(clock', sent'[api], Forgotten')
  <2>1. sent'[api] \in Seq(Scripts)
    BY <1>1 DEF TypeOK, Alone
  <2>2. /\ Forgotten \subseteq Scripts /\ Expired(s) \subseteq Scripts /\ s.now \in Nat
        /\ \A x \in Expired(s) : x.now <= s.now - Window
    BY <1>1, <1>3 DEF Forgotten, Members, Expired
  <2>3. Over(clock', sent'[api], Forgotten \cup Expired(s))
    BY <1>1, <1>3, <2>1, <2>2, ForgetOrder
  <2>4. \A h \in hits : h \in Vanished => ~ (clock <= Added(h) + Window)
    <3> SUFFICES ASSUME NEW h \in hits, h \in Vanished PROVE ~ (clock <= Added(h) + Window)
      OBVIOUS
    <3>1. Added(h) + Window <= expires[route[h.req].path] /\ h \in Members
      BY DEF IInv, KeysLive
    <3>2. Added(h) \in Nat /\ expires[route[h.req].path] \in Nat
      BY <1>3, <3>1
    <3>3. expires[route[h.req].path] < clock
      BY DEF Vanished
    <3> QED BY <1>3, <3>1, <3>2, <3>3
  <2>5. Forgotten' \subseteq Forgotten \cup Expired(s)
    <3> SUFFICES ASSUME NEW x \in Members', x \notin hits', clock' <= Added(x)' + Window
                 PROVE  x \in Forgotten \cup Expired(s)
      BY DEF Forgotten
    <3>1. x \in Members /\ Added(x)' = Added(x)
      BY <1>2, <1>4, <1>5 DEF Members
    <3>2. CASE x \in hits
      BY <1>1, <1>2, <2>4, <3>1, <3>2 DEF Kept
    <3>3. CASE x \notin hits
      BY <1>1, <3>1, <3>3 DEF Forgotten
    <3> QED BY <3>2, <3>3
  <2> QED BY <2>3, <2>5 DEF Over
<1>9. InThePast(clock', sent'[api], Members')
  BY <1>1, <1>5 DEF InThePast
<1>10. Fresh'
  <2>1. at'[s.req].state = "served"
    BY <1>1, <1>2, <1>3, ServedAlone DEF TypeOK
  <2>2. \A o \in Requests \ {s.req} : added'[o] = added[o]
    BY <1>2, <1>3 DEF TypeOK
  <2> QED BY <1>1, <1>2, <2>1, <2>2 DEF IInv, Fresh
<1>11. IsFiniteSet(passed')
  BY <1>2, FS_AddElement DEF IInv
<1> QED BY <1>1, <1>6, <1>7, <1>8, <1>9, <1>10, <1>11 DEF IInv

LEMMA EvalStep ==
  ASSUME NEW api, Alone(api), IInv(api), Eval(api) \/ FailOpen(api)
  PROVE  IInv(api)'
<1> PICK s : s = Head(sent[api])
  OBVIOUS
<1>1. CASE RunBelow(s) /\ GoOn(s)
  BY <1>1, CountedKeeps
<1>2. CASE /\ RunOver(s) \/ UNCHANGED <<hits, expires, added>>
           /\ GoOn(s) \/ (at' = [at EXCEPT ![s.req].state = "denied"] /\ passed' = passed)
  <2>1. /\ TypeOK' /\ clock' = clock /\ route' = route /\ s \in Scripts
        /\ s.req \in Requests /\ at[s.req].state = "waits" /\ Added(s) = Never
        /\ InOrder(clock', sent'[api]) /\ InThePast(clock', sent'[api], Members)
        /\ Over(clock', sent'[api], Forgotten) /\ Awaited(at', sent'[api])
        /\ s.now <= clock' /\ \A i \in 1 .. Len(sent'[api]) : s.now <= sent'[api][i].now
        /\ \A o \in Requests \ {s.req} : at'[o] = at[o]
    BY HeadFacts
  <2>2. UNCHANGED <<route, expires, added>> /\ (hits' = hits \/ hits' = Kept(s))
    BY <1>2, <2>1 DEF RunOver
  <2>3. passed' = passed \/ (passed' = passed \cup {s} /\ Added(s) = Never)
    BY <1>2, <2>1 DEF GoOn
  <2>4. Fresh'
    <3>1. CASE GoOn(s)
      <4>1. at'[s.req].state = "served" /\ passed' = passed \cup {s}
        BY <2>1, <3>1, ServedAlone DEF GoOn, IInv, TypeOK
      <4> QED BY <2>1, <2>2, <4>1 DEF IInv, Fresh
    <3>2. CASE passed' = passed
      BY <2>1, <2>2, <3>2 DEF IInv, Fresh
    <3> QED BY <1>2, <3>1, <3>2
  <2>5. clock <= clock'
    BY <2>1 DEF TypeOK, Times
  <2> QED BY <2>1, <2>2, <2>3, <2>4, <2>5, UncountedKeeps
<1> QED BY <1>1, <1>2 DEF Eval, FailOpen

LEMMA LimiterInvariance ==
  ASSUME NEW api, Alone(api)
  PROVE  Spec => []IInv(api)
<1>1. Init => IInv(api)
  <2> SUFFICES ASSUME Init PROVE IInv(api)
    OBVIOUS
  <2>1. TypeOK
    BY DEF Init, TypeOK, Times, Places, Stages
  <2>2. /\ sent[api] = <<>> /\ Len(sent[api]) = 0 /\ passed = {} /\ hits = {}
        /\ Members = {} /\ Forgotten = {}
    BY DEF Init, Alone, Members, Forgotten
  <2>3. IsFiniteSet(passed)
    BY <2>2, FS_EmptySet
  <2>4. Fresh
    BY <2>2 DEF Init, Fresh
  <2> QED BY <2>1, <2>2, <2>3, <2>4
          DEF IInv, InOrder, InThePast, Over, Awaited, LimitHolds, KeysLive
<1>2. IInv(api) /\ [Next]_vars => IInv(api)'
  <2> SUFFICES ASSUME IInv(api), [Next]_vars PROVE IInv(api)'
    OBVIOUS
  <2>1. CASE UNCHANGED vars
    <3>1. clock' = clock /\ sent' = sent /\ at' = at /\ passed' = passed /\ hits' = hits
          /\ route' = route /\ expires' = expires /\ added' = added
      BY <2>1 DEF vars
    <3>2. TypeOK' /\ KeysLive' /\ Fresh' /\ Members' = Members /\ Forgotten' = Forgotten
      BY <3>1 DEF IInv, TypeOK, KeysLive, Fresh, Members, Forgotten, Added
    <3>3. LimitHolds'
      BY <3>1 DEF IInv, LimitHolds, AddedWithin, PassedWithin, SameKey, Added
    <3> QED BY <3>1, <3>2, <3>3 DEF IInv
  <2>2. CASE \E p \in Processes : Eval(p) \/ FailOpen(p)
    BY <2>2, EvalStep DEF Alone
  <2> QED BY <2>1, <2>2, TickStep, SendStep, UnsentStep DEF Next
<1> QED BY <1>1, <1>2, PTL DEF Spec

\* With one process and one limiter, no more requests than the limit are
\* counted and let through that were sent, and added, within one window, however
\* late the scripts run, though keys expire by the clock of Redis (PEXPIRE), and
\* whichever evals throw, having run or not.
THEOREM OneLimiterHolds ==
  ASSUME NEW api, Alone(api)
  PROVE  Spec => []LimitHolds
<1>1. IInv(api) => LimitHolds
  BY DEF IInv
<1> QED BY <1>1, LimiterInvariance, PTL

\* With one process and one limiter nobody is denied early: a script that
\* denies finds its limit of requests that passed within its window.
THEOREM OneLimiterDeniesNobodyEarly ==
  ASSUME NEW api, Alone(api)
  PROVE  Spec => DeniedOnlyAtLimit
<1> DEFINE Due == \A p \in Processes :
       sent'[p] # sent[p] /\ sent[p] # <<>> /\ at'[Head(sent[p]).req].state = "denied"
       => Cardinality(PassedWithin(Head(sent[p]))) >= Limiters[Head(sent[p]).stage].limit
<1>1. IInv(api) /\ [Next]_vars => Due
  <2> SUFFICES ASSUME IInv(api), [Next]_vars,
                      sent'[api] # sent[api], sent[api] # <<>>,
                      at'[Head(sent[api]).req].state = "denied"
               PROVE  Cardinality(PassedWithin(Head(sent[api])))
                        >= Limiters[Head(sent[api]).stage].limit
    BY DEF Alone
  <2> PICK s : s = Head(sent[api])
    OBVIOUS
  <2>1. s \in Scripts /\ s.req \in Requests /\ at[s.req].state = "waits"
    <3>1. sent[api] \in Seq(Scripts)
      BY DEF Alone, IInv, TypeOK
    <3>2. 1 \in 1 .. Len(sent[api]) /\ s = sent[api][1] /\ s \in Scripts
      BY <3>1
    <3> QED BY <3>2 DEF IInv, Awaited, Scripts
  <2>2. CASE Tick \/ UNCHANGED vars
    BY <2>2 DEF Tick, vars
  <2>3. ASSUME NEW r \in Requests, Send(r) \/ Unsent(r) PROVE FALSE
    <3>1. at[r].state = "ready" /\ (at' = [at EXCEPT ![r].state = "waits"] \/ sent' = sent)
      BY <2>3 DEF Send, Unsent
    <3>2. at'[s.req] = at[s.req]
      BY <2>1, <3>1 DEF IInv, TypeOK
    <3> QED BY <2>1, <3>2
  <2>4. ASSUME GoOn(s) PROVE FALSE
    <3>1. at'[s.req] = Passed(s.req)
      BY <2>1, <2>4 DEF GoOn, IInv, TypeOK
    <3> QED BY <2>1, <3>1, PassedIsPlace DEF IInv
  <2>5. CASE AtLimit(s) /\ sent[api] # <<>>
    <3> DEFINE W == {h \in Kept(s) : SameKey(h, s)}
    <3>1. W \subseteq PassedWithin(s) /\ PassedWithin(s) \subseteq passed
      BY <2>1, CountedWithin DEF PassedWithin
    <3>2. Cardinality(W) >= Limiters[s.stage].limit
      BY <2>5 DEF AtLimit
    <3>3. Limiters[s.stage].limit \in Nat
      BY <2>1, MemberFacts DEF IInv
    <3> HIDE DEF W
    <3>4. IsFiniteSet(PassedWithin(s)) /\ IsFiniteSet(W)
      BY <3>1, FS_Subset DEF IInv
    <3>5. /\ Cardinality(W) <= Cardinality(PassedWithin(s))
          /\ Cardinality(W) \in Nat /\ Cardinality(PassedWithin(s)) \in Nat
      BY <3>1, <3>4, FS_Subset, FS_CardinalityType
    <3> QED BY <3>2, <3>3, <3>5
  <2>6. CASE Eval(api) \/ FailOpen(api)
    BY <2>4, <2>5, <2>6 DEF Eval, FailOpen, RunOver
  <2> QED BY <2>2, <2>3, <2>6 DEF Next, Alone
<1>2. Due <=> (\A p \in Processes :
       sent'[p] # sent[p] /\ sent[p] # <<>> /\ at'[Head(sent[p]).req].state = "denied"
       => LET s == Head(sent[p])
          IN Cardinality(PassedWithin(s)) >= Limiters[s.stage].limit)
  OBVIOUS
<1> QED BY <1>1, <1>2, LimiterInvariance, PTL DEF Spec, DeniedOnlyAtLimit
=============================================================================
