------------------------------ MODULE RateLimiter ------------------------------
(***************************************************************************)
(* rateLimiter.ts: sliding-window limits in Redis.  The key of a window is *)
(* made of path and caller and does not name the limiter, so a path with   *)
(* two limiters in front of it, as the auth endpoints have, keeps one      *)
(* window for both.  One caller is modelled: callers share no key.         *)
(*                                                                         *)
(* A limiter reads the clock and sends its script; the scripts of one      *)
(* process reach Redis in the order they were sent, those of different     *)
(* processes in any order.  The random part of a member keeps members      *)
(* apart, so a member is named by the script that added it.  Members carry *)
(* the time their limiter read, while PEXPIRE counts from the time Redis   *)
(* ran the script: the two are read from one clock, but not at one time.   *)
(***************************************************************************)
EXTENDS Integers, Sequences, FiniteSets

CONSTANTS
  Processes,   \* API processes
  Requests,    \* requests of the caller
  Paths,       \* method and path of a request
  Limiters,    \* the limiters in front of each path, in order: a sequence
               \* of [limit, window] records
  MaxTime,     \* bound on the clock
  Faults,      \* "redis": an eval may throw
  Never        \* no time

ASSUME LimiterAssumption ==
  /\ Limiters \in Seq([limit : Nat \ {0}, window : Nat \ {0}])
  /\ Limiters # <<>>
  /\ MaxTime \in Nat /\ Faults \subseteq {"redis"} /\ Never \notin Int

VARIABLES
  clock,    \* Date.now()
  route,    \* the process and the path of each request
  at,       \* the limiter each request is at, and whether it waits for Redis
  sent,     \* per process, the scripts Redis has not run yet
  hits,     \* the sorted sets: the scripts that added their members
  expires,  \* until when the key of each path lives
  passed,   \* history: the scripts after which their request went on
  added     \* history: when Redis added the member of a request, per limiter

vars == <<clock, route, at, sent, hits, expires, passed, added>>

Stages == 1 .. Len(Limiters)
Times == 0 .. MaxTime
Scripts == [req : Requests, stage : Stages, now : Times]
Places == [stage : Stages, state : {"ready", "waits", "denied", "served"}]

\* Every variable stays in its range.
TypeOK == /\ clock \in Times
          /\ route \in [Requests -> [process : Processes, path : Paths]]
          /\ at \in [Requests -> Places]
          /\ sent \in [Processes -> Seq(Scripts)]
          /\ hits \subseteq Scripts /\ passed \subseteq Scripts
          /\ expires \in [Paths -> Nat]
          /\ added \in [Requests -> [Stages -> Times \cup {Never}]]

Init == /\ clock = 0
        /\ route \in [Requests -> [process : Processes, path : Paths]]
        /\ at = [r \in Requests |-> [stage |-> 1, state |-> "ready"]]
        /\ sent = [p \in Processes |-> <<>>]
        /\ hits = {} /\ passed = {}
        /\ expires = [p \in Paths |-> 0]
        /\ added = [r \in Requests |-> [i \in Stages |-> Never]]

Tick == /\ clock < MaxTime
        /\ clock' = clock + 1
        /\ UNCHANGED <<route, at, sent, hits, expires, passed, added>>

\* The limiter a request has come to reads the clock.
Script(r) == [req |-> r, stage |-> at[r].stage, now |-> clock]

\* It sends its script.
Send(r) ==
  /\ at[r].state = "ready"
  /\ at' = [at EXCEPT ![r].state = "waits"]
  /\ sent' = [sent EXCEPT ![route[r].process] = Append(@, Script(r))]
  /\ UNCHANGED <<clock, route, hits, expires, passed, added>>

\* (Mutant: next() is not followed to the end of the chain.)
Passed_NoEnd(r) == [stage |-> at[r].stage + 1, state |-> "ready"]
\* next(): on to the limiter behind, or to the handler.
Passed(r) == IF at[r].stage < Len(Limiters)
             THEN [stage |-> at[r].stage + 1, state |-> "ready"]
             ELSE [at[r] EXCEPT !.state = "served"]

SameKey(x, y) == route[x.req].path = route[y.req].path

\* (Mutant: the members that are too old are not removed.)
Expired_None(s) == {}
\* ZREMRANGEBYSCORE: the members of the key that have left the window.
Expired(s) ==
  {h \in hits : SameKey(h, s) /\ h.now <= s.now - Limiters[s.stage].window}

\* PEXPIRE: the members of a key that has lived its time.
Vanished == {h \in hits : expires[route[h.req].path] < clock}

Kept(s) == hits \ (Vanished \cup Expired(s))
AtLimit(s) ==
  Cardinality({h \in Kept(s) : SameKey(h, s)}) >= Limiters[s.stage].limit

\* (Mutant: the member is the time alone, without a random part.)
Counted_SameMember(s, kept) ==
  {h \in kept : ~ (SameKey(h, s) /\ h.now = s.now)} \cup {s}
\* ZADD.
Counted(s, kept) == kept \cup {s}

\* Redis runs script s at its limit, or below it: the member is added, and the
\* key lives for another window from now on.
RunOver(s) == /\ AtLimit(s)
              /\ hits' = Kept(s)
              /\ UNCHANGED <<expires, added>>
RunBelow(s) ==
  /\ ~ AtLimit(s)
  /\ hits' = Counted(s, Kept(s))
  /\ expires' = [expires EXCEPT ![route[s.req].path] =
                   clock + Limiters[s.stage].window]
  /\ added' = [added EXCEPT ![s.req][s.stage] = clock]

GoOn(s) == /\ at' = [at EXCEPT ![s.req] = Passed(s.req)]
           /\ passed' = passed \cup {s}

\* The next script of a process gets its answer: the request goes on, or is
\* answered 429.
Eval(p) ==
  /\ sent[p] # <<>>
  /\ LET s == Head(sent[p])
     IN \/ RunBelow(s) /\ GoOn(s)
        \/ /\ RunOver(s)
           /\ at' = [at EXCEPT ![s.req].state = "denied"]
           /\ UNCHANGED passed
  /\ sent' = [sent EXCEPT ![p] = Tail(@)]
  /\ UNCHANGED <<clock, route>>

\* The eval throws, and the request goes on: Redis has not run the script, or
\* has, and the answer is lost.
FailOpen(p) ==
  /\ "redis" \in Faults /\ sent[p] # <<>>
  /\ LET s == Head(sent[p])
     IN /\ GoOn(s)
        /\ \/ UNCHANGED <<hits, expires, added>>
           \/ RunBelow(s)
           \/ RunOver(s)
  /\ sent' = [sent EXCEPT ![p] = Tail(@)]
  /\ UNCHANGED <<clock, route>>

\* Redis is not connected: the eval throws at once.
Unsent(r) ==
  /\ "redis" \in Faults /\ at[r].state = "ready"
  /\ GoOn(Script(r))
  /\ UNCHANGED <<clock, route, sent, hits, expires, added>>

Next == \/ Tick
        \/ \E r \in Requests : Send(r) \/ Unsent(r)
        \/ \E p \in Processes : Eval(p) \/ FailOpen(p)

Spec == Init /\ [][Next]_vars

-----------------------------------------------------------------------------
Added(x) == added[x.req][x.stage]

\* What the limiter of script s has counted and let through, of the caller and
\* the path of s, in the window that ends with s.
PassedWithin(s) ==
  {x \in passed : /\ Added(x) # Never /\ x.stage = s.stage /\ SameKey(x, s)
                  /\ s.now - Limiters[s.stage].window < x.now /\ x.now <= s.now}

\* Of those, the ones that Redis also added in the window that ends with s.
AddedWithin(s) ==
  {x \in PassedWithin(s) : /\ Added(s) - Limiters[s.stage].window <= Added(x)
                           /\ Added(x) <= Added(s)}

\* Of the requests of a caller on one path, a limiter counts and lets through
\* no more than its limit that were sent, and whose scripts ran, within one
\* window.  Beyond the limit go those whose eval throws, uncounted, and those
\* that were sent within one window but ran further apart (PEXPIRE).
LimitHolds ==
  \A s \in passed :
    Added(s) # Never => Cardinality(AddedWithin(s)) <= Limiters[s.stage].limit

\* A request is denied only when the limiter has counted and let through its
\* limit of requests of the caller on the path within the window: nothing
\* else counts, no matter which evals throw.
DeniedOnlyAtLimit ==
  [][\A p \in Processes :
       sent'[p] # sent[p] /\ sent[p] # <<>> /\ at'[Head(sent[p]).req].state = "denied"
       => LET s == Head(sent[p])
          IN Cardinality(PassedWithin(s)) >= Limiters[s.stage].limit]_vars
=============================================================================
