----------------------------- MODULE RefreshTokens -----------------------------
(***************************************************************************)
(* tokens.ts and its use in auth.service.ts: refresh tokens in Redis.      *)
(* Login stores a token, refresh exchanges it for a new one, logout        *)
(* deletes it.  Requests of one user overlap: the client retries, or has   *)
(* several windows open.                                                   *)
(***************************************************************************)
EXTENDS Naturals, FiniteSets

CONSTANTS
  Tokens,      \* uuids; their number bounds the logins and refreshes
  Clients,     \* with one request in flight each
  NoToken,
  Faults       \* "lost": the process dies, or a call to Redis throws;
               \* "pipeline": the commands of a pipeline fail

ASSUME TokensAssumption ==
  NoToken \notin Tokens /\ Faults \subseteq {"lost", "pipeline"}
ASSUME FinitenessAssumption == IsFiniteSet(Clients)

VARIABLES
  live,      \* the keys refresh_token:<id> in Redis
  issued,    \* history: every token a client was answered with
  origin,    \* history: the token that a token was exchanged for
  kept,      \* history: the tokens whose deletion failed when exchanged
  left,      \* history: the tokens somebody has logged out with
  req        \* the request of each client, with the token it presents

vars == <<live, issued, origin, kept, left, req>>

Requests == [pc : {"idle", "set", "get", "exchange", "del"},
             old : Tokens \cup {NoToken}]
NoRequest == [pc |-> "idle", old |-> NoToken]

\* Every variable stays in its range.
TypeOK == /\ live \subseteq Tokens /\ issued \subseteq Tokens
          /\ origin \in [Tokens -> Tokens \cup {NoToken}]
          /\ kept \subseteq Tokens /\ left \subseteq Tokens
          /\ req \in [Clients -> Requests]

Init == /\ live = {} /\ issued = {} /\ kept = {} /\ left = {}
        /\ origin = [t \in Tokens |-> NoToken]
        /\ req = [c \in Clients |-> NoRequest]

End(c) == req' = [req EXCEPT ![c] = NoRequest]
Begin(c, pc, old) ==
  /\ req[c] = NoRequest
  /\ req' = [req EXCEPT ![c] = [pc |-> pc, old |-> old]]
  /\ UNCHANGED <<live, issued, origin, kept, left>>

Login(c) == Begin(c, "set", NoToken)
Refresh(c, t) == t \in issued /\ Begin(c, "get", t)
Logout(c, t) == t \in issued /\ Begin(c, "del", t)

\* storeRefreshToken, under a new uuid.
Set(c, new) == /\ req[c].pc = "set" /\ new \notin issued
               /\ live' = live \cup {new}
               /\ issued' = issued \cup {new}
               /\ End(c)
               /\ UNCHANGED <<origin, kept, left>>

\* (Mutant: a token that is not there is exchanged all the same.)
Found_Unchecked(t) == TRUE
Found(t) == t \in live

\* rotateRefreshToken reads the old token; a token that is not there, or has
\* expired, ends the request in a 401.
Get(c) == /\ req[c].pc = "get"
          /\ IF Found(req[c].old) THEN req' = [req EXCEPT ![c].pc = "exchange"]
                                  ELSE End(c)
          /\ UNCHANGED <<live, issued, origin, kept, left>>

\* (Mutant: the old token is not deleted.)
Exchanged_KeepsOld(old, new) == live \cup {new}
\* (Mutant: the new token is stored under no id.)
Exchanged_Undefined(old, new) == (live \ {old}) \cup {NoToken}
Exchanged(old, new) == (live \ {old}) \cup {new}

\* It then sends DEL and SETEX in one pipeline, whatever happened meanwhile,
\* and answers with the new token.
Answer(c, new) == /\ req[c].pc = "exchange" /\ new \notin issued
                  /\ issued' = issued \cup {new}
                  /\ origin' = [origin EXCEPT ![new] = req[c].old]
                  /\ End(c)
                  /\ UNCHANGED left
Exchange(c, new) == /\ Answer(c, new)
                    /\ live' = Exchanged(req[c].old, new)
                    /\ UNCHANGED kept

\* Redis is not connected, or refuses one of the commands: exec() resolves all
\* the same, with the errors in its result, which nobody looks at.
SetFails(c, new) == /\ "pipeline" \in Faults /\ Answer(c, new)
                    /\ live' = live \ {req[c].old}
                    /\ UNCHANGED kept
DelFails(c, new) == /\ "pipeline" \in Faults /\ Answer(c, new)
                    /\ live' \in {live, live \cup {new}}
                    /\ kept' = kept \cup {req[c].old}

\* revokeRefreshToken.
Del(c) == /\ req[c].pc = "del"
          /\ live' = live \ {req[c].old}
          /\ left' = left \cup {req[c].old}
          /\ End(c)
          /\ UNCHANGED <<issued, origin, kept>>

\* The time to live of a token is over.
Expire(t) == /\ t \in live
             /\ live' = live \ {t}
             /\ UNCHANGED <<issued, origin, kept, left, req>>

Lost(c) == /\ "lost" \in Faults /\ req[c] # NoRequest
           /\ End(c)
           /\ UNCHANGED <<live, issued, origin, kept, left>>

Next == \/ \E c \in Clients :
             \/ Login(c) \/ Get(c) \/ Del(c) \/ Lost(c)
             \/ \E t \in Tokens : \/ Refresh(c, t) \/ Logout(c, t)
                                  \/ Set(c, t) \/ Exchange(c, t)
                                  \/ SetFails(c, t) \/ DelFails(c, t)
        \/ \E t \in Tokens : Expire(t)

Spec == Init /\ [][Next]_vars

-----------------------------------------------------------------------------
ExchangedFor(t) == {u \in issued : origin[u] = t}

\* Whatever requests overlap or fail, a token that somebody logged out with is
\* gone for good, and so is one that was exchanged, unless its deletion failed:
\* no request that was under way brings it back.
SpentTokensAreGone ==
  \A t \in live : t \notin left /\ (ExchangedFor(t) # {} => t \in kept)

\* A token whose deletion did not fail is exchanged once by each client at
\* most, by those who read it before the first of them deleted it.
ExchangesAreBounded ==
  \A t \in issued \ kept : Cardinality(ExchangedFor(t)) <= Cardinality(Clients)
=============================================================================
