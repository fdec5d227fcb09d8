------------------------- MODULE RefreshTokens_proofs -------------------------
(* Theorems about RefreshTokens, for any tokens, clients and failures. *)
EXTENDS RefreshTokens, FiniteSetTheorems, TLAPS

\* Whatever is stored, presented, exchanged or logged out with was issued.
OnlyIssued ==
  /\ live \subseteq issued /\ left \subseteq issued /\ kept \subseteq issued
  /\ \A c \in Clients : req[c].pc \in {"get", "exchange", "del"} => req[c].old \in issued
  /\ \A t \in Tokens : origin[t] # NoToken => t \in issued /\ origin[t] \in issued

\* The inductive invariant.
IInv == TypeOK /\ OnlyIssued /\ SpentTokensAreGone

LEMMA InitIInv == Init => IInv
BY DEF Init, IInv, TypeOK, Requests, NoRequest, OnlyIssued, SpentTokensAreGone

\* A step that stores, issues and exchanges nothing, and ends a request or
\* takes it one step on: deletions cannot revive a token.
LEMMA DeletionKeeps ==
  ASSUME IInv, TypeOK', UNCHANGED <<issued, origin, kept>>, live' \subseteq live,
         left' \subseteq issued, left' \cap live' = {},
         \A c \in Clients :
           req'[c].pc \in {"get", "exchange", "del"} => req'[c].old \in issued
  PROVE  IInv'
<1>1. OnlyIssued'
  BY DEF IInv, OnlyIssued
<1>2. SpentTokensAreGone'
  BY DEF IInv, SpentTokensAreGone, ExchangedFor
<1> QED BY <1>1, <1>2 DEF IInv

LEMMA BeginKeeps ==
  ASSUME IInv, NEW c \in Clients,
         Login(c) \/ \E t \in Tokens : Refresh(c, t) \/ Logout(c, t)
  PROVE  IInv'
<1> USE DEF IInv
<1>1. PICK k \in {"set", "get", "del"}, old \in issued \cup {NoToken} :
        Begin(c, k, old) /\ (k # "set" => old \in issued)
  BY DEF Login, Refresh, Logout
<1>2. /\ req' = [req EXCEPT ![c] = [pc |-> k, old |-> old]]
      /\ UNCHANGED <<live, issued, origin, kept, left>>
  BY <1>1 DEF Begin
<1>3. TypeOK'
  BY <1>1, <1>2 DEF TypeOK, Requests
<1>4. \A b \in Clients :
        req'[b].pc \in {"get", "exchange", "del"} => req'[b].old \in issued
  BY <1>1, <1>2 DEF OnlyIssued, TypeOK
<1> QED BY <1>2, <1>3, <1>4, DeletionKeeps DEF OnlyIssued, SpentTokensAreGone

\* A new token is stored: it has not been exchanged or logged out with.
LEMMA SetKeeps ==
  ASSUME IInv, NEW c \in Clients, NEW new \in Tokens, Set(c, new)
  PROVE  IInv'
<1> USE DEF IInv
<1>1. /\ new \notin issued /\ live' = live \cup {new} /\ issued' = issued \cup {new}
      /\ req' = [req EXCEPT ![c] = NoRequest] /\ UNCHANGED <<origin, kept, left>>
  BY DEF Set, End
<1>2. TypeOK'
  BY <1>1 DEF TypeOK, NoRequest, Requests
<1>3. OnlyIssued'
  BY <1>1 DEF OnlyIssued, TypeOK, NoRequest
<1>4. \A t \in Tokens : origin[t] # new
  BY <1>1, TokensAssumption DEF OnlyIssued, TypeOK
<1>5. ExchangedFor(new)' = {} /\ new \notin left
  BY <1>1, <1>4 DEF ExchangedFor, OnlyIssued, TypeOK
<1>6. SpentTokensAreGone'
  <2> SUFFICES ASSUME NEW t \in live'
               PROVE  t \notin left /\ (ExchangedFor(t)' # {} => t \in kept)
    BY <1>1 DEF SpentTokensAreGone
  <2>1. CASE t = new
    BY <1>5, <2>1
  <2>2. CASE t # new
    <3>1. t \in live /\ t \in issued /\ t \notin left /\ (ExchangedFor(t) # {} => t \in kept)
      BY <1>1, <2>2 DEF SpentTokensAreGone, OnlyIssued
    <3>2. origin[new] = NoToken /\ t # NoToken
      BY <1>1, <2>2, <3>1, TokensAssumption DEF OnlyIssued, TypeOK
    <3> QED BY <1>1, <3>1, <3>2 DEF ExchangedFor
  <2> QED BY <2>1, <2>2
<1> QED BY <1>2, <1>3, <1>6

\* An exchange stores a token that is new, if it stores one, and the token it
\* is for is deleted or its deletion has failed.
LEMMA ExchangeKeeps ==
  ASSUME IInv, NEW c \in Clients, NEW new \in Tokens,
         Exchange(c, new) \/ SetFails(c, new) \/ DelFails(c, new)
  PROVE  IInv'
<1> USE DEF IInv
<1> DEFINE old == req[c].old
<1>1. /\ req[c].pc = "exchange" /\ new \notin issued /\ issued' = issued \cup {new}
      /\ origin' = [origin EXCEPT ![new] = old]
      /\ req' = [req EXCEPT ![c] = NoRequest] /\ UNCHANGED left
      /\ live' \subseteq live \cup {new} /\ kept \subseteq kept'
      /\ kept' \subseteq kept \cup {old} /\ (old \in live' => old \in kept' \/ old = new)
  BY DEF Exchange, SetFails, DelFails, Answer, Exchanged, End
<1>2. old \in issued /\ old \in Tokens /\ old # new
  BY <1>1 DEF OnlyIssued, TypeOK
<1>3. TypeOK'
  BY <1>1, <1>2 DEF TypeOK, NoRequest, Requests
<1>4. OnlyIssued'
  <2>1. live' \subseteq issued' /\ left' \subseteq issued' /\ kept' \subseteq issued'
    BY <1>1, <1>2 DEF OnlyIssued
  <2>2. \A b \in Clients :
          req'[b].pc \in {"get", "exchange", "del"} => req'[b].old \in issued'
    BY <1>1 DEF OnlyIssued, TypeOK, NoRequest
  <2>3. \A t \in Tokens :
          origin'[t] # NoToken => t \in issued' /\ origin'[t] \in issued'
    BY <1>1, <1>2 DEF OnlyIssued, TypeOK
  <2> QED BY <2>1, <2>2, <2>3 DEF OnlyIssued
<1>5. SpentTokensAreGone'
  <2> SUFFICES ASSUME NEW t \in live'
               PROVE  t \notin left /\ (ExchangedFor(t)' # {} => t \in kept')
    BY <1>1 DEF SpentTokensAreGone
  <2>1. t \in Tokens
    BY <1>3 DEF TypeOK
  <2>2. CASE t = new
    <3>1. new \notin left
      BY <1>1 DEF OnlyIssued
    <3>2. \A u \in issued : origin[u] # new
      BY <1>1, TokensAssumption DEF OnlyIssued, TypeOK
    <3>3. \A u \in issued' : origin'[u] # new
      BY <1>1, <1>2, <3>2 DEF TypeOK
    <3> QED BY <2>2, <3>1, <3>3 DEF ExchangedFor
  <2>3. CASE t # new /\ t # old
    <3>1. t \in live /\ t \notin left /\ (ExchangedFor(t) # {} => t \in kept)
      BY <1>1, <2>3 DEF SpentTokensAreGone
    <3>2. ExchangedFor(t)' \subseteq ExchangedFor(t)
      BY <1>1, <2>1, <2>3 DEF ExchangedFor, TypeOK
    <3> QED BY <1>1, <3>1, <3>2
  <2>4. CASE t = old
    BY <1>1, <1>2, <2>4 DEF SpentTokensAreGone
  <2> QED BY <2>2, <2>3, <2>4
<1> QED BY <1>3, <1>4, <1>5

\* Reads, deletions, expiry and lost requests only take tokens away.
LEMMA OtherStepsKeep ==
  ASSUME IInv,
         \/ \E c \in Clients : Get(c) \/ Del(c) \/ Lost(c)
         \/ \E t \in Tokens : Expire(t)
  PROVE  IInv'
<1> USE DEF IInv
<1>1. ASSUME NEW c \in Clients, Get(c) PROVE IInv'
  <2>1. /\ req[c].pc = "get" /\ UNCHANGED <<live, issued, origin, kept, left>>
        /\ \/ req' = [req EXCEPT ![c] = [req[c] EXCEPT !.pc = "exchange"]]
           \/ req' = [req EXCEPT ![c] = NoRequest]
    BY <1>1 DEF Get, End, TypeOK
  <2>2. req[c] \in Requests /\ req[c].old \in issued
    BY <2>1 DEF OnlyIssued, TypeOK
  <2>3. TypeOK'
    BY <2>1, <2>2 DEF TypeOK, NoRequest, Requests
  <2>4. \A b \in Clients :
          req'[b].pc \in {"get", "exchange", "del"} => req'[b].old \in issued
    BY <2>1, <2>2 DEF OnlyIssued, TypeOK, NoRequest, Requests
  <2> QED BY <2>1, <2>3, <2>4, DeletionKeeps DEF OnlyIssued, SpentTokensAreGone
<1>2. ASSUME NEW c \in Clients, Del(c) PROVE IInv'
  <2>1. /\ req[c].pc = "del" /\ UNCHANGED <<issued, origin, kept>>
        /\ live' = live \ {req[c].old} /\ left' = left \cup {req[c].old}
        /\ req' = [req EXCEPT ![c] = NoRequest]
    BY <1>2 DEF Del, End
  <2>2. req[c].old \in issued
    BY <2>1 DEF OnlyIssued
  <2>3. TypeOK'
    BY <2>1, <2>2 DEF TypeOK, NoRequest, Requests
  <2>4. \A b \in Clients :
          req'[b].pc \in {"get", "exchange", "del"} => req'[b].old \in issued
    BY <2>1 DEF OnlyIssued, TypeOK, NoRequest
  <2>5. left' \subseteq issued /\ left' \cap live' = {}
    BY <2>1, <2>2 DEF OnlyIssued, SpentTokensAreGone
  <2> QED BY <2>1, <2>3, <2>4, <2>5, DeletionKeeps
<1>3. ASSUME NEW c \in Clients, Lost(c) PROVE IInv'
  <2>1. /\ UNCHANGED <<live, issued, origin, kept, left>>
        /\ req' = [req EXCEPT ![c] = NoRequest]
    BY <1>3 DEF Lost, End
  <2>2. TypeOK'
    BY <2>1 DEF TypeOK, NoRequest, Requests
  <2>3. \A b \in Clients :
          req'[b].pc \in {"get", "exchange", "del"} => req'[b].old \in issued
    BY <2>1 DEF OnlyIssued, TypeOK, NoRequest
  <2> QED BY <2>1, <2>2, <2>3, DeletionKeeps DEF OnlyIssued, SpentTokensAreGone
<1>4. ASSUME NEW t \in Tokens, Expire(t) PROVE IInv'
  <2>1. live' \subseteq live /\ UNCHANGED <<issued, origin, kept, left, req>>
    BY <1>4 DEF Expire
  <2>2. TypeOK'
    BY <2>1 DEF TypeOK
  <2> QED BY <2>1, <2>2, DeletionKeeps DEF OnlyIssued, SpentTokensAreGone
<1> QED BY <1>1, <1>2, <1>3, <1>4

\* The inductive invariant: nothing is presented or spent before it is issued.
THEOREM Invariance == Spec => []IInv
<1>1. IInv /\ [Next]_vars => IInv'
  <2> SUFFICES ASSUME IInv, [Next]_vars PROVE IInv'
    OBVIOUS
  <2>1. ASSUME NEW c \in Clients,
               Login(c) \/ \E t \in Tokens : Refresh(c, t) \/ Logout(c, t)
        PROVE  IInv'
    BY <2>1, BeginKeeps
  <2>2. ASSUME NEW c \in Clients, NEW t \in Tokens,
               Set(c, t) \/ Exchange(c, t) \/ SetFails(c, t) \/ DelFails(c, t)
        PROVE  IInv'
    BY <2>2, SetKeeps, ExchangeKeeps
  <2>3. ASSUME \/ \E c \in Clients : Get(c) \/ Del(c) \/ Lost(c)
               \/ \E t \in Tokens : Expire(t)
        PROVE  IInv'
    BY <2>3, OtherStepsKeep
  <2>4. CASE UNCHANGED vars
    BY <2>4 DEF vars, IInv, TypeOK, OnlyIssued, SpentTokensAreGone, ExchangedFor
  <2> QED BY <2>1, <2>2, <2>3, <2>4 DEF Next
<1> QED BY <1>1, InitIInv, PTL DEF Spec

\* Every variable stays in its range, whatever the requests do (tokens.ts).
THEOREM TypeCorrectness == Spec => []TypeOK
<1>1. IInv => TypeOK
  BY DEF IInv
<1> QED BY <1>1, Invariance, PTL

\* A token that somebody logged out with, or that was exchanged and deleted, is
\* never stored again, whatever requests overlap or fail (tokens.ts).
THEOREM SpentTokens == Spec => []SpentTokensAreGone
<1>1. IInv => SpentTokensAreGone
  BY DEF IInv
<1> QED BY <1>1, Invariance, PTL

-----------------------------------------------------------------------------
(* How often a token is exchanged.                                         *)

\* The clients that have found token t and are about to exchange it.  They and
\* the exchanges made are no more than the clients: once the first exchange is
\* made, the token is gone and no one else finds it.
Exchanging(t) == {c \in Clients : req[c].pc = "exchange" /\ req[c].old = t}
Bounded(t) ==
  /\ IsFiniteSet(ExchangedFor(t))
  /\ Cardinality(ExchangedFor(t)) + Cardinality(Exchanging(t)) <= Cardinality(Clients)
BInv == \A t \in Tokens : t \notin kept => Bounded(t)

LEMMA FiniteClients ==
  ASSUME NEW S \in SUBSET Clients
  PROVE  /\ IsFiniteSet(S) /\ Cardinality(S) <= Cardinality(Clients)
         /\ Cardinality(S) \in Nat /\ Cardinality(Clients) \in Nat
BY FinitenessAssumption, FS_Subset, FS_CardinalityType

\* Nothing is exchanged for t, and at most one more client finds it, if it has
\* not been exchanged before.
LEMMA NoExchange ==
  ASSUME IInv, NEW t \in Tokens, Bounded(t), ExchangedFor(t)' = ExchangedFor(t),
         Exchanging(t)' \subseteq Exchanging(t) \/ ExchangedFor(t) = {}
  PROVE  Bounded(t)'
<1>1. Exchanging(t) \in SUBSET Clients /\ Exchanging(t)' \in SUBSET Clients
  BY DEF Exchanging
<1>2. CASE Exchanging(t)' \subseteq Exchanging(t)
  <2>1. Cardinality(Exchanging(t)') <= Cardinality(Exchanging(t))
    BY <1>1, <1>2, FiniteClients, FS_Subset
  <2>2. Cardinality(ExchangedFor(t)) \in Nat
    BY FS_CardinalityType DEF Bounded
  <2> QED BY <1>1, <2>1, <2>2, FiniteClients DEF Bounded
<1>3. CASE ExchangedFor(t) = {}
  <2>1. Cardinality(ExchangedFor(t)) = 0
    BY <1>3, FS_EmptySet
  <2> QED BY <1>1, <2>1, FiniteClients DEF Bounded
<1> QED BY <1>2, <1>3

LEMMA StepKeepsBounded ==
  ASSUME IInv, IInv', [Next]_vars, NEW t \in Tokens, t \notin kept, t \notin kept',
         Bounded(t)
  PROVE  Bounded(t)'
<1>1. /\ req \in [Clients -> Requests] /\ origin \in [Tokens -> Tokens \cup {NoToken}]
      /\ issued \subseteq Tokens /\ t # NoToken /\ NoRequest.pc = "idle"
  BY TokensAssumption DEF IInv, TypeOK, NoRequest
<1>2. ASSUME NEW c \in Clients, NEW new, new.pc # "exchange",
             req' = [req EXCEPT ![c] = new], ExchangedFor(t)' = ExchangedFor(t)
      PROVE  Bounded(t)'
  <2>1. Exchanging(t)' \subseteq Exchanging(t)
    BY <1>1, <1>2 DEF Exchanging
  <2> QED BY <1>2, <2>1, NoExchange
<1>3. ASSUME NEW c \in Clients, Login(c) \/ \E u \in Tokens : Refresh(c, u) \/ Logout(c, u)
      PROVE  Bounded(t)'
  <2>p. PICK k \in {"set", "get", "del"} : \E old : Begin(c, k, old)
    BY <1>3 DEF Login, Refresh, Logout
  <2>1. PICK old : Begin(c, k, old)
    BY <2>p
  <2> DEFINE new == [pc |-> k, old |-> old]
  <2>2. /\ new.pc # "exchange" /\ req' = [req EXCEPT ![c] = new]
        /\ ExchangedFor(t)' = ExchangedFor(t)
    BY <2>1 DEF Begin, ExchangedFor
  <2> HIDE DEF new
  <2> QED BY <1>2, <2>2
<1>4. ASSUME NEW c \in Clients, Del(c) \/ Lost(c) PROVE Bounded(t)'
  <2>1. req' = [req EXCEPT ![c] = NoRequest] /\ ExchangedFor(t)' = ExchangedFor(t)
    BY <1>4 DEF Del, Lost, End, ExchangedFor
  <2> QED BY <1>1, <1>2, <2>1
<1>5. ASSUME NEW c \in Clients, Get(c) PROVE Bounded(t)'
  <2>1. ExchangedFor(t)' = ExchangedFor(t)
    BY <1>5 DEF Get, ExchangedFor
  <2>2. CASE req' = [req EXCEPT ![c] = NoRequest]
    BY <1>1, <1>2, <2>1, <2>2
  <2>3. CASE req[c].old \in live /\ req' = [req EXCEPT ![c].pc = "exchange"]
    <3>1. CASE req[c].old = t
      <4>1. t \in issued /\ ExchangedFor(t) = {}
        BY <2>3, <3>1 DEF IInv, OnlyIssued, SpentTokensAreGone
      <4> QED BY <2>1, <4>1, NoExchange
    <3>2. CASE req[c].old # t
      <4>1. Exchanging(t)' \subseteq Exchanging(t)
        BY <1>1, <2>3, <3>2 DEF Exchanging, Requests
      <4> QED BY <2>1, <4>1, NoExchange
    <3> QED BY <3>1, <3>2
  <2> QED BY <1>5, <2>2, <2>3 DEF Get, Found, End
<1>6. ASSUME NEW c \in Clients, NEW new \in Tokens, Set(c, new)
      PROVE  Bounded(t)'
  <2>1. /\ new \notin issued /\ issued' = issued \cup {new} /\ origin' = origin
        /\ req' = [req EXCEPT ![c] = NoRequest]
    BY <1>6 DEF Set, End
  <2>2. origin[new] = NoToken
    BY <1>1, <2>1 DEF IInv, OnlyIssued
  <2>3. ExchangedFor(t)' = ExchangedFor(t)
    BY <1>1, <2>1, <2>2 DEF ExchangedFor
  <2> QED BY <1>1, <1>2, <2>1, <2>3
<1>7. ASSUME NEW c \in Clients, NEW new \in Tokens,
             Exchange(c, new) \/ SetFails(c, new) \/ DelFails(c, new)
      PROVE  Bounded(t)'
  <2>1. /\ req[c].pc = "exchange" /\ new \notin issued /\ issued' = issued \cup {new}
        /\ origin' = [origin EXCEPT ![new] = req[c].old]
        /\ req' = [req EXCEPT ![c] = NoRequest]
    BY <1>7 DEF Exchange, SetFails, DelFails, Answer, End
  <2>2. CASE req[c].old = t
    <3>1. ExchangedFor(t)' = ExchangedFor(t) \cup {new} /\ new \notin ExchangedFor(t)
      BY <1>1, <2>1, <2>2 DEF ExchangedFor
    <3>2. Exchanging(t)' = Exchanging(t) \ {c} /\ c \in Exchanging(t)
      BY <1>1, <2>1, <2>2 DEF Exchanging
    <3>3. Exchanging(t) \in SUBSET Clients
      BY DEF Exchanging
    <3>4. /\ IsFiniteSet(ExchangedFor(t)')
          /\ Cardinality(ExchangedFor(t)') = Cardinality(ExchangedFor(t)) + 1
      BY <3>1, FS_AddElement DEF Bounded
    <3>5. Cardinality(Exchanging(t)') = Cardinality(Exchanging(t)) - 1
      BY <3>2, <3>3, FiniteClients, FS_RemoveElement
    <3>6. /\ Cardinality(ExchangedFor(t)) \in Nat /\ Cardinality(Exchanging(t)) \in Nat
          /\ Cardinality(Clients) \in Nat
      BY <3>3, FiniteClients, FS_CardinalityType DEF Bounded
    <3> QED BY <3>4, <3>5, <3>6 DEF Bounded
  <2>3. CASE req[c].old # t
    <3>1. ExchangedFor(t)' = ExchangedFor(t)
      BY <1>1, <2>1, <2>3 DEF ExchangedFor
    <3> QED BY <1>1, <1>2, <2>1, <3>1
  <2> QED BY <2>2, <2>3
<1>8. ASSUME UNCHANGED <<issued, origin, req>> PROVE Bounded(t)'
  BY <1>8 DEF Bounded, ExchangedFor, Exchanging
<1> QED BY <1>3, <1>4, <1>5, <1>6, <1>7, <1>8 DEF Next, Expire, vars

\* However many refreshes overlap, a token is exchanged once by each client at
\* most, unless its deletion failed (rotateRefreshToken of tokens.ts).
THEOREM FewExchanges == Spec => []ExchangesAreBounded
<1>1. Init => BInv
  <2> SUFFICES ASSUME Init, NEW t \in Tokens PROVE Bounded(t)
    BY DEF BInv
  <2>1. ExchangedFor(t) = {} /\ Exchanging(t) = {}
    BY DEF Init, ExchangedFor, Exchanging, NoRequest
  <2>2. Cardinality(Clients) \in Nat
    BY FiniteClients
  <2> QED BY <2>1, <2>2, FS_EmptySet DEF Bounded
<1>2. IInv /\ IInv' /\ BInv /\ [Next]_vars => BInv'
  <2>1. [Next]_vars => kept \subseteq kept'
    BY DEF Next, vars, Login, Refresh, Logout, Begin, Set, Get, Exchange, SetFails,
       DelFails, Answer, Del, Expire, Lost
  <2> QED BY <2>1, StepKeepsBounded DEF BInv
<1>3. IInv /\ BInv => ExchangesAreBounded
  <2> SUFFICES ASSUME IInv, NEW t \in Tokens, Bounded(t)
               PROVE  Cardinality(ExchangedFor(t)) <= Cardinality(Clients)
    BY DEF ExchangesAreBounded, BInv, IInv, TypeOK
  <2>1. Exchanging(t) \in SUBSET Clients
    BY DEF Exchanging
  <2>2. Cardinality(ExchangedFor(t)) \in Nat
    BY FS_CardinalityType DEF Bounded
  <2> QED BY <2>1, <2>2, FiniteClients DEF Bounded
<1> QED BY <1>1, <1>2, <1>3, Invariance, PTL DEF Spec
=============================================================================
