------------------------- MODULE TenantContext_proofs -------------------------
(* Theorems about TenantContext, for any tenants, requests and connections. *)
EXTENDS TenantContext, TLAPS

\* Two transactions never share a connection.
ConnectionsAreExclusive ==
  \A q, r \in Requests :
    tx[q] # Idle /\ tx[r] # Idle /\ tx[q].conn = tx[r].conn => q = r

\* Within a transaction the setting is that of its tenant, or not made yet.
SettingIsOwn ==
  \A r \in Requests :
    /\ tx[r].pc = "scoped" => setting[tx[r].conn] = tx[r].tenant
    /\ tx[r].pc = "begun" => setting[tx[r].conn] = NoTenant

\* The inductive invariant.
IInv == TypeOK /\ NoContextLeak /\ ConnectionsAreExclusive /\ SettingIsOwn

\* What the type of a transaction says, split by its program counter.
LEMMA TransactionCases ==
  ASSUME NEW x \in Transactions
  PROVE  \/ x = Idle /\ x.pc = "idle"
         \/ /\ x # Idle /\ x.pc \in {"begun", "scoped"}
            /\ x.tenant \in Tenants /\ x.conn \in Connections
<1> DEFINE Open == [pc : {"begun", "scoped"}, tenant : Tenants, conn : Connections]
<1>1. CASE x = Idle
  BY <1>1 DEF Idle
<1>2. CASE x \in Open
  <2>1. x.pc \in {"begun", "scoped"} /\ x.tenant \in Tenants /\ x.conn \in Connections
    BY <1>2
  <2>2. Idle.pc = "idle"
    BY DEF Idle
  <2> QED BY <2>1, <2>2
<1> QED BY <1>1, <1>2 DEF Transactions

LEMMA InitIInv == Init => IInv
<1> SUFFICES ASSUME Init PROVE IInv
  OBVIOUS
<1>1. \A r \in Requests : tx[r] = Idle /\ tx[r].pc = "idle"
  BY DEF Init, Idle
<1>2. TypeOK
  BY DEF Init, TypeOK, Transactions
<1>3. NoContextLeak
  BY DEF Init, NoContextLeak
<1>4. ConnectionsAreExclusive /\ SettingIsOwn
  BY <1>1 DEF ConnectionsAreExclusive, SettingIsOwn
<1> QED BY <1>2, <1>3, <1>4 DEF IInv

\* A connection is taken from the pool with no tenant set.
LEMMA BeginKeeps ==
  ASSUME IInv, NEW r \in Requests, NEW t \in Tenants, NEW c \in Connections,
         Begin(r, t, c)
  PROVE  IInv'
<1> USE DEF IInv
<1> DEFINE new == [pc |-> "begun", tenant |-> t, conn |-> c]
<1>1. new \in Transactions /\ new # Idle
  BY DEF Transactions, Idle
<1>2. /\ tx' = [tx EXCEPT ![r] = new] /\ tx \in [Requests -> Transactions]
      /\ tx[r] = Idle /\ c \notin InUse /\ setting' = setting
  BY DEF Begin, TypeOK
<1>3. /\ tx'[r] = new
      /\ \A q \in Requests \ {r} : tx'[q] = tx[q]
  BY <1>2
<1>4. TypeOK'
  BY <1>1, <1>2 DEF TypeOK
<1>5. \A q \in Requests : tx[q] # Idle => tx[q].conn # c
  BY <1>2 DEF InUse
<1>6. \A q \in Requests : tx[q] # Idle => q # r
  BY <1>2
<1>7. InUse \subseteq InUse'
  BY <1>3, <1>6 DEF InUse
<1>8. NoContextLeak'
  BY <1>2, <1>7 DEF NoContextLeak
<1>10. ConnectionsAreExclusive'
  BY <1>3, <1>5 DEF ConnectionsAreExclusive
<1>11. setting[c] = NoTenant
  BY <1>2 DEF NoContextLeak
<1>12. SettingIsOwn'
  BY <1>2, <1>3, <1>11 DEF SettingIsOwn
<1> QED BY <1>4, <1>8, <1>10, <1>12

\* set_config only changes the connection of its own transaction.
LEMMA SetContextKeeps ==
  ASSUME IInv, NEW r \in Requests, SetContext(r)
  PROVE  IInv'
<1> USE DEF IInv
<1>1. /\ tx \in [Requests -> Transactions] /\ tx[r].pc = "begun"
      /\ setting \in [Connections -> Tenants \cup {NoTenant}]
      /\ setting' = [setting EXCEPT ![tx[r].conn] = tx[r].tenant]
      /\ tx' = [tx EXCEPT ![r] = [tx[r] EXCEPT !.pc = "scoped"]]
  BY DEF SetContext, TypeOK
<1>2. tx[r] \in [pc : {"begun", "scoped"}, tenant : Tenants, conn : Connections]
  <2>1. tx[r] \in Transactions
    BY <1>1
  <2>2. Idle.pc = "idle"
    BY DEF Idle
  <2> QED BY <1>1, <2>1, <2>2 DEF Transactions
<1>3. /\ tx[r] # Idle /\ tx[r].conn \in Connections /\ tx[r].tenant \in Tenants
  BY <1>1, <1>2 DEF Idle
<1> DEFINE new == [tx[r] EXCEPT !.pc = "scoped"]
<1>4. /\ new \in Transactions /\ new.pc = "scoped"
      /\ new.conn = tx[r].conn /\ new.tenant = tx[r].tenant
  BY <1>2 DEF Transactions
<1>5. new # Idle
  BY <1>4 DEF Idle
<1>6. tx'[r] = new /\ \A q \in Requests \ {r} : tx'[q] = tx[q]
  BY <1>1
<1>7. TypeOK'
  BY <1>1, <1>3, <1>4 DEF TypeOK
<1>c. \A q \in Requests : /\ tx'[q] # Idle <=> tx[q] # Idle
                         /\ tx'[q].conn = tx[q].conn
  <2> TAKE q \in Requests
  <2>1. CASE q = r
    BY <1>3, <1>4, <1>5, <1>6, <2>1
  <2>2. CASE q # r
    BY <1>6, <2>2
  <2> QED BY <2>1, <2>2
<1>8. InUse' = InUse
  BY <1>c DEF InUse
<1>9. tx[r].conn \in InUse
  BY <1>3 DEF InUse
<1>10. NoContextLeak'
  BY <1>1, <1>8, <1>9 DEF NoContextLeak
<1>12. ConnectionsAreExclusive'
  BY <1>c DEF ConnectionsAreExclusive
<1>13. SettingIsOwn'
  <2> SUFFICES ASSUME NEW q \in Requests
               PROVE  /\ tx'[q].pc = "scoped" => setting'[tx'[q].conn] = tx'[q].tenant
                      /\ tx'[q].pc = "begun" => setting'[tx'[q].conn] = NoTenant
    BY DEF SettingIsOwn
  <2>1. CASE q = r
    BY <1>1, <1>3, <1>4, <1>6, <2>1
  <2>2. CASE q # r
    <3>1. tx'[q] = tx[q]
      BY <1>6, <2>2
    <3>2. CASE tx[q] = Idle
      BY <3>1, <3>2 DEF Idle
    <3>3. CASE tx[q] # Idle
      <4>1. tx[q].conn # tx[r].conn
        BY <1>3, <2>2, <3>3 DEF ConnectionsAreExclusive
      <4>2. tx[q].conn \in Connections
        BY <1>1, <3>3, TransactionCases
      <4> QED BY <1>1, <3>1, <4>1, <4>2 DEF SettingIsOwn
    <3> QED BY <3>2, <3>3
  <2> QED BY <2>1, <2>2
<1> QED BY <1>7, <1>10, <1>12, <1>13

\* The setting goes with the transaction.
LEMMA EndTxKeeps ==
  ASSUME IInv, NEW r \in Requests, EndTx(r)
  PROVE  IInv'
<1> USE DEF IInv
<1>1. /\ tx \in [Requests -> Transactions] /\ tx[r] # Idle
      /\ setting \in [Connections -> Tenants \cup {NoTenant}]
      /\ setting' = [setting EXCEPT ![tx[r].conn] = NoTenant]
      /\ tx' = [tx EXCEPT ![r] = Idle]
  BY DEF EndTx, SettingAfter, TypeOK
<1>2. tx'[r] = Idle /\ \A q \in Requests \ {r} : tx'[q] = tx[q]
  BY <1>1
<1>3. TypeOK'
  BY <1>1 DEF TypeOK, Transactions
<1>4. \A c \in Connections : c \notin InUse' => c \notin InUse \/ c = tx[r].conn
  BY <1>2 DEF InUse
<1>5. NoContextLeak'
  BY <1>1, <1>4 DEF NoContextLeak
<1>7. ConnectionsAreExclusive'
  BY <1>2 DEF ConnectionsAreExclusive
<1>8. SettingIsOwn'
  <2> SUFFICES ASSUME NEW q \in Requests, tx'[q].pc \in {"begun", "scoped"}
               PROVE  tx'[q] = tx[q] /\ setting'[tx[q].conn] = setting[tx[q].conn]
    BY DEF SettingIsOwn
  <2>1. q # r
    BY <1>2 DEF Idle
  <2>2. tx'[q] = tx[q] /\ tx[q] # Idle
    BY <1>2, <2>1 DEF Idle
  <2>3. tx[q].conn # tx[r].conn /\ tx[q].conn \in Connections
    BY <1>1, <2>1, <2>2, TransactionCases DEF ConnectionsAreExclusive
  <2> QED BY <1>1, <2>2, <2>3
<1> QED BY <1>3, <1>5, <1>7, <1>8

LEMMA StepKeeps == ASSUME IInv, [Next]_vars PROVE IInv'
<1>1. ASSUME NEW r \in Requests, NEW t \in Tenants, NEW c \in Connections,
             Begin(r, t, c)
      PROVE  IInv'
  BY <1>1, BeginKeeps
<1>2. ASSUME NEW r \in Requests, SetContext(r) PROVE IInv'
  BY <1>2, SetContextKeeps
<1>3. ASSUME NEW r \in Requests, EndTx(r) PROVE IInv'
  BY <1>3, EndTxKeeps
<1>4. CASE UNCHANGED vars
  BY <1>4 DEF vars, IInv, TypeOK, NoContextLeak, InUse, ConnectionsAreExclusive,
     SettingIsOwn
<1> QED BY <1>1, <1>2, <1>3, <1>4 DEF Next

\* The inductive invariant holds: connections are exclusive, and the setting
\* of one that is in use is its transaction's.
THEOREM Invariance == Spec => []IInv
BY InitIInv, StepKeeps, PTL DEF Spec

\* Every variable stays in its range, whatever the clients do (db/index.ts).
THEOREM TypeCorrectness == Spec => []TypeOK
<1>1. IInv => TypeOK
  BY DEF IInv
<1> QED BY <1>1, Invariance, PTL

\* A connection goes back to the pool without a tenant (withTenantContext).
THEOREM NoLeak == Spec => []NoContextLeak
<1>1. IInv => NoContextLeak
  BY DEF IInv
<1> QED BY <1>1, Invariance, PTL

\* What a transaction can see and write is its own tenant's (migration 0007).
THEOREM Isolation == Spec => []TenantsAreIsolated
<1>1. IInv => TenantsAreIsolated
  <2> SUFFICES ASSUME IInv, NEW r \in Requests, tx[r] # Idle,
                      NEW t \in Tenants, setting[tx[r].conn] = t
               PROVE  t = tx[r].tenant
    BY DEF TenantsAreIsolated, Visible
  <2>1. tx[r].pc \in {"begun", "scoped"}
    BY TransactionCases DEF IInv, TypeOK
  <2> QED BY <2>1, NoTenantAssumption DEF IInv, SettingIsOwn
<1> QED BY <1>1, Invariance, PTL
=============================================================================
