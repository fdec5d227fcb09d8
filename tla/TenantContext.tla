----------------------------- MODULE TenantContext -----------------------------
(***************************************************************************)
(* withTenantContext of db/index.ts and the row-level security policies it *)
(* serves: a transaction on a pooled connection sets app.tenant_id for     *)
(* itself, and a policy shows the rows of that tenant only.  Connections   *)
(* are used again, by requests of other tenants, and a transaction may end *)
(* at any point.  Here a policy is all that protects a row; the WHERE      *)
(* clauses of the services are a second gate and are left out.             *)
(***************************************************************************)
EXTENDS FiniteSets

CONSTANTS
  Tenants,       \* each with rows of its own
  Requests,      \* with one transaction in flight each
  Connections,   \* of the pool: DB_POOL_MAX of them
  NoTenant       \* of a setting: null or the empty string

ASSUME NoTenantAssumption == NoTenant \notin Tenants

VARIABLES
  setting,   \* app.tenant_id of each connection
  tx         \* the transaction of each request

vars == <<setting, tx>>

Idle == [pc |-> "idle"]
Transactions == {Idle} \cup
  [pc : {"begun", "scoped"}, tenant : Tenants, conn : Connections]

\* Every variable stays in its range.
TypeOK == /\ setting \in [Connections -> Tenants \cup {NoTenant}]
          /\ tx \in [Requests -> Transactions]

Init == /\ setting = [c \in Connections |-> NoTenant]
        /\ tx = [r \in Requests |-> Idle]

InUse == {tx[r].conn : r \in {q \in Requests : tx[q] # Idle}}

\* The pool hands out a free connection and BEGIN is sent.
Begin(r, t, c) ==
  /\ tx[r] = Idle /\ c \notin InUse
  /\ tx' = [tx EXCEPT ![r] = [pc |-> "begun", tenant |-> t, conn |-> c]]
  /\ UNCHANGED setting

\* (Mutant: the tenant of the caller is not known.)
SetContext_Undefined(r) ==
  /\ tx[r].pc = "begun"
  /\ setting' = [setting EXCEPT ![tx[r].conn] = "undefined"]
  /\ tx' = [tx EXCEPT ![r].pc = "scoped"]
SetContext(r) ==
  /\ tx[r].pc = "begun"
  /\ setting' = [setting EXCEPT ![tx[r].conn] = tx[r].tenant]
  /\ tx' = [tx EXCEPT ![r].pc = "scoped"]

\* (Mutant: a policy that lets everything pass when no tenant is set.)
Visible_WithoutTenant(s) == {t \in Tenants : s \in {t, NoTenant}}
\* USING (tenant_id = NULLIF(current_setting(...), '')::uuid): the tenants
\* whose rows a statement can read or write.
Visible(s) == {t \in Tenants : s = t}

\* (Mutant: set_config is not local to the transaction.)
SettingAfter_Kept(c) == setting[c]
SettingAfter(c) == NoTenant

\* COMMIT, or ROLLBACK when something threw; or the connection is lost and
\* the pool opens another in its place.
EndTx(r) == /\ tx[r] # Idle
            /\ setting' = [setting EXCEPT ![tx[r].conn] = SettingAfter(tx[r].conn)]
            /\ tx' = [tx EXCEPT ![r] = Idle]

Next == \E r \in Requests :
          \/ \E t \in Tenants, c \in Connections : Begin(r, t, c)
          \/ SetContext(r) \/ EndTx(r)

Spec == Init /\ [][Next]_vars

-----------------------------------------------------------------------------
\* A connection that goes back to the pool carries no tenant over to the
\* next request, however its transaction ended.
NoContextLeak ==
  \A c \in Connections : c \notin InUse => setting[c] = NoTenant

\* From its first statement to its last, no transaction can reach rows of a
\* tenant that is not its own.
TenantsAreIsolated ==
  \A r \in Requests :
    tx[r] # Idle => Visible(setting[tx[r].conn]) \subseteq {tx[r].tenant}
=============================================================================
