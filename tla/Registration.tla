----------------------------- MODULE Registration -----------------------------
(***************************************************************************)
(* register of auth.service.ts: a tenant and its admin user are inserted   *)
(* in one transaction, and the unique constraints of the database, not a   *)
(* check beforehand, decide which of two registrations gets a slug or an   *)
(* email.  As Postgres does it, an insert waits for a transaction that has *)
(* inserted the same key and is still open.                                *)
(***************************************************************************)
EXTENDS FiniteSets

CONSTANTS
  Requests,      \* registrations, each with the tenant id made up for it
  Slugs, Emails,
  Faults         \* "lost": the process dies or Postgres fails

ASSUME FaultsAssumption == Faults \subseteq {"lost"}

VARIABLES
  form,       \* what is asked for, a slug and an email
  pc,         \* where the transaction of a registration stands
  tenants,    \* the committed rows of tenants, by the id of the tenant
  users,      \* the committed rows of users, by the tenant of the user
  answer      \* how the request ended

vars == <<form, pc, tenants, users, answer>>

Answers == {"none", "created", "TENANT_SLUG_TAKEN", "EMAIL_TAKEN", "INTERNAL_ERROR"}

\* Every variable stays in its range.
TypeOK == /\ form \in [Requests -> [slug : Slugs, email : Emails]]
          /\ pc \in [Requests -> {"begin", "user", "commit", "done"}]
          /\ tenants \subseteq Requests /\ users \subseteq Requests
          /\ answer \in [Requests -> Answers]

Init == /\ form \in [Requests -> [slug : Slugs, email : Emails]]
        /\ pc = [r \in Requests |-> "begin"]
        /\ tenants = {} /\ users = {}
        /\ answer = [r \in Requests |-> "none"]

\* The inserts of transactions that are still open.
OpenTenants == {r \in Requests : pc[r] \in {"user", "commit"}}
OpenUsers == {r \in Requests : pc[r] = "commit"}

SlugOf(rows, r) == {q \in rows : form[q].slug = form[r].slug}
EmailOf(rows, r) == {q \in rows : form[q].email = form[r].email}

Go(r, from, to) == /\ pc[r] = from
                   /\ pc' = [pc EXCEPT ![r] = to]
                   /\ UNCHANGED form
\* (Mutant: the code of the database is passed on.)
RollBack_RawCode(r, error) == /\ Go(r, pc[r], "done")
                              /\ answer' = [answer EXCEPT ![r] = "23505"]
                              /\ UNCHANGED <<tenants, users>>
\* The transaction is rolled back and the request answered with an error.
RollBack(r, error) == /\ Go(r, pc[r], "done")
                      /\ answer' = [answer EXCEPT ![r] = error]
                      /\ UNCHANGED <<tenants, users>>

\* (Mutant: a slug is taken as soon as another transaction has inserted it.)
InsertTenant_NoWait(r) ==
  /\ pc[r] = "begin"
  /\ IF SlugOf(tenants \cup OpenTenants, r) # {}
     THEN RollBack(r, "TENANT_SLUG_TAKEN")
     ELSE Go(r, "begin", "user") /\ UNCHANGED <<tenants, users, answer>>
InsertTenant(r) ==
  /\ pc[r] = "begin" /\ SlugOf(OpenTenants, r) = {}
  /\ IF SlugOf(tenants, r) # {}
     THEN RollBack(r, "TENANT_SLUG_TAKEN")
     ELSE Go(r, "begin", "user") /\ UNCHANGED <<tenants, users, answer>>

\* (Mutant: the violation is answered, but the transaction stays open.)
InsertUser_StaysOpen(r) ==
  /\ pc[r] = "user" /\ EmailOf(OpenUsers, r) = {}
  /\ IF EmailOf(users, r) # {}
     THEN /\ answer' = [answer EXCEPT ![r] = "EMAIL_TAKEN"]
          /\ UNCHANGED <<form, pc, tenants, users>>
     ELSE Go(r, "user", "commit") /\ UNCHANGED <<tenants, users, answer>>
\* (Mutant: the email is not checked against rows already committed.)
InsertUser_NoConstraint(r) ==
  /\ EmailOf(OpenUsers, r) = {}
  /\ Go(r, "user", "commit") /\ UNCHANGED <<tenants, users, answer>>
InsertUser(r) ==
  /\ pc[r] = "user" /\ EmailOf(OpenUsers, r) = {}
  /\ IF EmailOf(users, r) # {}
     THEN RollBack(r, "EMAIL_TAKEN")
     ELSE Go(r, "user", "commit") /\ UNCHANGED <<tenants, users, answer>>

Commit(r) == /\ Go(r, "commit", "done")
             /\ tenants' = tenants \cup {r} /\ users' = users \cup {r}
             /\ answer' = [answer EXCEPT ![r] = "created"]

Lost(r) == /\ "lost" \in Faults /\ pc[r] # "done"
           /\ RollBack(r, "INTERNAL_ERROR")

Progress(r) == InsertTenant(r) \/ InsertUser(r) \/ Commit(r)

Next == \E r \in Requests : Progress(r) \/ Lost(r)

Spec == Init /\ [][Next]_vars

\* A statement that can run does, and a lock that is free is given to each
\* of those who wait for it in turn.
FairSpec == Spec /\ \A r \in Requests : WF_vars(Progress(r))

-----------------------------------------------------------------------------
\* No two tenants share a slug and no two users an email.
SlugsAndEmailsAreUnique ==
  /\ \A r, q \in tenants : form[r].slug = form[q].slug => r = q
  /\ \A r, q \in users : form[r].email = form[q].email => r = q

\* A registration is refused only for a slug or an email that an account
\* really has: not for one whose registration was rolled back.
ConflictsAreReal ==
  \A r \in Requests :
    /\ answer[r] = "TENANT_SLUG_TAKEN" => SlugOf(tenants, r) # {}
    /\ answer[r] = "EMAIL_TAKEN" => EmailOf(users, r) # {}

\* No two registrations wait for each other.
RegistrationsEnd == \A r \in Requests : <>(pc[r] = "done")
=============================================================================
