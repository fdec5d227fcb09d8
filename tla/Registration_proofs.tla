-------------------------- MODULE Registration_proofs --------------------------
(* Theorems about Registration, for any requests, slugs and emails. *)
EXTENDS Registration, TLAPS

\* A row is committed by a transaction that is over.
RowsAreCommitted == \A r \in tenants \cup users : r \in Requests /\ pc[r] = "done"

\* Of the rows that are committed or still open, no two share a key: what an
\* insert waits for and what it is refused for leave no gap between them.
KeysAreUnique ==
  /\ \A r, q \in tenants \cup OpenTenants : form[r].slug = form[q].slug => r = q
  /\ \A r, q \in users \cup OpenUsers : form[r].email = form[q].email => r = q

\* The inductive invariant.
IInv == /\ TypeOK /\ RowsAreCommitted /\ KeysAreUnique
        /\ ConflictsAreReal

LEMMA InitIInv == Init => IInv
BY DEF Init, IInv, TypeOK, Answers, RowsAreCommitted,
   KeysAreUnique, OpenTenants, OpenUsers, ConflictsAreReal

\* A rollback leaves the committed rows as they are and closes a transaction.
LEMMA RollBackKeeps ==
  ASSUME IInv, NEW r \in Requests, NEW error \in Answers, RollBack(r, error),
         pc[r] # "done",
         error = "TENANT_SLUG_TAKEN" => SlugOf(tenants, r) # {},
         error = "EMAIL_TAKEN" => EmailOf(users, r) # {}
  PROVE  IInv'
<1> USE DEF IInv
<1>1. /\ pc' = [pc EXCEPT ![r] = "done"] /\ answer' = [answer EXCEPT ![r] = error]
      /\ UNCHANGED <<form, tenants, users>>
  BY DEF RollBack, Go
<1>2. TypeOK'
  BY <1>1 DEF TypeOK
<1>3. RowsAreCommitted'
  BY <1>1 DEF RowsAreCommitted, TypeOK
<1>4. OpenTenants' \subseteq OpenTenants /\ OpenUsers' \subseteq OpenUsers
  BY <1>1 DEF OpenTenants, OpenUsers, TypeOK
<1>5. KeysAreUnique'
  BY <1>1, <1>4 DEF KeysAreUnique
<1>6. ConflictsAreReal'
  BY <1>1 DEF ConflictsAreReal, SlugOf, EmailOf, TypeOK
<1> QED BY <1>2, <1>3, <1>5, <1>6

\* An insert that goes on has found its slug free, in committed and open rows.
LEMMA InsertTenantKeeps ==
  ASSUME IInv, NEW r \in Requests, InsertTenant(r)
  PROVE  IInv'
<1> USE DEF IInv
<1>1. CASE SlugOf(tenants, r) # {}
  <2>1. RollBack(r, "TENANT_SLUG_TAKEN") /\ pc[r] # "done"
    BY <1>1 DEF InsertTenant
  <2> QED BY <1>1, <2>1, RollBackKeeps DEF Answers
<1>2. CASE SlugOf(tenants, r) = {}
  <2>1. /\ pc[r] = "begin" /\ pc' = [pc EXCEPT ![r] = "user"]
        /\ UNCHANGED <<form, tenants, users, answer>>
        /\ SlugOf(OpenTenants, r) = {}
    BY <1>2 DEF InsertTenant, Go
  <2>2. OpenTenants' = OpenTenants \cup {r} /\ OpenUsers' = OpenUsers
    BY <2>1 DEF OpenTenants, OpenUsers, TypeOK
  <2>3. \A q \in tenants \cup OpenTenants : form[q].slug # form[r].slug
    BY <1>2, <2>1 DEF SlugOf
  <2>4. KeysAreUnique'
    BY <2>1, <2>2, <2>3 DEF KeysAreUnique
  <2>5. (TypeOK /\ RowsAreCommitted /\ ConflictsAreReal)'
    BY <2>1 DEF TypeOK, RowsAreCommitted, ConflictsAreReal,
       SlugOf, EmailOf
  <2> QED BY <2>4, <2>5
<1> QED BY <1>1, <1>2

LEMMA InsertUserKeeps ==
  ASSUME IInv, NEW r \in Requests, InsertUser(r)
  PROVE  IInv'
<1> USE DEF IInv
<1>1. CASE EmailOf(users, r) # {}
  <2>1. RollBack(r, "EMAIL_TAKEN") /\ pc[r] # "done"
    BY <1>1 DEF InsertUser
  <2> QED BY <1>1, <2>1, RollBackKeeps DEF Answers
<1>2. CASE EmailOf(users, r) = {}
  <2>1. /\ pc[r] = "user" /\ pc' = [pc EXCEPT ![r] = "commit"]
        /\ UNCHANGED <<form, tenants, users, answer>>
        /\ EmailOf(OpenUsers, r) = {}
    BY <1>2 DEF InsertUser, Go
  <2>2. OpenTenants' = OpenTenants /\ OpenUsers' = OpenUsers \cup {r}
    BY <2>1 DEF OpenTenants, OpenUsers, TypeOK
  <2>3. \A q \in users \cup OpenUsers : form[q].email # form[r].email
    BY <1>2, <2>1 DEF EmailOf
  <2>4. KeysAreUnique'
    BY <2>1, <2>2, <2>3 DEF KeysAreUnique
  <2>5. (TypeOK /\ RowsAreCommitted /\ ConflictsAreReal)'
    BY <2>1 DEF TypeOK, RowsAreCommitted, ConflictsAreReal,
       SlugOf, EmailOf
  <2> QED BY <2>4, <2>5
<1> QED BY <1>1, <1>2

\* A commit turns open rows into committed ones, both at once.
LEMMA CommitKeeps ==
  ASSUME IInv, NEW r \in Requests, Commit(r)
  PROVE  IInv'
<1> USE DEF IInv
<1>1. /\ pc[r] = "commit" /\ pc' = [pc EXCEPT ![r] = "done"] /\ UNCHANGED form
      /\ tenants' = tenants \cup {r} /\ users' = users \cup {r}
      /\ answer' = [answer EXCEPT ![r] = "created"]
  BY DEF Commit, Go
<1>2. r \in OpenTenants /\ r \in OpenUsers
  BY <1>1 DEF OpenTenants, OpenUsers
<1>3. OpenTenants' \subseteq OpenTenants /\ OpenUsers' \subseteq OpenUsers
  BY <1>1 DEF OpenTenants, OpenUsers, TypeOK
<1>4. KeysAreUnique'
  BY <1>1, <1>2, <1>3 DEF KeysAreUnique
<1>5. TypeOK' /\ RowsAreCommitted'
  BY <1>1 DEF TypeOK, Answers, RowsAreCommitted
<1>6. ConflictsAreReal'
  BY <1>1 DEF ConflictsAreReal, SlugOf, EmailOf, TypeOK
<1> QED BY <1>4, <1>5, <1>6

\* The inductive invariant: keys are unique over committed and open rows.
THEOREM Invariance == Spec => []IInv
<1>1. IInv /\ [Next]_vars => IInv'
  <2> SUFFICES ASSUME IInv, [Next]_vars PROVE IInv'
    OBVIOUS
  <2>1. ASSUME NEW r \in Requests, Progress(r) PROVE IInv'
    BY <2>1, InsertTenantKeeps, InsertUserKeeps, CommitKeeps DEF Progress
  <2>2. ASSUME NEW r \in Requests, Lost(r) PROVE IInv'
    BY <2>2, RollBackKeeps DEF Lost, Answers
  <2>3. CASE UNCHANGED vars
    BY <2>3 DEF vars, IInv, TypeOK, RowsAreCommitted,
       KeysAreUnique, OpenTenants, OpenUsers, ConflictsAreReal, SlugOf, EmailOf
  <2> QED BY <2>1, <2>2, <2>3 DEF Next
<1> QED BY <1>1, InitIInv, PTL DEF Spec

\* Every variable stays in its range, whatever the requests do (register).
THEOREM TypeCorrectness == Spec => []TypeOK
<1>1. IInv => TypeOK
  BY DEF IInv
<1> QED BY <1>1, Invariance, PTL

\* Slugs and emails are unique although nothing checks them beforehand.
THEOREM Uniqueness == Spec => []SlugsAndEmailsAreUnique
<1>1. IInv => SlugsAndEmailsAreUnique
  BY DEF IInv, KeysAreUnique, SlugsAndEmailsAreUnique
<1> QED BY <1>1, Invariance, PTL

\* A registration is refused only for an account that exists.
THEOREM RealConflicts == Spec => []ConflictsAreReal
<1>1. IInv => ConflictsAreReal
  BY DEF IInv
<1> QED BY <1>1, Invariance, PTL
=============================================================================
