------------------------------ MODULE MCApiServer ------------------------------
EXTENDS ApiServer
\* An admin of one tenant, a viewer of another.
FewUsers == {[tenant |-> "acme", role |-> "admin"],
             [tenant |-> "globex", role |-> "viewer"]}
=============================================================================
