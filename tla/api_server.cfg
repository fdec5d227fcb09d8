\* Two clients that compete for one pooled connection, a process told to stop.
CONSTANTS
  Tenants = {"acme", "globex"}
  Requests = {q1, q2}
  Connections = {c1}
  NoTenant = "none"
  Users <- FewUsers
  Nobody = Nobody
  Ops = {"upload", "decide", "update", "rotate"}
  Faults = {"store"}
SPECIFICATION ApiFairSpec
CHECK_DEADLOCK FALSE
INVARIANTS
  ApiTypeOK
  NoContextLeak
  TenantsAreIsolated
  ChangesAreAuthorised
  NoOrphanSecret
PROPERTIES
  StopsInTime
  RequestsEnd
