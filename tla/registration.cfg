\* Three registrations for two slugs and two emails, which may be lost.
CONSTANTS
  Requests = {r1, r2, r3}
  Slugs = {"acme", "globex"}
  Emails = {"ann", "bea"}
  Faults = {"lost"}
CHECK_DEADLOCK FALSE
SPECIFICATION FairSpec
INVARIANTS
  TypeOK
  SlugsAndEmailsAreUnique
  ConflictsAreReal
PROPERTY RegistrationsEnd
