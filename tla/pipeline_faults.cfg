\* One document, one run, one reviewer, every fault.
CONSTANTS
  d1 = d1  d2 = d2  r0 = r0  r1 = r1  r2 = r2  alice = alice  bob = bob
  NoDoc = NoDoc
  NoRun = NoRun
  NoInvoice = NoInvoice
  Threshold = 85
  Cent = 2
  Initial = r0
  Invoices <- ClearInvoices
  Documents = {d1}
  Runs = {r0}
  Reviewers = {alice}
  OcrTexts = {"text", "blank"}
  Faults = {"provider", "store", "crash"}
  WebhookConfigured = TRUE
  MaxAttempts = 2
  MaxStalls = 1
  OcrConcurrency = 3
  ExtractionConcurrency = 2
SPECIFICATION Spec
VIEW WithoutAudit
CHECK_DEADLOCK FALSE
INVARIANTS
  TypeOK
  QueuedInOrder
  WebhooksFollowDecisions
