\* Retries and reprocessing, where reviewers wait until the retries of a run are used up.
CONSTANTS
  d1 = d1  d2 = d2  r0 = r0  r1 = r1  r2 = r2  alice = alice  bob = bob
  NoDoc = NoDoc
  NoRun = NoRun
  NoInvoice = NoInvoice
  Threshold = 85
  Cent = 2
  Initial = r0
  Invoices <- ClearInvoices
  Documents = {d1}
  Runs = {r0, r1}
  Reviewers = {alice, bob}
  OcrTexts = {"text", "blank"}
  Faults = {"provider"}
  WebhookConfigured = TRUE
  MaxAttempts = 3
  MaxStalls = 1
  OcrConcurrency = 3
  ExtractionConcurrency = 2
SPECIFICATION PatientSpec
SYMMETRY ReviewerSymmetry
VIEW WithoutAudit
CHECK_DEADLOCK FALSE
INVARIANTS
  ReviewedDataPresent
PROPERTIES
  ReviewerStepsAreGuarded
  ImplementsLifecycle
