\* The worker dies after an automatic approval.
CONSTANTS
  d1 = d1  d2 = d2  r0 = r0  r1 = r1  r2 = r2  alice = alice  bob = bob
  NoDoc = NoDoc
  NoRun = NoRun
  NoInvoice = NoInvoice
  Threshold = 85
  Cent = 2
  Initial = r0
  Invoices <- ClearInvoices
  Documents = {d1}
  Runs = {r0}
  Reviewers = {}
  OcrTexts = {"text"}
  Faults = {"crash"}
  WebhookConfigured = TRUE
  MaxAttempts = 3
  MaxStalls = 1
  OcrConcurrency = 3
  ExtractionConcurrency = 2
SPECIFICATION FairSpec
CHECK_DEADLOCK FALSE
PROPERTY DecisionsAreAnnounced
