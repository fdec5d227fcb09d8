\* Two runs that may overlap, provider errors, weak fairness.
CONSTANTS
  d1 = d1  d2 = d2  r0 = r0  r1 = r1  r2 = r2  alice = alice  bob = bob
  NoDoc = NoDoc
  NoRun = NoRun
  NoInvoice = NoInvoice
  Threshold = 85
  Cent = 2
  Initial = r0
  Invoices <- EitherWay
  Documents = {d1}
  Runs = {r0, r1}
  Reviewers = {alice}
  OcrTexts = {"text", "blank"}
  Faults = {"provider"}
  WebhookConfigured = TRUE
  MaxAttempts = 2
  MaxStalls = 1
  OcrConcurrency = 1
  ExtractionConcurrency = 2
SPECIFICATION FairSpec
CHECK_DEADLOCK FALSE
PROPERTIES
  UploadsSettle
  DecisionsAreAnnounced
