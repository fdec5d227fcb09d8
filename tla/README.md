# Doc-auto in TLA+

TLA+ models of the document automation service, model-checked with TLC, with the
safety properties that matter most proved with TLAPS. Paths are relative to the root of
the repository. Every definition that models code is listed with its lines in
`PROJECT.json` (`map`); a definition named `X_Y` next to an `X` is a *mutant*, `X`
with a plausible bug, on which the property named in `PROJECT.json` (`mutants`)
fails. It is no part of the specification.

## The system

An API process (`src/server.ts`, Express) and a worker process (`src/worker.ts`)
share a Postgres database and Redis. Several of each may run. Everything is
asynchronous: a handler or job is interrupted at every `await`, and requests, jobs
and processes interleave there.

| Component | State it keeps | Operations | Interacts with |
|---|---|---|---|
| Document service (`services/document.service.ts`, `audit.service.ts`) | rows of `documents`, `documents_extraction`, `document_audit_log` | upload, approve, reject, edit, reprocess, three reads | adds jobs to `ocr-jobs` and `webhook-jobs` |
| OCR worker (`workers/ocr.worker.ts`) | `documents.status`, `rawText` | one job: read, mark, download and detect, store, enqueue | takes from `ocr-jobs`, adds to `extraction-jobs`; storage, Textract |
| Extraction worker (`workers/extraction.worker.ts`) | `status`, `docType`, the extraction row | one job: read, skip, classify, extract, insert, decide, announce | takes from `extraction-jobs`, adds to `webhook-jobs`; LLM |
| Decision engine (`lib/decision-engine.ts`) | none | `evaluateExtraction` | called by the extraction worker |
| Webhook worker (`workers/webhook.worker.ts`) | `webhook_deliveries` | one job: read, count, insert, POST, update, audit | takes from `webhook-jobs`; the tenant's endpoint |
| Queues (`queues/`) | jobs in Redis (BullMQ) | add, claim, complete, fail, retry, recover a stalled job | between API and workers |
| Rate limiter (`middleware/rateLimiter.ts`) | a sorted set in Redis per path and caller | let through or deny | in front of every route |
| Refresh tokens (`lib/tokens.ts`, `services/auth.service.ts`) | keys in Redis | login, refresh, logout | API |
| Registration (`services/auth.service.ts`) | rows of `tenants`, `users` | register | API |
| Tenant configuration (`services/tenant.service.ts`) | `tenants.webhookUrl`, `webhookSecret` | update, rotate secret | read by the workers |
| Tenant context (`db/index.ts`, migrations 0001 and 0007) | `app.tenant_id` of pooled connections | one transaction | under every statement |
| Shutdown (`server.ts`, `worker.ts`) | open sockets, workers | drain, exit | everything |

What is hard about it, component by component, is the list `hazards` in
`PROJECT.json`. In short: status columns written without a condition by several
actors; jobs retried, or run again after a crash, over a document that has moved on;
steps that commit one after the other (database, then queue) with nothing that makes
them one; state read in one step and used in a later one; two limiters, or two jobs,
that share a counter.

What makes each component correct: a document goes through the life cycle the README
of the repository describes, comes to a settled status, is decided on the data that
is stored, and every decision is announced; a delivery is attempted as often as
promised and its rows tell what happened; a limiter lets its limit through, no more and
no less; a refresh token is exchanged once; slugs and emails stay unique; a tenant has a
secret only with a URL; no request sees another tenant's rows. Where the code falls short
of one of these, the property checked says how far it gets, and *Disagreements* what is
missing.

## The modules

| Module | Models |
|---|---|
| `JobQueue` | a BullMQ job as the service uses it (external code): deduplication by id, attempts, stalled jobs |
| `DecisionEngine` | `evaluateExtraction`, which the extraction worker calls |
| `PipelineState` | the state of the pipeline, its types and initial values |
| `DocumentService`, `OcrWorker`, `ExtractionWorker` | the actions of the three components on that state |
| `DocumentPipeline` | their composition, the fairness, the properties |
| `RunOverlap` | `DocumentPipeline` with a history of retries: when two runs of a document are at work at once |
| `DocumentLifecycle` | the abstract specification: the life cycle of a document |
| `DocumentPipeline_proofs` | theorems about `DocumentPipeline` and `RunOverlap` |
| `WebhookDelivery` | the webhook jobs of one document |
| `RateLimiter` | the sliding window, with a chain of limiters in front of a path |
| `RefreshTokens` | refresh tokens in Redis |
| `Registration` | the transaction of a registration against unique constraints |
| `TenantContext` | the tenant setting of pooled connections and row-level security |
| `ApiServer` | the API process on top of `TenantContext`: connections, middleware, the transactions and calls of every document and tenant route, the tenant's webhook settings, draining and exit |
| `WorkerProcess` | the worker process around `WebhookDelivery`: stop, kill, restart |
| `ApiServer_proofs`, `WorkerProcess_proofs`, `WebhookDelivery_proofs`, `RateLimiter_proofs`, `RefreshTokens_proofs`, `Registration_proofs`, `TenantContext_proofs` | theorems about those modules |
| `MC...` | definitions that instances need: symmetry, a view, invoices, sequences of limiters |

**Steps.** An action is what happens between two `await`s, with every change of state
the code makes there. A transaction that reads and then writes is two actions,
whether or not the write re-checks what was read; one that deletes and updates, as in
`reprocessDocument`, commits in one action, so a row that another transaction inserts
between its statements is not seen (a job of an earlier run would have to do that).
`uploadPc`, `req`, `ocrPc`, `extPc` say where a request or job stands; the values
name the step that comes next (`"audit"`: the audit row is about to be written).
What an OCR or extraction job reads at its start belongs to the step that claims it; a
webhook job, which reads what is to be delivered, does so in a step of its own (`Read`).
The queries of one transaction that only reads are one step.

**Jobs.** A job is a pair of a document and a run, which is what `ocrJobId` and
`extractionJobId` name. Webhook jobs have no id of ours and are never deduplicated;
`WebhookDelivery` numbers them by the decision they are added for. Jobs are kept for
ever: `removeOnComplete`/`removeOnFail` are not modelled. An `add` takes effect,
throws, or does both, when Redis has executed it and the answer is lost
(`UploadUnconfirmed`, `OcrUnconfirmed`, `ExtUnconfirmed`: the job runs, and the catch
block fails its document).

**Failures.** `Faults` says what may go wrong in an instance. `"provider"`: storage,
Textract or the LLM throws (their own retry loops are inside the call). `"store"`: a
statement of Postgres or Redis throws, in the `try` block, outside of it or in the
`catch` block. `"crash"`: the process dies at any step; the request is gone, the job
is found stalled and runs again from its start. A job whose lock expires while its
execution lives on is not modelled: a crash ends the execution.

**Data.** A text is `"text"` or `"blank"`. An invoice is what the decision engine
looks at: the amounts of its line items, the subtotal, the confidence of each field.
Amounts are integers in a unit `Cent` of which make a cent, as the schema takes any
number. The code judges the invoice as extracted and stores its subtotal with two
decimals (`extraction.worker.ts:104`): `Stored` rounds it to the nearest cent, either way
if two are as near, since `toFixed` goes by the double. The line items are stored as they
are, as JSON. The row has the rounded invoice, the run that stored it and a flag that it
was edited since. The code computes in doubles, so a difference of exactly the tolerance
may come out on either side; there `MathValid` has both values. Any other multiple of the
unit is further from the tolerance than the error of a sum of doubles of this size.
The threshold is a constant: a change of it between two jobs
is not modelled. The document types other than `unknown` are one, the code treats
them alike. Of the audit log, the latest `newStatus` per document is kept.
`unannounced` is a history variable: decisions committed less webhook jobs added.

**Refinement.** `DocumentPipeline!ImplementsLifecycle` is `DocumentLifecycle!Spec`
under the mapping `data[d] <- extraction[d] # NoRow`. `DocumentLifecycle` allows what
the repository's README describes and the retries need: work may be taken up again
after a failure, data is stored once and while extracting, an automatic approval has
data, reviewers decide what is under review, a reprocessing starts over without data.
It is checked where no two runs of a document are at work at once and no database
error or crash repeats a finished job; beyond that the code leaves the life cycle, see
*Disagreements*. What keeps runs apart is that nothing is retried, or that nothing is
reprocessed, or `Patient`: no reprocessing is committed while a job of the document still
has a retry to come. The code does not see to the last: a document is `failed` between two
attempts and can be reprocessed then (`document.service.ts:305`). So `PatientSpec`, the
pipeline with reviewers who wait, is an assumption about people, and is used for two
properties only, `ImplementsLifecycle` and `ReviewedDataPresent`, which are false without.

**RunOverlap** says of the code as it is, with reviewers who do not wait, when runs
overlap. `retried` has the documents a job of which was put back for a retry, and
`OverlapsAreRetries` says that on any other no two runs are at work, and none once the
document is settled. It is a property of every guard and every order of steps between
`status` and the queues, which the workers, who write `status` without a condition, rely
on: a reprocessing allowed in one more status, a job added before the commit, or a catch
block that fails a document whose job lives on would violate it. The last exists: an add
whose answer is lost (`OcrUnconfirmed`, `UploadUnconfirmed`), so the property is about
providers that fail and not about databases.

**WebhookDelivery** has one document, as documents share nothing but slots. Its
`Decide`, `Reopen` and `Reconfigure` stand for the rest of the system. `rows` is
`webhook_deliveries` of the document; the field `by` is history. What is delivered is
not modelled, only whether, how often and what is recorded.

**WorkerProcess** composes `WebhookDelivery` with `worker.ts`: a process that is
`"up"`, `"closing"` after a signal (`Worker.close`: no new job is taken, those in hand
are finished) or `"down"`. Every action of the worker keeps its definition and gets
the guard its process gives it. The OCR and extraction workers are closed alike; they
delay the exit, which is why `Exit` may be late. `Kill` stands for the
platform, which kills what does not stop in time, or a machine that is lost; `Restart`
for the next process of a deploy, once the locks of the old one have expired.

**ApiServer** puts the API's requests on top of `TenantContext`: each request of a
client goes through middleware (`Refuse`, `Admit`) and the transactions and calls of
its route, in order (`DocumentRoutes`, `TenantRoutes`), each transaction in the four
steps of `withTenantContext`: `BeginTx` (connect), `Scope` (`set_config`),
`Statement`, `Commit`, or `Rollback`. A client has one connection and may hang up at
any step; the service runs on. `server` is what `shutdown` has come to: `"draining"`
until all connections are closed, `"closing"` until pool, Redis client and queues are,
then an exit code; the timer may go off at any time meanwhile. Nothing in it says what
a service does to documents, that is the pipeline; of the webhook settings, `config`
says which are set. The results of a statement that the service branches on (the
document does not exist, has another status) are left open, except for the webhook URL.

**RateLimiter** has one caller, as callers share no key. `Limiters` is the chain in
front of a path: one `[limit, window]` for most routes, two for `/register` and
`/login` (`apiRateLimit` in `app.ts`, `authRateLimit` in `routes/auth.ts`), which use
the same key. Scripts of one process reach Redis in order. A member has the time its
limiter read (`now`, line 41); the key expires a window after the last script that added
one *ran* (`PEXPIRE`, `expires`). A script may be late, so the two differ by any amount;
a key that has outlived its time is empty to the next script (`Vanished`). An eval
that throws lets its request through (`FailOpen`, `Unsent`), whether Redis has run the
script or not; `passed` has those requests, too, and `added` tells which of them were
counted. Times are small integers; limits 2 and 4 stand for 10 and 120, windows 1 and 3
for a minute and 15 minutes: what matters is that the wide limit has the short window.
Redis and the processes read one clock. That ioredis sends a script again whose answer was
lost with the connection is not modelled.

## What the runs check

Passing runs. All are exhaustive for their instance.

| Run | Instance | Shows |
|---|---|---|
| `pipeline_faults` | 1 document, 1 run, 1 reviewer, all faults, 2 attempts, 2 invoices | `TypeOK`; no worker has a document that is not stored (`QueuedInOrder`); no webhook job without a committed decision (`WebhooksFollowDecisions`) |
| `pipeline_overlap` | `RunOverlap`: 2 runs that may overlap, 2 reviewers who do not wait, provider errors, 2 attempts, 1 slot for OCR, 3 invoices in half cents | the decision a job announces is what the rule demands of the stored invoice, up to the half cent it is rounded by, however runs overlap (`DecisionMatchesStored`); they overlap only after a retry (`OverlapsAreRetries`) |
| `pipeline_patient` | 2 runs, 2 reviewers, provider errors, 3 attempts, 2 invoices, under `PatientSpec` | retries *and* reprocessing: what is under review has its data (`ReviewedDataPresent`); reviewers who race take only the steps allowed (`ReviewerStepsAreGuarded`); refinement of the life cycle |
| `pipeline_liveness` | 2 runs that may overlap, 1 reviewer, provider errors, 1 slot for OCR, 1 invoice that is judged either way | every upload or reprocessing settles (`UploadsSettle`); every decision gets its webhook job (`DecisionsAreAnnounced`) |
| `webhook_overlap` | `WorkerProcess`: 2 decisions, both slots, a process that is stopped or killed and started again, 2 attempts | only a kill leaves jobs to be found stalled (`StallsAreKills`); attempts are never numbered beyond the rows and no document is given up early (`NotGivenUpEarly`); a row belongs to one execution (`RowsAreOwned`); a job that returns has recorded how it ended (`EndsRecorded`) |
| `webhook_liveness` | `WorkerProcess`: 2 decisions, 1 slot, database errors, reprocessing, reconfiguration, stops | every job comes to an end (`JobsEnd`); a process told to stop does, whatever is in its queue (`WorkerStops`). No process is killed here: what a kill leaves is in `webhook_overlap` |
| `limiter_one` | 1 process, 4 requests, 2 paths, time 0..5, late scripts, failed evals, keys that expire | of the requests that are counted, no more than the limit were sent and counted within one window (`LimitHolds`); no denial below the limit (`DeniedOnlyAtLimit`) |
| `tokens_overlap` | 4 tokens, 2 clients, lost requests, pipelines a command of which fails | a token that was logged out with stays gone, one that was exchanged unless its deletion failed (`SpentTokensAreGone`); one exchange per client at most (`ExchangesAreBounded`) |
| `registration` | 3 requests, 2 slugs, 2 emails, failures | slugs and emails are unique (`SlugsAndEmailsAreUnique`), refused only for a real conflict (`ConflictsAreReal`), no deadlock (`RegistrationsEnd`) |
| `api_server` | 2 clients of 2 tenants (an admin, a viewer) and requests without a token, 1 pooled connection, 4 routes, errors, 2 signals | no setting outlives its transaction and tenants are isolated (`NoContextLeak`, `TenantsAreIsolated`), under a role that may do it (`ChangesAreAuthorised`); a secret without URL only from an overtaken rotation (`NoOrphanSecret`); the process stops (`StopsInTime`) and every request ends, on a pool that was ended under it, too (`RequestsEnd`) |

Runs that find a disagreement between the code and what a doc, a comment or a test of
the repository says; `findings` in `PROJECT.json` quotes the line.

| Run | What happens |
|---|---|
| `lost_webhook` | The worker dies after an automatic approval; the retry finds it approved and returns; no webhook job is ever added. |
| `limiter_auth_window` | Two limiters on one key: the short window of the API limiter empties the long one of the auth limiter. |

### Disagreements

The models show more of these; each is a behaviour of the modules as they stand,
found with a property that no run keeps:

- An edit reads `pending_review`, an approval commits, and the edit changes the
  approved data (`EditCommit` has no condition on the status).
- A run fails and waits for its retry; the document is reprocessed and approved; the
  retry marks it `ocr_processing` again (`OcrMark`).
- An extraction job reads the document after a reprocessing has set `rawText` to null
  and fails it for want of text (`FirstStep`).
- The OCR worker dies after enqueueing; the extraction completes; the OCR job runs
  again, its job is not added a second time, and the document stays `extracted`.
- The process dies between the transaction of a reprocessing and its job; the document
  stays `uploaded` and cannot be reprocessed (`ReprocessBegin`).
- After a database error, a retry extracts again, its insert is ignored, and it
  decides on the second answer while the first is stored (`Inserted`).
- `failed` is set without an audit row by the upload and the OCR worker.
- A second decision inherits the rows of the first as attempts and is dead after fewer
  than three of its own (`Count`); errors of the database use up the attempts of the
  queue, which then drops the job without a dead letter (`Throw`); a rejection whose
  document is reprocessed first is not announced, or announced as what came later.
- What is delivered is judged before it is rounded: a subtotal half a cent beyond the
  tolerance in the row may have been approved, and one within it sent to review
  (`Stored`; `DecisionMatchesStored` says that half a cent is all). Two runs that overlap
  may judge one answer and deliver another run's.
- Every request to an auth endpoint counts twice, so its limit of 10 is one of 5;
  "across all routes" (`rateLimiter.ts:163`) is per path; scripts of two processes out of
  order let one request too many through.
- A script that was sent in time and reaches Redis after the key has expired finds no hits,
  though some are in its window: more requests than the limit are let through that were
  sent within one window (`Vanished`). `LimitHolds` asks that they were counted within one
  window, too. Requests whose eval throws are let through on top of the limit (`FailOpen`).
- A refresh reads a token, another refresh or a logout deletes it, and the first still
  gets its new token (`Get`, `Exchange`); a pipeline fails, `exec()` resolves, and the
  client is answered with a token that is not stored (`SetFails`), or the old token
  stays alive and can be exchanged again (`DelFails`).
- "An orphaned secret with no URL to sign for is just dead sensitive data"
  (`tenant.service.ts`, 38-39): a rotation whose URL is cleared between its two
  transactions leaves just that (`Settings`; `NoOrphanSecret` says that nothing else does).
- A second signal calls `shutdown` again: `pool.end()` rejects the second time and the
  process exits with 1 (`Break`). `openSockets` is filled only by connections that
  come after the signal, of which there are none, so no socket is ever destroyed and
  a client that keeps its connection busy holds the process until the timer (`Timeout`).
- The handler of a client that has hung up is not waited for: `httpServer.close` is
  done, the pool is ended, and the handler's next transaction is refused
  (`NoConnection` while `"closing"`).
- `worker.close()` of one worker rejects: `Promise.all` rejects, the handler only logs
  it (`worker.ts:21`), and the process stays until it is killed. The model has no such
  rejection, and BullMQ none that the code provokes.
- An add whose answer is lost fails a document whose job then runs: an uploaded
  document is `failed`, then `ocr_processing`; an approved one is announced and `failed`.
- `100.01 - 100 > 0.01` in doubles: a cent off may be too much (`MathValid`).

**Bounds.** One document is enough where documents share nothing but slots and
queues, which is what `OcrConcurrency` is varied for (one slot in `pipeline_liveness`
and `pipeline_overlap`, where two runs compete for it; a job that waits for it counts as at
work in `OverlapsAreRetries`). One run covers every retry, two every overlap of an
old run with a new one; a second reprocessing after the first is left to the proofs, which
have any number of runs. Two reviewers
are the smallest number that race. Two attempts have a first, a last and a retry;
in `pipeline_patient` it is the three of the code. The three invoices of
`pipeline_overlap` are one on the threshold, one below it, and one on the tolerance whose
subtotal, 101.5 cents against 100.5 of its line items, is rounded to either side. `MaxDecisions`, `MaxStops`, `Runs`,
`Tokens` and `MaxTime` bound what would go on for ever: an action that would exceed one is not enabled, and
`CHECK_DEADLOCK FALSE` allows the end. Systems also really stop: nobody has to upload,
review or log in. `pipeline_faults`, `pipeline_overlap` and `pipeline_patient` do not tell states apart by
the audit log (`VIEW`): no guard and no property of the runs reads it, except that `TypeOK` also
types it. Four requests are two more than the limit, so a window can be filled twice.
Half cents are the coarsest unit in which an amount can be between two cents. Reviewers, requests, tokens and
clients are symmetric; no run that checks liveness uses symmetry.

One pooled connection is the smallest pool and the one that is reused and exhausted
soonest; two clients are the fewest that compete for it, and two tenants the fewest to
mix up. The four routes of `api_server` have all there is of sequences: a role that not
all have, several transactions, calls between them, a failed upload's extra
transaction, and the two that race for the settings. A third signal does what the
second does. Connections are let in again after a hang-up, so requests per client are
not bounded.

**Fairness.** `DocumentPipeline!Fairness` is weak fairness of each request, job and
upload: Node's event loop runs a continuation whose promise has settled, BullMQ hands
a waiting job to a free slot, promotes a delayed one and checks for stalled ones, and
a call to a provider returns or throws. Nothing that a person or a fault does is
fair, so no property depends on someone reviewing or something failing (`OcrThrow` is
in the fairness of a job only because the download of a file that was never stored
has no other outcome). Weak fairness is enough: a job that waits for a slot stays
enabled while one is free, and jobs that hold the slots end; `pipeline_liveness` has
too few jobs for one to be overtaken for ever. In `WebhookDelivery` the timer
(`Timeout`) is fair and the endpoint's answer is not; in `WorkerProcess` so are
`Exit`, `Restart` and the expiry of locks, and signals and kills are not. In
`Registration` a statement whose lock is free is executed. In `ApiServer` the process's
own timer is fair, and each request's next step (`Progress`), as what it awaits
settles: a statement returns or throws, `connect` gives up after 5 seconds. Clients need
neither send nor hang up, and signals need not come.
The calls to providers have no timeout of their own in the code (`fetch` in
`storage.ts`; the SDKs have theirs): that they return or throw is an assumption.

## What is proved

`DocumentPipeline_proofs`, for any documents, runs, reviewers, faults, concurrency,
attempts and stalls that satisfy the named assumptions of `PipelineState` and
`JobQueue` and `DecisionEngine` (runs of TLC evaluate them):

| Theorem | States |
|---|---|
| `Invariance` | `Spec => []IInv` |
| `TypeCorrectness` | `Spec => []TypeOK` |
| `QueueOrder` | `Spec => []QueuedInOrder` |
| `GuardedReviewing` | `Spec => ReviewerStepsAreGuarded` |
| `DecisionsFirst` | `Spec => []WebhooksFollowDecisions` |
| `LifecycleImplemented` | `QuietRuns`: `Spec => ImplementsLifecycle` |
| `ReviewedData` | `QuietRuns`: `Spec => []ReviewedDataPresent` |
| `PatientLifecycle` | `ProvidersFail`: `PatientSpec => ImplementsLifecycle` |
| `PatientReviewedData` | `ProvidersFail`: `PatientSpec => []ReviewedDataPresent` |
| `DecisionsMatch` | `ProvidersFail`: `Spec => []DecisionMatchesStored` |
| `OverlapsOnlyByRetry` | `ProvidersFail`: `OverlapSpec => []OverlapsAreRetries` |

The first five hold whatever fails. The others have a hypothesis about the instance,
because the code does not have the property without it (*Disagreements*):

- `ProvidersFail`: no fault but a provider's, `Faults \subseteq {"provider"}`. The last two
  theorems need nothing else: they are about any number of runs, which may overlap, and
  reviewers who do not wait.
- `QuietRuns`: `ProvidersFail`, and documents are processed once (`Runs = {Initial}`) or
  nothing is ever retried (no faults, or one attempt). `pipeline_patient` contains both
  cases: while there is one run, or no retry, nobody has to wait.

`QueuedInOrder` alone is not inductive: that `stored` holds once the OCR job of an
upload is in its queue depends on where the upload stands, and that the extraction
job comes after the OCR job on the program counter of the OCR worker, which says
something about the queue only because a job is active exactly while its counter is
not `"idle"`. So `IInv` joins the type invariant and `OneExecutionPerJob` (a
fact about the model's queue, and no more) with what each program counter implies: an
upload past `"key"` has stored its document, a document with a job has been uploaded that far, a request at `"enqueue"` has a run of its own and a
document that was uploaded. A lemma per component shows that its actions preserve
`IInv`, one step per action: `ExtractionWorkerSteps`, `OcrWorkerSteps`,
`UploadSteps`, `RequestBeginSteps` and `RequestProgressSteps`. They rest on lemmas
for actions of one form (`ExtInside`, `OcrInside`, `UploadInside`, `RequestInside`),
which say what is preserved by a step that changes neither queue nor counter's
meaning, and on `JobOperations`, which says what the operations on a job keep.
`GuardedReviewing` follows from `TypeOK` and the guards, action by action: a worker
never writes `rejected` or `uploaded`, and the reviewer's conditional update does so
only if the status is still as seen.

`DecisionsFirst` counts: whoever is about to add a webhook job owes it to a decision of
its own. `Covered(d)` says that the requests at `"notify"` and the executions that
have approved `d` and not announced it yet (`Owes`, which starts with the commit of the
approval and not with `"notify"`, and so is inductive) are together at most
`unannounced[d]`. A step that commits adds one on both sides, one that adds a job, or
loses the answer to it, takes one from both, a fault only from the left (`Balance`). It
needs `Runs` and `Reviewers` to be finite (`FinitenessAssumption`).

The theorems on life cycle and data share one invariant, `RInv`. No property of the
documents alone is inductive: that a retry does not take a decided document back
follows from where its job stands, and that an old run does not from who else is at
work. So `RInv` joins to `IInv`:

- `OneHolder(d)`: at most one of the upload, one reprocessing that has committed and not
  added its job, and one run has document `d` in hand (`Alone`), and then the document
  looks as that holder left it (`InOcr`, `InExt`), or nobody has it and it is at rest
  (`AtRest`: settled with the data its type calls for, or failed or absent without). A
  run has a document in hand also *between* two attempts (`Again`), though the document
  says `failed` then; a run that has nothing left but to audit, announce or return has not.
- `JobCourse(j)`: the extraction job is queued only once the OCR job has nothing left to
  do, and states and counters of the two go together.
- `OwnIds`: the run id of a reprocessing is nobody else's, and not in the queue yet.
- `NothingFails`: without faults no counter is at a `catch`.

`Patient` is needed in one place, `ReprocessRun`: a reprocessing commits on a
document that is failed or rejected, and no job of it has the document in hand then
(`SpentHoldsNot`; under `QuietRuns`, `StatusAtRest` has it without `Patient`). For each
component a lemma (`UploadRunSteps`, `OcrRunSteps`, `ExtRunSteps`, `RequestBeginRun`,
`RequestProgressRun`) shows that a step keeps `OneHolder` of its document and is a step of
the life cycle or none (`LStep`); `OcrOthers` and `ExtOthers` show that a worker leaves
the other documents and jobs alone. `NextRInv` puts them together, and `DataPresent` reads
the property off.

`OverlapsOnlyByRetry` cannot use `OneHolder`: without `Patient` a document may have
several holders, those of a job that is failing and will be put back. `OverInv` says of
every document that is not in `retried` yet that it is `Solo`: at most one of the upload, a
reprocessing that has committed, and a run that still writes *in this attempt* (`Writes`,
less than `JobHolds`), and if there is one, the document is not settled. A catch block
makes its document `failed` in the step in which the execution ceases to write; the
job is put back later, in a step that puts the document into `retried`, so there is no
need to say whose the retry is. `ExtMoves`, `OcrMoves` and the lemmas after them say
between which states the three components move a job, and when they write `status`.

`DecisionsMatch` adds `AuditInv`: from the commit of its decision until the webhook job
is added, the row of a document is another run's, or none by now, or the one the job itself
has stored, with the decision `evaluateExtraction` gave for the invoice it was rounded from
(`OwnRow`; `Inserts` and `RequestRows` say who writes rows). Where only providers fail an
execution that has inserted comes to its end, so no second one of the same job finds
its row. `EngineRule` is the rule for one invoice and the row it is rounded to. It needs that
`LineItemsSum` is an integer, which is proved by hand as the prover has no induction
over data: the least prefix without sums (`LeastNumber`) would be one item longer than a
prefix with sums (`SumsExist`), and the function `DecisionEngine` defines recursively is
then the one that exists (`SumsAre`, `LineItemsSumIsInt`).

The other proof modules have an invariant each, called `IInv`, and a lemma for each
kind of step; `Invariance` is `Spec => []IInv`. They hold for any value of the
constants: the numbers of requests, clients, tokens, slots and attempts, and every
subset of the faults.

| Module | Theorems | What makes the property inductive |
|---|---|---|
| `WebhookDelivery_proofs` | `TypeCorrectness` (`TypeOK`), `Persistence` (`NotGivenUpEarly`), `Recording` (`EndsRecorded`), `Ownership` (`RowsAreOwned`) | The local variables of an execution name a row of its own, with the attempt and the status its program counter allows; an attempt counted before an insert is at most one more than the rows there are, even if others insert meanwhile. |
| `WorkerProcess_proofs` | `WorkerImplementsDelivery` (`WorkerSpec => Spec` of `WebhookDelivery`), `DeliveryOutlivesStops` (the three above, in a process that is stopped and killed), `WorkerTypeCorrectness` (`WorkerTypeOK`), `StopsLeaveNothing` (`StallsAreKills`) | Each step is one of the worker or leaves its state alone. A job that is active while the process is down was killed with it: `Exit` waits for `Active = {}`, and a process that is down takes none. |
| `RefreshTokens_proofs` | `TypeCorrectness` (`TypeOK`), `SpentTokens` (`SpentTokensAreGone`), `FewExchanges` (`ExchangesAreBounded`) | `kept` has the tokens whose deletion failed. Nothing is presented, stored or exchanged that was not issued, and a new token is fresh: so a late `SET` cannot bring an old one back. The exchanges of a token and the requests about to exchange it are together at most the clients: the first exchange deletes it, unless it is in `kept`, after which no request joins them. |
| `RateLimiter_proofs` | `TypeCorrectness` (`TypeOK`); for one process and one limiter, `OneLimiterHolds` (`LimitHolds`) and `OneLimiterDeniesNobodyEarly` (`DeniedOnlyAtLimit`) | Scripts run in the order of their clocks, and nothing counted is later than a script to come. A key outlives every member by a window, counted from when it was added (`KeysLive`); so what Redis has forgotten of the last window (`Forgotten`) is too old, by the clock it was sent at, for every script to come. So a script finds all that was sent and counted within its window, and nothing that was not let through. |
| `Registration_proofs` | `TypeCorrectness` (`TypeOK`), `Uniqueness` (`SlugsAndEmailsAreUnique`), `RealConflicts` (`ConflictsAreReal`) | Keys are unique over committed rows *and* those of open transactions, since an insert waits for the latter and is refused for the former. |
| `TenantContext_proofs` | `TypeCorrectness` (`TypeOK`), `NoLeak` (`NoContextLeak`), `Isolation` (`TenantsAreIsolated`) | A connection has one transaction at a time, and the setting of a connection in use is that of its transaction or not made yet. |
| `ApiServer_proofs` | `ApiImplementsContext` (`ApiSpec => Spec` of `TenantContext`), `ApiIsolation` (so its theorems hold), `Authorisation` (`ChangesAreAuthorised`), `ApiTypeCorrectness` (`ApiTypeOK`), `SecretsHaveUrls` (`NoOrphanSecret`) | A transaction belongs to a request that was admitted, with the tenant of its user; past the first transaction of a rotation the URL is set or the tenant is in `overtaken`. |

Every invariant, action property and refinement that a passing run checks is stated by
one of these theorems. Only model-checked are the liveness properties (`UploadsSettle`,
`DecisionsAreAnnounced`, `JobsEnd`, `WorkerStops`, `RegistrationsEnd`, `StopsInTime`,
`RequestsEnd`): fairness and `ENABLED` are out of the prover's reach. So is induction
over data in general; the sums above are the one place where a proof needed it.

## What is not modelled, and why

- The provider clients (`lib/anthropic.ts`, `lib/textract.ts`, `lib/storage.ts`): they keep no
  state; a call, with up to three tries inside it, returns or throws, and that is how
  the pipeline has it. Their mocks return constants.
- Status codes, what a valid body, file or parameter is (`validators/`,
  `middleware/validate.ts`), and the auth routes: `ApiServer` has the order of the checks,
  the roles and how an error ends a service; `RefreshTokens` and `Registration` have
  what the auth routes call.
- Why the platform kills a process: `Kill` may come at any time (the timer of 10
  seconds in `server.ts` is longer than the 5 seconds Fly.io waits by default).
- Metrics, logging, health, configuration, migrations: no state the program acts on.
- The bid limiters of `rateLimiter.ts`: no route uses them.
- `find_user_for_login` (migration 0008): one statement that bypasses the policies by design.
- Clocks that differ between processes or from that of Redis, a script sent to Redis twice,
  what a webhook endpoint has accepted, jobs removed from a full queue, a lock that
  expires under a live execution: see `hazards`.

## Plan

Written so far, in this order: the pipeline with the decision engine, its abstract
specification, webhook delivery, the smaller components, proofs of their safety
properties; then the two processes around them, `ApiServer` over `TenantContext` and
`WorkerProcess` over `WebhookDelivery`, adds whose answer is lost, and the remaining
proofs of the runs' invariants that hold under every fault; then those with several
runs, with retries and with both. Next:

1. The queue in more detail: a lock that expires under a live execution, removal of old
   jobs; with the properties of the pipeline that survive.
2. A composition of the pipeline with `WebhookDelivery` (a decision to its delivery), and
   an abstract specification of delivery (at least once, or a dead letter).
3. What survives database errors: the pipeline under `"store"` leaves its life cycle, but
   a weaker abstract specification, in which a decided document may be `failed`, should
   still be implemented and proved along `RInv`.
