# TLA+ models of w3infra

w3infra deploys the storage service: UCAN invocations arrive at the upload API,
which records what each space stores; billing turns those records into daily
usage and reports it to Stripe; the Filecoin pipeline, the indexer and some small
services work from queues and streams beside it. Nearly all of it is AWS Lambda
handlers around DynamoDB tables and SQS queues: any two handlers can run at once,
any call can fail after it took effect, any handler can stop between two calls, and
every message can come twice. This directory holds TLA+ models of the parts where
that matters, the TLC runs that check them and the TLAPS proofs about them.

Paths below are relative to `src/`.

## The system

| Component | State | Operations | What is hard | What must hold |
|---|---|---|---|---|
| Space ledger (`billing/lib/space-billing-queue.js`) | space queue and its DLQ, snapshots, usage records | bill a space for a period | duplicates, concurrent handlers, unordered days, failures between two puts | snapshots are exact sizes, usage records exact integrals |
| Usage reporting (`billing/functions/usage-table.js`) | the usage table's stream and its DLQ, Stripe's meter | report a usage record | retries while later days are billed, a lost base | the meter adds up to the month-to-date average |
| Billing cron and customer queue (`billing/lib/billing-cron.js`, `billing/lib/customer-billing-queue.js`) | customer queue and its DLQ | a run, a run for one customer, the fan-out of a customer | paging while tables change, runs made again from the start | no space is left out unnoticed |
| Egress billing (`billing/functions/egress-traffic-queue.js`, `billing/scripts/monthly-egress-helpers/`) | egress queue and its DLQ, events, monthly totals, Stripe's meter, files of the scripts | record, handle a batch, two reports, scan, add sums | batches, duplicates, increments that are not idempotent and are tried four times, scripts that are resumed | every event saved, reported and counted once |
| Blob registry (`upload-api/stores/blob-registry.js`) | allocations, registry, space diffs, two metrics tables | register, deregister | an allocation, a transaction and two counters are separate writes; causes are looked up before they are written | the diffs add up to what is registered |
| Tools on diffs (`tools/compact-space-diffs.js`, `billing/scripts/dedupe-space-diff/`, `billing/scripts/space-allocations-snapshot/`) | diffs and their archive, snapshots | compact, remove duplicates, snapshot from allocations | they run beside clients and billing, and stop half way | the size reported does not change, no diff is lost |
| Upload table (`upload-api/tables/upload.js`) | items, shard lists in a bucket, metrics | upsert, remove, two listings | read (perhaps of what was), merge, write; lists shared by name; cursors into a list that changes form | no shard is lost, uploads are counted, pages are complete |
| Block indexer (`upload-api/external-services/ipni-service.js`, `indexer/`) | two queues; tables and queues of Elastic IPFS | publish, two handlers | batches taken in part, errors that delete the message | what was answered is indexed |
| Agent message store and its stream (`upload-api/stores/agent/`, `filecoin/metrics.js`, `billing/lib/ucan-stream.js`) | bucket, index, stream, totals, diffs | write, look up, two stream consumers | a message, its index items and its records are written at once; records too large; batches taken again | what is answered can be read; receipts are counted |
| Filecoin pipeline (`filecoin/`, `carpark/`) | piece table and stream, three queues | offer, submit, claim, announce, cron | errors that delete the message, unconditional puts, claims asked of another service than they are made at, a page cursor over a moving index | each piece ends with the answer it was given |
| Provisioning (`upload-api/stores/provisions.js`) | subscription and consumer tables | provision, look up | two conditional writes, a conflict on the first ignored | a space has one customer |
| Delegations and revocations (`upload-api/tables/delegations.js`, `upload-api/stores/revocations.js`) | bucket, two tables | store, find, revoke, reset, check | bucket, then table | what is listed can be read, a revocation stands |
| Plans, Stripe customers, sign-up (`upload-api/billing.js`, `upload-api/stores/plans.js`, `billing/utils/stripe.js`, the OAuth callbacks, `upload-api/external-services/sso-providers/`) | customer table and its index, humanode table, Stripe | checkout, webhook, plan changes, initialize, four ways to sign up | get, then put; an index that lags; events late and repeated; errors that are not looked at | the table is what Stripe has |
| Tools on Stripe (`billing/scripts/stripe-dedupe-customers/`, `billing/scripts/schedule-stripe-migration/`) | checkpoint files, Stripe, customer table | deduplicate, migrate | several calls for each subscription, pages while they run, restarts | a subscription is charged once, no paying account is deleted |
| Replicas, rate limits, store table, blob storage, replicator, roundabout, psa, router, bridge, stacks | a table each, or none | | | not modelled, see below |

How they interact. The registry writes a space diff in the transaction that registers a
blob; the ledger integrates the diffs of a day; a usage record that is inserted reaches the
reporting handler by the table's stream. The billing cron (01:00 UTC) puts an instruction for
each customer on the customer queue, whose handler puts one for each space on the space
queue, whose handler is the ledger. `space/content/serve/record` invocations put egress events
on their own queue. Every invocation goes through the agent store to the UCAN stream, which
feeds the Filecoin metrics and the diffs of the old store protocol. A sign-in stores
delegations and then makes a customer, which provisioning and the billing cron read.

`PROJECT.json` lists every component with its status, and every hazard found in the
code with the line where it bites and the properties that cover it.

## Modules

| Module | What it is |
|---|---|
| `BillingPeriods` | days and months (`billing/lib/util.js`) |
| `SpaceLedger`, `SpaceLedgerProperties` | the space queue and its handler, the usage stream and its handler; the sums they must come to |
| `StorageAccount`, `SpaceLedgerRefinement` | the abstract account, which bills and reports a day in one step each, and the mapping to it |
| `EgressBilling`, `EgressBackfill`, `EgressBillingProperties` | the egress queue and its handler; the scripts beside it; totals and reports |
| `BlobRegistry`, `BlobRegistryProperties` | register and deregister through the allocations wrapper, totals of diffs and metrics |
| `BlobLog`, `BlobRegistryRefinement` | the abstract log of a space's changes, and the mapping to it |
| `BillingFanout` | a billing run from the cron to the space queue |
| `DiffTools`, `DiffToolsProperties` | compaction, removal of duplicates and the two scripts of a snapshot from allocations, beside clients and billing |
| `UploadTable`, `UploadTableProperties` | uploads inline and in objects, metrics, listings |
| `BlockIndex`, `ContentUpload` | publications and the indexer; the composition of the upload table and the block index |
| `AgentMessages`, `AgentMessagesProperties` | messages, index and stream, with both consumers of the stream |
| `FilecoinPipeline`, `FilecoinPipelineProperties` | queues, piece table, stream consumers and cron |
| `AccountRequests` | what the account modules share: requests that make one call after another and may stop |
| `Provisions`, `Access`, `Customers`, `StripeTools` | provisioning; delegations and revocations; customers, plans and sign-up; the tools on Stripe |
| `Accounts` | the composition of these four, with the property that relates them |
| `SpaceLedger_proofs`, `BillingQueues_proofs` (egress, the fan-out and the tools on diffs), `BlobRegistry_proofs`, `ContentUpload_proofs`, `AgentMessages_proofs`, `FilecoinPipeline_proofs`, `Accounts_proofs` | the theorems |
| `DataLemmas` | induction over the naturals and sums over finite sets, for the proofs |
| `*MC` | the constants of the runs |

### How state and actions correspond to code

In all modules an awaited call is an action: what the code does between two awaits is in the
action of the call before it, and the local variables of an invocation are a record with a `pc`.
Definitions whose comment begins with "Slip:" are not the system: they are plausible mistakes,
and `PROJECT.json` pairs each with a property that must notice it.

**Ledger.** `Receive` to `Delete` are the steps of one invocation: `FindSnapshot`
(`findSnapshotAtOrBefore`), `ReadDiff` and `EndOfDiffs` (the loop over `iterateSpaceDiffs`),
`LoadPrevious` (`findPreviousUsageBySnapshotDate`), `PutSnapshot`, `PutUsage` (`storeSpaceUsage`).
Time is in ticks, `Day` ticks to a day. A diff is accepted (its `receiptAt` is taken) and written up
to `MaxLag` later. `StartReport` to `EndReport` are `reportUsage` for the record at the head of the
stream, which hands the records of a customer over one at a time. `MeterEvent` is Stripe as the code
uses it: one event for each idempotency key.

**Fan-out.** `NextPage` is a page of a listing, `After` what comes after a cursor. Tables are listed
by number for the order of their keys. `begun` and `ended` are kept for the properties. A call that puts a
message and whose answer is lost puts it twice.

**Egress.** A batch is a set of messages; `SaveEvent`, `LookupCustomer`, `SendMeterEvent` and
`Increment` are the four calls of the handler's loop for the record it is at. `Return` deletes the batch,
failed records included: the event source does not ask for partial failures. A call that fails was sent up to four times (`Retries`),
any of which may have had its effect. In `EgressBackfill`, `StartScan`
and `EndScan` are the first script, `StartWrite` to `StopScript` the second; `aggregates` and `processed` are
the files between them. `ReportsAgree` states what the third script compares.

**Registry.** A request goes through `Start` (the allocation), `GetItem`, `LookupCause`, `Transact`,
`Metrics`. A cause is an invocation, and several requests with one cause are sendings of it. `MissCause`
is the index that lags.

**Tools on diffs.** A run of the compaction reads a page at a time, archives, puts the sum and deletes
in batches of which part may not be processed. `ComputeSnapshot` reads the allocations and writes `file`, at any date;
`UpsertSnapshot` puts it in the table, later, over what is there, as `Bill` puts its own. `clash` is set when two of billing and the tools
were at work at once, when a diff arrived in a way the tools cannot see, or before a snapshot that is in the table already, and when a snapshot is put
that does not tell what has changed since it was computed (`Untold`).

**Uploads and index.** `GetItem` (of any version of the item, as the read is not consistent), `FetchShards`, `StoreShards`,
`UpdateItem` are the calls of `upsert`; `DeleteItem` and `DeleteShards` those of `remove`; `ListShards` and `ListUploads` are pages of one
client's listing. A message of the indexer carries the batches it still has to write; one that is
there twice has two copies. A behaviour of `ContentUpload` has uploads or publications, which share no state.

**Agent messages.** `job[w].left` is what a write still has under way: the message, its index items
and the stream's records, all at once, but for those over the size (`Oversize`). A receipt is read only after its invocation (`ReceiptReadable`). `metrics` is the batch of the metrics consumer, `billed` the position of
the billing consumer.

**Filecoin.** `Handle` is a handler that ends well, `HandlerErrs` one that answers with a status 500,
which deletes its message, `HandlerDies` one whose message is visible again. `dropped` notes what was
given up. The handler that makes the equals claim may not see one that is there: it asks another service for it than the one it claims
legacy pieces at, and claims other than the last are behind a location claim. What the handlers call of `@storacha/filecoin-api` is
modelled from how it is called.

**Accounts.** A behaviour has the requests of one scenario, a set chosen at the start from `Batches`;
`job[r].pc` is the call a request is about to make. Stripe is the accounts with their address, plan and what was
paid, and events that stay until a webhook is told of them, in any order and as often as there are `hook`
requests. `held` is how many subscriptions an account has, which a change of plan looks at. `Propagate` lets the index on accounts catch up.

## Runs

The properties are stated in full beside their definitions.

| Run | Bounds | What it shows |
|---|---|---|
| `ledger_concurrent` | one space, two handlers, three days of a month, an instruction sent twice, a manual re-run, one receive, one failure | `SnapshotExact`, `UsageOfBilledDays`: snapshots are exact, and usage records the integrals of the days billed but for a lost base; `ReportedOnce`: a period billed two or three times is reported once |
| `ledger_months` | three days over a month boundary, two diffs, one failure in either handler | `MeterTotalIsAverage`: the meter adds up to the average; `RetrySendsTheSame`; the handlers implement `StorageAccount` |
| `ledger_failures` | two days, one attempt each, two failures of any kind, with fairness | `NoInstructionLost`, `ReportHasBase`: nothing disappears, no report on a lost base; `LedgerSettles` |
| `egress_faults` | events of three customers either side of a month, one of a customer nobody knows and one sent twice, two of them in a behaviour; two invocations, batches of two, two receives, three retries, two faults of any kind; two earlier events for the scripts, two sums at once, and one message beside them | `NoEventLost`, `MonthlyIsSum`, `ReportsAgree`, `EventsEnd`: no event is lost unnoticed, totals miscount one event for each failure at most, left out or counted up to four times, a sum is added once |
| `blob_concurrent` | six requests on two spaces, one with two providers, two at once, an invocation sent twice, two failures or stale look-ups | `DiffsMatchRegistry`, `MetricsMatchRegistry`, `PartedIsAnswered`, and the registry implements `BlobLog` |
| `fanout` | two customers, two spaces, pages of one, two invocations, two failures, with fairness | `NoSpaceForgotten`, `SpacesReached` |
| `uploads` | four scenarios of three requests that cross a threshold of three shards, two at once, a failure or a late read, one listing of shards (a page of one, forwards) and two of uploads (pages of one, backwards, and of two, forwards); three of one or two publications in messages of two and three blocks, two failures | `ShardsKept`, `UploadsCounted`, `ListingsComplete`, `PublishedIsIndexed` |
| `agent_messages` | seven scenarios of one or two messages, one of which has a record over the size, two providers, batches of two, a failure or a late query, with fairness | `AnsweredIsReadable`, `AnsweredIsOnStream`, `AggregatesCounted`, `ReceiptsBilledOnce`, `StreamConsumed` |
| `pipeline` | three scenarios, with fairness: a CAR whose piece a client offers too, with two failures of any kind; two pieces, pages of one, with a failure of an indexer or of a run of the cron; an offer that does not match, with two failures of its handlers. Two receives | `PiecesAccounted`, `AnnouncedIsAnswered`, `PiecesSettle`, `PiecesClaimed` |
| `diff_tools` | two days, three changes of a blob, a diff put twice, two runs of tools in two modes, a snapshot of any date put at any time, pages and batches of two, a failure | `SizeAccounted`, `DuplicatesGone` |
| `accounts` | fifteen scenarios of two to five requests, a failure | `SpaceHasOneCustomer`, `AccessIsKept`, `MigratedOnce`, `CustomersMatchStripe` |
| `migration_reruns` | the two scenarios of the migration, a failure | `ReleasedFirst` fails: a second run does not take up what the first left with a schedule, see below |

Why the bounds are enough: three days with two-day months hold a first day, a day inside a month and
a day after a month's start; two handlers are needed for an interleaving and a third repeats it; one
failure per attempt and two attempts give every combination of a step that happened and a step that did
not, and two failures of one message dead-letter it. Pages of one and of two hold the full last page, the page that is
not full and the empty page. A threshold of three shards is crossed by one request and by several. Symmetry is used
over invocations and runs of tools, in runs without liveness. `MaxSent` and `MaxBeside` keep `egress_faults` small: two messages are an event
twice or two events, in one batch or in two. Beside the scripts one message can be saved before, during or after the scan, and its increment
fall before, between or after the sums. Parts that share no state (uploads and publications, most scenarios of accounts)
are in one run without meeting in one behaviour; those of accounts that do share state meet in a scenario.

### Assumptions the runs make

- *Order of days* (`Prompt`, `InOrder`): a day's instructions for a space are consumed before the next
  day's are sent. The queue does not promise it; the cron's interval does while the backlog of a day is shorter
  than a day.
- *Late diffs*: `MaxLag` is at most `CronDelay`, so that the diffs of a day are written when it is billed
  (`docs/storage-billing.md:400`).
- *Stripe's keys* do not expire, and a queue keeps a message for as long as it is received.
- *Indexes* have caught up when a run of the cron lists them. The indexes of causes, of customers by
  account and of delegations by audience do lag in the models.
- *Tools on diffs*: what `SizeAccounted` says of the size is for billing and tools run in turn (`~clash`), and for snapshots that tell what
  there was when they are put; that no diff is lost it says of everything. The allocations are read at one instant, and the
  snapshot is of the whole space, as with the script's default `from`.
- *Writes made again by the AWS SDK*: a conditional write is modelled as one that takes effect or fails, with an answer or without; that
  the SDK itself makes it again, and then meets its own effect, is not. The retries the code makes (`billing/tables/client.js:279`) are.
- *Late reads*: `upsert` may read an item as it was; the pages of a client's listing are of the tables as they are.
- *Customers*: `CustomersMatchStripe` is of requests handled one after another (`inTurn`). Webhook, sign-up, initialize
  and the plan change read a record and put it back whatever it has become, so nothing can be said of two at once; the comment in
  `upload-api/stores/plans.js` accepts that.

## Where the code and what is said of it part

These were met while modelling. Each property is stated so as to be true beside them, and says what
it leaves out. One run is made to fail, on the README of a script: `migration_reruns`.

Billing:

- An error that lists one page of diffs ends the loop as if there were no more
  (`billing/lib/space-size.js:66`): the snapshot and the usage record miss the rest.
- A day that was not billed is missing from the totals after it, and as it leaves neither record nor
  snapshot the space is then taken for a new one, and the whole average is reported again
  (`billing/functions/usage-table.js:235`, `docs/storage-billing.md:166`, `:352`). When a snapshot was put and its
  record was not, the total of the month starts again from zero (`billing/lib/space-billing-queue.js:91`,
  `docs/storage-billing.md:240`). A first day that was not billed is in no snapshot (`billing/lib/space-size.js:48`).
- Daily records are totals to date and do not add up to the month as `billing/functions/billing-cron.js:37` says. A
  manual period that starts with another and ends differently overwrites its record.
- A failed egress record is deleted with its batch (`billing/functions/egress-traffic-queue.js:138`); one saved by an
  invocation that dies is a duplicate to its retry and is not counted (`docs/egress-billing.md:275` says it is); when
  the answer to an increment is lost it is made again, three times at most, and counts up to four times (`billing/tables/client.js:279`).
- A run of the second egress script writes its own keys over the state file, so a third run adds
  the first one's sums again; keys under way at a stop are added again; a killed process writes no file at all
  (`billing/scripts/monthly-egress-helpers/2-write-aggregates-to-monthly-table.js:217`). An event served before the end of the
  scan and handled live is counted by both.
- A subscription without a consumer makes the fan-out give its customer up, so that the spaces listed after it
  get no instruction (`billing/lib/customer-billing-queue.js:30`). They end in the dead letter queue, which the
  properties allow. A message whose answer was lost is twice on its queue (`billing/queues/client.js:38`).
- Compaction of the current month across a day that is yet to be billed bills that day low; a second
  compaction after one that stopped counts what the first had summed for good. Removing duplicates does not repair snapshots
  that hold them. The job that finds duplicates groups by cause alone, so that a space with two providers loses a diff that is no
  duplicate, and orders by `receiptAt` where its README speaks of the time of insertion
  (`billing/scripts/dedupe-space-diff/glue-jobs/dedupe-space-diff.py:26`).
- The snapshot from allocations takes in a blob added at the very instant it is of, as the interval includes its end
  (`billing/tables/allocations.js:98`), which a diff of that instant then counts again; the script adds the usage of
  blobs to itself where it adds the size of the store to theirs (`billing/scripts/space-allocations-snapshot/index.js:172`).

Uploads and registry:

- A blob removed while it is registered is billed, and neither found nor removable
  (`upload-api/stores/blob-registry.js:460`); a registration that stops after the allocation leaves a blob that
  is found, not billed, and cannot be registered again. An add sent again after its blob was removed registers it and puts
  no diff (`:198`); two sendings at once with a removal between put diffs twice.
- Of two upserts above the threshold at once, one drops the shards of the other; so does one that comes after the other, as the item is
  not read consistently (`upload-api/tables/upload.js:236`); a removal deletes the object of a list that
  another upload may share; lists that were replaced stay in the bucket (`upload-api/tables/upload.js:280`); `exists` answers
  false on an error (`:212`).
- An error of a handler of the indexer, and of the Filecoin queues, is answered with a status 500, which is a success to
  SQS: the message is deleted. The dead letter queues named in their consumers are options a consumer does not have
  (`stacks/indexer-stack.js:57`), so nothing is ever in them.

Messages and pipeline:

- Several receipts of one kind in a message are counted as one (`filecoin/metrics.js:128`). The cache of consumers lives for
  one invocation where the comment says five minutes (`billing/functions/ucan-stream.js:47`). Records Kinesis rejects one by
  one are not looked at (`upload-api/stores/agent/stream.js:67`), and a record over the size is passed over in a write that is answered all
  the same (`:125`, `:184`). The index is queried as it was (`upload-api/stores/agent/store.js:378`): a receipt whose invocation is not
  shown yet, or is hidden by a torn message, is not found either.
- A piece is put without a condition (`filecoin/store/piece.js:156`), and is then submitted again; claims behind a location claim of a
  space are not looked at, and those of a legacy piece are asked of another service than the one they are made at
  (`filecoin/functions/handle-piece-insert-to-content-claim.js:42`, `:91`), so that a piece may be claimed again; the answer to `putEvents`
  is not looked at (`carpark/event-bus/source.js:29`).

Accounts:

- Two customers who provision a space at once may each win one of the two tables
  (`upload-api/stores/provisions.js:60`). A listing of subscriptions names the first consumer's provider only. `find`
  of delegations returns a thousand at most and has no cursor (`upload-api/tables/delegations.js:106`).
- Webhook, initialize, the GitHub callback and the plan change get and put without a condition; the Humanode and mail provider
  sign-ups put a trial without looking, over a paid plan if there is one. Humanode's second write ignores its error, and
  two callbacks of one human at once both succeed. A redelivered webhook puts back an old plan, and the index by account may let a second
  record in despite the comment at `billing/utils/stripe.js:86`.
- The mail provider's 429 is thrown inside the retried call under the name `AbortError`, which `p-retry` goes by the class
  of and not by the name, and then not answered: it is retried, and the wait its caller has for it is never come to
  (`upload-api/external-services/sso-providers/dmail-service.js:259`, against the comments at `:184` and `:254`).
- The deduplication takes addresses in small letters (`billing/scripts/stripe-dedupe-customers/index.js:79`) and encodes them before
  `DidMailto.fromEmail` encodes them again (`:110`), so that the record of an escaped address, or of one with capitals, is never
  found; and a look-up that fails has found none (`:114`). The account of the record may then be deleted.
- `initialize` takes any error of its look-up for a customer who is new, and answers ok when its put failed (`upload-api/stores/plans.js:16`, `:41`).
- The migration puts a subscription that has a schedule up for manual attention (`billing/scripts/schedule-stripe-migration/index.js:134`),
  where its README says that the schedule is released and made anew so that re-runs are predictable
  (`billing/scripts/schedule-stripe-migration/README.md:20`, `:35`): one whose migration stopped between its schedule and its phases is
  not finished by any other run. `ReleasedFirst` says what the README does and fails.
- The migration's cursor carries over from one price to the next, `--lastId` passes over those under way when
  it stopped, pages overlap, and a page all of which is in review is listed for ever
  (`billing/scripts/schedule-stripe-migration/index.js:213`). `MigratedOnce` holds beside all that.
- The revocations endpoint lets its answer be cached for a year though `add` and `reset` change it
  (`upload-api/functions/revocations-check.js`).

## Fairness

Safety does not depend on it: `blob_concurrent`, `uploads`, `diff_tools`, `accounts` and the first
two runs of the ledger check safety alone. Liveness assumes weak fairness of handlers, of stream
consumers and of runs of a cron that were started, of the aggregator's answers, and of nothing else: SQS and the
streams poll and invoke as long as there is something to do, a Lambda invocation that does not fail takes its next step, and
failures are bounded. No one has to add a blob, to provision a space, to sign up or to run a script, and failures
are never fair. Weak fairness is enough as a handler, once enabled, stays so until it steps.

## Proofs

TLAPS checks these for every value of the constants that meets the modules' assumptions.

| Theorem | Argument |
|---|---|
| `SpaceLedger_proofs!TypeCorrect` | `TypeOK` with the finiteness of the tables, which the choice of a newest record needs |
| `SpaceLedger_proofs!InstructionsAreKept` | `NoInstructionLost` is not inductive: an invocation that deletes its message must have recorded it. `InstructionInv` adds that |
| `SpaceLedger_proofs!SnapshotComesFirst` | `SnapshotInv` adds that an invocation about to put its usage record has put its snapshot |
| `SpaceLedger_proofs!RecordsAreReportedOnce` | `ReportingInv` adds that what is in the stream or settled is in the table: an insert is then of a period never seen |
| `SpaceLedger_proofs!ReportsHaveTheirBase` | `BaseInv`: all that handlers work on or leave behind was asked for; a period behind another one asked for has its record (`Overtaken`), so a late handler puts no snapshot in front of a reported record that was not there before; what is about to be sent has passed the test. Assumes `Prompt` and `OnePeriodPerStart`: without either, TLC finds a report on a lost base |
| `SpaceLedger_proofs!SnapshotsAreExact` | `ExactInv`: what a handler has come to is the sum of the diffs behind its sort key, from the snapshot it found; snapshots have one record for a key, of an instruction that was sent; a handler that is yet to start is fresh. Assumes `ExactAssumption` |
| `SpaceLedger_proofs!RecordsAreIntegrals` | `UsageInv`: a handler started from the newest snapshot at or before its period (`Based`), has integrated what is behind it, and the record that ends where it started has the days before (`Comes`). Assumes `ExactAssumption` |
| `SpaceLedger_proofs!RecordsAreFinal` | `ValueInv`: a record, and what a handler is about to record, is the `Value` of its period: the diffs of its day and the usage carried over from the newest snapshot before it, neither of which changes once the period was asked for. So billing a period again replaces its record by the same. Assumes `ExactAssumption` |
| `SpaceLedger_proofs!RetriesSendTheSame` | `DeltaInv`: what the report at work is to send, and what is on the meter, is the `DeltaOf` of the record, and the record it is the difference to is final. Assumes `ExactAssumption` |
| `SpaceLedger_proofs!MeterAddsUp` | `MeterInv`: one event for a period, reports in the order of the days, and what was settled without an event had no difference to report. Then, by induction on the days of a month (`SentIsAverage`), what was sent up to a day is the average of that day: the differences telescope. Assumes `ExactAssumption` |
| `BillingQueues_proofs!TypeCorrect`, `EventsAreKept` | `KeptInv` adds that the records an invocation has done with are saved and past Stripe, or noted as failed. Without conditions on the faults; of the handler without the scripts, which take no event away |
| `BillingQueues_proofs!MonthlyTotalsAddUp` | `TallyInv`: each event is counted so many times, from none to one more than the retries, all but one for each failure exactly once, with which the total of each key is the sum of the events and so many times what the scripts add; the runs made bound how many times (`Due`). `FlightInv`: no two invocations are to count one event. A step of the handler does one of few things to an event (`Moves`), whatever the scripts do |
| `BillingQueues_proofs!ReportsMatch` | `ReportsInv` adds to `TallyInv` that without failures the scripts run once and start with nothing added (`OneRun`), and that an event of a customer Stripe bills is on the meter unless the invocation that saved it is yet to report it (`MeterInv`). Then sums over keys are sums over events (`Fibers`), and an instant is in a period of whole months when its month is (`WholeMonths`). Assumes that the events are finitely many (`ReportsAssumption`) |
| `BillingQueues_proofs!RemovalTakesDuplicates` | `DiffsInv`: a cause is that of changes or of one sum, so that no two diffs have a key in common; what a run deletes is archived before; what is removed has an earlier diff of its cause |
| `BillingQueues_proofs!SizesAddUp` | `DiffsInv`, and as long as tools and billing are run in turn (`~clash`) `Tidy`: one run at most is under way, which reads between two snapshots or behind all of them (`InTurn`); each snapshot and the diffs since, less what is summed and yet to be deleted, are what the changes add up to (`Balanced`); and so are the diffs since any instant that no sum has moved a diff across (`ChangesSince`), which a snapshot of the allocations needs, with `AllocationsTell` of what is allocated, `ComputeTells` of the snapshot when it is computed and `FileTells` of it until it is put |
| `BlobRegistry_proofs!TypeCorrect` | inductive as it stands |
| `BlobRegistry_proofs!DiffsAddUpToTheRegistry`, `MetricsCountTheRegistry` | the registry changes by one blob and the diffs by its size, or neither: both sums move together (`TotalMoves`). `MetricsCountTheRegistry` adds, space by space, the requests that are to count and those that stopped before they did |
| `BlobRegistry_proofs!RegistryIsLogged` | `ImplementsLog`: each step is a step of `BlobLog` or a stutter, for the spaces whose invocations are sent once. `LogInv` says that a request before its transaction has no diffs |
| `BlobRegistry_proofs!InTurnFindIsRight` | `TurnInv` says how allocations and registry differ at each step of the one request under way. Assumes one request at a time, none of which stops between its calls; no run states this property |
| `BlobRegistry_proofs!PartedTablesAreAnswered` | `PartedInv`: as long as no request about a blob was answered with an error, its tables differ by the requests between their allocation and their transaction: registers less deregisters |
| `BillingQueues_proofs!FanoutTypeCorrect`, `EverySpaceIsReached` | `FanoutInv`: what a listing has passed is done with, and a listing without more pages has passed everything that was there when the run began. This gives `NoSpaceForgotten` |
| `FilecoinPipeline_proofs!TypeCorrect`, `AnnouncementsAreAnswers` | `PageInv`: the pieces a run of the cron holds are in the table. `StreamInv`: a record of the stream whose state is not `submitted` has the aggregator's answer, which never changes |
| `FilecoinPipeline_proofs!EveryPieceIsAccounted` | inductive with the types and `PageInv`: what is known stays known, and whoever takes a message or moves past a record leaves the next thing in its place (`Replaced`), or drops the piece |
| `Accounts_proofs!SpacesKeepTheirCustomer` | `ProvisionsInv`: the rows of both tables are of requests, a space has one row, and each request has put what its step says |
| `Accounts_proofs!DelegationsAndRevocationsAreKept` | `AccessInv`: a request past the bucket has put all it indexes; a revocation that was answered is in the table, with its scope or that of a reset which started |
| `Accounts_proofs!MigrationChargesOnce` | `MigrationInv`: an account without a schedule has no charge; two runs are never both about to charge one (`ChargeInv`); an account with the price of a run of one price is covered, or the run is still to come to it (`DueInv`) |
| `AgentMessages_proofs!AnsweredCanBeRead`, `AnsweredIsLogged` | `WritesInv`: a command that a write is done with is stored; one that was answered has none left; each receipt has its invocation in the message, in the index, or still to be found; and once `log` is done the records that are not over the size are on the stream or were rejected |
| `AgentMessages_proofs!ReceiptsAreBilledOnce` | `BillInv`: all diffs of the receipts up to the position are there, and no others than those of receipts on the stream |
| `AgentMessages_proofs!AggregatesAreCounted` | `AggInv`: each half of the totals, by itself, counts up to where it is in its batch. What was counted of accepts in vain is paid for place by place: halving a batch that has an offer uses up the price of its place (`HalfType`), moving on leaves a whole price behind |
| `ContentUpload_proofs!UploadsListTheirShards` | `ShardsInv`, upload by upload: one not raced has at most one request under way, which read the item as it is and knows all that was added; one that stays small never was in an object. Rests on lemmas on `Merged` and `Ascending` |
| `ContentUpload_proofs!UploadMetricsAddUp` | `CountedInv`: an upload that is there was made by an upsert past its update, begun at the item's `insertedAt` (so a second one that counts began with it); some of the requests that failed, one for each failure at most, and some of those that began together make the sums of each space and of the service come out. Only requests that have begun are summed, which are finitely many. |
| `ContentUpload_proofs!ListingsShowAll` | `OrderInv`: an upsert that is alone is to put the upload's list with the new shards behind it, so that no update changes the order of those there are (`Grows`: prefixes when they are in an object, sorted lists when inline). `ListingInv`: of shards, what was seen is before the cursor, what was there all along and not seen is the cursor or after it, and nothing is left of it once something went; of uploads, what was seen is what the cursor has reached of those there all along |
| `ContentUpload_proofs!WhatIsPublishedIsIndexed` | `IndexInv`: what may be sent is of the adverts, or comes after all adverts were taken in; an item of a message was written, given up or is in a batch that is left; `givenUp` and what messages under way have lost is a batch for each failure at most. Rests on lemmas on `FlattenSeq`, chunks of a list and their batches, proved by induction |

Each strengthening was checked by TLC before it was proved. Induction over the naturals is done by the least
counterexample (`DataLemmas!LeastNatural` and `Induction`), which needs no operator as a parameter. The sums are folds of the
community modules, which come down to a recursive function picked by `CHOOSE`; `DataLemmas` proves that there is one and
that it adds up in any order (`SumsExist`, `SumsAgree`), and with it what the proofs use: `TotalType`, `TotalWith`, `TotalMoves`.

The proofs corrected properties that the runs had let pass. `UsageOfBilledDays` did not hold in months of three days and
more, once a handler was dead-lettered between its snapshot and its record: the days after it count from zero
(`billing/lib/space-billing-queue.js:91`). It says `BaseLost` now, and `ledger_concurrent` has such a month. `AggregatesCounted`
allowed a batch of repeated accepts for each offer, which is enough in batches of two only: an offer that is not found fails every
half that has it, from every place a batch with it can begin. It counts the places now. `MonthlyIsSum` and `ReportsAgree` left out events of customers who are
not in the customer table, which are saved and never counted (`billing/functions/egress-traffic-queue.js:109`); `egress_faults` has one now. `SizeAccounted` allowed a snapshot of the
allocations at an instant that a compaction had moved diffs across: compacted twice, a diff from before
the instant is in the sum of a sum, the first of which is gone. `Untold` goes by what the runs have read now. And it took a snapshot that was put ahead of its date
for the only one: `Balanced` is of each snapshot.

The assumptions are those named in the modules. The ones that matter: spaces of the registry (`RegistryAssumption`),
events of egress (`ReportsAssumption`), shards (`UploadAssumption`), the message of an agent (`AgentAssumption`), and the blobs of a space and the runs on its diffs (`ToolsAssumption`) are finite; accounts on Stripe are numbered in the order
of the listing, 0 before all of them (`ToolAssumption`); provisions with one cause, which are sendings of one invocation, are of one
customer (`CauseAssumption`); no two shards of a publication are the same (`IndexAssumption`). Bounds on failures are any
natural number.

The theorems on the contents of the ledger state in their hypotheses what they assume beside that (`ExactAssumption`): days of a space
are billed in order (`Prompt`) and in whole days (`WholeDays`: manual runs of the operators are of one day); diffs are
written when their day is billed (`MaxLag <= CronDelay`); a page of diffs is not given up unnoticed; and a listing of snapshots, which
stops after thirty-one, shows them all (`Horizon <= SnapshotScan * Day`). Without the third or the fourth TLC finds an inexact snapshot.
The last is a limit of the code: a manual run of a day without a snapshot before it, more than thirty-one snapshots later, takes the
space for a new one. It is stated as a bound on the behaviour, so these five theorems are about a month. The first two are explained above. `ReportsHaveTheirBase` needs `Prompt`, and that periods
that start together end together.

What stays with TLC: liveness under fairness and anything with `ENABLED`. One invariant is only
model-checked: `CustomersMatchStripe` is about whole scenarios of accounts, each with its own order of webhooks and tools, and not about any set
of them.

## Not modelled

`PROJECT.json` gives each component and its reason. In short:

- *Replicas* (`upload-api/tables/replica.js`), *rate limits* and the *store table*: one conditional
  or unconditional write of one table for each operation, called from a package outside the repository. There is no
  protocol here whose order could be wrong.
- *Blob storage, roundabout, psa, the replicator, referrals, the retriever and the selection of a storage provider*: reads, redirects and
  copies without state of their own.
- *UCAN router, bridge, HTTP functions, stacks, types*: wiring, configuration and rendering. The settings of the
  queues and streams are constants or actions of the modules.
- *Scripts run by hand once*: the dry run of billing, the replay of usage reports, the migration from D1, tools that follow
  receipts and print them.

In the parts that are modelled: encoding and validation of records, the parameters of manual runs besides whole days,
the wording of errors, caches, the time a queue keeps a message, the amounts of Stripe charges, plan limits and
the sizes in the Filecoin totals are left out.

## Plan

Done, in this order: the ledger with reporting; egress billing; the blob registry; the fan-out; the scripts and tools on
diffs and egress; the upload table and the block index; agent messages; the Filecoin pipeline; accounts.

Next, proofs:

1. The handlers of the ledger as an implementation of `StorageAccount`, on `UsageInv` and `ValueInv`.
2. Compositions: the registry's diffs as the changes the ledger integrates (`BlobLog` as the environment of
   `SpaceLedger`), and the fan-out as the sender of its instructions.
