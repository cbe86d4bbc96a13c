# A TLA+ model of Agent Outbox

Agent Outbox is a review queue between agents (callers, which use an HTTP API)
and people (who use the hosted pages). A caller sends an input item; a person
answers it; the caller reads the answer as an output result and acknowledges
it, which deletes the pair. All product state is in Postgres; every operation
is one transaction of a stateless worker, so the system's concurrency is the
concurrency of transactions on shared rows.

## Inventory

| component | code | state | operations | hard behaviour |
| --- | --- | --- | --- | --- |
| input queue | `src/server/input-queue.ts` | input rows, keyed by caller and caller item id, with a revision | send, replace, delete, check, read | a send retried after a lost response; replace against a form a person has open |
| human answer and undo | `src/server/human-answer.ts`, `app/human/actions.ts` | output rows and files, status of the input row | answer, bulk answer, undo before read | stale and repeated forms; undo takes no account lock |
| output queue | `src/server/output-queue.ts` | `first_read_at`, deletion of the pair, audit ledger | check, read, read-all, acknowledge | acknowledgement retried after the rows are gone; read against undo |
| output files | `src/server/output-files.ts` | file rows | download | a file is deleted with its output |
| scheduled cleanup | `src/server/scheduled.ts`, `cleanup.ts`, SQL functions | deletes from both queues, the tier | output timeout, input retention, grace cleanup, downgrade, pruning | `SKIP LOCKED`, one clock reading per run, a byte total read before rows are locked |
| limits | `src/server/caller-api-limits.ts`, `limits.ts` | quota windows, active blocks, write slots, stock | per-request and per-submission admission | refusals that commit their counters; window boundaries; lock order |
| billing | `src/server/billing.ts` | tier, status, grace end, checkout attempts, event ledger | checkout, portal, webhooks | events late, repeated and out of order |
| caller credentials | `src/server/caller-connect.ts`, `caller-credential-operations.ts`, `caller-setup-requests.ts` | callers, setup requests, credentials | connect, rotate, revoke: start, approve, exchange, activate, abort | two-phase activation with crashes of the CLI in between; expiry and pruning |
| caller API authentication | `src/server/caller-api-auth.ts` | `last_used_at` of credentials | verify a bearer | a credential revoked between check and use |
| transactions | `src/server/database.ts` | connection, transaction context | begin, commit, rollback, savepoints, timeouts | COMMIT in flight when the client gives up |
| pagination | `src/server/pagination.ts` | opaque cursors | input and output pages | rows that come and go between pages |
| review page | `src/components/human/ReviewWorkspace.tsx`, `components/actions/AppActionProvider.tsx` | optimistic journal of the open page | answer, bulk answer, undo, settle, retire | timeouts, refreshes that overlap a write, a bulk answer that is not atomic |
| CLI | `cli/internal/command`, `foundation` | `config.json`, `credentials.json`, the lock on both | connect, rotate, revoke, disconnect, data plane | crash between remote and local steps; an activation whose answer is lost; a local write that fails before or after it took effect |
| release pipeline | `scripts/release`, `scripts/production-release.mjs`, `scripts/worker-deploy.mjs`, three workflows | GitHub drafts and tags, Worker versions and their traffic, the marker in a draft's body | prepare, upload, capture, stage, promote, publish, reconcile, roll back | no transaction spans GitHub and Cloudflare; jobs that stop anywhere, lost answers, re-runs |

How they interact: the API handlers authenticate the caller, apply the limits
and change the queues inside one transaction; the pages do the same for a
person; the webhook and the cleanup change the tier that the limits and the
submission rules read. The audit table is written by the same transactions and
is read by one operation, the repeated acknowledgement. The release pipeline
shares no state with the rest: it decides which build of it serves.

What makes each correct is in `PROJECT.json`: its hazards name the line and the
properties that watch it.

## Modules

| module | models | state ↔ code |
| --- | --- | --- |
| `OutboxQueue` | both queues, the audit ledger, undo, cleanup and downgrade of one hosted account | `inputs`, `outputs` are the rows of `agent_outbox_input_items` and `agent_outbox_output_results` (an output's file row is the `response = "file"` of its record), `audit` counts `agent_outbox_audit_events` by type and subject, `tier` and `graceEnds` are the account's columns, `view` is the form a person has open; `decided`, `received` and `ackReplies` are history variables |
| `Delivery` | what the queues promise: a decision is on what is offered, is taken back only before the read, is read by its caller as it was made, and is acknowledged once, with success for ever | abstract; no rows |
| `Billing` | the account's billing columns against Stripe: webhook deliveries, the current checkout attempt, the downgrade | `account` and `attempt` are the two rows, `ledger`, `inflight` and `receipts` the webhook ledger with its open transactions and its sequence; `checkout`, `subs`, `log` and `second` are Stripe's |
| `Checkout` | `createCheckoutSessionForAccount` step by step over the state of `Billing` | `req` holds what each request has read (`state`, `attempt`) and where it is; `urls` the URLs returned |
| `CallerLifecycle` | what the credential routes promise: at most one working and one offered key of a caller, one swap, nothing comes back | abstract; no rows |
| `CallerCredentials` | setup requests, callers, credentials and their audit events; every route of connect, rotate and revoke, expiry and pruning | `setup`, `caller`, `cred`, `audit` are the four tables; a clock of three values per request stands for `expires_at` and the retention window |
| `CallerCli` | the caller commands of the CLI over the routes of `CallerCredentials` | `secret` and `config` are the local files, `lock` the file lock, `pc` where a command is, `activating` the requests on their way; `excused` is a history variable |
| `CallerRequests` | caller API requests of one account: one database transaction each, with slots, windows, blocks and locks | `used` and `touched` are `agent_outbox_account_quota_windows`, `blocks` the limit blocks, `req` the open transactions with what they hold and have not committed |
| `ReviewJournal` | the mutation journal of an open review page against the server | `journal` is `mutationsRef.current`, `shown` the journal of the last render, `rows` the rows it got, `page` the refresh under way, `request` what is on its way to the server |
| `Release` | the release transaction: the deploy job step by step, its reconciliation and signal handler, the manual reconciliation and rollback | `releases`, `tags` are GitHub's, `versions`, `live` Cloudflare's, `job` the job that holds the `production-deploy` group with its step outputs; `displaced`, `strays` are history variables |
| `OutboxQueueProofs` | theorems about `OutboxQueue` | |
| `CredentialsProofs` | theorems about `CallerCredentials` | |
| `CliProofs` | theorems about `CallerCli` | |
| `RequestsProofs` | theorems about `CallerRequests` | |
| `BillingProofs`, `CheckoutProofs` | theorems about `Billing` and `Checkout` | |
| `JournalProofs` | theorems about `ReviewJournal` | |
| `ReleaseProofs` | theorems about `Release` | |
| `MCOutboxQueue`, `MCBilling`, `MCCheckout`, `MCCallerCredentials`, `MCCallerCli`, `MCCallerRequests`, `MCReviewJournal`, `MCRelease` | instances for TLC | |

Three compositions and three refinements hold the modules together:

- `Checkout` extends `Billing`: its actions change the same variables in smaller
  steps, and `ImplementsBilling` checks that every one of them is a step of
  `Billing` or changes nothing `Billing` knows of. `Billing` can therefore treat
  a reservation, an attachment and a confirmation as atomic.
- `CallerCredentials` implements `CallerLifecycle` (`ImplementsLifecycle`):
  working, offered and spent keys are read off the credential rows.
- `OutboxQueue` implements `Delivery` (`ImplementsDelivery`): a place of an item
  is read off its input row, and an answered one holds what the person decided
  (`decided`), not what the rows now say.
- `CallerCli` extends `CallerCredentials`: a command's requests are the routes.
- `Billing`, `OutboxQueue` and `CallerRequests` each see the tier of the account;
  the one changes it in detail, the others at any time.

### OutboxQueue

One action is one committed transaction; a transaction that fails or only
returns an error is a stuttering step. This is justified by the locks: every
operation takes `for update` locks on the input and output rows it tests before
it changes them, and those whose guard reads the tier or the stock (submission
admission, the answer, the cleanup of an account) first take the account row's
lock. The order of row locks inside one statement is left out.

- `Send`, `Replace`, `DeleteInput`: the statements of `input-queue.ts` with
  their conflict, tier and stock conditions. A send that finds a live row
  writes nothing.
- `OpenItem`, `Answer`: a page renders an item at a revision; the form may be
  submitted at any later time and any number of times. `AnswerTargetsCurrent`
  is the id and revision check of `human-answer.ts`.
- `Undo`: without account lock, tier or revision check, as in the code; the
  revision is advanced and the old `updated_at` restored, so the age of the item
  counts from its submission and a cleanup may delete it right after.
- `Read`, `AckLive`, `AckGone`: a read or a page of read-all marks any set of
  the caller's own live outputs; an acknowledgement removes the pair, and
  without a row the audit ledger decides between success and 404. In the code
  the ledger row carries the caller id; here that is `decided[o].key[1]`.
- `Cleanup`: `p` is the time a run started, at most `CleanupLag` behind the
  clock. `SKIP LOCKED` is a choice of any subset of the selected rows. Grace
  cleanup deletes the oldest items over the byte limit, one after another, and
  downgrades only when the result fits the free tier.
- `BillingActive`, `BillingGraceStarts`: what a webhook does to the queues'
  account, seen from here; `Billing` has the detail.

Left out or simplified: one account; self-hosted accounts; the paid byte cap
and request windows (see `CallerRequests`); the payload's fields (a submission is
one value, with or without a `file_upload` action); the `input_replaced` event,
which no operation reads; downloads, which append an audit event only; ids are
counters, the clock counts days.

### Billing and Checkout

- `Receive` is the insert into the event ledger: the unique id makes a second
  delivery wait or do nothing, the default draws the receipt order. `Apply` is
  the rest of the transaction under the account lock. Two webhook transactions
  can thus overlap with their receipt orders in one order and their commits in
  the other.
- `Authorized` is `authorizeBillingEvent`, `InOrder` the ordering clause with
  the terminal override, `BillingOf` the transition, `Projected` the columns,
  `Retained` the attempt's identities.
- `Downgrade` changes billing columns without a receipt order, so the trigger
  clears the ordering floor.
- `Checkout`: every short transaction and every provider call of the request is
  an action; commits may be acknowledged, lost or undone, provider calls may
  take effect without an answer, and a request may stop at any step
  (`Abandon`).

Stripe is external and is modelled from what the handlers rely on: an attempt's
idempotency key names one session, a session is paid at most once and expires
on request or by age, a subscription that is canceled stays so, events carry
seconds of one clock, and a key is remembered for a day.

Simplifications: one account with one customer; a subscription bought through
attempt *n* is called *n*, and so is its session; `canceled` stands for both
terminal statuses, `past_due` for every unpaid status and for
`invoice.payment_failed`; no subscription emits an event in the second of
another one's payment; a grace may end at any time after it was set, which is
shorter than the fixed grace of an unpaid subscription and true of a
cancellation at period end; `Stranger` is a subscription without attempt
metadata, matched by its customer; signatures, malformed events and the
pruning of the event ledger after 90 days are left out.

### CallerCredentials and CallerLifecycle

One action is one handler, with everything it writes. The handlers run a lookup
transaction and then the transaction that changes state; the second one holds
the row lock of its setup request and, when it changes a caller's credentials,
the caller's advisory lock, and checks again what the lookup found. The lookup
can therefore only add refusals and is left out. The routes may be called in
any order by anybody who has the codes, which is more than the CLI does.

- `Approve` of a connect creates the caller; a second device approval of the
  same request is answered without a change. `ExchangeConnect`,
  `ExchangeRotate` mint a pending credential (`Mint`); the unique indexes
  appear as guards, and `ActivationFits` shows that the one on active keys is
  never what saves an activation.
- `Activate` revokes the key that is replaced (`RevokeReplaced`) and makes the
  pending one active in one transaction. `ConfirmRevoke` takes pending
  credentials too (`Withdrawn`).
- `Lapse`, `Age`, `AgeCaller` are the clock, `PruneSetup`, `PruneCaller` the
  cleanup, which deletes a caller with no key, no audit event and no items.

Observations: `callers.revoked_at` is never written; a revocation confirmed
between the approval of a connect and its exchange does not stop the key from
being activated later, and the audit log then reads revoked, registered.
`AuditTellsKeys` holds all the same, since only the last event counts.

Left out: the limits per IP address, account names, previews and the listing,
how codes and keys are generated and hashed. A caller is known by its slug.

### CallerCli

A command is known by its setup request. It waits for approval (`Callback`,
`Poll`), exchanges (`Exchange`), and then under the file lock stores the key,
saves the config and activates. An action is one local write or one request;
`Exchange` and `Confirm` may lose their answer, `activating` holds activations
that the server may handle after the client has given up. `Refused` is the
client's test for "did definitely not commit", `KeepKey` what it does when the
test fails, `Crash` a kill at any point, which also releases the file lock.

The HTTP client does not retry. A browser callback that reports a denial does
not end the wait; the deadline does. Secrets are filed by the id of the caller
row, here by its slug, so the deletion after an aborted connect is guarded by
the key being the same.

A local file is written to a temporary file that is renamed into place; its
mode is set and its directory flushed after the rename. A write may therefore
fail with or without effect. `StoreFails` is a store that fails without,
`StoreFailsLate` one that fails with the new key in the file. A connect deletes
that key when it aborts; a rotation puts the old key back only when a later step
fails, not when the store itself does. `SaveFails` and `RollBackFails` let every
write of theirs fail either way. That both reads of `credentials.json` under
the lock find the same content is assumed, so a rollback knows the key that was
there.

`LocalKeyWorks` exempts the callers in `excused`: a key kept unproven or a
rollback that failed, both with a warning; a removal; a kill inside the critical
section; and a rotation whose store failed late, of which no message says that
the old key is gone (the observation about the CLI under Findings). An exemption ends
when a later command for that caller succeeds.

### CallerRequests

An action is one statement or a group that nothing can interleave with. What a
transaction has charged, denied and written stays in `req` until the server
commits it; others see the committed tables but wait for the account row, the
counter rows it has charged and, for sends, are refused when no slot is free.

- `Begin` to `Charge` follow a request: a send takes a slot, the account lock
  and then reads the tier; a delete or read reads the tier, and takes the lock
  only when it counts more than one window. The worker's clock is read when the
  windows are computed, and again for an accepted submission (`ChargeTime`).
- `Refuse`, `Deny`: a refusal is a result, so charges and the block commit.
- `Commit`, `Fail`, `GiveUp`, `ServerEnds`: a callback that caught a statement's
  error commits an aborted transaction, and the command tag tells; a worker
  that gives up leaves the locks held until the server ends the transaction,
  which for a COMMIT in flight may be a commit.
- `Cleanup`, `ChangeTier`: under the account lock.

The day and the month have the same length, `Period` minutes. Observation: the
cleanup deletes counters by `updated_at`, which is the start of the transaction
that wrote them, while the window is that of the worker's clock. A request that
spans the beginning of a month can therefore write a counter of the new month
that the next cleanup deletes. `WithinLimits` allows for the units in `pruned`.

### ReviewJournal

A submission is known by its place in the order of submissions, a record of the
journal by its submission. `Enqueue` ignores a repeated submission, takes
copies of what is shown, and appends to the queue; `Send` starts the next when
the one before has settled. The server handles a bulk answer item by item.
`Succeed`, `Fail`, `Break` and `TimeOut` are the four ways a request ends for
the page; after `TimeOut` or `Break` the request may still be carried out.
`Refreshed` asks for a refresh, `Load` reads the server, `Arrive` shows it;
`Render` is the effect that retires records, after every change of `journal` or
`rows`.

The journal is rendered before the next reply is handled (`Awaited`). React
may delay a render, but not past a network round trip.

`AtRest` is where the page has caught up. There, what is hidden has a reason
and what is offered is pending, but for the cases the properties name.

### Release

`job` is a deploy or a manual reconciliation. The steps of the deploy job are
the values of `job.pc`; each reads GitHub or Cloudflare again, as the scripts
do, and carries only the outputs of earlier steps (`release`, `prior`,
`candidate`). A step that fails goes to `reconcile`, the `always()` step; a
stopped job releases the group. A mutation takes effect with its answer lost
(`Lose`), within a bound; every other call may simply fail.

A draft is a record in `releases` with its marker: `run`, `sha`, `tag`, `state`,
`prior`, `candidate`. `Classify` is `classifySameTagReleases`, `Decide` joins
the derivation of identities with `decideReconciliation`: `cleanup` stands for
both kinds of restore. A `publishing` draft makes a reconciliation hold: the
code retries the publication there, and that asks for certified assets which
no reconciliation passes.

The signal handler interleaves with the step that it interrupts only where the
step waits: the gateways are synchronous (`spawnSync`), the canary is not. The
steps around publication have no Cloudflare token, so a handler there cannot
clean up; that leaves the capture of the prior version.

`displaced` remembers what served when a release first touched traffic.
`strays` are commits of an earlier, failed upload under a tag that was published
by another commit: the rollback workflow accepts their versions by the tag, and
its smoke refuses them when they already serve. `TrafficIsAccounted` exempts
them; by commit, because a reconciliation that reads a stray from the canary
takes it for the version that served before.

## Runs

| run | question | bounds |
| --- | --- | --- |
| `queue_delivery` | is what a caller reads what a person decided, once, and final, and is every transaction a step of `Delivery`? | 1 item, owner and stranger, 2 inputs, 2 answers, 2 revisions, clock 0..1 |
| `queue_cleanup` | do pairs, ledger and tier stay consistent under cleanup? | 2 items of one caller, 2 inputs, 2 answers, free limits of 2 items and 3 bytes |
| `free_file_actions` | violation: an undo puts a file item back on a downgraded account | 1 item |
| `billing_events` | does the account follow Stripe whatever the order of events, and does a paid checkout reach it? | 2 attempts, 1 stranger, 4 events, 2 seconds, 2 webhooks at a time |
| `billing_order` | violation: an older event overwrites after a downgrade | 1 attempt, 3 events |
| `checkout` | does the request protocol implement `Billing`, and is an end confirmed with Stripe before a replacement? | 2 requests, 2 intervals, 2 attempts, 4 events, 1 webhook at a time, 1 rollback |
| `caller_credentials` | do the routes, in any order, keep the lifecycle of keys, the indexes and the audit log? | 3 setup requests, 3 keys, 1 caller |
| `caller_cli` | does the machine keep a key that works, whatever fails in between? | 2 commands, 3 keys, 1 caller |
| `caller_requests` | are windows, answers, refusals and blocks right with two open transactions, and is there no deadlock? | 2 requests, 1 unit per window, 1 slot, periods of 2 minutes, minutes 0..2 |
| `review_journal` | does the page offer what is open, and forget what is over? | 2 items, 3 submissions, 1 change by somebody else, 1 request in doubt |
| `review_timeouts` | violation: a bulk answer in doubt leaves an older restoration | 2 items, 3 submissions, 1 request in doubt |
| `release_jobs` | is what serves always accounted for, recoverable, restored by a cleanup, and left alone once it is publishing? | 3 runs, 2 of them of one release; 3 jobs, 1 lost answer or lost configuration, 1 rollback by hand; drafts shown under their tag or as untagged |

The bounds are the smallest in which each hazard happens. For the queues: a
second revision for a stale form, a second answer for an answer after an undo,
a second input row for a delete followed by a send, two items so that the size
loop must choose, a byte limit that one large and one small item exceed, and
one tick so that a timeout, a retention and a grace can expire. For billing: two
attempts so that one subscription replaces another, two overlapping webhooks so
that receipt and commit orders differ, and four events for a purchase, its
end and a second purchase; two seconds give equal and different stamps. (The
safety properties also hold with five events and no stranger.) For checkout, two requests of different intervals are two
people in conflict, and 2 attempts allow one replacement; a
downgraded subscription that ends takes 4 events, and `Change` leaves out the
subscription states that tell nothing new here; overlapping webhooks are left
to `billing_events`.

For credentials, three requests are two rotations and a revocation, or a
connect, a rotation and a revocation, each with a key; further callers share
nothing with the first. For the CLI, two commands and the key that was there
before them are what can be exchanged. For requests, one unit per window makes
the second request the one too many, one slot does the same for sends, and
three minutes hold the end of a minute and of a period. Three submissions are
an answer, its undo and an answer again, and a second item makes a bulk answer
partial; one request in doubt is one whose outcome the page never learns.
For releases, three jobs are a run that stops, a second that takes over or
promotes, and a third that cleans up. `release_jobs` also passes with four jobs
and drafts under their tag, and for one run with five jobs and two lost answers,
which give two uploads of one draft; both are too large to repeat every time.

Every property has a
mutant of the code's guard or update, defined beside it, that breaks it within
these bounds.

Deadlock is not checked: with the bounds reached, and for a request that has
ended, the system may stop.

`PurchaseActivates` is the one liveness property. It assumes weak
fairness of `Receive` and of `Apply` per event: Stripe repeats a delivery until
it is answered, an aborted transaction answers 503, and a transaction ends by
commit or by its timeout. Rollbacks are bounded by
`MaxFailures`; the instance checked for liveness has none, `checkout` has one. Nothing is
assumed of people, requests or the cleanup, and nothing in the other modules:
a command may be killed, a request given up and a page left for good, so their
code guarantees no end, only that what has ended is right.

## Proofs

The theorems hold for every value of the constants that the named assumptions
admit:

- `QueueConstants` (`OutboxQueue`): limits and bounds are natural numbers, keys
  are pairs of callers and items.
- `CredentialsAssumption` (`CallerCredentials`, `CallerCli`): an empty reference
  is no row.
- `RequestsAssumption` (`CallerRequests`): limits are natural numbers, a slot
  and the periods are positive.
- `BillingConstants`, `CheckoutConstants` (`Billing`, `Checkout`): bounds are
  natural numbers, and the states a subscription may change to are states of a
  subscription that was paid.
- `JournalAssumption` (`ReviewJournal`): bounds are natural numbers.
- `ReleaseAssumption` (`Release`): bounds are natural numbers, a commit has one
  package version, and the first release is not deployed again.

Each argument rests on an inductive invariant, which TLC checked on an instance
first. A proof module has a lemma per action, or per kind of action, which says
that the invariant survives it; one lemma joins them over the next-state
relation, and the theorem follows by temporal logic.

About `OutboxQueue`, in the four parts of `OutboxQueueProofs`:

- rows and files: `TypeCorrect`, then `RowsArePaired`. `PairedRows` is not
  inductive alone: that two outputs never share a key needs that an answer finds
  its item pending, which is a fact about the row and not about the outputs;
  the invariant `RowInv` joins the types, the pairing and the bound of ids by
  the counters. `LedgerIsBalanced` relates the count of each audit entry to the
  state of its output alone; a purge adds one `output_deleted` entry exactly for
  the rows it removes. `FreeHoldsNoFiles` needs that a downgrade removes the
  last file in its own transaction, whatever rows `SKIP LOCKED` left out.
- decisions: `DecisionsAreFaithful`, with `ReadsAreFinal`, and
  `RevisionsAreDecidedOnce`. `DecisionInv` says what a live output and the page
  on view know: the revision of a live row is never below one decided or shown,
  equal revisions of the same row mean equal content, an undone decision lies
  strictly below the row's revision, and a received result was read and not
  undone. `AcksAreIdempotent` adds that an acknowledgement once told leaves a
  ledger entry that the same caller finds again.
- the input ledger: `InputLedgerIsBalanced`. An input is closed by its own
  deletion or by that of one output; the invariant says for each id which of
  the three holds, so that the two ledgers cannot both close it.
- the promise: `QueuesDeliver`. `PlacesOK` reads a place off the present rows,
  which the mapping does not: a live output is the decision that it was made
  from (`DecisionInv`), and an answered item has one (`PairedRows`). With it a
  lemma per kind of transaction names its action of `Delivery`. An answer is a
  `Decide` on the row's content, not on the form's, and its id has no entry in
  the ledger yet (`LedgerIsBalanced`), so that only an acknowledgement adds to
  what a repeated one finds.

About the callers:

- `CredentialsProofs`: `CredentialTypes`, `ActivationsFit`. That no caller gets
  two keys rests on who may hold a credential at all. `KeyInv` says it: one
  connect request creates a caller, nobody has a credential of that caller
  before the exchange (`OneConnect`, `Unkeyed`), a replacement names a key of
  its own caller (`Replacing`), and a pending first key excludes a working one
  (`FirstKey`). `ShrinkKeeps` serves all steps that only end credentials.
  `KeysFromApprovals` is inductive with the types alone; `AuditTells` is one
  statement per caller (`Tells`) which every step but an activation and a
  revocation of that caller leaves alone; `CredentialsImplementLifecycle` is the
  refinement: `InitMaps`, and a lemma per kind of step that says which action of
  `CallerLifecycle` it is. `KeyInv` makes the mapping well defined, for a set of
  at most one key.
- `CliProofs`: `ClientsUseTheRoutes` first, so that `KeyInv` and every theorem
  about the routes holds with the client. `CliInv` then follows the lock:
  `Locked` says who is inside the critical section, `OwnKeys` that a command's
  key is its own and works only once its activation was handled, `Stored` what
  is in the local files there. The subtle parts are two. An activation may be
  handled after its command has let go of the lock, and then breaks what
  another command believes; `LateIsExcused` says that its caller is excused,
  and that no later command has proven a key of that caller, which is
  what the index on pending keys gives. And `LocalKeyWorks` alone does not say
  which key is stored: `Kept` says that the working key is the stored one, or
  the one that a command that has no answer yet would restore, and it says so
  also of an excused caller once a later activation is proven, since that is
  when the warning is taken back. `LocalKeyAlwaysWorks` and `RollbacksAreFinal`
  follow. The first is about callers that are not excused: of a rotation whose
  store failed late it says nothing, and cannot (the observation about the CLI under Findings).
- `RequestsProofs`: `RequestTypes`, `LimitsHold`, `AnswersAreAlwaysTrue`,
  `RefusalsAreAlwaysDeserved`, `BlocksAreAlwaysBacked`, `NeverDeadlocked`, all
  from `RequestsInv`. `LockInv` says what a request in each place may hold: the
  account row has one holder and each counter row one, and a request that has
  charged a counter holds the account or has nothing left to do but to end.
  That is why the locks form no circle, for any number of requests: the holder
  of the account waits at most for a counter whose holder only has to end.
  `CountInv` says that a charge which may still become a write fits its window,
  and that what a refusal or a block names is used up (with what the cleanup
  has pruned counted in, `Backed`); `AnswerInv` ties answers to commits.

About billing:

- `BillingProofs`: `BillingTypes`, `OneSaleAtATime`, `AlwaysInSync`,
  `EndsAreFinal`, `EventsApplyOnce`. `BillingInv` joins the types with what
  checkouts and subscriptions may be at a time (`StripeInv`), what the log tells
  of them (`LogInv`: a paid checkout has its payment and a newest event with the
  present state), what the account shows (`AccountInv`: the status of an applied
  event with its second) and which events are claimed (`ClaimInv`). The two
  parts that `InSync` needs and a reader would not guess are about time: the
  payment is newer than all that other subscriptions have brought to the
  account (`PaymentIsNewer`), and a processed event of the purchase was applied,
  is older than what the account shows, or came when another subscription had
  shown something newer (`ProcessedIsKnown`). `EndsAreFinal` is an action property
  of the same invariant.
- `CheckoutProofs`: `CheckoutImplementsBilling`: a step of the protocol is
  one of `Billing` or stutters, so the five theorems above hold of it.
  For that a request must know what is still true when it uses it, which
  `Knows` says for each place of the protocol; `CheckoutInv` adds that the
  account was bought through the attempt it names (`AccountBought`) and that no
  key was used for a second session. `CheckoutTypes`, `OneUsableUrl` and
  `KeysOutliveDispatch` follow from the same invariant.

About the review page:

- `JournalProofs`: `JournalTypes`, `Offered`, `SelfConsistent`, `Hidden`,
  `NothingOvertaken`, all from `JournalInv`, for any number of submissions. None
  of the five invariants is inductive: they speak of what the page shows, which
  was computed from rows that were read before some replies came and rendered
  after others. An item is *sure* while nobody else has changed it and no
  request for it is in doubt. `BookInv` says what requests, records and rendered
  records are by themselves: their place in the queue, the revisions they name,
  what the row has left behind. `OrderInv` relates them: a settled record was
  rendered (`SettledIsShown`), what is rendered of a sure item is what the
  journal has, but for the record settled since (`ShownIsCurrent`), a confirmed
  record removes earlier ones of its items (`Supersedes`), and the lock of
  `Offers` keeps an item's submissions in line (`FirstCome`, `SameView`,
  `Unshown`, `BulkStays`). `SureInv` holds the main idea: what the page knows of
  a sure item (`Known`) is what the server has, but for the one request that is
  served and whose reply is on its way (`Served`); so a submission meets the
  revision it was made for. `PlainInv` is about items in doubt only because a
  single answer timed out: an answer that was undone is still undone, or the
  journal holds a later answer (`UndoneOK`), which is what the retirement effect
  has to keep. There is a lemma per action, and `Largest` (a nonempty set of
  submissions has a last one) from the well-foundedness of the subsets of a
  finite set.

About the release:

- `ReleaseProofs`: `CleanupsRestore` and `NoReturn` hold without a further
  assumption, and follow from `ReleaseInv`. It says, per place of the job and
  its signal handler, what serves then and what the marker says (`DeployOK`,
  `HandlerOK`): from the capture to the promotion the captured version serves
  alone, and nothing is uploaded before the marker names it. What a marker names
  as prior was not built for that draft, and `displaced` is that version or
  nothing (`ReleaseOK`). The handler may delete the draft that the capture step
  then records into; that is why `GaveWay` is all that is left of the draft of a
  deletion under way.
- `TrafficAccounted` and `AlwaysRecoverable` assume `Named = {TRUE}`, that GitHub
  shows every draft under its tag. A draft that exists then has no tag and no
  sibling (`OneRelease`). That a cleanup leaves accounted traffic depends on the
  release of the version it goes back to, which another cleanup may have
  deleted; so the invariant must reach through the whole chain of prior versions.
  `WayBack` asks for a rank for each commit, such that those that serve have one,
  those with one are accounted for, and the prior version of a ranked draft has a
  lower one. A commit that is staged gets a rank above the one that serves
  (`RankRaises`); a draft learns its prior version only while its own commit has
  no rank (`RecordWay`), so the way back has no circle; and a deletion takes the
  ranks above what serves away (`DeleteWay`), which is sound since the deleted
  draft's is one of them. The assumption is needed. With untagged drafts five jobs
  break `TrafficIsAccounted`, which TLC finds when it is led there: a release is promoted and
  stops, a second is promoted over it and stops, a rollback by hand and a
  reconciliation delete the first draft, another dispatch of the second commit
  does not see its draft and promotes, and a re-run of the second, which fails,
  goes back to the version of the first, whose draft is gone. It is one more way
  in which the first observation about the release does harm; within the bounds of `release_jobs` it does
  not occur.

Only model-checked are:

- `TrafficIsAccounted` and `Recoverable` while GitHub hides some drafts, for
  three jobs;
- `PurchaseActivates`, since liveness under fairness and `ENABLED` are out of
  the prover's reach;
- what the three violation runs show, which is not true and so not provable.

## Findings

- Undoing an answer on an account that was downgraded after it puts a
  `file_upload` item back in the queue of a hosted-free account
  (`free_file_actions`).
- A downgrade clears the ordering of billing events, and an older event that
  is processed later is applied (`billing_order`).
- A bulk answer that times out and commits retires alone: the older restoration
  of an undone answer stays and offers the item, which the comment in the same
  effect says must not happen (`review_timeouts`).

An observation about the CLI, which no run reports:

- `writeOwnerOnlyFile` renames the new `credentials.json` into place and then sets
  its mode and flushes its directory (`cli/internal/foundation/config.go:315-322`).
  When one of these fails, the store is reported as failed although it took
  effect. `exchangeStoreAndActivateRotate` then returns without
  `restoreCallerSecret` (`cli/internal/command/controlplane.go:610-612`), which it
  does call when saving the config fails, and aborts the replacement: the machine
  keeps an aborted key, and the old one, which still works, is on it no more.
  `docs/agent-layer/DECISIONS.md:56` says that rotation "must recover from local
  secure-storage failure without locking out the caller"; the test of it
  (`controlplane_test.go:1926`) has a store that fails without effect. In the model:
  `Begin` of a rotation, its approval, `Callback`, `Exchange`, `StoreFailsLate`,
  with one command and two keys. `LocalKeyWorks` excepts the caller; without the
  exception TLC finds this sequence.

Two observations about the release pipeline, which no run reports:

- A draft that GitHub shows as `untagged-*` is counted only if its marker names
  the exact run (`scripts/release/decide.mjs:88-97`). A second dispatch of the
  commit then finds nothing and creates its own draft, while
  `docs/ops/release.md` says that conflicting same-tag state stops. Four jobs lead to
  harm: the first run stops, the second promotes, marks its draft publishing and
  stops; the first is re-run, fails, and its reconciliation restores the prior
  version under the release that is publishing. `PointOfNoReturn` excepts drafts
  that hide from each other; without the exception it fails, with it and for drafts
  under their tag it holds, also with four jobs.
- `reconcileRelease` takes the release the canary reports without looking at
  `configured` (`scripts/production-release.mjs:499`), so a prior version may be
  derived from a runtime whose configuration is incomplete, which
  `docs/ops/release.md:360-365` excludes. In the model `Reconcile` reads `LiveSha` and
  `Compensate` asks for `configured` as well.

## Not modelled

- Input validation and the canonical payload: one request, sequential, with
  table tests; only its outcome enters `OutboxQueue`.
- Read-only queries and pages, cursors, the listing of callers: they keep no
  state that another component depends on, and no document promises what a
  sequence of pages shows.
- The data plane of the CLI: one request and its answer. Logging, error
  reports, static pages.
- Row locks inside one statement (the size loop of a downgrade against undo and
  acknowledgement): a transaction of `OutboxQueue` is one step.
- The bytes of release assets, migrations, the comparison of triggers, how often
  a gateway call is retried, the read-only detector of abandoned drafts, and the
  Homebrew step after the commit point.
- Windows per IP address and of file uploads; filters, pages, selection and
  drafts of the review page.

## Plan

What a stopped job leaves when GitHub hides drafts: which part of
`TrafficIsAccounted` survives, as a theorem.
