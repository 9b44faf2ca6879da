# A TLA+ verification of the NBR CRM

TLA+ specifications of the API of this repository (`apps/api`, with the tables,
constants and arithmetic it takes from `packages/shared` and the migrations), the
TLC configurations that check them on small instances, and TLAPS proofs of what
holds for every size. The API is a NestJS application that runs in several
processes over one PostgreSQL database at READ COMMITTED; there is no queue and no
lock service, and nearly every handler reads, decides, and writes later. The
project is about what happens in between.

Run a check with `tlc -workers 2 -config lifecycle_races.cfg MCRecordLifecycle.tla`
and a proof with `tlapm RecordLifecycleProofs.tla`. `PROJECT.json` lists the runs,
the mutants, the source lines behind every definition, the hazards and the theorems.

## 1. Inventory

| Component | State it keeps | Operations | Interacts with | What makes it correct |
|---|---|---|---|---|
| Status state machine (`packages/shared`) | none: a constant table | transitions with guards, overrides | Record lifecycle | every path past a gate asks the gate's guard |
| Record lifecycle (`records/`) | `records.status`, `locked_at` | `changeStatus`, `advance`, assign | payments, certificates, dispatch, vault, blacklist (guards); the import | no gate bypassed, terminal is locked, automatic stages are left |
| Record intake (`applicants/`) | applicant, record, a carried-over certificate | create, add a record, back-dated entries, what an import opens, revives or hides | lifecycle, certificates, inbox | enters only states the rest understands, one live profile of a number, no record without its profile |
| Payments ledger (`payments/`) | `payments`, `payment_transactions`, invoices | plan, receipt, reversal, invoice | lifecycle (automatic move), import | money banked once, never beyond the plan, row agrees with ledger |
| Certificates (`fulfilment/`) | `certificates`, `certificate_versions`, number series | upload, verify | lifecycle, import | no serial twice or skipped, row agrees with files, what is sent is signed off |
| Dispatch (`fulfilment/`) | `dispatches`, `records.delivery_status` | upsert, publications | lifecycle, import | one current dispatch, the list shows its status |
| Evidence vault (`vault/`) | `evidence_files`, upload intents, a count on the record | presign, confirm, proofs asked for, copies from the website | lifecycle, website | append-only, nothing twice, the count adds up |
| Blacklist (`ops/`) | entries, the flag, the banner on the applicant | add, lift, the website's switch | lifecycle, website push | flag set exactly while an entry is in force, the website agrees |
| Website inbox and import (`integrations/`) | `integration_events`, `legacy_mirror`, records | receive, process, replay, reset, apply | payments, certificates, dispatch, lifecycle | each snapshot takes effect once, nothing reported that is not so, the mirror ends on the last |
| Website push and review actions (`integrations/`) | outbound hash and error on the mirror row | mirror a move, the panel's actions, payments, dispatches, details, catalogue | lifecycle, blacklist | a decision taken on either side ends up on both |
| Imported records (`integrations/`) | one row per offline certificate | pull (in full, or from the newest issue date), push | the website | the latest state of each certificate |
| Communications (`ops/`, `mail/`, `whatsapp/`) | `communications` rows | send, deliver, retry, mark | external transports | says sent only of what was taken, every send is told how it ended |
| Authentication (`auth/`) | sessions, deny list, failed attempts, reset links | login, refresh, revoke, reset | every request | one live token in a chain, revocation final |
| Cache (`redis/`) | values and tag sets | remember, invalidate | permissions, lists, dashboards | not stale after invalidation, never for ever |
| Leads, HR (`sales/`) | leads, leave, attendance, payslips | convert, decide, generate | intake | one applicant, one register, one series |
| Exports (`reports/`) | `export_jobs`, files in the bucket | queue, process, sweep | storage | personal data goes in the end |
| Tasks, notifications, governance, users | single rows | edits, hourly alerts | sessions, cache | - |
| Web client (`apps/web`) | cookies, a shared refresh, who is signed in | request, refresh and repeat, page loads | authentication | one refresh for all that came back 401, nobody signed out unasked |
| Reports, search, audit, timeline, notes, documents, storage | reads, appended rows, I/O | - | - | - |

How they interact: handlers call each other inside one process (a receipt calls
`advance`), share rows of the database without a common lock (the guard of a status
change reads the payments row another request is writing), and write outside
their transaction (cache invalidation and the push to the website are detached).
The website calls in over a webhook, may repeat and reorder, and is answered before
the event is processed.

The hard behaviours: decisions on rows read before a transaction and written after
it; sums and counts of rows that others are inserting; row locks taken at
the first write; unique indexes as the only thing between two inserts; processes that
die between the statements of a handler; retries by staff, by the website and by
the CRM itself. `PROJECT.json` lists each hazard with its line and with the property
that would catch it, or with the reason why none can.

## 2. Plan

Written, in this order:

1. `Workflow`, `RecordLifecycle`: the record and everything staff and the CRM do to its
   status.
2. `PaymentLedger`: the money, statement by statement.
3. `Certificates`: numbers, files and sign-offs, statement by statement.
4. `SnapshotMirror`, what the inbox promises, and `WebsiteInbox`, which implements it,
   over `LegacyStages`, what a snapshot does to a status.
5. `Desks`: the small components whose requests race among themselves only:
   `Sessions`, `SignIn`, `Blacklist`, `WebsiteDecisions`, `Dispatches`, `Invoices`,
   `Leads`, `LeaveRegister`, `Payslips`, `EvidenceVault`, `Intake`, `WebClient`,
   `ImportedRecords`.
6. `Services`: those that go on after the answer: `TaggedCache`, `Outbox`, `ExportJobs`.

Then the proofs, in the order of what a race could cost: the gates of a record, the money,
the certificates, the inbox and its promise, the components of `Desks`, those of
`Services`. Every invariant and action property a passing run checks now has its theorem
(section 6).

The project keeps to a dozen runs, and they are taken. What would
come next is a *plan account* (amount collected under a total, each receipt once) as the
abstract specification of `PaymentLedger`. Of what is not
modelled, the push of payments and dispatches, the catalogue sync and the guard of the last
Super Admin have most to say (section 7).

## 3. The modules

An operator called `X_Bug` is a slip a programmer could make in `X`. No action uses
one; each shows that a property tells the code from the slip.

### `Workflow`
`STATUS_TRANSITIONS` of `packages/shared/src/constants/workflow.ts`, entry by entry,
the statuses and which of them are terminal. Labels, permissions and required remarks
are left out: they only refuse a request before it touches anything.

### `RecordLifecycle`
One record. `status` and `locked` are its columns; `evidence`, `blacklisted`, `payment`,
`cert`, `tracking` are what the six guards read; `req` holds what each request in
flight has read. Two history variables say what `NoGateBypassed` is about: `shown`, the
gates for which the record has at some time had what they ask (of the sign-off: that the
latest file was the one signed off, as the guard has it), and `outdated`, that a sign-off
overtaken by a correction has moved the record on all the same, which `VerifyCommit` may do.

| Code | Actions |
|---|---|
| `WorkflowService.changeStatus` | `ChangeStatusLoad` (load, transition, lock), `CheckGuard` (one SELECT per guard), `ChangeStatusCommit` (the UPDATE, which names the id only), then `AdvanceRead`, `AdvanceWrite` when it led to Payment Received |
| `AutoAdvanceService.advance` | `AdvanceRead`/`AdvanceWrite` outside a transaction; inside `VerifyCommit` and `RecordTransaction` where a caller's transaction holds it |
| `CertificatesService.verify` | `VerifyRead`, `VerifyMark` (takes the certificate's row lock), `VerifyCommit` |
| `PaymentsService` | `CreatePlan`, `RecordTransaction`, `ReverseTransaction` |
| upload, dispatch form, evidence, blacklist | `UploadCertificate`, `UpsertDispatch`, `AddEvidence`, `SetBlacklisted` |
| a process dies, a statement fails | `Lost` |

`Init` is any status the record may be entered at, because a back-dated entry may
enter it anywhere; it then counts as having shown what that status implies. The
client's `expectedUpdatedAt` is compared with the row loaded in the same step and
with nothing later, so a request that passes is the same with and without it.
Payments, uploads and the dispatch form are single steps here: what a guard sees of them
is one column, and how they interleave inside is the subject of the next two modules.
The status the website import writes (`applyStatus`) is in `WebsiteInbox`, so the
results here are about the moves staff and the CRM make.

### `PaymentLedger`
One plan, statement by statement. `plan` is the payments row, `ledger` the rows of
`payment_transactions` in commit order, `req` the requests. An uncommitted row is in
`req` (`pc` in `sum`, `update`); another insert that would clash with it under a unique
index waits (`PendingClash`), and is refused if it clashes with a committed one
(`DuplicateRefused`). `PlanRead`/`PlanWrite` are `createPlan`; `RecordRead`, `InsertRow`,
`SumRows`, `WriteSum` are `recordTransaction` with `recomputeStatus`; `ReverseRead`
starts `reverseTransaction`, which continues the same way; `ImportRead`/`ImportWrite`
are `applyPayment` of the import. The CHECK `payments_paid_within_final` is
`PaidWithinFinal`: it fails the transaction as a whole. `PlanWrite` and `ImportWrite`
are one step because their first write locks the row that decides the rest.
`CollectedWithinPlan` is about the rows themselves and not the amount on the payments row:
`StaffRows` are those that staff entered, and `Largest` is the most one form is for.
Amounts are instalments; GST and discounts are left out.

### `Certificates`
All records. `head` is the certificates row, `versions` the numbers on the uploaded
files, `series` the counter row, `req` the requests. `UploadRead`, `AllocateNumber`,
`CountVersions`, `UploadCommit` are `upload`; `VerifyRead`, `VerifyCommit` are `verify`;
`MirrorRead`, `MirrorCommit` are `applyCertificate` of the import. The counter row is
locked from `AllocateNumber` to the end of the transaction (`SeriesFree`), and the
allocation is undone by a rollback (`SeriesAfterRollback`). One financial year. Numbers
from outside (`Chosen`: typed by staff or carried over; `Minted`: the website's) may be
serials of the series, since nothing in the code keeps them out; `Serials` are those only the
series writes, and `SerialOfOneRecord` speaks of these.

### `SnapshotMirror`, `LegacyStages`, `WebsiteInbox`
One application the website holds. The website posts a snapshot of it at each change;
`receive` stores it under the hash of its content and answers, and `processEvent` imports
it without anybody waiting.

`LegacyStages` translates the tables of `packages/shared/src/schemas/integration.ts`
and the decision of `applyStatus`: the stage's status, the ranks (doubled, because the
code ranks what only the CRM has at half steps), the hold before the sign-off, and
`Moves`, whether a snapshot moves a record that was read at a status.

| Code | Actions of `WebsiteInbox` |
|---|---|
| the website | `Changes` makes a snapshot; `Receive` delivers one, in order or in any (`"disorder"`) |
| `processEvent` | `Mark`, `Finish`; `Refused` is its catch; `Lost` the death of the process |
| `importApplication` | `LookUp`, `Screen` (the blacklist), `Create` |
| `updateExisting` | `Revive`, `Compare` (the hash of the last one applied), `Merge` |
| `replay`, `resetWebsiteData` | `Replay`, `Reset` |
| staff, as far as the import can tell | `StaffMove`, `SignOff`, `Correction`, `SetBlacklisted` |

`event` is the status of each stored event, `mirror` the snapshot whose hash the
`legacy_mirror` row holds, `applied` and `opened` are history variables. `Merge` and
`Create` are one step each, because their first write locks the records row; the status
they decide on was read at `LookUp`. What a snapshot's payment, certificate and dispatch do
is in the modules of those. `Environment` says which of the disturbances an instance has.
`SnapshotMirror` is the abstract specification: one record at most, nothing takes effect
that was not made, nothing is reported that did not take effect. Its variables are
functions of those of `WebsiteInbox` (`Abstract`), and `KeepsPromise` is the implementation.
`resetWebsiteData` is a series of statements in the code and one step here.

### `Desks` and its components
Each component is a module of its own, written like the ones above, statement by
statement where the code has no transaction and lock by lock where it has. `Desks` puts them
side by side: `desk` is chosen at the start and only that component moves. They share no
rows, so a behaviour of all of them is an interleaving of one behaviour of each, and an
invariant of one component holds of the interleaving if it holds of the component. `width`
is how many requests are in flight: all there are, or one. Some promises survive
every race and are stated for both; the rest hold when requests come one at a time and,
where that would leave one half done, no process dies (`Lost` names it); the races that
break them are listed in section 4.

| Module | State | Code |
|---|---|---|
| `Sessions` | `account`, `sessions`, `denied`; `ended` is history | `login`, `refresh` (four statements, no transaction), `logout`, `revokeAllSessions` with its select, mark, deny and bump, force-logout, deactivation, Redis failing, the guard (`Accepts`) |
| `SignIn` | `user` (failures and lock), `links`; `misses` is history | `login` up to the tokens, `registerFailedAttempt`, the lock's expiry, `requestPasswordReset`, `resetPassword` |
| `Blacklist` | `entries`, `banner`, `flags`, `website`, `pushes` | `add`, `lift`, `applyFromWebsite`, `setFlag`, `removeFlag`, the push with repeats and with giving up |
| `WebsiteDecisions` | `site`, `news`, `known`, `status` | the mirror of a move (`StaffMove`, `Tell`), the panel (`Run`), the website's guards and what it does (external), the retries of `send`, and the import of the snapshot that follows |
| `Dispatches` | `rows`, `shown` | `upsertDispatch`, `applyDispatch`, `dispatches_current_uq`; `strayed` is history: an import wrote to a row superseded meanwhile |
| `Invoices` | `invoices`, `counter` | `generateInvoice` and `next_in_series` |
| `Leads` | `leads` of one mobile number | `create`, `update`, `logCall`, `convert`, `remove`, the partial index on open leads and the one on the numbers of applicants; `reopened` and `freed` are history |
| `LeaveRegister` | `leave`, `register` | `applyLeave`, `decideLeave`, `markAttendance` |
| `Payslips` | `slips` | `generatePayslip`, `nextPayslipNumber`, `cancelPayslip`, the two indexes |
| `EvidenceVault` | `files`, `count`, `confirmed` | `confirmEvidence`, `ingestRequestedProof`, `copyEvidence`, `evidence_record_checksum_uq` |
| `Intake` | `applicants` and `records` of one person; `stranded` is history | `create`, `addRecord`, `update` of the number, `importApplication` and the revival in `updateExisting`, `resetWebsiteData`, the indexes |
| `WebClient` | `tab`, `jar` (the cookies), `issued`, `query`; `reused` and `excused` are history | `request`, `refreshSession`, `AuthProvider`, and the API's side in one step each |
| `ImportedRecords` | `catalogue` (the website's), `held`, `owed`, `pull`; `missed` is history | `receivePush`, `sync` row by row, `upsert`, `latestIssuedAt` |

In `WebsiteDecisions` snapshots arrive in order and no certificate is signed off, which is
where decisions are still taken; a move that neither closes nor reopens has nothing to
tell. `excused` is history: a command failed, or staff moved the record between the read
and the write of an import.

`WebClient` and `Sessions` divide the sign-in: there the statements of the API race, here
the answers it gave race in the browser, and a session stands for its two cookies. Once a
tab cannot know better (`excused`: an answer lost, the sessions ended elsewhere, two tabs
refreshing at once, a page loaded with an access token that lapsed) the model stops.
In `Intake` any profile may match an application, and every profile is opened with the
one number, which its owner may change and take back.

### `Services` and its components
Put together in the same way (`service`), each with its own fairness.

| Module | State | Code |
|---|---|---|
| `TaggedCache` | `stored` (the database), `entry`, `tag` | `get`, `set`, `remember`, `invalidateTags`, command by command, each of which Redis may fail; `Tick` is its clock. Instantiated for the permissions of a role |
| `Outbox` | `messages`, `sends`; `accepted`, `unclear`, `stranded`, `attempts` are history | `sendEmail`, `sendWhatsApp`, `whatsappLink`, `markWhatsappSent`, `deliver`; `retry` in its three steps: read, queue, build the HTML of an email; the provider takes, refuses, or takes and is not heard; each UPDATE may fail |
| `ExportJobs` | `jobs`, `objects`, `sweep` | `queue`, `process`, `sweepExpiredArtefacts`; crashes and failures between any two statements |

`calm` in `Outbox` is the run in which the process does not die, nobody retries while
a send is under way and nobody marks by hand what is not theirs. Statements may fail in it
too. `stranded` holds the messages such a failure has left queued with nobody sending them,
the process alive: a retry that could not build its HTML after it had queued the row
(`RetryFails`), and a failure that could not be recorded (`RecordFails`). A message the
provider took whose UPDATE to `sent` fails is marked failed by the catch block
(`SentNotRecorded`), and a retry then sends it twice; `unclear` counts these.

The `MC` modules hold the instances for TLC: symmetry of requests (and of records), and
sets of statuses, forms and transitions.

## 4. The runs

| Run | Shows | Bounds and why they are enough |
|---|---|---|
| `lifecycle_races` | `NoGateBypassed`, `TerminalIsLocked`, with crashes | 2 requests; every open entry status; totals 0 and 2 (nothing due, and a part payment); 2 versions (a file and its correction). 4.5 million states. Every hazard here is between two requests; the proofs cover more |
| `lifecycle_liveness` | `PaymentReceivedIsTransient`, `EveryRequestEnds` | 2 requests, from payment_pending and certificate_pending, total 0, 1 version, nothing lost: a lost request is not resumed, and the record then stays where it is |
| `ledger_races` | `CollectedWithinPlan`, `BankedOnce` | 2 requests; totals 1 to 3; three forms of one instalment, one with a reference; a website payment under that reference. Two receipts that race exceed the plan by one of them, the bound the property states |
| `ledger_serial` | `AmountPaidIsLedgerSum`, `StatusIsDerived`, `CollectedWithinPlan`, which for one request allows nothing over the plan | 1 request at a time, totals 0 to 3, no import: what the code promises of the payments row is true when nothing races |
| `certificates` | `CurrentIsLatestFile`, `SeriesHasNoGaps`, `SerialOfOneRecord` | 2 requests, 2 records, 2 files each; a number staff write in that is a serial of the series and one that is not, and one of the website's |
| `inbox_races` | `ReportedIsVisible`, `SignOffStaysHere`, and `KeepsPromise`, the refinement of `SnapshotMirror` | 2 handlers, 2 snapshots at stages before and after the sign-off, one reset, every disturbance. 2.8 million states. A third snapshot adds nothing to what two handlers can confuse |
| `inbox_ordered` | `MergesForward`, `EventsSettle`, `Converges` | 2 handlers, 3 snapshots over stages of every kind, delivered in order, transactions refused, nobody dies |
| `desks` | `EndedStaysEnded`, `OneHolder`, `GateHolds`, `FlagFollowsRegister`, `WebsiteAgrees`, `RecordShowsCurrent`, `SerialsRunOn`, `OneProfile`, `LeaveIsOnRegister`, `VaultAddsUp` | 2 requests and one at a time; of each component as many rows as two requests need to meet: 2 sessions, 3 misses before and after a lock at 2, 3 entries, 3 dispatches, 2 payments, 2 leads, 2 profiles and 3 records, 2 days, 2 months, 2 contents, 5 stages and 2 changes of the website, 2 tabs with 2 queries and 3 sessions, 3 certificates in 2 states each. 1.3 million states in all, the sum of the components' and not their product |
| `services` | `SavedIsServed`, `StalenessEnds`, `AcceptedOnce`, `OutcomeRecorded`, `ArtefactsGo` | 2 requests and 2 saves over a life of 2 ticks; 2 messages, emails (whose retry has one step more) and click-to-chat links, 2 sends of each; 2 exports. A WhatsApp message differs from an email by not having that step |

`TypeOK` of each module is checked in `lifecycle_races`, `ledger_races`,
`certificates`, `inbox_races`, `desks` and `services`. Deadlock is not checked in these
runs: their counters are bounded, and at the bounds a model stops.

Three runs are expected to fail, each by one property that quotes the repository:

| Run | The repository says | The code does |
|---|---|---|
| `lifecycle_advance_race` | `auto-advance.service.ts:50` the update is conditional on the status the caller saw | the UPDATE names the id only; a record moved on by hand is dragged back |
| `ledger_drift` | `payments.service.ts:75` the status can never drift from the money | two receipts at once: the later sum misses the earlier row |
| `inbox_order` | `nbr-website.service.ts:877` the mirror converges on the website's truth | two snapshots out of order: the earlier is applied last and stays |

Divergences without a run of their own. Each of the first five was a run of its
own until the components of `Desks` and `Services` needed the place:

- `workflow.service.ts:199` says a completed record is locked. One back-entered as
  completed is not (`applicants.service.ts:183`).
- `certificates.service.ts:169` says the version checked is the version that goes out. A
  correction uploaded at dispatch_pending goes out unverified: nothing asks again.
- `openapi.registry.ts:966` says a repeat of an idempotency key returns the original
  transaction. It is answered 409 DUPLICATE_VALUE.
- `payments.service.ts:326` says a mistaken entry is reversed by a new row. The new row
  repeats the reference, and `payment_transactions_ref_uq` refuses it.
- `openapi.registry.ts:1016` says the certificate number survives every re-issue. The
  website's number replaces it while a first upload commits (`legacy-lifecycle.service.ts:393`).
- `workflow.service.ts:191` says the optimistic lock "stops two staff
  double-transitioning". It is compared at load only; two requests that
  loaded the same row both commit.
- `AdvanceWrite` may take a record that was closed meanwhile out of its terminal
  status, without an override, and leaves it locked.
- Two receipts at once are each held against the balance before the other
  (`payments.service.ts:212`), and the amount the CHECK sees misses one of them: the rows of
  the ledger may sum to more than the plan. `CollectedWithinPlan` says by how much.
- A certificate number typed or carried over in the series' own format
  (`identity.ts:192`) is not refused. When the series comes to it, the upload fails as a
  duplicate and the counter rolls back, so that every later upload that needs a number fails
  in the same way; where the website's number reaches the certificate in between, the upload
  passes and the serial is printed a second time.
- `certificates.service.ts:69` says approval never transfers. A sign-off that read
  the earlier version commits after a correction: it marks the earlier version, and moves
  the record on to dispatch with a file nobody signed. `NoGateBypassed` excepts this
  (`outdated`) and no other way past the sign-off.
- A plan re-priced to what has been collected settles it without moving the record:
  only `recordTransaction` calls `advance`.
- `schema/money.ts:74` says the status is derived from the rows; the import writes
  `paid` and the website's amount (`legacy-lifecycle.service.ts:296`).
- Two reversals at once of a receipt without a reference both pass the look-up of
  `payments.service.ts:349` and take it back twice.
- `dispatch.service.ts:167` says a parcel sent again supersedes the previous row. The
  import overwrites the current one, a returned parcel included; and what it
  reads a courier's status as is not the inverse of what the push sends.
- `schema/vault.ts:74` says uploading identical bytes again is idempotent. The second
  upload is refused. Two files of one name from the website: the second is never copied.
- `communications.service.ts:330` says a worker performs the send and a crash loses
  nothing. There is no worker: the message stays queued until somebody retries it by hand.
  A retry while a send is in flight sends twice, and a failure that is recorded late
  overwrites `sent`.
- `retry` writes `queued` (`communications.service.ts:495`) before it builds the HTML (512),
  which throws when the record was deleted since or a read fails: the message stays queued,
  with the process alive and nobody sending it. A failed UPDATE of `sent` (454) lands in the
  catch block, which marks a message the provider took as failed; if the UPDATE there (467)
  fails as well, nothing awaits the promise: the row stays queued, or the process ends on
  the unhandled rejection. `OutcomeRecorded` excepts these (`stranded`).
- `legacy-actions.service.ts:249` says a failure to reach the website must surface. The
  result of the push is dropped.
- `employee-hr.service.ts:277` tells staff to cancel a leave that overlaps; an approved
  one cannot be cancelled.
- `nbr-website.service.ts:886` revives a record and then its applicant without a
  transaction. With a new profile of the number the second is refused: the record is
  live on a deleted applicant, and no later delivery tries again. `ProfilesHold` in
  `Intake` excepts it (`stranded`).
- `auth.guard.ts:97` says the client refreshes and retries either way. It does not for
  paths under `/auth/`, and a page that is loaded asks `/auth/me`: a reload with an access
  token that lapsed shows the sign-in page, though the refresh token lives.
- `auth.service.ts:350` says a reused token means an attacker. A token that was revoked by
  a change of password elsewhere counts as reused too, and ends the sessions opened since.
- `schemas/sales.ts:83` offers an existing profile and an override at conversion. The first
  is not read, and the second does not pass `applicants_mobile_uq`; nor is there the path
  that deletes and opens again of `schema/applicants.ts:80`.
- `imported-records.service.ts:152` says a pull narrows to what was issued since the two
  sides agreed. It starts from the newest issue date: a historic certificate or a
  revocation whose push was lost is fetched by a full pull only.
- `users.service.ts:239` keeps the last Super Admin. `deleteUser` counts before it deletes,
  and `updateUser` may suspend or demote that account without counting.
- A record closed while the website has the application on hold is not mirrored:
  `legacyActionForStatusChange` has no action for it, which `DecisionsAgree` excepts. A move
  made between the read and the write of an import may be told to nobody.

Races that the one-at-a-time properties of `Desks` leave out, all reachable with two:

- Two wrong passwords at once count once; two reset requests leave two working links.
- A refresh that read its session before the sessions of the user were ended issues a new one
  afterwards, which the revocation does not find. Its access token is of the old version, its
  refresh token is good for the next: the account is not signed out, although
  `auth.service.ts:547` says "End all of them". `EndedStaysEnded` speaks of the sessions that
  were there when the revocation looked.
- A leave request rejected after it was approved, by two decisions at once, keeps its days on
  the register.
- Two refreshes of one token both succeed; each then has a chain of its own. In the web
  client the single-flight of `api-client.ts:86` is per tab, so two tabs may do this, and
  the next use of the loser's token ends every session.
- Two adds make two entries, two lifts leave the flag set with nothing in force, and
  pushes that overtake each other leave the website wrong.
- Two requests for an invoice or a leave at once make two; two conversions make one
  applicant, and the one refused leaves its lead open.
- A record added while its profile is being reset is seen without it.
- A certificate pushed while a pull stores an older row of it loses the push.
- A snapshot's file copied twice at once is there twice; a crash leaves it uncounted.
- A value loaded before a save and stored after its bust is served until it expires.

## 5. Fairness

Four runs assume some; the rest check safety only.

`lifecycle_liveness`. A request already accepted runs to its end: weak fairness of
`Handler(p)`, which is what a Node process that is not killed does with a handler it
has begun. A request waiting for a certificate's row lock gets it even if others keep
taking it in between: strong fairness of `VerifyMark(p)`, because PostgreSQL queues the
waiters of a row lock. Nobody is obliged to send another request: there is no fairness on
`ChangeStatusLoad`, `VerifyRead`, payments or uploads.

`inbox_ordered` and `inbox_order` (`FairSpec`). A handler that was started runs on (weak
fairness of `Handler(p)`), and the website delivers what it has made (weak fairness of
`Delivery`): it retries until it is answered, as the comments of `receive` say. Nobody is
obliged to change the application, to replay or to reset, and a crash is not part of these
instances: a handler that died is resumed by nobody, and `EventsSettle` is then false.

`services`. For the cache, that time passes (`Tick`): Redis expires what was set with EX.
For messages, that a retry begun goes on, that a send begun is answered or times out, and
that what comes after the answer runs, as `retry` and `deliver` await each; none of it need
succeed. It decides something in the `calm` run only, in which the process lives. For
exports, that the sweep is run again and again (it is on a schedule), that a worker runs on
unless it has died, and that time passes and one statement of the sweep does not fail for
ever; a crash is possible at every step and asks for nothing.

## 6. The proofs

| Module | Theorem | States |
|---|---|---|
| `RecordLifecycleProofs` | `TypeCorrect` | `Spec => []TypeOK` |
| | `GatesHold` | `Spec => []NoGateBypassed` |
| | `TerminalLocked` | no terminal entry status: `Spec => []TerminalIsLocked` |
| `PaymentLedgerProofs` | `TypeCorrect` | `Spec => []TypeOK` |
| | `CollectedBounded`, `NeverBankedTwice` | `Spec => []CollectedWithinPlan`, `Spec => []BankedOnce` |
| | `NeverOvercollected` | one request at a time: the rows of staff never sum to more than the plan |
| | `PaidIsSum`, `StatusFollows` | one at a time, no import: `Spec => []AmountPaidIsLedgerSum`, `Spec => []StatusIsDerived` |
| `CertificatesProofs` | `TypeCorrect`, `FilesKept` | `Spec => []TypeOK`, `Spec => []CurrentIsLatestFile` |
| | `NoGaps`, `OneRecordPerSerial` | `Spec => []SeriesHasNoGaps`, `Spec => []SerialOfOneRecord` |
| `WebsiteInboxProofs` | `Invariant`, `TypeCorrect` | `Spec => []Inv`, `Spec => []TypeOK` |
| | `ReportedInForce`, `SignOffStays` | `Spec => []ReportedIsVisible`, `Spec => SignOffStaysHere` |
| | `PromiseKept` | `Spec => KeepsPromise`: `WebsiteInbox` implements `SnapshotMirror` |
| | `ForwardInOrder` | crashes and refusals at most: `Spec => MergesForward` |
| `DesksProofs` | `SerialsRun`, `VaultCounts` | `Spec => []SerialsRunOn`, `Spec => []VaultAddsUp` |
| | `LeaveRegistered`, `ProfileIsOne` | `Spec => []LeaveIsOnRegister`, `Spec => []OneProfile` |
| `DesksSignInProofs` | `SessionsStayEnded`, `OneHolderHolds`, `GateStands` | `Spec => []EndedStaysEnded`, `Spec => []OneHolder`, `Spec => []GateHolds` |
| `DesksWebsiteProofs` | `CurrentIsShown`, `FlagFollows`, `WebsiteAgreesHere` | `Spec => []RecordShowsCurrent`, `Spec => []FlagFollowsRegister`, `Spec => []WebsiteAgrees` |
| | `TypeCorrect` | `Spec => []TypeOK`, of all of `Desks` |
| `ServicesProofs` | `TypeCorrect`, `SavedServed`, `TakenNoTwice` | `Spec => []TypeOK`, `Spec => []SavedIsServed`, `Spec => []AcceptedOnce` |

They hold for any number of requests, records, files, snapshots and amounts, under the
assumptions the modules name, which TLC evaluates in every run:

- amounts are naturals and a receipt is of more than nothing, as the schemas of the API
  require, and no form is for more than `Largest`;
- the stages and statuses an instance has are those the code has (`StagesAssumption`,
  `StatusesAssumption`), and its bounds are naturals;
- requests in flight are finitely many (`PaymentLedger`, `Desks`, `Services`): the first
  counts what they may come to, the others those under way to let one at a time in;
- `MaxAttempts` is 1 or more: the setting is read with a minimum of 3
  (`auth.service.ts:130`), and at 0 the account would be locked before it is used.

Five theorems assume more, and each says so in its statement. `TerminalLocked`: no record is
entered at a terminal status. `NeverOvercollected`, `PaidIsSum`, `StatusFollows`: `Procs` has one
element, which is how the promise of the payments row is meant; with two it is
false, and `ledger_drift` shows it. `PaidIsSum` and `StatusFollows` also leave the import
out, which writes the website's amount over the sum. `ForwardInOrder`: `Environment` holds
at most crashes and refusals; with disorder it is false, and `inbox_order` shows what
follows.

*Gates.* `NoGateBypassed` is not inductive: a request in flight writes the status
it decided on earlier. `GatesInductive` (in the module of the proofs) adds `FactsShown` (what
a guard would find now has been shown) and `RequestsEntitled` (a request that will write a
status past a gate has cleared the gate, or still has its guard to evaluate). A gate is
cleared when what it asks was shown; the sign-off also by `outdated`. What was shown stays
shown, so staleness of what a request read does no harm; that is why the missing
condition on the UPDATE cannot bypass a gate, though it can undo a move. The step from
the table is `TableGuarded`: every transition past a gate either starts past it or asks its
guard.

*Ledger.* `LedgerInductive` adds `UncommittedApart`: a row inserted and not yet committed
clashes with no committed and no other uncommitted row. `CollectedBounded` has an invariant
of its own, `WithinPlan`: the receipts that are summed, found within the plan and not yet
written (`Held`) are each held against rows without the others; ordered by when they were
summed, the last alone saw all that was committed, so that together they exceed the plan by
what the others come to at most (`Covers`). `NeverOvercollected` is the same with nobody else.
What the sum of a ledger is, the provers cannot find by induction; it is
proved by the least counterexample. `SumOf` is a recursive function on `0 .. Len(rows)`;
`SomeRunning` shows that there is such a function, and where two running sums differ, or
one is not a number, there is a least place where they do (`LeastNumber`, from the
well-foundedness of the naturals), and the place before it is a contradiction. From that,
`SumOfAppend`: one more row adds its amount. `Accounted` then says that the row holds the
sum of the committed rows, and what a request that runs alone has read and summed.

*Certificates.* `StepKinds` reduces the nine actions to six kinds of step.
`FilesInductive` adds that counts stand (`CountsStand`: files are never removed), so that a version
the unique index accepts is exactly the next. `SeriesInductive` adds that a serial in flight is the
next one and one request holds it, so that a commit fills exactly the next place. `SerialInductive`
adds that a serial is *borne* (by a certificate, a file, or an upload in flight) by one
record, and that no bearer has a serial beyond the counter but the upload it was allocated
to. It speaks of `Serials`; a number from outside that falls in the series is borne by
whoever was given it, and nothing is assumed of it.

*Inbox.* `Inv` is `TypeOK` with three parts. `HistoryAgrees`: what is applied was made, the
mirror holds one of those or none, and one record at most was opened. `EventsAgree`: an event that says imported has a record that
can be seen. `HandlersAgree`: what a handler has found still holds of the row it was
started for, unless that row was removed, which `epoch` tells. `Steps` reduces a handler's
step to a few kinds. `PromiseKept` maps each step to one of `SnapshotMirror` or to none:
the step that writes the record is the one that takes effect, `Finish` the one that
reports. `ForwardInOrder` needs `OrderInv` as well: with deliveries in order, one handler at
a time is past its look-up, and what it read is current (`ReadIsCurrent`).

*Desks.* Each component has an invariant of its own (`InvoicesInv`, `SlipsInv`, `LeaveInv`,
`VaultInv`, `LeadsInv`, `IntakeInv`, `SessionsInv`, `HoldersInv`, `ClientInv`, `GateInv`,
`DispatchesInv`, `BlacklistInv`, `DecisionsInv`, `ImportedInv`), and a step of another
component changes none of its variables. Most come in two parts, like the
properties: what every race keeps, and what holds where `width` is 1. The second rests on
`FreeIsAlone`: a request is let in at width 1 only when none is under way, so what it reads
stands until it writes, and the invariant says at each point of a handler what it
may rely on (`Alone`, and for instance `Stands` in the blacklist). What carries each:

- numbers: the invoice counter is the length of the series, and one request at most holds
  its lock, with the next number; a payslip's number was counted on rows that only grow, so
  the unique index accepts the next alone;
- leave: approval marks every day of the span in the transaction that decides, and no later
  marking takes a day back to unmarked;
- vault: the count, the copies not yet counted and those a crash left out add up to the
  files; the copies in flight are counted as a finite set;
- leads: the applicants opened are as many as the number was given up, and the one who has
  it, because of `applicants_mobile_uq`; they are counted as a set of pairs;
- profiles: a count is the number of records with that profile, since both are written in
  one transaction, and a record never changes its profile; one at a time, a record that can
  be seen has a profile that can, is about to have, or was left behind (`SeenTogether`);
- sessions: whatever is in `ended` is revoked, and on the deny list or of an earlier token
  version (`Over`); a request on its way to end sessions has revoked them first, and
  revocation, deny list and version only grow;
- the lock and the links: `Locked` ties the counter to the wrong passwords in a row,
  `OneLink` says the last link alone is live;
- the client: one request at most is refreshing, with the token the browser holds, and no
  session after that was presented (`OneRefreshes`);
- dispatches: one row is current (`OneIsCurrent`), from the partial index, and the save that
  supersedes is one transaction with the row it adds;
- blacklist: one entry at most is in force, and what is under way tells of it
  (`RegisterAgrees`, `WebsiteShows`);
- decisions: the last snapshot under way has the website's stage, and with none under way
  the two sides agree or a request will tell (`AgreedOrTold`); `StageLands` and `StageMoves`
  are what that needs of the tables;
- imported records: where a row is not the website's it is owed, lost, or among the rows of
  the pull at work (`MirrorFollows`); a pull from the newest date covers what is newer,
  for which the newest has to exist (`NewestExists`).

`TypeCorrect` of `Desks` joins these invariants and adds, for each component, that its rows
and what its requests hold fit the bounds (`LeaveFits`, `SessionsFit`, `DispatchesFit` and
their like). That a request holds nothing out of range needs more than its type: the
session a refresh names is one there is, `StageLandsOnStatus` and `MovesToStatus` are what
the statuses of a record need of the tables, `LatestFits` what the start of a pull needs of
the newest certificate held.

*Services.* `CacheInv`: one request at a time, an entry is out of date only while the save
that made it so has not busted its tag. `SentIsTaken` and `TakenOnce`: what says sent was
taken, and in the calm run a message has one send at most, which has not said sent yet.
`ExportsInv`: a file no row came to name is in the bucket.

Only model-checked is liveness (`PaymentReceivedIsTransient`, `EveryRequestEnds`,
`EventsSettle`, `Converges`, `StalenessEnds`, `OutcomeRecorded`, `ArtefactsGo`): fairness and
ENABLED are outside the prover.

## 7. Not modelled

- *The push of payments, dispatches and application details* (`legacy-push.service.ts`).
  It sends the state of one row and forgets; the echo of an inbound change is suppressed by
  comparing with the last outbound hash, not the inbound one, and the error shown on the
  integrations screen is cleared by the success of a push of another kind. The retry loop
  is in `Blacklist` and `WebsiteDecisions`.
- *The catalogue sync*. It updates packages one by one in a loop over the website's list, so
  a swap of two codes is refused midway; it retires only packages without a website code.
- *The page limit of imported records*. A pull fetches one page of 200 and has no second;
  `ImportedRecords` takes everything to fit on it, and one pull to run at a time.
- *The guard of the last Super Admin* (`users.service.ts`): listed above as a divergence.
- *Alerts and the daily report*. They run in every process, look for today's alert before
  they insert one, and take at most 100 or 200 rows in no order. An alert more or less is
  all that is at stake.
- *Intake of personal data, edits of applicants, the rating of duplicates, employees,
  documents, tasks, governance, users, templates*: edits of single rows. What they share
  with others, the mobile number, the sessions and the permissions of a user, is in
  `Intake`, `Leads`, `Sessions` and `TaggedCache`.
- *Reports, search, dashboards, audit, timeline and notes* read or append and decide
  nothing. Documents, storage, mail and the WhatsApp transport are I/O; migrations run
  under one advisory lock.
- *The pages of the web client and the description of the API* (`docs/openapi.registry.ts`),
  more than half of the lines of the repository: rendering, forms and documentation. Every
  rule a form applies is applied again by the API, and that is where it is modelled.

Abstracted throughout: wording, permissions, templates, GST and discounts, presigned
URLs, the bytes of files, hashes (equal exactly when what they hash is), and the clock,
which only ever makes something due.
