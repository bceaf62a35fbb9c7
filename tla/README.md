# Sana: verification of its protocols

Sana takes applications of companies on-line: a *legacy* programme (validation of a
company) and a *facilities* programme (loans). Both are a Next.js server over
PostgreSQL: server actions and routes that interleave, each a sequence of short
transactions with a payment gateway, an SMS provider, a file system or a virus scanner
called in between; and pages that keep a state of their own while they wait for an
answer. This directory holds TLA+ models of what happens when those sequences overlap,
stop half way or are repeated, the TLC configurations that check them, and TLAPS proofs
of the properties that matter most.

Run everything from this directory: `tlc -config MCPayments.cfg MCPayments`,
`tlapm LegacyPaymentProofs.tla`. `PROJECT.json` lists runs, theorems and, for each
definition, the source lines it models.

## 1. The system

| Component | State it keeps | Operations | Talks to |
|---|---|---|---|
| Payment coordinator (`lib/payments/coordination.ts`, migration `20260918120000`) | one `PaymentObligation` per application: state, selected payment, claim token, generation, evidence | ensure, reserve, recover an authority, publish, begin and finish a verification, mark uncertain, settle | both payment programmes, under the row lock of the application |
| Legacy payment (`lib/actions/payment.ts`, `lib/payments/legacy-*.ts`, `app/api/payment/callback`) | `Application.status`, `Payment` rows, `PaymentNotificationIntent` | start, callback, settlement, completion, submission notice | coordinator, gateway, SMS |
| Facilities payment (`lib/actions/facilities-payment.ts`, callback route, guard triggers) | `FacilitiesApplication.status`, `FacilitiesPayment` attempts | start, callback in two phases, submission, resubmission after a correction | coordinator, gateway, readiness check |
| Zarinpal adapter (`lib/payments/zarinpal*.ts`) | none | request, verify; classifies answers | gateway |
| Facilities files (`lib/facilities-files/*`, migration `20260919140000`) | bindings (slots) with their current upload, uploads, attempts, stored files, tombstones, objects on disk | admit, stage and scan, attach, commit, retry, expire, delete, remove orphans | scanner, disk, template publication |
| Facilities company profile (`lib/actions/facilities-company.ts`, `CompanyProfileForm.tsx`) | the profile with its version and completion, officers with ids, a binding for each identity package | save, complete, prepare and upload a package | the application that locks it, facilities files |
| Facilities draft (`lib/actions/facilities-application.ts`, `lib/facilities/submission.ts`, the wizard) | the draft and its snapshot of the profile | create, refresh, update details, check readiness | profile, files, payment |
| Facilities review (`lib/actions/facilities-review.ts`) | status, `reviewVersion`, correction requests and their SMS state | start review, request correction, complete, retry the SMS | the applicant's submission, SMS |
| Legacy files (`lib/uploads/*`, migration `20260919150000`) | bindings with generations, candidates, deletion intents, `draftVersion` | stage, commit, delete, sweep | draft saves, payment (which saves the draft), disk |
| Legacy draft and review (`lib/actions/application.ts`, `admin.ts`, the wizard) | draft, `draftVersion`, status; the page's own copy | save, change status, replace the certificate, review and pay | legacy files, SMS |
| One-time passwords (`lib/auth/*`, `lib/actions/auth.ts`) | codes, request intents, sliding-window buckets | request, dispatch, guess, consume, prune | SMS |
| Login page (`components/auth/*`) | two forms, a countdown, the call that is awaited | ask for a code, enter it, resend | one-time passwords |
| Sessions and redirects (`lib/auth/session.ts`, the entry pages) | a signed cookie, and whether its subject exists | judge the cookie, redirect, reset, log out | database |
| Upload admission, scan semaphore (`lib/uploads/rate-limit.ts`, `scanner.ts`) | counters and windows in memory; active slots and a queue | admit, release; acquire, release, time out | uploads, clamd |
| Scan exchange (`scanner.ts`) | one socket, its timer and what it has heard | write, receive, settle | clamd |
| File content (`lib/facilities-files/verification.ts`) | none | read a file and say what it is | uploads |
| Maintenance (`lib/maintenance/*`) | advisory lock, cursors, a forked worker | run, heartbeat, report, rotate queues | both file components |
| Historical file verification, configuration and templates, audit and export, SMS adapter, the rest of the user interface, deployment | rows of their own, or none | operator scripts, forms, queries, formatting | — |

How they interact. A payment and a correction, an upload or a draft save meet on the
row lock of the application; nothing else orders them. The payment coordinator is a
library called under that lock, so its functions are atomic, and everything between two
of its calls is not. A callback is a request like any other: it may come first, twice,
late, or while the action that caused it is still running. Maintenance jobs run in
another process and meet requests only in the database and on the disk.

What makes it hard, and what must hold in spite of it (`hazards` in `PROJECT.json` has
the lines):

* **Crashes between two commits.** A process may stop after any transaction. Money that
  was captured must still be recorded, an authority that was saved must still be offered.
* **Answers that never come.** A request or a verification that timed out may have been
  carried out, and may still be running when the next one starts. A payment is not asked
  for twice; two verifications of it never run at once.
* **Late owners.** An invocation that was overtaken still holds a claim and still writes
  its result. Generations and tokens have to fence it.
* **Two transactions that belong together.** Payment and submission commit one after the
  other; between them an application is paid and not submitted.
* **Data from before the coordinator.** Applications with none, one or several payments
  of any status meet it for the first time; a FAILED payment may have been captured.
* **Triggers that guard the tables** must not refuse a write the code needs, as that
  would lose captured money.
* **Files are outside the database.** An object is written, moved and unlinked outside of
  the transaction that says so; nothing that is referenced may be removed and nothing
  unreferenced kept for ever.
* **Stale pages.** Reviewers and applicants act on what they loaded minutes ago, and pages
  change what they show while a call is under way.
* **Reads before locks.** Several actions look at a row first and lock it afterwards.
* **Windows of time.** Budgets are kept per hour and must hold over every hour; codes and intents
  expire while a handler is half way.
* **Memory of one process.** Counters and slots are released in callbacks, timers and catch
  blocks, in any order.
* **Jobs that lose their lock.** A worker outlives the connection that holds its lock; a row
  may kill every worker that visits it.

## 2. Modules

| Module | What it is |
|---|---|
| `PaymentCoordination` | the coordinator's functions over one record, the obligation, as operators: what each does to the row and whether it refuses. Pure; both programmes use them. |
| `PaymentInvocation` | the state both programmes share (payment rows, obligation, invocations, the gateway) and the steps they share, one operator per transaction or call. |
| `LegacyPayment` | the legacy programme: status, notification intent, one action per step of `startPayment`, of the callback route, of settlement, completion and notice. |
| `FacilitiesPayment` | the facilities programme: start, callback with its two phases, submission, the triggers that guard attempts and status. |
| `PaymentPromise` | the abstract specification: what the payment of one application promises. Both programmes implement it. |
| `FacilitiesFiles` | the private file store of the facilities programme: slots, uploads, rescans, templates, deletion, the orphan sweep, the disk. |
| `SlotPromise` | the abstract specification: what a reader of documents may rely on. `FacilitiesFiles` implements it. |
| `LegacyFiles` | the files and the draft of a legacy application: pages, bindings, candidates, deletion, reviewers, the certificate. Implements `SlotPromise`, too. |
| `FacilitiesCase` | one facilities application from the profile to the decision: saves and completion under a version, documents, snapshot, submission, review, correction and its SMS. |
| `ProfileForm` | the page of the company profile: rows of members, the ids they get, the packages stored under these ids. |
| `OtpLogin` | requests, codes, guesses and their sliding windows over a clock. |
| `UploadGate` | the rate limiter and the scan semaphore of one process. |
| `FileContent` | the verdict on the bytes of a file, read step by step, against a definition of what is true of the file. |
| `ScanExchange` | the socket to the virus scanner and what settles a scan. |
| `MaintenanceJob` | the parent with its lock, the forked worker, queues that rotate, cursors. |
| `LoginForm`, `FacilitiesWizard`, `FinalReview` | three pages: their state, the calls they await, and what the server makes of them. |
| `SessionVisits` | the redirects a visit goes through. |
| `MCPayments` | both programmes, one at a time, with the properties and fairness asked of either. |
| `MCFacilitiesFiles`, `MCFileScenarios`, `MCStorageLive`, `MCLegacyLostSave` | instances of the two file stores. |
| `MCFacilitiesCase` | the instance of `FacilitiesCase` and `ProfileForm`. |
| `MCServer` | the nine parts that share nothing, one at a time: one-time passwords, the gate, contents, scans, jobs, and the four browser modules. |
| `PaymentInvocationProofs`, `LegacyPaymentProofs`, `FacilitiesPaymentProofs` | the theorems about the payments. |
| `FacilitiesFilesProofs`, `LegacyFilesProofs` | those about the two file stores. |
| `FacilitiesCaseProofs` | those about `FacilitiesCase` and `ProfileForm`. |
| `ServerProofs` | those about `OtpLogin`, `UploadGate`, `MaintenanceJob`, `ScanExchange` and `FileContent`. |
| `BrowserProofs` | those about `LoginForm`, `SessionVisits`, `FacilitiesWizard` and `FinalReview`, and about all nine parts of `MCServer`. |

`PaymentInvocation` EXTENDS `PaymentCoordination`; each programme EXTENDS
`PaymentInvocation`, so the coordinator and the invocations are composed twice with two
different surroundings and the proofs about the shared steps are used twice.

An MC module may hold several models side by side with a rigid variable (`programme`, `scenario`,
`part`) that says which of them runs: nothing is shared between them, the state space is the
sum of theirs and not the product, and a property that speaks of one is trivially true in
the others. In `MCServer` the variables of the parts that do not run keep one initial value.

### State and code

`obligation` is the `PaymentObligation` row: `state` (`ABSENT` is no row, before `paymentObligation`
made one), `generation`, `owner` (the invocation that made the claim; the code draws a UUID for
each, so an owner at a generation is one token), `operation`, `reason`, and the `selected`
payment. `results` are the `PaymentOperationResult` rows, which hold the answers of the gateway:
authorities, captures, rejections. `payments` are the rows of payments or attempts: status and
authority. `job` has a record per invocation: `pc`, the step it will take next, and the locals it
carries over a transaction (the payment, the authority, the generation of its claim).
`gateway`, `calls` and `offered` are outside: what the gateway knows of each authority, the remote calls it
is not done with, those whose caller has given up included, and the payment pages
the applicant was sent to. `requests` only counts.

One action is one transaction, or one call to the gateway, or one end of such a call. The
server's code between two awaits that touches only locals is part of the action before it.
A transaction is atomic because every one of them takes the application's row lock first.
Each transaction may fail, in which case it changes nothing and the handler takes its catch
block, or may commit while its caller is told that it failed (a lost acknowledgement), where
the code distinguishes the two. A crash is a further disjunct, at every step: the job
returns to `idle` and everything it knew is lost.

Data is cut down to what the properties can tell apart. Amount, description and the
applicant's form are left out; whether a form is valid, an application ready or an admin
active is a choice of the action. Names, hashes and URLs are model values.

### The file store and the code

`upload` holds the `FacilitiesFileUpload` rows with the `StoredFile` each refers to (`file`,
`scan`: the row belongs to one upload only), `current` the `currentUploadId` of each
binding, `tombstone` the deletion tombstones, `disk` the objects under their storage keys.
Rows of `FacilitiesFileUploadAttempt` repeat the status of their upload and are left out;
`FAILED` stands for every terminal status but `PASSED`, between which no code that is modelled
distinguishes.

Each upload has runs: run 0 is the request that brings it, run n its n-th rescan by the
maintenance job, whose number is also the retry token (the code draws a UUID). `step` is what the
run does next and is a label per `await`: stage (write and scan), link and unlink (the two
halves of `promote`), attach (the `StoredFile` row), outcome or commit, and fail, which is the
catch. `OnError` is where the handler's catch leads from each step. Every step may fail
without effect (`StepFails`), take effect without the run hearing of it (`Heard`) or be the
last of its process (`RunDies`). For a template the request goes on to `Publish` or,
in the route's catch, to `Unpublish`.

`Required` are the slots that a submission needs; those of the questionnaire are optional
(`requiredFacilitiesSlots`, `lib/facilities/submission.ts:44`). `Total` adds numbers as the cardinality of a disjoint
union of ranges, so that a sum can be reasoned about.

A transaction is one action; the triggers of migration `20260919140000` are in the guards:
`Admissible` for the status, expiry, base and quota, `Charge` for the formula of the quota,
`Writable` for the advisory lock. Three things last longer than an action. A deletion
(`DeleteBegin`, `DeleteRemove`, `DeleteCommit`) holds the slot's lock while it unlinks, and goes on
without it (`late`) once its transaction timed out. A sweep lists names, then checks them
under the advisory lock, then removes one after the other, again perhaps after the lock is
gone. An upload holds nothing at all between its steps. `SweepList` may list
any objects: the age at which the operator lets an object be listed may be as short as
he likes. `Tripwire` stands for `MIN_TRIPWIRE` or the override of the environment. `old` is
the end of the 24 hours that `expiresAt` gives an upload.

### The legacy store and the code

`LegacyFiles` has one record per object for its `ApplicationFile` row, its candidate in the journal
and its deletion intent. A page holds the version of the draft and the generations it loaded; a
save or a commit compares them in the transaction that locks the application. A candidate is
journalled, written, committed or abandoned by a sweep; a replaced file gets an intent that is
authorized only when neither a binding nor the draft names it, and unlinked outside of any transaction. `Historical`
objects are those from before the journal. The reviewers' pages (`desk`) hold the status, the
draft version and what the page showed.

### The facilities case and the code

`profile` is the row of the company: `profileVersion`, its officers, and whether
`profileCompletedAt` is set. A page (`form`) goes through the reads and the writes that the code does
in different transactions: `SaveRead` and `SaveCommit` (the read of the row comes before its lock,
`facilities-company.ts:57-62`), `CompleteRead` and `CompleteWrite`. `reviewVersion` is the column which
the trigger of migration `20260919180000` counts up; a transaction counts as one here. `screen` is the page
of a reviewer, which loads the row first and its documents and snapshot afterwards.
`fresh` is that `uploadedAt` is after the open correction, and `upload` remembers whether
the upload was admitted before it (`old`). `delivery` is the handler that sends the SMS of a correction.

### The smaller parts and the code

`OtpLogin` counts time in ticks; `Hour`, `CodeLife` and the rest are parameters. A bucket row is kept
for each hour in `bucket` with the ticks of its attempts, as a set whose members are told apart by
their number within a tick; `spent` is what was granted in the last hour and is not stored anywhere. `UploadGate` has one action per
piece of the event loop without an `await`. `FileContent` reads a file in the order of the
code, one member of an archive per step; the bytes are the facts the code tells apart.
`ScanExchange` has the writes, the fragments of the reply and every event that may settle the promise.
`MaintenanceJob` has the parent's transaction, its probe, the fork, the IPC channel and the worker's
loop. In the pages an action is an event with the render and the effects after it; React batches
them, so that nothing comes between.

## 3. Runs

| Run | Question | Bounds | Distinct states |
|---|---|---|---|
| `payments` | Is either programme safe when two invocations interleave, crash and lose answers? | 2 invocations, 2 payments, 2 authorities, 4 generations; symmetric | 199,472 |
| `payments_live` | Is captured evidence settled, does a paid application move on, is its notice claimed? | 2 invocations of which one is always retried, 1 payment, 2 generations | 60,426 |
| `legacy_reverify` | Is an unresolved verification verified again, as documented? It is not. | as above | violation |
| `facilities_files` | Do uploads that meet, with rescans, failures, lost answers and crashes, keep the order of documents, their bytes and the quota? | 2 uploads, 1 rescan each; 3 uploads and a quota of 3; or 1 upload or 1 template while everything fails | 529,010 |
| `file_scenarios` | Is what a legacy application needs there? Are decisions right? | four scenarios, below | 280,906 |
| `storage_live` | Does what failed, was replaced, abandoned or left by a crash go in the end? | 2 uploads whose deletions fail; 1 upload that crashes; 2 legacy files | 45,051 |
| `facilities_stranded_template` | Is a passed template published or deleted, as a comment says? It is not. | 1 template, 1 rescan | violation |
| `facilities_case` | Are profile, submission, review and correction consistent? Do the rows of a page keep their ids apart? | 2 pages, 2 reviewers, 2 officers, 1 correction, within `Interesting`; 2 rows, 2 saves, 1 upload | 762,994 |
| `facilities_lost_profile` | Does the version protect a profile from a stale save, as documented? It does not. | 2 pages, 1 officer | violation |
| `facilities_reassigned` | Do identity packages stay with their officers, as a comment says? They do not. | 3 people, 3 rows, 4 saves, 1 upload | violation |
| `legacy_lost_save` | Do stale saves overwrite nothing, as documented? They do. | 2 pages, 1 file | violation |
| `server` | The nine parts of `MCServer`. | below | 211,030 |

Bounds, and why they are enough. *Payments.* Two payments are what it takes to have a choice of which
one to select, to have several from before the migration, and to charge twice. Two
authorities are what it takes to confuse them. Two invocations meet at every pair of steps;
since a crashed or finished invocation starts afresh, the two stand for any number that do
not all overlap. `MaxGeneration` bounds the number of claims; a claim raises the generation
by one, and four of them cover request, recovery, verification and one more. It bounds
`beginPaymentVerification` and `reserve` by their guards, so behaviours beyond it are cut and none is
changed. Liveness is checked on one payment because symmetry is unsound there and
since the properties are about one payment's way through.

*Facilities files.* Two uploads of one slot are a document and its replacement, or two replacements of
one; a third, in an optional slot, competes with them for a quota that has room for two of the three. One rescan is
what it takes for two runs of an upload to overlap; `MaxTries` bounds their number by the
set of runs. `MaxListed` bounds how many names a sweep lists, and with it what one sweep
removes; since sweeps follow each other, it delays and does not forbid. `Tripwire = 1` makes the
tripwire matter with two objects. `Faults` says which processes meet errors: with
all at once and rescans the state space is out of reach, so in `facilities_files` a
constraint (`Interesting`) pairs two uploads with rescans against jobs that succeed, three uploads that pass their
scan against processes that die, and jobs that fail against one upload or one template.

*Legacy files.* `file_scenarios` has four scenarios. Two pages that store two files meet in every order; the further scenarios add one thing
each: a file of the time before, two reviewers with an editing page, a second certificate. All four
are one instance of `LegacyFiles`, the module that the theorems are about, of which `Within` lets only some pages, reviewers and
objects take part (`Parts`). `writes` there bounds the saves of a draft: to one or two beyond those that an upload needs
while pages race, to all that a review and a certificate take in the two others.

*Case.* A profile of two members is one that can lose one and keep one; one correction is opened,
answered and told. `Interesting` explores three shapes: two pages and the profile up to a
payment, two pages and one member up to a settled submission, and, with one member, either one page beside one reviewer
or two reviewers.

*Server.* Two guesses at once and two codes over three ticks, with an hour of two, let a budget
straddle the hour, a code expire and a newer one arrive. Four uploads of two users through one slot with limits
of two and three reach every limit. Files cover every kind, size and flaw, alone and in archives of up to two
members (three for plain ones). A reply of five parts is longer than any verdict. Two parents with one loss
show a worker that outlives its lock; two queues of two rows with one poisoned row show
starvation. The pages have the smallest constants at which two values differ; of the
numbers of employees that is none, one the schemas take and one they do not.

Every property has a mutant: a changed definition of the model, of the kind a plausible slip
in the code would make (a dropped guard, a missing reset, a swapped order), under which TLC
finds it violated. The `mutants` list and the operators beside the definitions show them.

### What the properties say

The payments (their steps are the shared ones of `PaymentInvocation`):

* `OneRequest` – the gateway is asked for at most one authority that may be paid, whatever
  times out and whoever clicks again.
* `CallsAreTrue` – what the program believes of the gateway is so: two verify calls of one payment never
  run at once, evidence of a capture is of the selected payment's authority and of
  money the gateway has, and the page the applicant is sent to belongs to the selected payment.
* `SubmittedIsPaid` – nothing is submitted unpaid.
* `SelectionIsFinal` – a selected payment is never exchanged, a result never removed.
* `NoticeOnce` – no SMS of a submission is sent twice.
* `NeverRefused` – the triggers never refuse a write of the facilities payment.
* `SubmissionHolds` – an obligation never goes back to a state in which a new payment could be
  asked for, however late an overtaken invocation writes (`NeverReopened`); a settled
  one has a recorded and captured payment (`SettledIsBacked`); and each programme
  implements `PaymentPromise` under the refinement mapping of `KeepsPromise`, which includes that a
  redelivered callback never moves an application a reviewer already has.
* `EvidenceSettles`, `NothingPends` – evidence of a capture leads to a recorded payment, in time or late;
  a paid application leaves `PENDING_PAYMENT`, and its notice is taken up.

Files of the facilities programme:

* `OneSuccessor` – of two replacements of one document one is committed: documents of a slot
  form a line.
* `OnlyOwnerRuns` – while an upload is on its way, only the run whose token it has is working on it.
* `NeededIsKept` – what is shown, published or in quarantine keeps its bytes, whatever deletions,
  sweeps and late runs do; and nothing with a tombstone is shown or published, in particular not a
  template whose publication took effect unheard.
* `KeepsPromise` – the store implements `SlotPromise`: a slot of a submitted application does
  not change, a document once replaced never returns, a shown document is never discarded. In `file_scenarios`
  the same is checked of `LegacyFiles`.
* `QuotaSuffices` – the documents of an application stay within the quota (`QuotaHolds`), while
  an upload that was admitted is not refused for the quota when it commits (`AdmittedFits`), whatever was admitted,
  replaced or failed meanwhile.
* `NeededIsThere` – what a legacy application names has its bytes, and nothing is about to unlink them; an
  application under review has all its documents, one whose validation was completed its certificate.
* `DeletedIsGone` – a deletion is recorded as done only when the object is gone.
* `DecisionIsInformed` – a legacy reviewer decides on the status and the draft the page showed.
* `IsPurged`, `NothingIsLeft` – what failed or was replaced is deleted, no upload is on its
  way for ever, an object without a row is swept, an abandoned candidate or replaced legacy file goes. The sweep
  has an exception the code makes: one that finds no row at all believes the table is lost
  and removes nothing.

The facilities case:

* `CompleteIsBacked` – a complete profile has a document of every member it has now, and an application
  under review has a snapshot and all its documents, also when the profile was changed
  after the payment.
* `OneCorrection` – an application is with the applicant exactly while one correction is open; each is told by
  one SMS at most, and counted as told only when it was.
* `InformedReview` – a decision is made on the documents and the snapshot the page showed, although it loaded
  them after the row whose version the decision names.
* `EvidenceIsFrozen` – nothing that was on its way when an application was submitted changes what is reviewed.
* `MembersStayApart` – a page never shows two members under one id, however rows were moved meanwhile.

The server and the pages:

* `OneSessionPerCode`, `NewestOpens`, `BudgetHolds` – a code opens one session, only the newest does, and
  the budgets hold over every hour and not only between two strokes of the clock.
* `GateMatches`, `EveryUploadAnswered` – counters and slots are exactly what is on its way, and every
  admitted upload is answered.
* `ReportIsTrue`, `DoomedStops`, `RowsAreVisited` – a completion is reported only for a run that was never
  overtaken; a worker without its lock stops; no row starves another.
* `VerdictIsRight` – the reading that stops at the first thing it dislikes comes to what is true of the file
  as a whole, whatever the order of its members. `VerdictIsHeard` – a scan passes or fails only by the daemon's own
  word about all of the bytes.
* `GuessIsDeliberate` – the page sends no guess that the user did not mean, though it submits by itself.
* `NoRedirectLoop` – no visit is redirected to where it has been with the same cookie.
* `ConfirmsWhatIsSaved` – whoever is asked to submit, on the one page that edits the application, has what the server requires
  and sees what it has, except for details that were typed over a save.
* `ReviewAgrees` – the checklist of the legacy page misses nothing that the schema of a submission takes; what the checklist
  takes beyond it, a number of employees that is no safe integer, the schema of a draft refuses, so that the two agree once
  the saves of the page have ended and it is not blocked; and what is sent for the first time both schemas accept.
* `TypeOK` – the types of all nine parts.

### Fairness

Payments: the gateway redelivers a callback and the applicant returns to the payment page, so callbacks
come again and again for the invocations in `Retriers` (strong fairness of `Callback`), and the server runs a
handler on to its next await until it returns or ends early (weak fairness of `Invocation`). The
transactions such a callback needs may fail any number of times but not every time: strong
fairness of `Verify`, `RecordCapture`, `CompleteSubmission` and `ClaimIntent`. The other
invocations have no fairness: they may crash and stop for ever. Nothing is assumed of the gateway,
the applicant or the reviewers: a call may never be answered.

For both file stores the maintenance job is assumed to run for ever, with every queue getting its turn and
its transactions and unlinks failing often but not always: strong fairness of its steps, since the
locks they need come and go, and weak fairness of those that wait for nothing. Time passes.
Nothing at all is assumed of uploads and rescans of the facilities programme, which may stop anywhere; a
request of the legacy programme ends, or its process does. Only
`facilities_stranded_template` assumes more: there requests and
rescans go on (`Progress`), so that the counterexample is no process that simply stopped.

In `MCStorageLive`, `MCPayments` and `MCServer` one fairness conjunct covers an action of each model side by
side. Which model runs never changes, so this is fairness of each action in its own model.

The gate: the event loop runs what is ready, a body ends or is cut off, a timer fires, a scan ends (it has a
timeout of its own). The job: the scheduler starts a parent again, and parent and worker go on; losses
are bounded, since with a connection that is always lost nothing can be promised. That a
maintenance job visits every row again and again (`RowsAreVisited`) is what the fairness of the file
stores assumes of it. The other runs need no fairness.

### Five disagreements

The findings in `PROJECT.json` quote the lines.

`legacy_reverify` shows that an obligation whose verification was lost stays `UNCERTAIN`: the
code never verifies it again without an operator, while the documentation says that a
callback reverifies.

`facilities_stranded_template` shows a template whose first scan gave no answer: the route answers
that the upload failed, the maintenance job scans it again and commits it, and nobody
publishes it or schedules its deletion. A comment in `service.ts` says that a passed object must not
become unreachable.

`facilities_lost_profile` shows two saves of a profile from one version that are both accepted: the version
is compared in a row that was read before it was locked.

`legacy_lost_save` shows a page that adopts the new version of the draft with the answer to its upload,
without the edits that version contains; its next save overwrites them.

`facilities_reassigned` shows a page of the profile whose rows are changed while a save is awaited: the ids in the
answer are given to the rows by place, and a package is stored for another officer.

### Observations

Met while modelling; the models do what the code does, and no document says otherwise or no property is about it.

* `saveThenUploadOfficer` in `CompanyProfileForm.tsx` shows the profile as it was when the button was pressed; what was
  typed while its save was awaited is lost.
* The snapshot of a submitted application need not equal the profile: `RefreshSnapshot` takes it when the wizard is
  loaded, during a correction as well, and a paid draft is submitted with the one it has
  (`facilities-payment.ts:285-306`).
* A full reviewer may send the SMS of a correction again only when the provider has rejected it, and no code ever
  records that (`facilities-review.ts:60`). `MayClaim` has the branch, which is never enabled.
* `completeFacilitiesCompanyProfile` does not look at the count of its update, and tells a page that came too late nothing;
  `saveFacilitiesCompanyDraft` without a version does not compare one.
* In the facilities wizard, details typed while a save is awaited are shown as saved and are not; the first upload that
  ends clears a flag that all uploads share; one can go back while a submission is pending.
* In the login page the number can be changed while the request for a code is in flight.
* With two tabs, the cookie that a reset clears may be one that the other tab has just got.
* In the legacy page, choosing the empty year again saves a draft its schema refuses, so that the page is stuck until it
  is loaded anew. So does a number of employees beyond the safe integers: the checklist, which asks only for a positive one,
  calls the draft complete until its save is refused. After a declined payment the button no longer asks the checklist (the server does).
* A JPEG must have its end marker when it comes alone, and need not inside an archive.

## 4. Proofs

Proved by TLAPS for every set of invocations, payments and authorities, of uploads and slots, of
pages, reviewers and members, of handlers, requests and jobs, and every bound:

| Theorem | States |
|---|---|
| `LegacyInvariant`, `FacilitiesInvariant` | `[]PaymentInv` |
| `LegacyTypeCorrect`, `FacilitiesTypeCorrect` | `[]TypeOK` of the payments |
| `LegacyChargedOnce`, `FacilitiesChargedOnce` | `[]OneRequest` |
| `LegacySelectionKept`, `FacilitiesSelectionKept` | `SelectionIsFinal` |
| `LegacySubmittedOnlyPaid`, `FacilitiesSubmittedOnlyPaid` | `[]SubmittedIsPaid` |
| `LegacyEvidence`, `FacilitiesEvidence` | `[]EvidenceInv` |
| `LegacyCallsAreTrue`, `FacilitiesCallsAreTrue` | `[]CallsAreTrue` |
| `LegacySubmissionHolds`, `FacilitiesNeverReopened` | `SubmissionHolds`; its part `NeverReopened` |
| `LegacyKeepsPromise`, `FacilitiesKeepsPromise` | `KeepsPromise`: the refinement of `PaymentPromise` |
| `LegacyNoticeOnce` | `[]NoticeOnce` |
| `FacilitiesNeverRefused` | `[][LegalStep]_vars` of the facilities payment |
| `FilesTypeCorrect`, `FilesInvariant` | `[]TypeOK` and `[]FilesInv` of `FacilitiesFiles` |
| `FilesOneSuccessor`, `FilesOnlyOwnerRuns`, `FilesDoomedIsHidden` | the properties of these names |
| `FilesDiskInvariant` | `[](FilesInv /\ DiskInv)` |
| `FilesShownIsReadable`, `FilesQuarantineIsKept`, `FilesNeededIsKept` | the properties of these names |
| `FilesDeletedIsGone`, `FilesKeepsPromise` | `DeletedIsGone`; the refinement of `SlotPromise` |
| `FilesQuotaInvariant`, `FilesQuotaSuffices` | `[](FilesInv /\ QuotaInv)`, `[]QuotaSuffices` |
| `LegacyFilesInvariant` | `[]LegacyInv` of `LegacyFiles` |
| `LegacyNeededIsThere`, `LegacyDecisionIsInformed` | `[]NeededIsThere`, `DecisionIsInformed` |
| `LegacyFilesKeepPromise` | the refinement of `SlotPromise` |
| `CaseInvariant`, `CaseTypeCorrect` | `[]CaseInv` and `[]CaseTypeOK` of `FacilitiesCase` |
| `CaseBacked`, `CaseOneCorrection` | `[]CompleteIsBacked`, `[]OneCorrection` |
| `CaseInformed`, `CaseFrozen` | `InformedReview`, `EvidenceIsFrozen` |
| `ProfileMembersStayApart` | `[]MembersStayApart` |
| `OtpInvariant`, `OtpOpensOnce`, `OtpNewestOpens` | `[]OtpInv`, `[]OneSessionPerCode`, `NewestOpens` |
| `OtpTypeCorrect`, `OtpBudgetHolds` | `[]OtpTypeOK`, `[]BudgetHolds` |
| `GateInvariant`, `GateTypeCorrect`, `GateNeverDrifts` | `[]GateInv`, `[]GateTypeOK`, `[]GateMatches` |
| `JobInvariant`, `JobTypeCorrect`, `JobReportsTruly` | `[]JobInv`, `[]JobTypeOK`, `[]ReportIsTrue` |
| `ScanVerdictIsHeard` | `[]VerdictIsHeard` |
| `ContentInvariant`, `ContentTypeCorrect`, `ContentVerdictIsRight` | `[]ContentInv`, `[]ContentTypeOK`, `[]VerdictIsRight` |
| `LoginGuessIsDeliberate` | `GuessIsDeliberate` |
| `VisitsDoNotLoop` | `[]NoRedirectLoop`, for any number of tabs |
| `WizardConfirmsWhatIsSaved` | `[]ConfirmsWhatIsSaved` |
| `ReviewsAgree` | `[]ReviewAgrees` |
| `ServerTypeCorrect` | `[]TypeOK` of `MCServer`: the types of its nine parts, side by side |

Assumptions: those of the modules (`None` is no member of the sets, the programme is one of
two, retriers are invocations; every upload has a slot and a size, and an application finitely many slots; a file of the time before the journal is
the only one of its slot; limits, the hour and the largest safe integer are positive, and an intent does not outlive the cooldown; the form is no
officer; what a babbling daemon says is more than is listened to), all evaluated by TLC in the runs. The type invariants of the payments, of `FacilitiesFiles` and of
`FacilitiesCase` are in no run: they are proved. `ProfileTypeOK` says the types of `ProfileForm` to the reader;
TLC finds it kept on the bounds that `facilities_case` gives that module, and no run lists it.

*Payments.* `OneRequest` is not inductive: it counts rows, and says nothing of why
there cannot be a second. `PaymentInv` adds why. An obligation is `READY` only while there is no payment row;
the claim that leaves `READY` creates a row in the same transaction; no step takes a
row away. So whoever finds `READY` finds no row, and the row it makes is the only one.
Rows from before the coordinator are counted by `ensure`, which never makes an
obligation `READY` while there are any. The same invariant has that a selected payment exists
and that a settled obligation's payment is recorded, which give `SelectionIsFinal` and,
with `Kept` (a recorded payment stays recorded), `SubmittedIsPaid`.

`EvidenceInv` adds to it what the program knows of the gateway: the authority of a row is the one its own
request was answered with (`AuthoritiesFit`), a capture that is recorded or carried by an invocation
is one the gateway has (`EvidenceFits`, `SettlementsFit`), whoever is on its way with the present generation made the present
claim and everybody else was overtaken (`ClaimsFit`), and once a claim was answered no call of it is alive (`CallsFit`).
`CallsAreTrue` and `SettledIsBacked` follow. Beside the invariant every step is shown
to be a `Progress`: the rows, the captured and the recorded payments, which is what `PaymentPromise` is
about, stay, or move by one of its steps. `NeverReopened` is proved with it (a verification is never taken back),
and the refinement puts `Progress` together with the status of the application. `NoticeOnce` needs `NoticeInv`:
the intent is made with the submission, one invocation claims it, and what was claimed is never pending again.
`FacilitiesNeverRefused` needs `LegalInv`: what a request may still publish is the row it made, and what is not
published has no authority that could be captured. It is stated with the `LegalStep` of `FacilitiesPayment`; the property `NeverRefused`
of `payments` wraps the same formula for either programme, and TLC checks it there.

`PaymentInvocationProofs` proves, for each shared step, that it preserves `PaymentInv` and `EvidenceInv` and implies
`Kept` and `Progress`; the two other modules only have to say which shared step each of their actions
takes. `FacilitiesSubmittedOnlyPaid` needs one more invariant, `CompletesPaid`: an invocation
that is about to submit has seen the payment recorded.

*Files.* `FilesInv` has six parts. `OneSuccessor` says nothing of uploads that are not
committed yet; `BasesArePassed` does: once anything is committed to a slot, the slot names
something that no committed upload has as its base, so whoever still has the old base is refused. It
needs that a base was committed (an upload never has one on its way as its base) and
`NamedIsPassed`; templates, whose slot is emptied by `Unpublish`, need `OnePerTemplate`
instead. `OnlyOwnerRuns` needs `RunsFitRows`: when nobody owns a row nobody works on it, so a new token makes the
only owner. `DoomedIsHidden` needs `DoomedHasEnded`: what is doomed never comes back to where it
could be committed. Lemmas follow what a step does to a row: nothing the invariant looks at
(`MoveStep`, `OutsideStep`), a change among the statuses that are not `PASSED` (`ActiveStep`,
`OwnerEnds`), a new row (`AdmitStep`), and the commit, which disturbs every part.

`DiskInv` says what is on the disk: what the owner of an upload finds at each of its steps (`Finds`), that a
row names an object of its own which no run will write again (`Stored`), and that neither the deletion nor a
sweep, even one whose lock is gone, holds a name that a row needs or will need (`SweepSpares`, `DeleterFits`).
That last part is why a sweep may be late: it only lists objects of runs that began (`ObjectsBegun`), a later run draws
another name, and while the sweep holds its lock nothing is on its way.
The refinement maps a commit to `Show`, the unlink of what was replaced to `Discard`, and
everything else, staging, scans, promotions and sweeps, to a stutter (`Unseen`).

*Quota.* `QuotaHolds` is not inductive: a commit may show a longer document. `QuotaInv` bounds what is *charged*, the documents
that are shown with all that is on its way to their slots, less what the replacements among it will release at most; only
an admission adds to it, and it is checked there. That this is enough is `ChargedIsHeld`, slot by slot, and `PassingFits`: a commit moves the
bytes of its upload from what is coming to what is held, and a slot is never charged less than all that is coming to it. The lemmas about `Total` and `Bytes` (`TotalAtMost`, `TotalSplits`, `BytesOfOne`) are about
cardinalities of disjoint unions; what is on its way to the application is a finite set because a step adds one upload at most.

*Legacy files.* `LegacyInv` has three parts beside the types and `SubmittedIsComplete`. `ObjectInv`, of each object: only what was committed is
named, a candidate that is ready has its bytes, and what is about to be unlinked can neither
become ready nor be named again. A request that is late does no harm because the journal's status decides, and
not the request. `BoundInv`: a bound slot and the saved draft name the same file, which is what lets a deletion be
authorized by a look at both. `DeskInv`: a reviewer's page of the draft's version shows what there is, since
whatever changes the text or a binding counts the version up; `DecisionIsInformed` follows. The
refinement is the one of `FacilitiesFiles` with other names: both stores implement one `SlotPromise`.

*Case.* `CompleteIsBacked` needs `PagesInv`: no page is based on a later version than the profile has, and one that is about
to complete the present version has found all documents, which are never taken away; every save passes all
pages by. `OneCorrection` needs `PaymentHolds` (or the end of a payment could take an application out of
`NEEDS_EDIT`) and `SmsInv`: a correction with no attempt was not sent, the handler that may send has made the
only attempt, and no row is ever `FAILED`, so the branch that sends again is dead. `InformedReview` needs `ScreensInv`: a page
whose version is the row's shows what there is. It holds because documents and snapshot change only where a
locked status does not allow it (`Frozen`), and whatever leaves such a status counts the
version up (`Versions`).

*Profile.* `MembersStayApart` needs `RowsInv`, which says what the answer to a save may be met by: ids are handed out in
order, so those of new rows are past all that were; rows beyond those that were sent have no id; and whoever
adopts a newer profile makes the save that is awaited stale, so that its answer is not taken over.

*One-time passwords.* `OtpInv` says that a request which has not ended has no code and a live code has opened nothing,
so the consumption that voids a code is the first; `NewestInv` dates codes: a live one is newer than all others and its
intent has not expired. `BudgetHolds` needs `WindowInv`: each attempt is under the pseudonym of its own hour, so one of the last
hour is in the row of this hour or of the one before (`EpochsOfAnHour`, about division), no row that has it is pruned,
and what is counted is exactly what was granted (`CountedIsSpent`). `AttemptsDiffer` says that no attempt is taken for another, so that
the set counts what the array of the code does.

*Gate.* `GateInv` is `GateTypeOK` with `GateMatches`: the counters are the cardinalities of what is
on its way, stage by stage. *Job.* `JobInv` says that whoever holds the lock or reports was not overtaken since it began,
and that a worker has the order and the page its step needs. *Scan.* `ScanInv` says that the daemon judges when it has read everything,
and that what has arrived is a part of its answer; a lemma shows that a part short enough to be listened to says no more than the whole.

*Contents.* `ContentInv` says of the records read so far what a well formed archive needs of all: they are sound, no name came
twice, and `unpacked` is the number of their bytes (`SoundTo`, `BytesTo`). So the end of a directory proves its archive well
formed (`WellFormedIs`), and a record at which the reading stops proves the contrary (`RecordIsBad`): it needs that a part of the
bytes is no more than all of them, and that as many names as members means that all differ (`BytesAtMostAll`, `NamesDiffer`).
The bytes of an archive are counted as the cardinality of a disjoint union, which grows by those of one member
(`BytesGrow`), where a recursive sum would need induction.

*Pages.* `FormInv`: a complete code on the form is one the form remembers to have sent. `VisitInv` ranks the pages: with the cookie a visit has,
`Distance` bounds how many redirects a page is from one that is shown, and each redirect leads nearer or clears the cookie; so no page comes twice.
`WizardInv`: what the page takes for stored is stored, and past the details nothing that is typed is unsaved unless it was typed over a save.
`ReviewInv`: while the page is not blocked and its last save was acceptable, the draft it shows is one the schema of drafts accepts; that the
checklist and the schema of a submission agree on each list, and differ in the number of employees alone (`ChecklistAgrees`), are lemmas. So
`ReviewAgrees` rests on the saves: that the two agree on a settled page follows from what the schema of drafts refuses.

*All parts.* A step of `MCServer` is a step of one part and leaves the variables of the others alone (`PartSteps`), so the inductive
invariants of all of them hold together.

Only model-checked, and why:

* Liveness: `EvidenceSettles`, `NothingPends`, `IsPurged`, `NothingIsLeft`, `EveryUploadAnswered`, `DoomedStops`, `RowsAreVisited`. The prover does not
  treat fairness.
* `NeverRefused` in the form of `MCPayments`, which speaks of an `INSTANCE` of `FacilitiesPayment`. The prover cannot use
  the theorems of a module that is taken by `INSTANCE`; `FacilitiesNeverRefused` proves the same of `FacilitiesPayment` itself.

## 5. Plan

1. `PaymentCoordination`, `PaymentInvocation`, the two programmes, `PaymentPromise`. *Done.*
2. `FacilitiesFiles` and `SlotPromise`. *Done.*
3. `LegacyFiles` with drafts, reviewers and the certificate, under `SlotPromise`. *Done.*
4. `OtpLogin`, `UploadGate`, `MaintenanceJob`, with their proofs. *Done.*
5. `FacilitiesCase`: profile, submission, review, correction, with its proofs. *Done.*
6. The pages: `ProfileForm`, `FacilitiesWizard`, `FinalReview`, `LoginForm`, `SessionVisits`. *Done.*
7. `FileContent` and `ScanExchange`. *Done.*
8. Slots of a company profile in `FacilitiesFiles`: no quota, other rules for who may edit.
9. Proofs: evidence and the refinement of the payments, the disk and the refinement of both file stores, the budgets, the
   scan, the pages. *Done.*
10. The quota, the verdict on a file and the types of all parts, proved. *Done.*

A property that a refinement which is checked implies is left out: `PaymentPromise` has that money is
captured once.

## 6. Not modelled, and why

* Historical file verification: operator scripts that classify old files once, a row at a time, under the
  advisory lock the maintenance jobs share.
* Configuration of intakes, suppliers and questionnaires: one administrator, one row; what meets
  files, the publication of a template, is in `FacilitiesFiles`.
* Audit and export: rows written inside the transactions that are modelled, and read-only queries.
* The HTTP, JSON and SMS adapters: pure I/O. Their callers' models have a call that
  succeeds, is refused, or ends without the caller knowing.
* Markup, navigation, tables, seeding, deployment and release scripts: nothing that interleaves with the
  system's state.
* Permissions within the admin panel and checks of a request's origin: predicates without state. That a
  permission is revoked between two steps is not considered.
* Isolation weaker than the row lock: a modelled transaction is atomic from the lock it takes; the reads
  before it, which are not under it, are steps of their own where something may come between.
* Of one-time passwords: the budgets of addresses and of the whole site, further rows under the same rule; and the login of
  administrators, which has no code.
* Of the facilities case: several applications of one company, the requested amounts, the number of evidence files and
  `saveFacilitiesDraftDetails`.
* Of the file store: slots of the company profile, the
  creation of bindings, and the older tables of document references, which no current code writes.
* Of the facilities wizard: a second page of the same applicant, and a save that the page has given up and that arrives later.
  `updateFacilitiesApplicationDetails` compares no version, so with either the details that are stored need not be those
  that are shown; `FacilitiesWizard` and `ConfirmsWhatIsSaved` are about one page whose saves end before it goes on.
* Of the facilities submission: the one without a payment, for an intake that asks for none (`submitFacilitiesApplication`
  when `paymentEnabledSnapshot` is off).
* Of the scan: a cut-off reply whose virus name happens to end in the word that clean files are answered with.
* The last unreachable branch of `verification.ts` (`eocd + 22 > byteLength`).
