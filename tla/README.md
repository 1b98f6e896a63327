# Harbore in TLA+

Harbore scans web APIs: users create scans of targets x modules, an
orchestrator (Go) turns a scan into jobs and queues them in Redis, worker
containers (Go) run the jobs and post the results back, and PostgreSQL keeps
scans, jobs, findings and failures. This directory holds TLA+ models of the
orchestrator and the workers, the TLC runs that check them on small instances,
and TLAPS proofs of what holds on every instance. Everything is translated from
the code under `src/`; `PROJECT.json` names, for every definition, the lines it
models.

## 1. The system

### Components, state and operations

| Component | State | Operations | What makes it correct |
|---|---|---|---|
| Scan handlers `orchestrator/api/handlers/scans.go` | none of their own; rows and keys below | CreateScan, StartScan (+ dispatch goroutine), CancelScan, RetestScan, ReconcileRetest, GetScanProgress | a scan is started once at a time; a status is not overwritten by somebody who has not looked; a retest is compared when it is finished |
| Scheduler `orchestrator/scheduler/scheduler.go` | none | BuildPlan, Dispatch, HandleRetry, the retry ticker, container arithmetic | every planned job reaches the queue; a job runs at most `max_retries` times and is given up only then; the arithmetic stays within its limits |
| Job queue `orchestrator/queue/queue.go` | Redis: `harbore:jobs:queue` (list), `harbore:jobs:retry` (sorted set), `harbore:scan:active:<id>` (counter), `harbore:scan:lock:<id>` (key, 5 min) | one Redis command each, or a pipeline | a job is in at most one place and never in none; the counter says what is outstanding |
| Store `orchestrator/db/db.go`, `migrations/` | PostgreSQL: scans, jobs, failure_log, findings, organisations, assets, certificates, users | one statement each, no transactions | rows agree with what happened |
| Worker callback `orchestrator/api/handlers/findings.go` | the handler's locals between statements | WorkerCallback, ListFindings | concurrent reports do not undo one another; the scan ends after its last job |
| Worker loop `worker/main.go` | the job in hand | BRPOP, execute, POST, POST once more, shutdown | a job taken from Redis is reported |
| Worker modules `worker/modules/` | the findings and loop variables of a run | the checks of asset, auth, cert, compliance, crawler, fuzzer, passive, pci, vuln; NormalizeTarget, ResolveScheme | every run ends; no host can crash a worker or fail a job; a finding rests on an answer; the target has a scheme the host serves |
| WebSocket hub `orchestrator/websocket/hub.go` | clients per scan, a channel per client | register, unregister, Broadcast, pumps | no send on a closed channel, no loss but by a full channel |
| Log buffer `orchestrator/logbuffer/logbuffer.go`, debug handler, `Console.tsx` | a bounded slice, a counter, a partial line; the page's cursor and entries | Write, Query; polls | ids are consecutive, the newest entries stay, a cursor skips and repeats nothing |
| Retest `scans.go`, `findings.go`, `ScanDetail.tsx` | findings, their status; the page's timer | RetestScan, CreateFinding, ReconcileRetest, polling | what is marked fixed is gone; the page comes to an end |
| Inventory `assets.go`, `tls.go`, `orgs.go`, `orgctx.go` | rows | imports, upserts, edits, memberships | an upsert keeps what the user edited; nobody else touches what an organisation keeps |
| Auth, reports, router, config, container manager | - | reads, tokens, wiring | - |
| AI service, report service, agent | - | stateless | - |

### How they interact

    user --start--> StartScan --BuildPlan--> jobs rows
                       |  lock key, status, progress
                       +--goroutine: Dispatch--> LPUSH xN, then INCR xN, DEL lock
    worker: BRPOP -> run -> POST /internal/results (-> once more, as failed)
    WorkerCallback: job row | HandleRetry (GetJob, increment, ZADD) ;
                    DECR ; read scan ; write progress ; maybe status = completed
    ticker: ZREM + LPUSH of due retries
    user --cancel--> read status ; write cancelled

Nobody holds a lock across two of these steps. Every HTTP request has its own
goroutine, workers are processes of their own, and the Redis and PostgreSQL
commands of all of them interleave freely.

### What is hard

* **Interleaving**: a report against the dispatch that is still counting; two
  reports of one scan; two reports of one job; a start against a start; a cancel
  against a report.
* **Failure between two steps**: a lost POST or answer, a worker or an
  orchestrator that stops, a failed statement in the middle of a handler, a
  request context that ends with its client, the two minutes of the dispatch.
* **Counting**: the active counter decides when the scan ends, and is raised
  late, lowered for retries, and never raised for them.
* **Retries**: bounded by a column that several handlers may increment.
* **Absence taken for an answer**: a check that had no answer, a lookup that
  failed or a list that could not be read looks like a finding that is gone, or
  like a defect that nobody has seen.
* **Hosts that stop answering** in the middle of a check, with and without the
  job's deadline.
* **Cursors and ids** against eviction, restarts and overlapping polls.

The list of hazards, each with its line and its properties, is in
`PROJECT.json`.

## 2. Modules

| Module | What it is |
|---|---|
| `JobQueue` | Redis: the variables `queue`, `retry`, `active`, `lock`, one operator per command |
| `ScanStore` | PostgreSQL: the variables `scan`, `job`, `failures`, one operator per statement |
| `ScanLifecycle` | the processes that use them: start requests with BuildPlan and the dispatch goroutine, cancel requests, the retry sweep, workers, callback handlers, faults. `DB == INSTANCE ScanStore`, `Redis == INSTANCE JobQueue` |
| `ScanProperties` | the properties, the fairness, and what three comments of the source claim |
| `JobSpec` | the abstract specification: a planned job is tried at most `MaxAttempts` times and gets one final outcome. `ScanProperties` instantiates it with a refinement mapping from the rows of the jobs table |
| `MCScanLifecycle` | the instances for TLC |
| `ScanLifecycle_proofs` | proofs of the types, `StartExclusive` and `AttemptsBounded` |
| `ScanJobs_proofs` | where the work of a job is: proofs of `HeldOnce`, `AttemptCurrent`, `OutcomeFinal`, `JobsImplemented`, `GivenUpLast`, `NoJobLost` |
| `ScanCounting_proofs` | what the counters count, and that a scan is ended: proofs of `CounterAccounts`, `ProgressHonest`, `RestedScanEnded` |
| `Hub`, `MCHub` | the WebSocket hub for one scan: the map of its clients, each client's channel, connection and two pumps, and callers of Broadcast |
| `Hub_proofs` | proofs of the types, `MembersOpen`, `InCallOrder` and `NoneSkipped` |
| `Targets` | what NormalizeTarget makes of a target, in the orchestrator and in the worker |
| `Checks` | the nine scan modules: every check as a sequence of request loops, and what a lost, a telling and an unbuildable request make of each |
| `ScanModules`, `MCScanModules` | `executeJob` over these checks: the scheme, the deadline, the module's run, and a host that answers, refuses, stays mute and changes its mind |
| `ScanModules_proofs` | proofs of the types, `FindingsRest`, `OnlyTargetEndsRun`, `GuessCorrected`, `LateBounded` |
| `Retest`, `MCRetest` | a retest from RetestScan to the comparison: runs of jobs, reports stored finding by finding, the page's timer |
| `Retest_proofs` | proofs of `FixedIsGone` and `HandledStored` |
| `LogBuffer` | the log kept in memory: writes, eviction, ids, queries |
| `Console` | the page that polls it with a cursor, and is emptied when its user asks or changes the filter; over `LogBuffer` |
| `Console_proofs` | proofs of `EntriesAreNewest` and `FeedFaithful` |
| `Inventory`, `Inventory_proofs` | organisations, members, assets, certificates; and the proofs of its two properties |
| `MCRecords` | `Console` and `Inventory` side by side for TLC |

### From code to actions

A process is a function from its identities to a record with a `pc`; a pc value
names the statement or command the process takes next, and the other fields are
the local variables that are still to be used. So `start[s].pc` runs through
StartScan (`new`, `lock`, `plan`, `mark`, `progress`) and on through the
goroutine (`enqueue`, `count`, `release`), with `left` the jobs its loop has
left; `call[c].pc` runs through WorkerCallback (`outcome`, then HandleRetry's
`log`, `increment`, `requeue` or `fail`, then `decr`, `read`, `write`,
`finish`, `reply`). Each action is one statement with the early returns and the
error branch the code gives it; a branch that only logs is a disjunct in which
the command does not happen.

The processes, and what they are in the code:

* `Start`: POST /scans/{id}/start. Read the status, SETNX, insert the jobs, set
  running, write the progress; then LPUSH each job, INCR for each, DEL the lock.
* `Cancel`: POST /scans/{id}/cancel. Read the status, write `cancelled`.
* `RetrySweep`: the ticker. Any payload of the retry set may be due: delays are
  not modelled, so every order that some delays would give is there.
* `Worker`: pop, execute with either outcome, POST; on an error POST once more
  as failed, and go on.
* `Call`: a handler per POST. A worker waits for its handler's answer (one slot
  each), and handlers whose worker has stopped waiting run on detached.

`Hub` is written the same way and stands alone: `writer[c]` and `reader[c]` are
the pumps, `cast[b]` is the Broadcast a caller is in, one action per send,
receive, close or step of the range. The range over the map runs without the
lock, which is a data race: any change of that map by another goroutine may
make the runtime end the process (`MapWritten`), and otherwise the range
goes on with what is in the map. A panic ends the process too, but in a request
handler chi's Recoverer catches it and only the handler ends, which is why
callers are split into `Handler` and `Goroutine`. `epoch` tells an emptied map,
which is deleted, from the next one; `sent` is a history variable.

`Checks` is data, not actions: a check is a sequence of steps, and a step is a
record that says how many requests a loop makes, whom it asks and how, whether
the job's context ends a request and after how many seconds its own limit does,
and what the loop does after an answer, after none and when the request cannot
be built (`next`, `stop` the loop, `return` from the check, or `panic`, which is
the nil request that `http.NewRequest` leaves when its error is ignored).
`ScanModules` has one action per outcome of a request (`Answered`, `Told`,
`Lost`, `Unbuilt`, `Panic`), so one set of actions runs all of the modules; `run`
is the position. `basis` records with each finding what it rests on.

`Retest` looks at the same handlers as `ScanLifecycle`, at a different thing:
there it is jobs and counters, here it is what was found. `call[c].pc` runs
through HandleRetry (`retry`), CreateFinding's two statements for each finding
(`store`, `insert`), DECR (in `store` with nothing left), `finish` and `reply`;
`tick[t].pc` through one tick of the page (`completed`, `list`, `mark`).
`blind` and `missed` are history variables: they say that a finding may have
been missed, and which ones a handler failed to store.

`Inventory`'s `req[u]` is the request of a user: the membership check is a step
and each statement after it another, with an import one per host. A statement
that fails before anything has been done is as if the request had not been
made, so only later ones fail.

### Faults

`Faults` and `MaxFaults` say which kinds may strike and how often in all; the
history variable `struck` records which did, and a property that a kind of
fault breaks says so in its premise.

| Kind | In the code |
|---|---|
| `db`, `redis` | one statement or command returns an error and had no effect |
| `client` | the browser disconnects: every later use of `r.Context()` fails, the release of the lock too |
| `deadline` | the goroutine's two minutes end: the status update and the release fail as well |
| `post` | a POST does not arrive |
| `timeout` | the worker's 30 s end after the POST arrived: it posts again as failed, and net/http cancels the context of the first handler, which may notice at any of its next steps (`CallAbort`) or never |
| `worker` | SIGTERM or a crash; the posts use the context that the signal cancels, so the job in hand is dropped |
| `panic` | a broadcast panics inside WorkerCallback, because a viewer leaves (see `Hub`): before DECR, at the end of the scan or before the reply. The Recoverer ends the handler with a 500, and the worker that waits posts once more as failed |
| `orchestrator` | stop and restart: handlers and goroutines are gone, waiting workers see an error |
| `lapse` | a start outlasts the five minutes of the scan's key (`LockExpires`) |

For a lapse nothing has to fail: BuildPlan is a loop of INSERTs, targets times
modules, on the request's context, which no timeout ends, and up to two minutes
of dispatch follow. A second start may then take the key, and the release of the
first, a DEL that names no owner, deletes it. `lapsed` counts the lapses; they
share the bound `MaxFaults` with the faults, which `faults` counts. A key that
nobody goes by any more (a release failed) may expire at any time.

In `Retest`, `Inventory` and `ScanModules` what fails is an action of its own,
named for it (`InsertFindingFails`, `ListFindingsFails`, `Lost`), and the first
two count them against `MaxFaults` and `MaxErrors`. In `ScanModules` nothing is
counted: the host may change and the context may end at any step.

### Abstractions

* One scan. Scans share only the queues; other scans' payloads would be
  interleaved and touch nothing of this one.
* A payload is its job and attempt. Target, module, credentials and
  configuration are functions of the job (except that a retry drops the last
  two: `Guarded` in `Retest`).
* `MaxAttempts` is positive: CreateScan replaces other values by 3.
* `JobRunning` is never written by the code and is not a status of the model.
* BuildPlan's INSERTs are one step, since no other process can know a row's id
  before the loop ends; a failure, a lost client or a restart in the loop leaves any part
  of the rows.
* ZREM and LPUSH of the sweep are one step, since nobody else reads the set; a
  failure between them loses the payload (`RetrySweepFails`).
* A failed command has no effect; one that is applied and reported as failed is
  not modelled. Redis keeps what it acknowledged (the compose file runs it with
  append-only persistence). The counter's time to live of 24 h is not modelled.
* Storing findings sits between the job's row and DECR, touches none of
  `ScanLifecycle`'s state, and is the matter of `Retest`; broadcasts are the
  matter of `Hub`, and only their panic is a step here.
* `Retest` leaves out what `ScanLifecycle` has and findings do not depend on:
  job rows, the lock and the plan. The counter is the code's: one INCR per job
  after all of them are queued, between which reports are handled.
* What an answer tells is one title per loop, and every answer may tell it. So
  `Checks` says where findings can come from, and not whether a pattern matches:
  the Luhn check, masking and the analysis of HAR entries are not in it.
* A target is its form, scheme and port. Hosts and paths are left out.
* A line of the log is its level. Sources and search terms are filters like the
  level, and left out; so are the counts that go with an answer.

## 3. Properties and runs

Deadlock is checked in all but the retest run, in which one retest begins
and ends. In the lifecycle, `Rest`, a step that changes nothing, is enabled only
when every request is served, every process waits and the queues and the lock
are gone, so any other standstill is reported.

**`lifecycle_safety`** - one start, two jobs, two workers, two handlers, two
attempts, one fault of `post`, `worker`, `redis`. Two of everything give
concurrent reports of different jobs, retries while another job is queued, and
reports against the counting dispatch; two attempts give a retried and a
given-up job.

* `TypeOK`.
* `HeldOnce` - a job is in at most one of: the plan still to be pushed, the
  queue, the retry set, a worker, a handler that has not recorded its outcome.
* `NoJobLost` - and in at least one, while it is unsettled, if no fault has struck
  but one of the mild ones (`Mild`): a client that left, a POST that was not
  delivered, or a broadcast that panicked.
* `AttemptCurrent` - a payload, wherever it is, carries the attempt of its row.
* `GivenUpLast` - a failed job has used all attempts and is in failure_log,
  unless a store failed.
* `CounterAccounts` - what the active counter equals: INCRs, less recorded
  reports (retried ones included), plus the handlers on their way to DECR.
* `ProgressHonest` - lost updates lose counts and never invent them.
* `RestedScanEnded` - when everything has drained the scan is not `running`,
  after one mild fault at most.
* `JobsImplemented` - the system implements `JobSpec`: seen through the
  refinement mapping, every step of any process is a step of an abstract job or
  a stutter. In particular the row of a completed or failed job never changes.

**`lifecycle_faults`** - two starts (so: a failed or lost start and another
after it, or two at once when the key lapses), one job, one fault of any of the
ten kinds, two handlers (a detached one and the second post's). `HeldOnce`,
`NoJobLost`, `CounterAccounts`, `ProgressHonest` and `RestedScanEnded` once more,
now also with two dispatches that raise one counter and two plans that reset one
row's progress, and:

* `AttemptsBounded` - no payload stands for an attempt beyond `MaxAttempts`.
* `StartExclusive` - the lock does not keep starts apart. What holds is that those
  between taking it and giving it up are at most one more than the lapses, and
  one fewer than that while the key is free, when a further start could take it:
  the release of a key that is not the releaser's own lets in nobody beyond. Two
  starts show the second half; the theorem is for any number of them.
* `OutcomeFinal` - a completed or failed job's row never changes, which is what is
  left of `JobsImplemented` as a step property when only some faults are excluded.

A timeout, a restart of the orchestrator or a panic can make one execution count
twice, as the code is; `HeldOnce`, `AttemptCurrent` and `OutcomeFinal` exclude
these three (`NoDoubledReport`), `AttemptsBounded` and `StartExclusive` do not.

**`lifecycle_live`** - two starts, a cancel, one task, two workers, one undelivered
POST, under `FairSpec`: `RunningScanEnds` and `JobsServed`, the refinement of
`JobSpec` with its fairness (every open job is retried or settled). Assumed fair:
each start request once it has begun, each dispatch goroutine, the sweep, each
handler, and each worker unless it is held up. The code justifies it: they are
goroutines or processes that wait for nothing but their own next command (the
sweep for a ticker, the workers for BRPOP with a timeout, in loops that never
end). Not assumed: that users make requests, that faults strike, that keys expire.
The jobs settle because attempts run out.

A worker is held up while it runs a job of `Unending`: pci's handshake
(pci.go:122) asks no context and has no limit, so with a mute host it need not
end (see `RunsEnd` below). Nothing is assumed of such a worker. So
`RunningScanEnds` says that a scan ends or a worker is held up for ever, and
`JobsServed` promises an outcome to the other jobs only (`Served`), and only while
the jobs that may hold a worker up are fewer than the workers: as many as there
are workers can stop every queue. In the run the job of one start may hold its
worker up: the other start's job is served by the worker that is left, and where
the run does end, so does the scan.

**`hub`** - two clients, channels of one event (256 in the code), and two calls
of Broadcast in all by a handler and a goroutine: the second call meets full
channels, and both may hold the same client when one drops it.

* `TypeOK`.
* `MembersOpen` - a client in the map has an open channel and connection.
* `InCallOrder` - no event twice to one client, one caller's events in order.
* `NoneSkipped` - a broadcast that returns (rather than panics) has reached each
  client that was there when it began and still is.
* `LeaversForgotten` - unless the process ends, a client whose peer left is
  forgotten and both its pumps end. It assumes fair only the pumps of a
  connection that has ended, whose reads and writes return. Writes have no
  deadline, so nothing is assumed of the pump of a peer that stays and does not
  read.

"Unless the process ends" is not a formality: when a client leaves a scan that
has another one, its first pump's unregister closes the channel, that ends the
second pump, and the second unregister closes the channel again (`PumpPanics`).
No text of the repository claims otherwise, so no run refutes a claim; the state
is in the model and the hazard is listed.

**`scan_modules`** - one worker, job after job: any module or an unknown one, a
typed URL without a scheme, one with a port that suggests http, one with
http, a HAR file, a blank line, a malformed one; no token or an RS256 one; one
query parameter, three endpoints of an exposed specification of which two
answers are enough. The jobs are as a user types them (`Ingested = FALSE`), so
that the probe is reached. The bounds are those the branches need: with one
parameter and with none the fuzzer's loop differs in its length only, and three
endpoints against two answers make the inner loop end in both ways.

* `TypeOK`.
* `FindingsRest` - a finding rests on an answer or on the job, but for four: a
  name that did not resolve; a certificate that is not valid, which cert.go:47
  reads out of the text of any error, and that text holds the host's name; "no
  rate limiting" and "network scan completed", which are also said of a host that
  never answered (vuln.go:461; asset.go:246, since nmap exits 0 for a host that
  is down).
* `LateBounded` - checks that do not ask the job's context outlive it by 35
  seconds at most (cert's handshakes, one after the other; asset's ports take 28),
  but for pci, whose handshake has no limit: `HangsOn` lets the seconds go by there
  as long as the host is mute.
* `OnlyTargetEndsRun` - no host fails a job or crashes a worker; a malformed or
  blank target does, through a nil request.
* `GuessCorrected` - the modules run with a scheme that the host serves.
* `RunsEnd` - every job that is taken ends, but for pci's handshake, which has no
  limit, at a mute host. Fair is only the worker's goroutine: nothing makes a
  host answer, a request that waits for a mute one with no limit has no step.

**`retest`** - one finding of the first of two jobs, which only credentials lead
to, two attempts, two handlers, two ticks, one fault. A retry has no
credentials, as its payload comes from the job's row, and so finds nothing; what
was found is stored all the same, because a report that is posted once more as
failed still carries its findings. Two jobs make a scan that could end before the other one
reports; two handlers store the same finding at a time; two ticks overlap. More
findings would be stored independently of one another.

* `FixedIsGone` - what is marked fixed is gone from the host, unless `blind`: a
  request of the retest was not answered, a worker stopped, a statement about
  findings failed, or the scan was completed with a report outstanding.
* `HandledStored` - a handler that is done with a finding leaves a row of it,
  with two handlers at once and with lookups that fail.
* `RetestConcludes` - the page of a completed retest ends its waiting, unless a
  request of its own fails after it has stopped its timer (`Stuck`). Assumed fair:
  the browser's timer and its requests. Handlers and workers need not be fair: the
  property starts when the scan is completed.

The counter is raised and lowered as the code does it, so the scan may be ended
before all reports are in; the first two properties hold in spite of that
because `FixedIsGone` counts such an end as `blind`.

**`records`** - `Console` (a buffer of two entries, answers of one, a page of two,
three lines, two polls at a time, two runs of the orchestrator) or `Inventory`
(two organisations, two users, two addresses, two edits, two rows, one failed
statement), whichever `moves`. They share nothing, so nothing is lost by letting
one move in a behaviour; polls, addresses and edits are interchangeable.

* `EntriesAreNewest` - the buffer has the newest entries, with consecutive ids.
* `FeedFaithful` - while polls do not overlap, since the page was last emptied and
  with one run of the orchestrator, the page has the entries of its filter once,
  in order, and without a hole, unless an answer was cut to its limit.
* `EditsSurvive` - the last confirmed edit is on the asset for as long as it
  exists, whatever imports run; one that was cleared and found again has none.
* `OrgSealed` - what an organisation keeps changes only by requests of its
  members; one whose creation failed half-way never has a member.

Five runs show where a comment of the source and the code disagree (see
`findings` in `PROJECT.json`): `early_completion`, `double_start`,
`cancelled_scan`, `hub_broadcast` and `wrong_scheme`. None needs a fault.
`early_completion` is also what `FixedIsGone` leaves out (`blind`): a retest that is
ended too early is compared while a report is outstanding.
`wrong_scheme` is `GuessCorrected` once more, with jobs as the orchestrator
makes them: it normalises the target when a scan is created and planned, so the
worker finds a scheme and never probes, and a host that serves http only is
scanned by https.

Bounds: the numbers of requests, jobs, workers, handlers, attempts and faults,
all CONSTANTS. Handlers are bounded by the slots of `Call`: a POST that finds
no slot waits. One handler per worker and one detached one is what a single
fault can produce.

`ScanModules` needs no bound but those of the loops, `Console` and `Inventory`
bound lines, restarts, rows and failures.

Every property has a mutant in `PROJECT.json`: a defective variant of one
definition, kept beside it in the module, that the run refutes.

## 4. Proofs

Every safety invariant and action property of the passing runs is a theorem. The
theorems hold for every value of the constants under the modules' assumptions; a
hypothesis beyond those is named below.

### The scan: `ScanLifecycle`, `ScanProperties`

For every number of requests, jobs, workers, handlers, attempts and faults, and
from `ConstantsAssumption` alone (a finite non-empty set of tasks, a positive
`MaxAttempts`, known kinds of fault), with any number of lapses among the faults.

`ScanLifecycle_proofs`:

* `TypeCorrect` (`Spec => []TypeOK`). `TypeOK` is inductive because it ties a
  handler's fields to its pc: the lemma `CallShape` recovers, from the pc, which
  local variables a handler has. One lemma per process, one case per action.
* `StartsExclude` (`Spec => []StartExclusive`). Not inductive alone: SETNX lets in
  one more whenever the key is gone, whoever deleted it. So its second half, that
  without a key the starts in the section are at most the lapses, carries the first,
  and `LockInv` adds that the section is a finite set: a lapse raises
  the bound by one when it takes the key, and a release takes the key only
  together with a start, its own or not. Each action either keeps the section
  (`SectionKept`), leaves it (`SectionLeft`) or enters it (`SectionEntered`).
* `AttemptsStayBounded` (`Spec => []AttemptsBounded`). The attempt of a payload
  comes from what a handler compared with the maximum, not from the row, which
  other handlers may increment meanwhile; `AttemptInv` adds that a handler
  between the comparison and the ZADD holds an attempt below the maximum.

`ScanJobs_proofs`, which looks at one job at a time:

* `JobsHeldOnce` and `AttemptsCurrent` (`HeldOnce`, `AttemptCurrent`), from
  `JobInv`. Before its first LPUSH nobody has the job (`Fresh`, under every fault:
  a payload cannot outlive a restart before it exists). After that, unless a
  report was doubled, the places are single and exclude one another, who has the
  job knows the attempt of its row, and only an unsettled job is held (`Kept`).
  These are needed together: a handler may retry a job only because nobody else
  has it, and its attempt is the row's only because nobody else increments it.
* `OutcomesFinal` (`Spec => OutcomeFinal`). `RowsStep` says what a step may do to
  the jobs table: insert a plan, settle one open job, or increment the attempt of
  one that is open and below its maximum.
* `JobSpecImplemented` (`Spec => JobsImplemented`), for `Faults` without `timeout`,
  `orchestrator` and `panic`. Step by step: each alternative of `RowsStep` is a
  step of the abstract job, and every other statement changes nothing it sees.
* `GivenUpAtLast` (`GivenUpLast`). `GivenInv`: a handler that is about to fail its
  job has logged the last attempt, and one about to log has read that attempt.
* `NoJobsLost` (`NoJobLost`). With one mild fault at most a handler has a worker
  that waits for it and for no other one (`AttendInv`), so a worker that sees an
  error has still the job of that handler, and posts it again; and no dispatch
  has given its jobs up (`FailInv`).

`ScanCounting_proofs`:

* `CounterIsAccount` (`CounterAccounts`). `CountInv` is the equation with the
  finiteness of what it counts. `PlanInv`: what anybody holds has a row.
  Each INCR adds a job, each outcome adds one to the recorded and to the pending,
  each DECR takes a pending one and the counter down.
* `ProgressIsHonest` (`ProgressHonest`). A column lags behind by those who have
  recorded an outcome and not yet written it; and so does what a handler has read
  and not yet written, which is what makes a lost update harmless (`ProgInv`).
* `RestedScansEnd` (`RestedScanEnded`). The counter never exceeds the INCRs of the
  jobs still to be reported, plus the DECRs on their way (`AtMost`; retries only
  take it lower). So who decrements last finds it at or below zero, and a running
  scan always has somebody who will still do that (`Busy`). A second POST after a
  panic may DECR once more, for a job that has already been reported (`Repeated`,
  `Past`).

### The hub

For any clients, callers, capacity and number of calls; one invariant (`HubInv`)
for the first three theorems:

* `MembersStayOpen` (`Spec => []MembersOpen`). A connection is new only once, and
  nobody has had to do with one that is new (`Untouched`), so what Upgrade adds is
  open; `unregister` takes out whom it closes.
* `EventsInOrder` (`Spec => []InCallOrder`). `Numbered`: events carry the number of
  their call, and who has the one of the call under way has been dealt with, so
  the range does not come to it again.
* `NobodySkipped` (`Spec => NoneSkipped`). `Reaching`: as long as one of the clients
  a broadcast began with is left, the map is the one it ranges over, and whoever
  of them has been dealt with has the event. A range that is over has dealt with
  all of them.
* `ChannelsTyped` (`Spec => []TypeOK`), the bound on each channel included.
  `ChannelInv` adds that no caller has made more calls than all together, and that
  one inside Broadcast has made one, so what it sends has a number in range.

### The scan modules

`ScanModules_proofs`, for any targets, tokens, query parameters and endpoints. The
first part is about the table: `ChecksSteps` says, module by module, what all steps
of its checks have in common (`IsStep`: which loops have an inner one, which can
panic, which do not ask the context, and which findings need no answer).

* `ModulesTyped`, `FindingsRestOnAnswers`, `HostsEndNoRun` (`TypeOK`,
  `FindingsRest`, `OnlyTargetEndsRun`), from `ModulesInv`: inside a check the run is at
  a step of the job's table (`Placed`), to which `IsStep` applies.
* `GuessesCorrected` (`Spec => [](IF Ingested THEN GuessKept ELSE GuessCorrected)`).
  `GuessInv` follows the four probes of a target as typed: the alternative is asked
  only when the first scheme is not served. `KeptInv` says of the orchestrator's
  targets that they are never probed, so that its guess stays, served or not; which
  is why `wrong_scheme` refutes `GuessCorrected` for them.
* `LateIsBounded` (`LateBounded`). `LateInv` gives every position of cert and asset a
  budget of seconds; one request spends the difference between two of them. That a
  wait without end (`HangsOn`) is pci's comes from the table: `IsStep` says that no
  other module has a dial that neither the context nor a limit ends.

### The log and the page

`Console_proofs`, from a positive capacity and limit, for any writes, polls, filters
and runs of the orchestrator:

* `BufferIsNewest` (`LogSpec => []EntriesAreNewest`). Inductive with the types; the
  lemma `NewestSuffix` says which elements `Newest` keeps.
* `FeedIsFaithful` (`ConsoleSpec => []FeedFaithful`). The page ends at its cursor and
  has all that the buffer has of its span (`PageInv`); the one request there is asks
  from that cursor, and its answer continues it (`AnswerInv`). `QueryAnswers` is what
  carries it from the buffer: what Query picks (`PickedInOrder`) and cuts
  (`NewestOfRising`) is a rising end of what the filter lets through. Eviction only
  makes what has to be shown less (`Grows`).

### Retest and inventory

`Retest`, from `RetestAssumption` (each finding has its job, there are finitely many
jobs, a positive number of runs):

* `FixedStaysGone` (`RetestSpec => []FixedIsGone`). A verdict depends on a list,
  the list on the end of the scan, and that on the last report; `RetestInv` ties
  them together. As long as nothing was missed, a job that has reported has its
  findings stored or a handler that is storing them (`Delivered`, which needs
  `Held` and `Found` to say what a handler and a worker have in hand); so the report
  that ends the scan with none outstanding ends it with every finding stored
  (`EndsStored`; in whatever order reports and INCRs come), and a comparison, which starts after that, has them all in its
  list. One lemma per group of actions.
* `HandledIsStored` (`RetestSpec => []HandledStored`). A handler's list is compared
  with what its run has found, so that must not change under it: a run begins once.
  `StoredInv` adds to `RetestInv` that the next attempt has not begun while the
  report that may queue it is still to be handled (`Onward`), and that one handler
  at most may (`Handlers`), because a worker posts the failed report of an attempt
  once.

`Inventory`, from `InventoryAssumption` (an organisation, a founder among the users,
natural bounds, edits that differ from "none"):

* `EditsAlwaysSurvive` (`InventorySpec => []EditsSurvive`). Confirmations are kept
  by a row's id, so it needs `OwnId` (no two rows have an id in common, none is
  given again) and that nothing is confirmed of ids still to come.
* `OrgStaysSealed` (`InventorySpec => OrgSealed`). `Admitted`: whoever was let in
  when a request began is still a member at its last statement, because no
  membership ends.

### What stays with TLC

The liveness properties (`RunningScanEnds`, `JobsServed`, `LeaversForgotten`, `RunsEnd`,
`RetestConcludes`) and the fairness half of the refinement of `JobSpec`: a proof
needs ENABLED, which is out of the prover's reach. And the five
disagreements, which are counterexamples.

## 5. Not modelled, and the plan

In this order:

1. The refinement of `JobSpec` under `panic` and `timeout`, against an abstract job that
   may be reported twice: today these faults are only excluded.
2. The scheduler's arithmetic (container count, batch size, estimate): the numbers
   are shown to the user and steer nothing.
3. What an answer tells: the Luhn check, masking, HAR entries.

Left out:

* Handlers and statements that only read (lists, progress, reports, the system
  overview).
* Login, tokens, profiles and the auth middleware: single statements on the users
  table that nothing else depends on. A request in `Inventory` has a user already.
* The AI service, the report service and the agent (stateless scripts and HTTP
  services), the router and the configuration (wiring), the container manager
  (nobody calls it).
