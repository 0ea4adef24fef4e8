# Verification of the Managed AutoML API

TLA+ models, TLC runs and TLAPS proofs about the program in `src/` (Managed AutoML API 0.8.0, a
FastAPI service in `src/apps/api/src/automl_api/` and a Python SDK). All paths below are relative to
that package unless they start with `src/`.

Run a check with `tlc -config <file>.cfg <module>.tla` (the runs are listed below) and the proofs
with `tlapm ExecutionJobProofs.tla`, and likewise for `DurableRunProofs`,
`CrashFreeProofs`, `RequestsProofs`, `WebhookProofs`, `FeedProofs` and `BackupProofs`.

## 1. The system

One process, one asyncio event loop. In the durable mode every resource lives in one SQLite file: a
snapshot row that holds all resources as JSON, rewritten by one transaction per mutation
(`persistence.py:280`), and the table `execution_job`, one row per run.

A client creates a **run**. A **worker** claims the run's job under a lease and calls the workflow's
handler for the job's step: PROFILE, then RESOLVE_TASK, then TRAIN. A handler may leave the run
waiting for answers (a **decision packet**) or for an **approval**, and a client may pause, resume or
cancel it at any time. Training runs in a thread, which calls back into the loop to publish the PLAN
and TRAIN stages while it goes on.

What runs alone is what lies between two suspension points of one coroutine: a thread, a contended
`_visibility_lock`, an artifact upload, the heartbeat's sleep, and the worker task resuming after its
handler's task. Store calls are `async` but never suspend.

| Component | State | Operations | How it interacts | What makes it correct |
| --- | --- | --- | --- | --- |
| Execution-job table (`persistence.py`) | status, attempt, lease, generation, epoch per run | create, wake, claim (with sweep), renew, checkpoint, complete, retry | called by worker, workflow endpoints and callbacks | one live lease; a lost fence never revives; closed rows stay closed |
| Durable store (`persistence.py`, `store.py`) | runs, packets, commands, outputs, events, results, approvals, models, ... | one transaction per mutation; `finalize_run_with_result` writes four resources at once | under everything | results are immutable, terminal state and result appear together |
| Workflow (`durable_workflow.py`, `workflow.py`) | none of its own but the lock | create, answer, pause/resume/cancel, three step handlers, stage callbacks, fail, ensure jobs | reads and writes the store, wakes the job | stages once and in order, with their evidence; questions block; a terminal run stays so; every run ends |
| Worker (`worker.py`) | poll task, claimed ticket | poll, claim, heartbeat, verdict, retry with backoff, dead, stop | the workflow's scheduler | no job abandoned, no stale verdict applied |
| Approvals (`app.py`) | OPEN to decided or EXPIRED | decide | without the lock | only approved models are registered |
| Idempotency (`app.py`, `store.py`, SDK) | key to IN_PROGRESS or a stored reply; waiters | begin, wait, complete, abort, replay; the SDK resends under the same key | wraps every write endpoint, inside the request limit of `hardening.py` | work once per begun record; the recorded reply to everybody; no waiter forgotten; slots returned |
| Webhooks (`webhooks.py`, `app.py`) | endpoints with two secrets, an outbox of deliveries, one dispatcher | create, rotate, enable, delete; dispatch, deliver, retry, exhaust, redeliver, recover | events append deliveries in the same transaction; HTTP | per-run order, at least once, attempts bounded, verifiable signatures |
| Synthetic workflow (`workflow.py`) | a run's row, packet and event log in memory | create, answer, pause, resume, cancel | driven by clients; appends events | what readers of events are promised |
| Event log, streams (`store.py`, `app.py`, SDK) | sequence per run, conditions, stream slots, cursors | append, wait, stream, page; resume, deduplicate | readers of a run that others drive | nothing skipped or doubled, complete at a clean end, no lost wake-up |
| Datasets, uploads, deletion, artifacts (`workflow.py`, `storage.py`, `app.py`, SDK) | dataset versions, parts, objects, artifacts, deletion jobs, partial downloads | put, finalize, publish, delete, download | cancels runs, removes files | rows have their bytes; nothing left after a completed deletion; whole files installed |
| Backup (`backup.py`) | snapshot and object copies | backup, restore, roll back | the database and the objects of a running service | a backup is one consistent state, a restore all or nothing |
| Limits (`hardening.py`, `limits.py`) | active requests, stream slots, token buckets | admit, release | middleware | caps hold, slots are returned |
| Backends (`ml_engine.py`, `backends/`) | none durable | run with callbacks | a thread of the handler | numerics: not a model checker's matter |
| Auth, credentials, HTTP surface, visualization, rest of the SDK, deployment | per request | see `PROJECT.json` | - | - |

The hard behaviours: control commands and answers racing a handler that is suspended; fences that are
revoked under a running attempt; crashes between any two of a handler's many transactions; steps that
are retried from their start; approvals decided without the lock; retries, exhaustion and stop;
requests resent while the first is still handled; readers that wait for what others append; copies
that are read twice while they change.
`PROJECT.json` lists them under `hazards`, each at its line.

## 2. Modules

| Module | Models | Kind |
| --- | --- | --- |
| `JobTable` | one row of `execution_job` and what each SQL statement does to it | operators |
| `ExecutionJob` | the table, its clock, and every caller that still holds a ticket | state machine |
| `FencedLease` | what the table promises: leases one at a time, under fresh tickets, ended for good | abstract specification |
| `ExecutionJobProofs` | the proofs about `ExecutionJob` | theorems |
| `RunStore` | the durable state of one run, and the workflow's helpers as sequences of transactions | operators |
| `DurableRun` | the handlers, worker, endpoints, callbacks, crashes and restarts of one run | state machine |
| `DurableRunProofs` | the proofs about `DurableRun`, wherever it crashes | theorems |
| `CrashFreeProofs` | the proofs about `DurableRun` until its first crash or stop; extends `DurableRunProofs` | theorems |
| `Requests` | the SDK's retry loop, the admission middleware and the idempotency wrapper | state machine |
| `OncePerKey` | what an Idempotency-Key promises: taken, done, answered for good, or released | abstract specification |
| `RequestsProofs` | the proofs about `Requests`, its refinement of `OncePerKey` included | theorems |
| `WebhookDelivery` | endpoints, outbox and dispatcher | state machine |
| `WebhookProofs` | the proofs about `WebhookDelivery` | theorems |
| `SyntheticRun` | one run of the synthetic workflow: row, packet, event log | actions |
| `EventFeed` | that run, read over streams and pages by the SDK, which also drives it | state machine, composed with `SyntheticRun` |
| `FeedProofs` | the proofs about `EventFeed`, and so about `SyntheticRun` | theorems |
| `Datasets` | a dataset version, its run's artifacts, deletion and download, file by file | state machine |
| `Backup` | backup and restore beside the running `Datasets` | state machine, composed with `Datasets` |
| `BackupProofs` | the proofs about `Backup`, and so about `Datasets` | theorems |
| `MC...` | instances for TLC | - |

`ExecutionJob` and `DurableRun` share the row operators of `JobTable`: the workflow runs on the same
table that is proved about. `ExecutionJob` lets any ticket be presented at any time, by anybody, which
includes everything the one process of `DurableRun` does.

### Job table

`jobs` is the table, `now` SQLite's clock in ticks, `issued` every ticket (run, generation, epoch)
that a claim ever returned. One action per store operation; each is one transaction under the
durability lock. A refused operation (JobFenceError, a closed job) changes nothing and is no step.
`ClaimNothing` is the claim that returns None, whose sweep of exhausted leases is committed all the
same.

### Durable run

`db` is the file: the run's row, its job, packets, approval, model, result, the stage-completed
events, how many outputs of each type exist and how many output.committed events, and how many
commands of each type are not SUCCEEDED. `up` and `poll` say whether process and poll loop are alive,
`h` is run_once (its suspension point, ticket and verdict), `cb` the callback a training thread waits
for, `used` counts the environment's actions against their bounds.

An action is the code from one suspension point to the next. Because that code makes several
transactions, it is written as a *section*: the sequence of states of the file it goes through. The
action either ends in the last one or, when a crash is still allowed, dies in any earlier one
(`CrashDuring`).

| Actions | Code |
| --- | --- |
| CreateRun, Answer, Pause, Resume, Cancel | `durable_workflow.py:64-268`, `workflow.py:1513-1664`; resume and cancel include the wake that follows them |
| DecideApproval | `app.py:1923-2150` |
| Claim, Sweep, Dispatch | `run_once`, the claim's sweep, `handle_execution_job` |
| CommitProfile, ResolveTask, StartTraining | the three step handlers after their first suspension; FindsTerminal is the early return of each |
| CallBack, CallbackFindsTerminal, PublishTask, PublishSplit, PublishTrials | `_publish_backend_stage`, split where it waits for the lock and where it uploads |
| SplitUploadFails | the callback whose upload raises with the lock held |
| PositiveClassRequired, AskPositiveClass, TrainingFails, FailTraining | the exceptions of the backend's thread |
| BeginPublishing, PublishOutput, ClosePublication | `_publish_result`, split at its uploads |
| HandlerRaises, ApplyVerdict, RetryAfterError, FenceRaised, HeartbeatFenced | what `run_once` makes of a handler's end |
| Crash, Stop, Restart, LeaseExpires, BackoffElapses | the process and time |

Abstractions, each named where it is made: time is relative (a lease is live or over, a backoff runs
or has elapsed); revisions are left out because every writer passes the one it read in the same
section or under the lock it still holds; the trials of one run are one output; a question is a topic;
REQUEST_CHANGES and REJECT are one decision. Other lock holders (another run, a dataset upload) appear
as waits of any length. A lease expires only while no handler runs: the heartbeat renews it every
third of its length, and nothing in a handler blocks the loop for long. A graceful stop ends a
callback at once, although one that holds the lock may still write during the few turns of the loop
before the store closes: it writes other rows than the stop, so that is `PublishSplit` before `Stop`,
cut short in some cases. The answer to a new packet may
come before the worker has written the verdict of the handler that asked: that window is a few turns
of the loop wide.

### Requests

`calls` is the SDK's side (which attempt, how it ended), `reqs` where each attempt's handler is
suspended, `records` the durable idempotency records, `done` whether the work behind a key was done
since its record exists, `notices` the scheduled wake-ups, `active` the count of `ServiceMetrics`. A
handler goes entered, execute, finish; a second request with the key goes checking, parked. `Execute`
is the endpoint, reduced to its outcome: success, an APIProblem (of the kind the SDK retries or not) or
another exception, each with or without its work done. A request that is refused before its record is
begun (`app.py:489`) leaves nothing behind and is left out. A caller that gives an attempt up sends the
next one while the first goes on. `Cancel`, `FinishFails`, `BeginFails` and `Crash` are the faults.

### Webhook delivery

`outbox[e]` lists the deliveries of an endpoint in the order of their events. `at` is the rank of a
delivery's created_at among such texts, chosen freely from `Stamps`: the dispatcher sorts by the text
and, where two are equal, by the id, which counts up (`Precedes`). A later event's rank may be lower,
because `isoformat` leaves out a fraction of zero ("05Z" sorts behind "05.3Z") and a clock can be set
back. `due`, `old` and `expired` stand for the comparisons with next_attempt_at, max_age and the
redelivery window; the first compares texts too and may take a delivery up to a second early or late,
which is another backoff. `worker` is the dispatcher: `Dispatch` runs from the listing to the write of
DELIVERING and the POST, `Succeed` and `Fail` write the outcome, `Stop`, `Crash` and `OutcomeLost` are
what happens instead. `gaveUp`, `lost` and `extra` are not in the row: they remember that a delivery
was once EXHAUSTED, that the write of its outcome failed, and how many attempts operators and faults
added.

### Event feed

`run.log` is the event log; an event is its index. `conns` are the generators of `sse_stream`, one per
connection, with what is in the network (`wire`); `client` is one reader (a stream, pages of events or
pages of outputs) and `driver` the SDK's ask-and-answer flow. Steps are cut where the code awaits:
between the page and the snapshot, between the look and the wait. `Drop` breaks a connection. Left out
are the stream's look at the caller's rights every 30 seconds, the 410 of a position that is no longer
retained, and the SDK's limit on reconnects.

### Datasets and backup

`rows` are the rows (the version, its dataset's deleted_at, the run and its artifacts, the deletion
job with the artifacts it listed), `disk` the files: the upload's part, the version's object and each
artifact.
`section` is the handler that holds the visibility lock (finalize: hash, copy, install; or a
publication), `deleting` where a deletion's handler is, `puts` the uploads that are streaming: they
take no lock. A deletion begins with several transactions (`JobMade`, `DatasetDeleted`, `Revoked`)
without a suspension between them: `DeleteBegins` is all of them, `CrashInDeletion` any beginning of
them. One deletion runs at a time. `Backup` adds the three copies of `create_backup` and the moves of
`restore_backup`, one path at a time, each of which can fail. A service that was killed before the
restoration leaves its write-ahead log (`restore.log`), and `Reopen` may then find the restored
database or, the log replayed into it, the old rows (`Mixed`).

## 3. Runs

| Run | Configuration | Bounds | Result |
| --- | --- | --- | --- |
| `job_table` | `MCExecutionJob.cfg` | 2 runs, 2 attempts, lease of 2 ticks, delays 0 and 1, clock to 4, 3 generations, 1 wake per row | seven properties hold (631,769 states) |
| `durable_run` | `MCDurableRun.cfg` | both questions (one of them perhaps answered beforehand), approval, 2 attempts, 2 commands, 1 crash or stop, 2 exceptions, fair | twelve invariants, one action property and two liveness properties hold (820,672 states) |
| `pause_lost` | `MCPauseLost.cfg` | 1 pause | violated |
| `terminal_reopened` | `MCTerminalReopened.cfg` | 1 cancel | violated |
| `resume_stuck` | `MCResumeStuck.cfg` | a pause and a resume, fair | violated |
| `restart_stuck` | `MCRestartStuck.cfg` | 1 crash, questions, fair | violated |
| `webhook_delivery` | `MCWebhookDelivery.cfg` | 1 endpoint, 2 runs, 2 events, 2 ranks of stamps, 2 attempts, 1 fault, 1 redelivery, 1 rotation, fair | four invariants and liveness hold (1,446,346 states) |
| `requests` | `MCRequests.cfg` | a call of up to 3 attempts and one of 1 with another body, one key, 2 active requests, 1 fault, fair | three invariants, liveness and the refinement hold (151,494 states) |
| `event_feed` | `MCEventFeed.cfg` | 1 pause or resume, filters all and outputs only, pages of 4, 1 stream slot, 2 events in the network, 1 break, fair | three invariants and liveness hold (252,746 states) |
| `backup` | `MCBackup.cfg` | 2 contents, 2 artifacts, 2 uploads, 2 finalizations, 1 deletion, 1 download over a partial file of none, one or both blocks, 1 fault, 2 tries, 1 backup, symmetric | four invariants hold (9.1 million states) |
| `dangling_run` | `MCDanglingRun.cfg` | 1 upload, 1 finalization, 1 deletion | violated |
| `restored_mixed` | `MCRestoredMixed.cfg` | the same with 1 backup and 1 kill | violated |

Why the bounds are enough. Two runs are the fewest that compete for the single lease; three
generations let a ticket be overtaken twice, by a retry and by a reclaim; a clock of 4 lets a lease
expire, be reclaimed and expire again, and `MaxGen`, `MaxEpoch`, `MaxTime` only cut behaviours
further out (the proofs hold for any values). In `DurableRun` two attempts distinguish "last" from
"not last", and two exceptions exhaust a job; two commands give pause-resume, pause-cancel and cancel
after anything; one crash or stop comes before, in or after every section, and the restart is part of
the run. Larger instances of the same specification were checked outside of the regular runs, which
should stay short: 3 attempts, 3 exceptions, 2 commands and a crash with all properties (1.8 million
states, 4 minutes); 3 attempts, 2 commands, 2 crashes and no exception with all properties (1.7
million); 2 attempts, 2 commands, 2 crashes and an exception with the invariants (6.0 million).
`MaxCrashes`, `MaxControls` and `MaxFailures` bound what the environment
does, never what the code does. `CHECK_DEADLOCK FALSE` everywhere: a run that has ended, a table at
its bounds, and a dead poll loop really stop.

In `Requests` three attempts let a caller resend while two older attempts are still handled, and the
other body meets the key in each of its states; a key is all that connects calls, so more keys add
independent copies. In `WebhookDelivery` two deliveries are the fewest that can overtake each other, of
one run or of two, and two ranks let their stamps sort either way or be equal; two attempts distinguish
the last from the others; the proofs cover any number. In `EventFeed` the log has 7 to 15 events, so
that pages of 4 end inside and at the end of it, and a filter leaves the position behind the end of the
log; one slot makes a reconnect meet a stream that was not reaped. In `Backup` two contents tell a
replaced part from the declared one, two artifacts tell the file of one download from another's, and
one fault lets a crash, a kill before the restoration or a failing move hit any step. `MaxFaults`,
`MaxDrops`, `MaxControls`, `MaxRedeliveries`, `MaxRotations`, `MaxPuts`, `MaxFinalizes`,
`MaxDeletions`, `MaxDownloads`, `MaxBackups` and `MaxEvents` bound what users and the environment do,
never the code; `MaxAttempts`, `MaxSends`, `MaxActive`, `PageSize`, `Capacity`, `MaxTries` are the
code's settings, made small.

Fairness (`FairSpec`): the event loop runs every ready task and threads return (WF of Worker);
clocks advance (BackoffElapses, LeaseExpires); the service is started again after a crash (Restart);
somebody creates the run and answers a question that is open (CreateRun, Answer) - the last is an
assumption about the user, without which WAITING_USER is a legitimate end. Nothing is assumed about
commands, approvals, exceptions and crashes. A run at rest is TERMINAL, PAUSED or WAITING_APPROVAL.

In `Requests` the event loop runs every handler that can run, and timeouts elapse (WF of Handle, per
attempt) and scheduled wake-ups happen; nothing is assumed about the SDK. In `WebhookDelivery` the
dispatcher is started again, goes on, and a POST ends within its timeouts; each backoff elapses. In
`EventFeed` generators, wake-ups, the clients and the answer's handler go on; a stream does not rely
on the fifteen seconds of its heartbeat, nobody needs to operate, no connection needs to break.

### Properties

Of the table: `OneLiveLease`, `OneTicketPasses`, `LostFenceStaysLost`, `ClosedRowsStayClosed`,
`DeadMeansExhausted`, and the refinement `ImplementsFencedLease`.

Of a run, wherever it crashes: its result never changes (`ResultImmutable`) and appears with the
terminal status (`TerminalIsSettled`); stages complete once, in order, after their outputs
(`StagesInOrder`, `StagesHaveEvidence`); retried steps repeat no output (`OneOutputPerType`); one open
packet at most, and only beside a run that waits (`OpenPacketBlocks`: a packet may stay open on a run
that was paused or that failed while it was asked, never on one that goes on); models only after
approval (`OnlyApprovedModels`); no job completed early (`CompletedJobEndsRun`).

Of a run until the process first crashes or stops (`used.crashes = 0` in the property): a run that is
to go on has a claimable job whenever the worker is idle (`RunnableRunHasWork`); a dead job's run has
failed (`DeadJobFailsRun`); the quality report is written once (`OneQualityReport`); answers are
applied before training (`AnswersAppliedFirst`). The condition is needed, and the model shows where
each fails without it: a crash between `update_run` and `wake_execution_job`; one in the last attempt
(the claim's sweep closes the job and tells nobody); one between the profile's writes and its
checkpoint. Other faults, exceptions and the end of the poll loop among them, are not excluded.

And it comes to rest: `UncrashedRunEnds`, of a process that is not stopped and whose poll loop
survives, under any answers, commands and exceptions; `UndisturbedRunEnds`, of a run that was asked
and commanded nothing, wherever a crash or stop cuts it, while crashes and exceptions are fewer than
its attempts. What the two leave out is what the divergences 1 to 4 below show: a poll loop that died,
and a crash inside a question or an answer. `RunEnds` and `RunEndsWhilePolled` are the properties
without these conditions, and violated.

Of requests: an answer from a record is the recorded one (`RepliesAreRecorded`), no waiter sleeps on a
settled record (`NoLostWakeup`), the count of active requests is exact (`SlotsBalanced`), everything
that gets in is answered (`RequestsEnd`), and the whole implements `OncePerKey`
(`ImplementsOncePerKey`).

Of webhooks: `InRunOrder` (of two events of a run whose stamps sort as they happened, the later is sent
only after the earlier was acknowledged or given up; see divergence 7 for the others),
`DeliveringIsPosted` (the mark that hides a delivery belongs to the POST in flight),
`AttemptsBounded`, `SignatureVerifiable` across a rotation, and `DeliveriesSettle`.

Of readers: `DeliveredInSequence` (in order, once, without a gap, through breaks, filters and pages),
`EndedIsComplete` (a clean end means everything), `NoLostWakeup`, `ReadersEnd`.

Of datasets and backups: `RowsHaveBytes` (a READY version of a dataset that is not deleted has its
bytes, and the right ones, and a COMMITTED artifact its own), `DeletionIsThorough` (of the artifacts
the deletion listed), `InstalledIsWhole`, `BackupIsWhole`. The first two are about every state but those
after a mixed restoration (divergence 6).

### Where the code does not do what the documents say

1. **A pause is overwritten** (`pause_lost`). `src/docs/api-route-reference.md:543`: after a pause the
   workflow is not scheduled further until it is resumed. The handlers check only for TERMINAL before
   they write RUNNING, QUEUED or WAITING_USER (`durable_workflow.py:312, 591, 651`).
2. **A canceled run comes back** (`terminal_reopened`). `src/docs/automl-api-design.md:141`: the
   terminal state is irreversible. If the backend finds that it needs the positive class after the run
   was canceled, `_request_decision` makes it WAITING_USER (`durable_workflow.py:934`).
3. **A resume can end the worker** (`resume_stuck`). `src/docs/api-route-reference.md:556`: resume
   continues a paused run. Resuming (or canceling) a run whose job is leased revokes the fence; the
   JobFenceError leaves `run_once` and `_poll_loop` (`worker.py:159`, `251`), and no job of any run is
   claimed until the process restarts.
4. **A crash can strand a run** (`restart_stuck`). `src/README.md:88`: a restart resumes non-terminal
   jobs. A crash between the run's WAITING_USER and its packet, or inside `answer`, leaves a run that
   each restart parks again (`durable_workflow.py:531`, `235`).
5. **A run without its dataset** (`dangling_run`). `src/docs/automl-api-design.md:556`: data that entered
   the deletion saga can no longer be referred to by a new run. `finalize_dataset` writes READY from a
   version it read before it moved the bytes (`workflow.py:450`): a version marked DELETED meanwhile
   (`app.py:2643`) is READY again, `create_run` looks at nothing else, and the deletion goes on to
   remove the bytes of the run it never listed.
6. **A restoration that is not one** (`restored_mixed`). `src/docs/single-node-production.md:241`: a
   restore moves the old managed state aside. It moves `automl.db`, `objects` and `ticket-secret`
   (`backup.py:19`, `298`), but the database is in WAL mode (`persistence.py:100`). A killed service
   leaves `automl.db-wal`, which SQLite replays into the restored file: the old rows beside the restored
   objects. What the service makes of such a mixture is not followed.

Met while modelling, and part of the models (no run of their own):

7. **Deliveries that swap.** `src/docs/api-route-reference.md:766`: after `:enable` the unfinished
   deliveries go on in order. They are sorted by the text of created_at (`webhooks.py:307`), which omits
   a fraction of zero: the delivery of an event stamped on the whole second sorts after those that
   follow it within the second, and each goes before it if it is still unfinished. `InRunOrder` is about
   pairs whose stamps sort as they happened.
8. **Paused over disabled.** An exhaustion writes PAUSED_DELIVERY_FAILURES over DISABLED
   (`webhooks.py:469`), and enable revives a deleted endpoint. A failing outcome write leaves
   DELIVERING, which hides the rest of the run until the next start (`lost`; `DeliveriesSettle` makes
   the exception). A redelivery neither resets attempts nor the first attempt's time, so its first
   failure exhausts it again.
9. **A deletion that leaves something.** An artifact published while a deletion waits for the lock is
   not in its list and survives a COMPLETED deletion; a run that ended meanwhile turns the deletion
   FAILED through cancel's 409; a crash leaves its job RUNNING.
10. **Retrying what is recorded.** A 429 or 503 raised by an endpoint is recorded and replayed to the
   SDK's retries under the same key. A crash, a cancellation or a failing write leaves the key
   IN_PROGRESS, and records do not expire: the key is refused for good (waiters get 409 after 30
   seconds, which the SDK does not retry).
   After work that was done, an aborted record lets a retry do it again: `OncePerKey` has `Release`.
11. **A broken stream of a finished run.** `src/docs/automl-api-design.md:573`: after a reconnect at any
   point the events are complete. When a connection breaks after the run became TERMINAL, the SDK
   returns without the rest (`client.py:646`); a reconnect that meets the stream cap raises. A stream
   whose generator never started keeps its slot (`app.py:1345`; `leaked`). A report that cannot be
   stored leaves a synthetic run RUNNING with its packet answered (`workflow.py:1318`).
12. **Expiry of an upload.** `sign_upload_parts` hands out URLs valid for 15 minutes without extending
   upload_expires_at (`workflow.py:355`, `386`). Expiry is not in the model.

### Defective variants

Each property of a passing run has a variant of the code under which TLC finds it violated; the
variants stand beside the definitions they replace and no specification uses them.

| Property | Definition | Variant: what the bug is |
| --- | --- | --- |
| TypeOK (table) | Claimable | ClaimableWithoutLimit: no attempt limit |
| OneLiveLease | AnyLive | AnyExpired: the active-lease test the wrong way round |
| OneTicketPasses | FenceHolds | FenceWithoutGeneration: only the epoch is compared |
| DeadMeansExhausted | Retried | RetriedOnceTooFew: off by one |
| LostFenceStaysLost | Claimed | ClaimedSameGeneration: a claim does not count |
| ClosedRowsStayClosed | Wake | WakeAnyStatus: closed jobs are woken |
| ImplementsFencedLease | FenceHolds | FencePastExpiry: expiry is not tested |
| TypeOK (run) | ResolveTask | ResolveTaskKeepingCommand: pending_command_id is not cleared |
| TerminalIsSettled | Finalize | FinalizeInTwoWrites: the run, then its result |
| StagesInOrder | CompleteStage | CompleteStageAgain: no look at earlier events |
| OneOutputPerType | CommitOutputOnce | CommitOutput: no look for an earlier output |
| StagesHaveEvidence | PublishSplit | PublishStageFirst: the stage before its output |
| OpenPacketBlocks | RequestDecision | RequestPacketFirst: the packet before the run waits |
| OnlyApprovedModels | DecideApproval | RegisterBeforeDeciding: the model before the approval |
| CompletedJobEndsRun | Dispatch | DispatchPausedAsDone: PAUSED is taken for the end |
| ResultImmutable | Finalize | FinalizeAgain: an existing result is replaced |
| RunnableRunHasWork | Wake | WakeWaiting: leased jobs are not woken |
| DeadJobFailsRun | AfterRetry | RetrySilently: on_dead is not called |
| OneQualityReport | Checkpointed | CheckpointedSameStep: the step is not advanced |
| AnswersAppliedFirst | AskPositiveClass | AskAndTrain: the checkpoint skips RESOLVE_TASK |
| UncrashedRunEnds | Checkpointed | CheckpointedAsleep: available_at is not set |
| UndisturbedRunEnds | Restart | RestartWithoutRepair: no ensure_execution_jobs |
| RepliesAreRecorded | ReadRecord | ReadRecordAnyBody: the fingerprint is not compared |
| NoLostWakeup (requests) | Record | RecordAndKeepSilent: no notification |
| SlotsBalanced | Cancel | CancelKeepingSlot: leave() not in the finally |
| RequestsEnd | WaitTimesOut | WaitsOn: the wait's deadline is not looked at |
| ImplementsOncePerKey | Begin | BeginTwice: a taken record is taken again |
| InRunOrder | Heads | HeadsBehindBackoff: a delivery in backoff blocks nothing |
| DeliveringIsPosted | Recovered | RecoveredNot: no recovery at the start |
| AttemptsBounded | Hopeless | HopelessOneLate: off by one |
| SignatureVerifiable | Rotated | RotatedAtOnce: the previous secret is dropped |
| DeliveriesSettle | Ready | ReadyPending: RETRYING is not looked for |
| DeliveredInSequence | ResumePoint | ResumePointAtSnapshot: a reconnect starts at the snapshot |
| EndedIsComplete | AtEnd | AtEndOnceTerminal: the position is not compared |
| NoLostWakeup (feed) | StillBehind | StillBehindNever: no second look before the wait |
| ReadersEnd | Advanced | AdvancedIfWanted: events filtered out do not move the position |
| RowsHaveBytes | Intact | IntactIfTagged: the digest of the copy is not compared |
| DeletionIsThorough | Marked | MarkedNot: the version is not marked first |
| InstalledIsWhole | Verified | DigestUnchecked: the digest of the file is not compared |
| BackupIsWhole | NothingChanged | UnchangedUnlooked: no second look at the database |

## 4. Proofs

`ExecutionJobProofs` proves, for every set of runs, steps, lease length, delays, attempt limit and
bounds (the assumptions are the `ASSUME`s of `JobTable` and `ExecutionJob`: the attempt limit and the
lease are positive, run ids and delays are natural numbers):

| Theorem | States |
| --- | --- |
| TableInvariant | `Spec => []IInv` |
| TableTypes | `Spec => []TypeOK` |
| TableOneLease | `Spec => []OneLiveLease` |
| TableOneTicket | `Spec => []OneTicketPasses` |
| TableFencingFinal | `Spec => LostFenceStaysLost` |
| TableDeadExhausted | `Spec => []DeadMeansExhausted` |
| TableClosedFinal | `Spec => ClosedRowsStayClosed` |
| TableImplementsLease | `Spec => ImplementsFencedLease` |

The argument. Rows change only by the operators of `JobTable`; `RowOpsType` and `RowOpsFence` say what
each does to the columns' types and to what the fence reads. None of the properties is inductive
alone: a ticket ahead of its row's generation could come to pass later, and two tickets of one
generation could pass together. `IInv` therefore adds that no ticket is ahead of its row
(`TicketsBehind`), that a generation of a row has one ticket (`OneTicketPerGeneration`) and that the
counters stay in bounds. `RowStep` covers every operation that starts no lease, `ClaimStep` the only
one that does: it is guarded by "no lease is live" and creates a generation above every ticket of the
row. The same lemmas say that a step lets no old ticket pass that did not pass before, which is
`LostFenceStaysLost`, and with `HolderPasses` the step simulation of `FencedLease`. `TableChange` says
which rows may change at all.

`DurableRunProofs` proves, for any flags of the request, any attempt limit and any numbers of control
commands, crashes and exceptions (`AttemptsAssumption`, `FlagsAssumption`):

| Theorem | States |
| --- | --- |
| DurableInvariant | `Spec => []IInv` |
| DurableTypes | `Spec => []TypeOK` |
| TerminalRunsAreSettled | `Spec => []TerminalIsSettled` |
| StagesArePrefix, StagesAreEvidenced | `Spec => []StagesInOrder`, `Spec => []StagesHaveEvidence` |
| OutputsAreNotRepeated | `Spec => []OneOutputPerType` |
| OpenPacketsBlock | `Spec => []OpenPacketBlocks` |
| ModelsAreApproved | `Spec => []OnlyApprovedModels` |
| CompletedJobsLeaveNothing | `Spec => []CompletedJobEndsRun` |
| ResultStands | `Spec => ResultImmutable` |

The argument. A section is a sequence of transactions and a crash keeps any prefix of it, so an
invariant of the states between sections is not enough. `FileOK` is what holds of the file after every
single transaction: one lemma per mutation of `RunStore` shows that it keeps `FileOK`, and the lemma
about a section then holds for each of its prefixes. `ProcessOK` relates the file to what the process
still remembers of it, which is what goes wrong when something is read before a suspension and used
after it: while a handler is busy no packet is open, so none of its writes can find a question behind
its back; a handler past a stage finds that stage published; a run that waits for an approval, or
whose approval is decided, has no handler and no callback left (`RestOK`), so deciding outside the
lock loses nothing; a callback outlives its handler only where the poll loop has ended. Steps of
others are `Calm`: they keep what a busy handler relies on. `Follows` says what a section may change
of a file for good, from which `ResultStands` follows. These theorems need no fairness and hold with
crashes at any point.

`CrashFreeProofs` proves, under the same assumptions, what holds until the process first dies, which
each of the four properties has as its condition `used.crashes = 0`. Being stopped counts as dying:
`Stop` cancels the handler between two of its transactions like a crash does.

| Theorem | States |
| --- | --- |
| CrashFreeInvariant | `Spec => []CrashFree` |
| NoWakeUpIsLost | `Spec => []RunnableRunHasWork` |
| DeadJobsFailTheirRuns | `Spec => []DeadJobFailsRun` |
| ProfileIsReportedOnce | `Spec => []OneQualityReport` |
| AnswersComeFirst | `Spec => []AnswersAppliedFirst` |

The argument. The condition is needed: each of the four fails after a crash, as said under
Properties. It does not exclude the faults that leave the process alive, exceptions of the handlers
and the end of the poll loop among them. `CleanOK`, relative to `IInv`, says that a handler at work
either holds its lease or has lost it to a wake-up (`LeaseOK`), and that a handler that loses its lease
takes the poll loop with it. That is why the canceled run that comes back (section 3) breaks none of
the four: a handler without a lease may reopen a run that ended, but nobody claims the job behind it
any more (`EndOK`). A verdict that would put the job to sleep beside a run that goes on is a
verdict without a lease (`WorkOK`): this is the wake-up that arrives while the verdict is under way.
`StepsOK` makes the steps follow what is in the file: with a report, the job is past PROFILE; with an
open question or an accepted answer it is at RESOLVE_TASK, so training cannot begin beside one.
`AnswerOK` counts: one report, and one answer at a time.

Only six quantities of the file matter to all this (the run, the job, the packets, the result, the
number of quality reports and of unsettled answers), and `Apart(d, e, S)` says that two files agree on
all of them but those in `S`. One lemma per helper of `RunStore` says what a section does to them;
after that each action is a lemma of its own (`...Clean`), reasoned about without looking into a
section again. `DeathsCounted` says that a step either leaves `used.crashes` alone or is the death that
is counted.

`RequestsProofs` proves, for every set of calls, keys and bodies, any numbers of attempts, active
requests and faults (`RequestsAssumption`):

| Theorem | States |
| --- | --- |
| RequestsInvariant | `Spec => []IInv` |
| RequestsTypes, RequestsOneWorker | `Spec => []TypeOK`, `Spec => []OneWorker` |
| RequestsRepliesRecorded | `Spec => []RepliesAreRecorded` |
| RequestsNoLostWakeup | `Spec => []NoLostWakeup` |
| RequestsSlotsBalanced | `Spec => []SlotsBalanced` |
| RequestsImplementOncePerKey | `Spec => ImplementsOncePerKey` |

The argument. The handler that found a key free is the only one at work behind it (`OneWorker`), and
as long as it is, the record is taken by its body (`WorkersHoldTheKey`); so a record leaves "taken"
only through its one worker, with a wake-up, and never leaves an answer. `WorkIsAccounted` ties `done`
to that worker, which is what the refinement needs. Every step is one of four kinds for the records
(`Kinds`): quiet, it starts a worker, it works, it leaves; each part of the invariant is then one
lemma over kinds. The count of slots needs that the set of requests inside is finite, which it is
because the count starts at none and each step moves at most one request, or all out.

`WebhookProofs` proves, for any endpoints, runs, filters, limit on attempts, and numbers of events,
faults, redeliveries and rotations (`WebhookAssumption`):

| Theorem | States |
| --- | --- |
| WebhookInvariant | `Spec => []IInv` |
| WebhookTypes | `Spec => []TypeOK` |
| WebhookInRunOrder | `Spec => []InRunOrder` |
| WebhookDeliveringIsPosted | `Spec => []DeliveringIsPosted` |
| WebhookAttemptsBounded | `Spec => []AttemptsBounded` |
| WebhookSignatureVerifiable | `Spec => []SignatureVerifiable` |

The argument. `IInv` adds that a row that may be sent again has an attempt left, that an exhausted one
was given up (`RowsOK`), and that the POST in flight belongs to a row that says DELIVERING
(`PostIsOpen`). The order is that of deliveries whose stamps sort as their events: such a pair is never
swapped by the sort, whatever the stamps of the events between them, since a delivery is hidden by any
unfinished one of its run that sorts before it. All steps but a dispatch and an event only *keep* rows
(`Keeps`: no attempt added, over stays over, nothing becomes DELIVERING), which preserves the order;
requests and timers leave a row in flight alone (`Still`), which preserves its mark; a dispatch takes
the head of its run's queue, whose predecessors are succeeded or exhausted and hence given up.

`FeedProofs` proves, for any filters, page size, number of stream slots, events in the network, breaks
and control commands (`ControlsAssumption`, `FeedAssumption`):

| Theorem | States |
| --- | --- |
| FeedInvariant | `Spec => []IInv` |
| FeedNoLostWakeup | `Spec => []NoLostWakeup` |
| FeedDeliversInSequence | `Spec => []DeliveredInSequence` |
| FeedEndsComplete | `Spec => []EndedIsComplete` |

The argument. `ListsOf(q, lo, hi, ...)` says that `q` is all of the wanted events after `lo` and up to
`hi`, once and in order. What the reader holds is such a list up to where it is (`HoldsOK`), and while
it reads, what is in the network is such a list from there to where the stream is (`CarriesOK`); a
yield makes the second longer, a take moves its head to the first, a break drops the second and the
next connection starts it empty at the reader. Since the log only grows, and not beyond the end of the
run (`Grows`), a list stays one. A stream that closes by itself has looked at the run after it looked
at the log, so it closes at the log's end (`CarriesOK`), and the run's last event is the log's last
(`RunOK`). A page is a set of rows put in order by rank, which a finite set of numbers always allows:
ranks below the size of the set are an injection into an interval of the same size, hence onto it
(`RankTaken`); a page and the rows before it leave no gap because a page is closed downwards
(`PageIsFirst`).

`BackupProofs` proves, for any contents and artifacts and any numbers of uploads, finalizations,
deletions, downloads, faults, tries and backups (`DatasetsAssumption`: the names of the files and of
nothing differ; `BackupAssumption`):

| Theorem | States |
| --- | --- |
| BackupInvariant | `BackupSpec => []IInv` |
| ServiceTypes | `BackupSpec => []TypeOK` |
| RowsAlwaysHaveBytes | `BackupSpec => []RowsHaveBytes` |
| DeletionRemovesAll | `BackupSpec => []DeletionIsThorough` |
| DownloadsAreWhole | `BackupSpec => []InstalledIsWhole` |
| BackupsAreWhole | `BackupSpec => []BackupIsWhole` |

`RowsAlwaysHaveBytes` is about datasets that are not deleted, and it and `DeletionRemovesAll` are about
every state but those after a restoration that replayed the log of a killed service (`Mixed`), of which
only the types are known.

The argument. `RowsOK` says of rows and files what must hold of the service and of a backup alike.
`HandlersOK` says what the handlers in flight may still do: once a deletion is past its uploads, no
upload streams, and once it is past the datasets (or COMPLETED), nothing will write the part or the
object again (`Quiet`): the only finalize that could be left has lost the file it was about to rename.
`Good` is what every action of the service is shown to satisfy: it keeps the invariant and undoes
nothing that was already closed (`Stable`: an artifact that is being deleted is never committed again,
a dataset stays deleted, a READY version changes only by its deletion). `Stable` is why a backup is
whole: what was committed in the first snapshot and still is in the second was committed, with the same
bytes, whenever its file was copied (`CopyOK`). A restoration puts the service on rows and files that
satisfy `RowsOK` without any handler, on its old ones, or on a mixture, where the proof stops.

Left to TLC: liveness under fairness (`UncrashedRunEnds`, `UndisturbedRunEnds`, `DeliveriesSettle`,
`RequestsEnd`, `ReadersEnd`), which is out of this prover's reach. Every other property of a passing
run is a theorem, the two refinements included.

## 5. Not modelled, and what could follow

1. How far the crash-free properties survive a restart: which of them hold after a crash
   outside of the windows named in section 3 is open, and would take an invariant per window.
2. Several deletions at a time, and what the service does after a mixed restoration.
3. The limits that count over many runs (active runs of a tenant, storage, token buckets) and the
   windows of the rate limiters, of which the model keeps only the refusal.
4. Backup's retention, which sorts by name (`backup.py:188`), and crashes inside a restore, which
   nothing rolls back; expiry of uploads and streams' cursors; re-authorization of long streams.
5. The pure functions (retry delay, byte ranges, answer validation) beyond what the actions use.

Not modelled on purpose: numerics and charts (`ml_engine.py`, `visualization.py`), token validation and
configuration checks (stateless predicates over strings and cryptography), request parsing and
generated contracts, release packaging and deployment scripts.
